SPECIFICATION MCSpec
CONSTANTS
  a1 = a1
  a2 = a2
  Calls = {c1}
  Agents = {a1, a2}
  Leads = {l1}
  CompanyOf <- MCCompanyOf
  VarsExposed = TRUE
  None = None
  Untagged = Untagged
INVARIANT
  AnsweredLeadIsAnswered
\* Every call may have ended and every agent be free: nothing is left to do.
CHECK_DEADLOCK FALSE
