SPECIFICATION FairSpec
CONSTANTS
  a1 = a1
  a2 = a2
  Calls = {c1}
  Agents = {a1, a2}
  Leads = {l1}
  CompanyOf <- MCCompanyOf
  VarsExposed = FALSE
  None = None
  Untagged = Untagged
PROPERTIES
  AnsweredIsResolved
  EndedLeadIsClosed
  PairEndsTogether
\* Every call may have ended and every agent be free: nothing is left to do.
CHECK_DEADLOCK FALSE
