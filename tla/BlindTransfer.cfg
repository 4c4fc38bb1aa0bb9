SPECIFICATION MCSpec
CONSTANTS
  a1 = a1
  c1 = c1
  l1 = l1
  d1 = d1
  Calls = {c1}
  Agents = {a1}
  Leads = {l1}
  CompanyOf <- MCCompanyOf
  VarsExposed = TRUE
  None = None
  Untagged = Untagged
  Digits = {d1, d2}
  Hash = Hash
  DefaultExt = DefaultExt
  MaxKeys = 4
INVARIANTS
  TransferTypeOK
  PendingHasLiveLeg
  SentFreesAgent
  ExtensionAsKeyed
PROPERTIES
  Lifecycle
\* Every call may have ended and every agent be free: nothing is left to do.
CHECK_DEADLOCK FALSE
