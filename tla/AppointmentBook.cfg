SPECIFICATION Spec
CONSTANTS
  r1 = r1
  r2 = r2
  Clients = {r1, r2}
  CompanyOf <- MCCompanyOf
  Statuses = {s1, s2}
  Appointments = {a1}
  Leads = {l1}
  Members = {m1}
  Services = {v1}
  None = None
INVARIANTS
  TypeOK
  OneDefaultPerClient
  NoOrphan
  ChosenOrDefault
\* Every id may be used up: nothing is left to do.
CHECK_DEADLOCK FALSE
