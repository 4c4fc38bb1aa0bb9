SPECIFICATION Spec
CONSTANTS
  j1 = j1
  j2 = j2
  Users = {u1}
  Jobs = {j1, j2}
  Sessionless = {j2}
  MessageIds = {m1, m2}
  Reports = {r1, r2}
  DlrWorkers = 2
  MaxBalance = 2
  MaxCredits = 2
  MaxCrashes = 1
  None = None
SYMMETRY Symmetry
INVARIANTS
  TypeOK
  BilledForReports
\* Jobs and reports run out.
CHECK_DEADLOCK FALSE
