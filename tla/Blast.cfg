SPECIFICATION FairSpec
CONSTANTS
  Loops <- MCLoops
  Agents = {a1}
  Leads <- MCLeads
  Endpoints = 1
  MaxBlast = 2
  MaxLists = 2
  MaxLosses = 1
  None = None
INVARIANTS
  TypeOK
  LoopNeverRedials
  AgentsCountedOnce
  RunningHasLoop
PROPERTIES
  HandedOutInOrder
  StoppedDrains
