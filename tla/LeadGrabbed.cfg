SPECIFICATION Spec
CONSTANTS
  Loops <- MCLoops
  Agents = {a1, a2}
  Leads <- MCLeads
  Endpoints = 2
  MaxBlast = 2
  MaxLists = 2
  MaxLosses = 1
  None = None
INVARIANTS
 GrabbedByOne
