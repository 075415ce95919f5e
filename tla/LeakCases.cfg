SPECIFICATION FairSpec
CONSTANTS
  k1 = k1
  k2 = k2
  b1 = b1
  b2 = b2
  other = other
  Nothing = Nothing
  Bases = {b1, b2, other}
  TaskBases = {b1, b2}
  Opportunities = {1}
  Imported = {1}
  Keys = {k1, k2}
  FactSet <- ThreeFacts
  Clients = {1}
  ClockSteps = {"later", "same", "earlier"}
  Crashes = TRUE
  MaxCases = 2
  MaxActions = 2
INVARIANTS OneActiveAction 
PROPERTIES HandoffRepaired NoSilentReopening
CHECK_DEADLOCK FALSE
