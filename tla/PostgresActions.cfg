SPECIFICATION Spec
CONSTANTS
  c1 = c1
  c2 = c2
  Clients = {c1, c2}
  Opportunities = {o1}
  Facts = {f1, f2}
  Stages = {"WON"}
  Roles <- MCRoles
  MaxActions = 2
  MaxTasks = 2
  MaxActivities = 2
  MaxAttempts = 2
  LastDay = 1
  Faults = {"effect", "lostCommit", "error"}
INVARIANTS OneActivePerIdentity EffectsIffExecuted
PROPERTIES EffectsOnCurrentRecords AnswersAreTrue ImplementsAtomic
CHECK_DEADLOCK FALSE
VIEW MCView
