SPECIFICATION Spec
CONSTANTS
  Opportunities = {o1}
  Titles <- MCTitles
  NoTitle <- MCNoTitle
  TitleKey <- MCTitleKey
  ProposedTitle <- MCProposedTitle
  StageTitle <- MCStageTitle
  Terms <- MCTerms
  ProposedTerms <- MCProposedTerms
  StaleDays = 0
  MaxActions = 2
  MaxTasks = 2
  MaxActivities = 2
  LastDay = 0
  Facts <- NoPlan
  CrmInputs = {"stage", "task", "patchStatus"}
  TaskRequests <- RecasedTask
  Faults = {"crash", "throw"}
INVARIANTS ExecutedHasEffects
PROPERTIES ImplementsContract
CHECK_DEADLOCK FALSE
