SPECIFICATION Spec
CONSTANTS
  Opportunities = {o1}
  Titles <- MCTitles
  NoTitle <- MCNoTitle
  TitleKey <- MCTitleKey
  ProposedTitle <- MCProposedTitle
  StageTitle <- MCStageTitle
  Terms <- MCTerms
  ProposedTerms <- MCProposedTerms
  StaleDays = 0
  MaxActions = 1
  MaxTasks = 1
  MaxActivities = 2
  LastDay = 0
  Facts <- NoPlan
  CrmInputs = {"value"}
  TaskRequests <- NoTasks
  Faults = {"refreshThrow"}
PROPERTIES SettledIsFinal
CHECK_DEADLOCK FALSE
