SPECIFICATION FairSpec
CONSTANTS
  Opportunities = {o1}
  Titles <- MCTitles
  NoTitle <- MCNoTitle
  TitleKey <- MCTitleKey
  ProposedTitle <- MCProposedTitle
  StageTitle <- MCStageTitle
  Terms <- MCTerms
  ProposedTerms <- MCProposedTerms
  StaleDays = 0
  MaxActions = 2
  MaxTasks = 2
  MaxActivities = 3
  LastDay = 0
  Facts <- NoPlan
  CrmInputs = {"value", "task"}
  TaskRequests <- SameTask
  Faults = {"crash", "throw"}
PROPERTIES RetriesSettle
CHECK_DEADLOCK FALSE
