SPECIFICATION Spec
CONSTANTS
  Opportunities = {o1}
  Titles <- MCTitles
  NoTitle <- MCNoTitle
  TitleKey <- MCTitleKey
  ProposedTitle <- MCProposedTitle
  StageTitle <- MCStageTitle
  Terms <- MCTerms
  ProposedTerms <- MCProposedTerms
  StaleDays = 0
  MaxActions = 2
  MaxTasks = 2
  MaxActivities = 2
  LastDay = 1
  Facts <- AnyPlan
  CrmInputs = {"value", "contact", "postTask", "patchTitle", "day", "caseLink"}
  TaskRequests <- FollowUpTask
  Faults = {"crash", "throw", "refreshThrow"}
INVARIANTS EffectsOnceAndApproved EffectsOnApprovedEvidence EvidenceIsTrue
PROPERTIES EffectsKeepAction
CHECK_DEADLOCK FALSE
