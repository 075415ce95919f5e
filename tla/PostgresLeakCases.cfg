SPECIFICATION Spec
CONSTANTS
    c1 = c1  c2 = c2
    Clients = {c1, c2}
    StaleAfter = 1  FreshFor = 2  Limit = 2
    Imported = {1}
    Settings <- MCSettings
    Amounts = {0}
    MaxNow = 3  MaxCases = 3  MaxAudit = 3  MaxActions = 2
INVARIANTS SeriesIsALine
PROPERTIES AnswersAreReadable ScanIsWhole HandoffIsCurrent
VIEW MCView
