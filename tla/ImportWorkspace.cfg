SPECIFICATION Spec
CONSTANTS
    Literal <- MCLiteral
    Targets <- MCTargets
    Aliases <- MCAliases
    Normal <- MCNormal
    RowSampleLimit = 2
    FieldSampleLimit = 1
    MaxColumns = 3
    Uploads <- MCUploads
    Edits <- MCEdits
    Slots = {1, 2}
    Again = {"clean"}
    MaxBatches = 2
    Touched = {1}
    MaxKeys = 2
    MaxVisits = 1
INVARIANTS OneImportAtATime SidesAgree
PROPERTIES RetryOnlyAfterMissing ConfirmedIsReviewed
CHECK_DEADLOCK FALSE
