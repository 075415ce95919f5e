SPECIFICATION Spec
CONSTANTS
    Operators = {c1, c2}
    Batches = {1, 2}
    Files <- MCFiles
    Mappings = {31, 32}
    WithCurrency = {32}
    Keys = {k1, k2}
    Sources = {1, 2}
    Targets = {11, 12}
    Prospects = {21}
    MaxRequests = 2
SYMMETRY Symmetric
INVARIANTS AllOrNothing ImportsDoNotCollide NoCircularWait
PROPERTIES AnswersAreTrue OffboardingEndsImports
CHECK_DEADLOCK FALSE
