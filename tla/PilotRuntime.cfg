\* The process startPilotRuntime builds: signal handlers are registered after
\* the listener is up, so nothing closes the runtime before.
SPECIFICATION Spec
CONSTANTS
    Requests = {r1, r2}
    MaxPoolErrors = 2
    Embedded = FALSE
    NoProbe = NoProbe
INVARIANTS ReadyIsFresh PoolEndsLast
PROPERTIES LossNoticed Recovers CloseCompletes
