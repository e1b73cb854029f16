\* The notification of stop() and the back-off.
SPECIFICATION Spec
CONSTANTS
    Callers = {c1}
    MaxFailures = 5
    Reconnects = {TRUE}
    Serial = TRUE
    Paired = TRUE
    SpawnMayFail = FALSE
    SeqMod = 2
INVARIANTS
    ShutdownNotDelayed
