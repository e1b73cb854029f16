\* Calls one at a time, each start() paired with a stop(), with and without
\* reconnection, over any behaviour of the sensor.
SPECIFICATION FairSpec
CONSTANTS
    Callers = {c1, c2}
    MaxFailures = 5
    Reconnects = {TRUE, FALSE}
    Serial = TRUE
    Paired = TRUE
    SpawnMayFail = TRUE
    SeqMod = 2
INVARIANTS
    StopIsFinal
    NoLeak
    NeverTerminates
PROPERTIES
    LinkKept
    ConsumerSpec
    StopCompletes
    Recovers
