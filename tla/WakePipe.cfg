\* The lidar thread, the owner and one more signal; write() may fail at any call,
\* and the pipe is closed and opened again.
SPECIFICATION FairSpec
CONSTANTS
    Signallers = {s1, s2, s3}
    Generations = 2
INVARIANTS
    AtMostOneByte
    PendingIsBacked
PROPERTIES
    EventSpec
