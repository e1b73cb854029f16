\* Two viewers after each other or on two starts, a queue of depth 0 that is
\* clamped to one, packets of two chunks and room for one, poll() that may fail.
SPECIFICATION FairSpec
CONSTANTS
    Configured = 0
    FrameSize = 2
    SocketRoom = 1
    MaxFrames = 2
    MaxConns = 2
    MaxStarts = 2
    PollMayFail = TRUE
    Paired = TRUE
CHECK_DEADLOCK FALSE
INVARIANTS
    FramesConserved
    MirrorsAgree
    AtMostOneStale
    StopIsFinal
PROPERTIES
    WholePackets
    QueueServed
    
