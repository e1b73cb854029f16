\* Every setting, start-up failure and self-exit, signals at any time, an
\* allocation that may fail, standard output and a bus that may stall.
SPECIFICATION FairSpec
CONSTANTS
    Frames <- MCFrames
    TxRoom = 2
INVARIANTS
    ConsumersOutliveProducer
    ReleasedAtEnd
    CommandStands
PROPERTIES
    
    ShutdownCompletes
    NeverIdlesBlind
