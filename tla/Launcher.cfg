\* Every flag of the launcher, with and without the HAT, a stale node and its
\* launcher, two signals at any time.
SPECIFICATION FairSpec
CONSTANTS
    UINT8_MAX = 3
    UINT16_MAX = 7
    UINT32_MAX = 31
    ULONG_MAX = 31
    Integers10 <- MCIntegers10
    Decimals <- MCDecimals
    ExtraArgs <- MCExtraArgs
    TxRoom = 1
    MAX_DISTANCE_MM = 2000
    Distances <- MCDistances
    MaxSignals = 2
INVARIANTS
    ParsedAsWritten
    StoppedInOrder
PROPERTIES
    EndsTogether
    ObstacleRecurs
