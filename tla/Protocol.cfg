\* Two packets of any kind, any chunks, any place to begin, each reader.
SPECIFICATION FairSpec
CONSTANTS
    Readers = {"node", "viewer", "monitor"}
    Layouts <- MCLayouts
    Newer <- MCNewer
    Scans <- MCScans
    Packets = 2
    MaxPoints = 6
    MaxHeader = 6
    MaxStride = 2
INVARIANTS
    OnlyWhatWasSent
    NothingLost
    BufferBounded
PROPERTIES
    DrainEnds
