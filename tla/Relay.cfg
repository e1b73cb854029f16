\* Two connections over any number of sessions with the node; sockets that
\* hold less than a chunk.
SPECIFICATION RelayFairSpec
CONSTANTS
    Viewers = {v1, v2}
    Pieces = 4
    ChunkSize = 2
    SocketRoom = 1
INVARIANTS
    StreamIntact
PROPERTY Forwarded
