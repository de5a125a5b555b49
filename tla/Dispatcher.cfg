SPECIFICATION FairSpec
CONSTANTS
    Slots = {s1, s2, s3}
    Readers = {s3}
    Watched = s1
    Buffers = {b1, b2}
    Nothing = Nothing
    ChunkSize = 2
    SendCap = 1
    ReturnCap = 1
INVARIANTS
    OneOwner
    ChunkStaysTogether
PROPERTIES
    EveryWorkerIsServed
    ShutdownEnds
