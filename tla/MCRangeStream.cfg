SPECIFICATION Spec
CONSTANTS
    MaxPieceSize = 4
    MaxTorrentSize = 10
    Files <- MCFiles
    Headers <- MCHeaders
    ChunkSize = 2
INVARIANTS
    RefusedRightly
    SentInOrder
    SentCompletely
    PieceOfFile
CHECK_DEADLOCK FALSE
