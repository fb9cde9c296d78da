SPECIFICATION FairSpec
CONSTANTS
    Streams = {s1}
    LastPiece = 2
    Prefetch = 1
    StreamingConnections = 50
    InitLimit = 20
    InitDefault = 1
    Limits = {30}
    Defaults = {0}
    MaxChanges = 1
PROPERTIES
    PieceMadeUrgent
    DefaultRestored
CHECK_DEADLOCK FALSE
