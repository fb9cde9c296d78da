SPECIFICATION Spec
CONSTANTS
    Streams = {s1, s2}
    LastPiece = 2
    Prefetch = 1
    StreamingConnections = 50
    InitLimit = 20
    InitDefault = 1
    Limits = {30}
    Defaults = {0}
    MaxChanges = 1
SYMMETRY StreamSymmetry
INVARIANTS
    PrioritySettled
    DeadlinesSettled
    ConnectionsReleased
CHECK_DEADLOCK FALSE
