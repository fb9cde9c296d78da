SPECIFICATION FairSpec
CONSTANTS
    Readers = {r1, r2}
    Pieces = {p1}
    Tasks = {t1, t2, t3, t4}
    NoTask = NoTask
    NoPiece = NoPiece
    MaxAdds = 2
INVARIANTS
    OneFetchPerPiece
    NoLostWakeup
    ReadsBounded
PROPERTIES
    ReaderAnswered
    ImplementsSingleFlight
CHECK_DEADLOCK FALSE
