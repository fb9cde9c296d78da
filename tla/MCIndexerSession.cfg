SPECIFICATION FairSpec
CONSTANTS
    Requests = {r1, r2, r3}
    Timed = {r1, r2}
    NoRequest = NoRequest
    MaxConcurrent = 1
    LoginVerdicts = {"none", "rejected", "session"}
    MaxExpiries = 1
INVARIANTS
    PermitsConserved
    SingleLogin
    FutureSettled
    NoDeadlock
PROPERTIES
    RequestEnds
CHECK_DEADLOCK FALSE
