SPECIFICATION FairSpec
CONSTANTS
    Requests = {r1, r2}
    Timed = {}
    NoRequest = NoRequest
    MaxConcurrent = 2
    LoginVerdicts = {"session"}
    MaxExpiries = 1
INVARIANT LoginNeverFollows
CHECK_DEADLOCK FALSE
