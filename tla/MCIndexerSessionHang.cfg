SPECIFICATION FairSpec
CONSTANTS
    Requests = {r1, r2}
    Timed = {r1}
    NoRequest = NoRequest
    MaxConcurrent = 2
    LoginVerdicts = {"none", "rejected"}
    MaxExpiries = 1
PROPERTY FollowerReleased
CHECK_DEADLOCK FALSE
