SPECIFICATION FairSpec
CONSTANTS
    Requests = {r1, r2, r3}
    Timed = {}
    NoRequest = NoRequest
    MaxConcurrent = 1
    LoginVerdicts = {"none", "rejected"}
    MaxExpiries = 1
INVARIANT RetryCarriesCookies
CHECK_DEADLOCK FALSE
