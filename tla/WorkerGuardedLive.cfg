SPECIFICATION FairSpec
CONSTANTS
    b1 = b1
    r1 = r1
    x1 = x1
    w1 = w1
    w2 = w2
    Messages = {b1, r1}
    Requests = {r1}
    Malformed = {}
    Workers = {w1}
    MaxRetries = 1
    MaxFaults = 1
    GuardEnabled = TRUE
    RedisMayFail = TRUE
    ClaimMayLapse = TRUE
    NoCopy = NoCopy
PROPERTIES
    EventuallyDrained
CHECK_DEADLOCK FALSE
