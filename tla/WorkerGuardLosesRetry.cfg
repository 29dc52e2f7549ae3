SPECIFICATION Spec
CONSTANTS
    b1 = b1
    r1 = r1
    x1 = x1
    w1 = w1
    w2 = w2
    Messages = {b1}
    Requests = {}
    Malformed = {}
    Workers = {w1}
    MaxRetries = 1
    MaxFaults = 0
    GuardEnabled = TRUE
    RedisMayFail = FALSE
    ClaimMayLapse = FALSE
    NoCopy = NoCopy
INVARIANTS
    NoSilentLoss
CHECK_DEADLOCK FALSE
