SPECIFICATION Spec
CONSTANTS
    b1 = b1
    r1 = r1
    x1 = x1
    w1 = w1
    w2 = w2
    Messages = {b1, r1}
    Requests = {r1}
    Malformed = {}
    Workers = {w1, w2}
    MaxRetries = 1
    MaxFaults = 2
    GuardEnabled = TRUE
    RedisMayFail = TRUE
    ClaimMayLapse = FALSE
    NoCopy = NoCopy
SYMMETRY WorkerSymmetry
INVARIANTS
    AtMostOnce
CHECK_DEADLOCK FALSE
