SPECIFICATION FairSpec
CONSTANTS
    b1 = b1
    r1 = r1
    x1 = x1
    w1 = w1
    w2 = w2
    Messages = {b1, x1}
    Requests = {}
    Malformed = {x1}
    Workers = {w1, w2}
    MaxRetries = 2
    MaxFaults = 2
    GuardEnabled = FALSE
    RedisMayFail = FALSE
    ClaimMayLapse = FALSE
    NoCopy = NoCopy
INVARIANTS
    TypeOK
    DeadOnlyWhenExhausted
    NoSilentLoss
PROPERTIES
    ImplementsBackgroundTask
    EventuallyRecorded
CHECK_DEADLOCK FALSE
