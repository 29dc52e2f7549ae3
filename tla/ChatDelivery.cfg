SPECIFICATION FairSpec
CONSTANTS
    c1 = c1
    p1 = p1
    p2 = p2
    n1 = n1
    h1 = h1
    f1 = f1
    f2 = f2
    k1 = k1
    k2 = k2
    Chats = {c1}
    Messages = {p1, n1}
    ChatOf <- AllInOneChat
    Prompts = {p1}
    Unparsable = {}
    Handlers = {h1}
    Flushers = {f1, f2}
    Consumers = {k1, k2}
    MaxAttempts = 2
    DbMayFail = FALSE
    MaxFaults = 2
    NoMessage = NoMessage
INVARIANTS
    ResultNotLost
    TypeOK
    SendsAccounted
PROPERTIES
    NeverResentOncePublished
    EventuallyAnswered
CHECK_DEADLOCK FALSE
