SPECIFICATION ServicesSpec
CONSTANTS
    AccessThreads = {a1, a2}
    GatewayThreads = {g1}
    Sessions = {s1, s2, s3}
    Tokens = {k1}
    NoSession = noSession
    NoToken = noToken
    MaxRequests = 4
    GroupThreads = {h1, h2}
    Groups = {f1, f2}
    People = {p1, p2}
    Invitations = {i1, i2}
    NoOne = noOne
    NoGroup = noGroup
    MaxGroupRequests = 4
    Detectors = {d1, d2}
    Merchants = {m1}
    Expenses = {e1, e2, e3}
    Dues = {1}
    FirstDue = 1
    MaxExpenseCalls = 4
    MaxExpenseFaults = 1
    Planners = {l1, l2}
    Scanners = {c1, c2}
    Notifiers = {n1}
    ReminderRows = {r1, r2}
    Limits = {x1}
    Manual = manual
    NoReminder = noReminder
    FirebaseEnabled = TRUE
    FirebaseWorks = TRUE
    Requests = {q1}
    NoRequest = noRequest
    Transactions = {t1, t2, t3}
    Rank <- MCRank
    PageSize = 1
    Asks <- MCAsks
    MaxWrites = 4
    MaxWorkerFaults = 2
    NChunks = 2
    NChats = 2
    MaxStarts = 3
    MaxBucketStarts = 1
    MaxStartFaults = 2
    LedgerThreads = {w1, w2}
    Owners = {o1, o2}
    Accounts = {b1}
    Items = {y1, y2}
    None = none
    MaxLedgerRequests = 3
    SheetNames <- MCSheetNames
    Descriptions = {"shop"}
    FirstExports <- MCFirstExports
    NewRows <- MCNewRows
    MaxRows = 3
    MaxExports = 2
    c1 = c1
    Chats = {c1}
    Messages = {q2, q3}
    ChatOf <- AllInOneChat
    Prompts = {q2, q3}
    Unparsable = {q3}
    Handlers = {v1}
    Flushers = {}
    Consumers = {z1, z2}
    MaxAttempts = 1
    DbMayFail = TRUE
    MaxFaults = 2
    NoMessage = noMessage
    Wealth <- MCWealth
    Goals <- MCGoals
    Debts <- MCDebts
    MaxDataChanges = 1
INVARIANTS
    ServicesTypeOK
    SessionsAccounted
    OldSessionsRevoked
    CachedTokensIndexed
    AcceptedIsMember
    DetectedOncePerMerchant
    QueuedIsAccounted
    DeliveredOncePerCharge
    RequestIsAccounted
    TransactionsAreWhole
    CompletedBootstrapIsWhole
    FileIsStored
    ReferencesOwned
    CreditCardsHaveLimits
    KeysFollowRows
    ScoreOfWhatIsKnown
    AnswersMatchInbox
    NoOrphanAnswer
PROPERTIES
    AdmittedByOwner
CHECK_DEADLOCK FALSE
