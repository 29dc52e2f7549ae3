\* Two members and a thread of each kind.
SPECIFICATION Spec
CONSTANTS
    Users = {u1, u2}
    Clients = {u1}
    Writers = {w1}
    BalanceReaders = {b1}
    ProfileReaders = {p1}
    BudgetReaders = {g1}
    Nobody = nobody
    Mixed = mixed
    MaxChanges = 2
    MaxRequests = 2
    MaxFaults = 1
INVARIANTS
    BalanceMissesOnlyOverlaps
    BudgetAsFreshAsItsKey
CHECK_DEADLOCK FALSE
