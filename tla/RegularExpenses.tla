--------------------------- MODULE RegularExpenses ---------------------------
(***************************************************************************)
(* The regular expenses of one user in analytics_service: detection, with  *)
(* its cooldown and lock in Redis, and what the user creates, updates and  *)
(* deletes.  Every merchant has recurring transactions, so that            *)
(* finance_service names it a candidate; clients leave source_type to the  *)
(* service.  The bump of the user's data version after a commit is         *)
(* UserData's BumpVersion.                                                 *)
(***************************************************************************)
EXTENDS Naturals, FiniteSets

CONSTANTS
    Detectors,        \* threads that run analytics.regular_expenses.detect
    Merchants,
    Expenses,         \* rows of regular_expenses
    Dues,             \* values of next_expected_at
    FirstDue,         \* the one detection gives
    MaxExpenseCalls,  \* bound: requests
    MaxExpenseFaults  \* bound: failures, and keys that expire while in use

ASSUME ExpenseAssumption ==
    /\ FirstDue \in Dues
    /\ IsFiniteSet(Expenses) /\ IsFiniteSet(Merchants)
    /\ {MaxExpenseCalls, MaxExpenseFaults} \subseteq Nat

VARIABLES
    expense,        \* the rows committed
    detector,       \* what each detection is at
    cooling,        \* last_detect_at is within the cooldown
    lock,           \* detect:lock exists
    exclusive,      \* nothing has kept the lock from its purpose so far
    expenseCalls,   \* requests so far
    expenseFaults   \* failures so far

expenseVars == <<expense, detector, cooling, lock, exclusive, expenseCalls, expenseFaults>>

Rows == [merchant : Merchants, status : {"active", "paused", "deleted"},
         source : {"detected", "manual", "user_adjusted"}, due : Dues]
Resting == [at |-> "resting", force |-> FALSE, todo |-> {}, found |-> {}]

ExpenseInit ==
    /\ expense = [e \in {} |-> 0]
    /\ detector = [d \in Detectors |-> Resting]
    /\ cooling = FALSE /\ lock = FALSE /\ exclusive = TRUE
    /\ expenseCalls = 0 /\ expenseFaults = 0

Unused == Expenses \ DOMAIN expense
IsActive(e) == expense[e].status = "active"
Detecting == {d \in Detectors : detector[d].at \in {"candidates", "checking"}}
OneMore == expenseCalls < MaxExpenseCalls /\ expenseCalls' = expenseCalls + 1
ExpenseFault == expenseFaults < MaxExpenseFaults /\ expenseFaults' = expenseFaults + 1
Becomes(d, x) == detector' = [detector EXCEPT ![d] = x]
Moves(d, p) == Becomes(d, [detector[d] EXCEPT !.at = p])

-----------------------------------------------------------------------------
(* analytics.regular_expenses.detect *)

\* Without force, the cooldown and then the lock are asked for.
Detect(d) ==
    /\ detector[d].at = "resting"
    /\ OneMore
    /\ ~cooling
    /\ Moves(d, "locking")
    /\ UNCHANGED <<expense, cooling, lock, exclusive, expenseFaults>>

\* With force, neither is.
ForceDetect(d) ==
    /\ detector[d].at = "resting"
    /\ OneMore
    /\ Becomes(d, [Resting EXCEPT !.at = "candidates", !.force = TRUE])
    /\ exclusive' = FALSE
    /\ UNCHANGED <<expense, cooling, lock, expenseFaults>>

AcquireDetectLock(d) ==
    /\ detector[d].at = "locking"
    /\ ~lock
    /\ lock' = TRUE
    /\ Moves(d, "candidates")
    /\ UNCHANGED <<expense, cooling, exclusive, expenseCalls, expenseFaults>>

\* Redis raises: acquire_lock answers as if the lock were taken.
AcquireFails(d) ==
    /\ detector[d].at = "locking"
    /\ ExpenseFault
    /\ exclusive' = FALSE
    /\ Moves(d, "candidates")
    /\ UNCHANGED <<expense, cooling, lock, expenseCalls>>

\* Mutant: the answer "locked" is given inside the try, whose finally releases.
LockedOutReleasing(d) ==
    /\ detector[d].at = "locking"
    /\ lock
    /\ lock' = FALSE
    /\ Becomes(d, Resting)
    /\ UNCHANGED <<expense, cooling, exclusive, expenseCalls, expenseFaults>>

LockedOut(d) ==
    /\ detector[d].at = "locking"
    /\ lock
    /\ Becomes(d, Resting)
    /\ UNCHANGED <<expense, cooling, lock, exclusive, expenseCalls, expenseFaults>>

\* finance.expense_pattern_candidates answers.
ReadCandidates(d) ==
    /\ detector[d].at = "candidates"
    /\ Becomes(d, [detector[d] EXCEPT !.at = "checking", !.todo = Merchants])
    /\ UNCHANGED <<expense, cooling, lock, exclusive, expenseCalls, expenseFaults>>

\* A candidate without an active expense is inserted.
CheckCandidate(d, m) ==
    /\ detector[d].at = "checking"
    /\ m \in detector[d].todo
    /\ Becomes(d, [detector[d] EXCEPT !.todo = @ \ {m},
          !.found = IF \E e \in DOMAIN expense : expense[e].merchant = m /\ IsActive(e)
                    THEN @ ELSE @ \union {m}])
    /\ UNCHANGED <<expense, cooling, lock, exclusive, expenseCalls, expenseFaults>>

Detected(m) == [merchant |-> m, status |-> "active", source |-> "detected", due |-> FirstDue]

\* One commit for all of them, ids being the database's.
CommitDetected(d, new) ==
    /\ detector[d].at = "checking" /\ detector[d].todo = {}
    /\ Cardinality(new) = Cardinality(detector[d].found)
    /\ \E id \in [detector[d].found -> new] :
        /\ \A e \in new : \E m \in detector[d].found : id[m] = e
        /\ expense' = [e \in DOMAIN expense \union new |->
              IF e \in new THEN Detected(CHOOSE m \in detector[d].found : id[m] = e)
              ELSE expense[e]]
    /\ Moves(d, "marking")
    /\ UNCHANGED <<cooling, lock, exclusive, expenseCalls, expenseFaults>>

\* mark_detected; Redis may raise, which it logs.
MarkDetected(d) ==
    /\ detector[d].at = "marking"
    /\ \/ cooling' = TRUE /\ UNCHANGED expenseFaults
       \/ UNCHANGED cooling /\ ExpenseFault
    /\ Moves(d, "releasing")
    /\ UNCHANGED <<expense, lock, exclusive, expenseCalls>>

\* finance_service or the database fails: nothing is committed.
DetectFails(d) ==
    /\ d \in Detecting
    /\ ExpenseFault
    /\ Moves(d, "releasing")
    /\ UNCHANGED <<expense, cooling, lock, exclusive, expenseCalls>>

\* The finally: whoever holds the lock now, it is released.
ReleaseDetectLock(d) ==
    /\ detector[d].at = "releasing"
    /\ lock' = IF detector[d].force THEN lock ELSE FALSE
    /\ Becomes(d, Resting)
    /\ UNCHANGED <<expense, cooling, exclusive, expenseCalls, expenseFaults>>

\* The process dies, or Redis raises on the release: the lock stays.
DetectDies(d) ==
    /\ detector[d].at \notin {"resting", "locking"}
    /\ ExpenseFault
    /\ Becomes(d, Resting)
    /\ UNCHANGED <<expense, cooling, lock, exclusive, expenseCalls>>

\* The lock lives REDIS_DETECT_LOCK_TTL, however long its holder takes.
DetectLockLapses ==
    /\ lock
    /\ lock' = FALSE
    /\ IF \A d \in Detectors : detector[d].at \in {"resting", "locking"}
       THEN UNCHANGED <<exclusive, expenseFaults>>
       ELSE exclusive' = FALSE /\ ExpenseFault
    /\ UNCHANGED <<expense, detector, cooling, expenseCalls>>

CooldownLapses ==
    /\ cooling
    /\ cooling' = FALSE
    /\ UNCHANGED <<expense, detector, lock, exclusive, expenseCalls, expenseFaults>>

-----------------------------------------------------------------------------
(* analytics.regular_expenses.create, update, delete *)

UserStep == OneMore /\ UNCHANGED <<detector, cooling, lock, exclusive, expenseFaults>>

CreateExpense(e, m) ==
    /\ UserStep
    /\ e \in Unused
    /\ expense' = [x \in DOMAIN expense \union {e} |->
          IF x = e THEN [Detected(m) EXCEPT !.source = "manual"] ELSE expense[x]]

\* A detected expense that is changed becomes the user's.
Adjusted(source) == IF source = "detected" THEN "user_adjusted" ELSE source

UpdateExpense(e, m, status, due) ==
    /\ UserStep
    /\ e \in DOMAIN expense
    /\ expense' = [expense EXCEPT ![e].merchant = m, ![e].status = status, ![e].due = due,
                                  ![e].source = Adjusted(@)]

DeleteExpense(e) ==
    /\ UserStep
    /\ e \in DOMAIN expense
    /\ expense' = [expense EXCEPT ![e].status = "deleted", ![e].source = Adjusted(@)]

-----------------------------------------------------------------------------

DetectStep(d) ==
    \/ Detect(d) \/ ForceDetect(d)
    \/ AcquireDetectLock(d) \/ AcquireFails(d) \/ LockedOut(d)
    \/ ReadCandidates(d) \/ (\E m \in Merchants : CheckCandidate(d, m))
    \/ \E new \in SUBSET Unused : CommitDetected(d, new)
    \/ MarkDetected(d) \/ DetectFails(d) \/ ReleaseDetectLock(d) \/ DetectDies(d)

ChangeExpense ==
    \E e \in Expenses :
        \/ \E m \in Merchants : CreateExpense(e, m)
        \/ \E m \in Merchants, status \in {"active", "paused"}, due \in Dues :
              UpdateExpense(e, m, status, due)
        \/ DeleteExpense(e)

ExpenseNext ==
    \/ \E d \in Detectors : DetectStep(d)
    \/ DetectLockLapses \/ CooldownLapses
    \/ ChangeExpense

ExpenseSpec == ExpenseInit /\ [][ExpenseNext]_expenseVars

-----------------------------------------------------------------------------
(* Properties *)

\* Every variable has its type.
ExpenseTypeOK ==
    /\ DOMAIN expense \subseteq Expenses
    /\ \A e \in DOMAIN expense : expense[e] \in Rows
    /\ \A d \in Detectors :
        /\ detector[d].at \in {"resting", "locking", "candidates", "checking", "marking", "releasing"}
        /\ detector[d].found \union detector[d].todo \subseteq Merchants
    /\ {cooling, lock, exclusive} \subseteq BOOLEAN
    /\ expenseCalls \in 0..MaxExpenseCalls /\ expenseFaults \in 0..MaxExpenseFaults

\* handle_regular_expenses_detect selects before it inserts, with no unique
\* constraint behind it: the lock makes detection leave one active expense per
\* merchant, as long as nobody forces it, the lock outlives its holder and Redis
\* answers.
DetectedOncePerMerchant ==
    exclusive =>
        \A m \in Merchants :
            Cardinality({e \in DOMAIN expense :
                expense[e].merchant = m /\ expense[e].source = "detected" /\ IsActive(e)}) <= 1

=============================================================================
