------------------------------ MODULE UserData ------------------------------
(***************************************************************************)
(* What users are shown of their data, and how it is cached: the writers   *)
(* of finance_service and analytics_service, which commit a change and     *)
(* then bump the user's data_version in Redis; and the readers, which put  *)
(* a result under a key that ends in a version:                            *)
(*   - analytics.available_balance.get (balance),                          *)
(*   - health.profile.get, with a snapshot in PostgreSQL (profile),        *)
(*   - groups.budget.get, over the balances of the members (budget).       *)
(* A result is the number of changes to the user's data it accounts for,   *)
(* or Mixed if a change was committed while it was computed, or Redis      *)
(* failed its reader: the code guards against neither.  Entries live on,   *)
(* the members of the group are fixed and there is one period.             *)
(***************************************************************************)
EXTENDS Integers, FiniteSets, FiniteSetsExt

CONSTANTS
    Users,           \* the members of one group
    Clients,         \* the members that ask for their own data
    Writers,         \* threads that change data
    BalanceReaders,  \* threads that run analytics.available_balance.get
    ProfileReaders,  \* threads that run health.profile.get
    BudgetReaders,   \* threads that run groups.budget.get
    Nobody,          \* the user of an idle thread
    Mixed,           \* a result that promises nothing
    MaxChanges,      \* bound: changes committed
    MaxRequests,     \* bound: requests of clients
    MaxFaults        \* bound: commands that raise, processes that die

Readers == BalanceReaders \union ProfileReaders \union BudgetReaders

ASSUME UserDataAssumption ==
    /\ Users # {} /\ Clients \subseteq Users /\ IsFiniteSet(Users) /\ Nobody \notin Users /\ Mixed \notin Nat
    /\ BudgetReaders \intersect (BalanceReaders \union ProfileReaders) = {}
    /\ BalanceReaders \intersect ProfileReaders = {}
    /\ {MaxChanges, MaxRequests, MaxFaults} \subseteq Nat

Changes == 0..MaxChanges
Results == Changes \union {Mixed}

VARIABLES
    data,        \* committed changes of each user
    version,     \* user:<id>:data_version
    completed,   \* changes of each user whose writer bumped the version
    pending,     \* what each writer has committed and not yet bumped
    balance,     \* analytics:balance entries, by user and version
    profile,     \* health:profile entries, by user and version
    snapshot,    \* health_score_snapshots rows, by user
    budget,      \* group:budget entries, by version: results by member
    reader,      \* the state of each reader's handler
    floor,       \* completed, when the greatest version last rose
    requests,    \* requests of clients so far
    faults       \* failures so far

written == <<data, version, completed, pending, floor>>
stored == <<balance, profile, snapshot, budget>>
vars == <<written, stored, reader, requests, faults>>

Phases == {"idle", "keys", "budgets", "version", "lookup", "snapshot", "actual",
           "expected", "save", "reread", "store", "total"}

Empty == [x \in {} |-> 0]

Idle == [phase |-> "idle", user |-> Nobody, refresh |-> FALSE, version |-> 0,
         value |-> 0, todo |-> {}, key |-> 0, batch |-> FALSE, shares |-> Empty]

Init ==
    /\ data = [u \in Users |-> 0]
    /\ completed = [u \in Users |-> 0]
    /\ floor = [u \in Users |-> 0]
    /\ version = [u \in Users |-> 0]
    /\ pending = [w \in Writers |-> [user |-> Nobody, upto |-> 0]]
    /\ balance = Empty /\ profile = Empty /\ snapshot = Empty /\ budget = Empty
    /\ reader = [r \in Readers |-> Idle]
    /\ requests = 0 /\ faults = 0

AtLeast(x, n) == x # Mixed => x >= n
Greatest(ver) == Max({ver[u] : u \in Users})
Put(f, k, x) == [y \in DOMAIN f \union {k} |-> IF y = k THEN x ELSE f[y]]

\* A failure: a command or request raises, or a process dies.
Fault == faults < MaxFaults /\ faults' = faults + 1

-----------------------------------------------------------------------------
(* Writers *)

\* A commit to the user's data, while results may be computed from it.
Change(u) ==
    /\ MapThenSumSet(LAMBDA v : data[v], Users) < MaxChanges
    /\ data' = [data EXCEPT ![u] = @ + 1]
    /\ reader' = [r \in Readers |->
          IF reader[r].user = u /\ reader[r].phase \in {"expected", "save", "reread"}
          THEN [reader[r] EXCEPT !.value = Mixed] ELSE reader[r]]

\* transactions.update, regular_expenses.update and their like commit.
Commit(w, u) ==
    /\ pending[w].user = Nobody
    /\ Change(u)
    /\ pending' = [pending EXCEPT ![w] = [user |-> u, upto |-> data'[u]]]
    /\ UNCHANGED <<version, completed, floor, stored, requests, faults>>

\* accounts.create and accounts.update change the balance and bump nothing.
CommitAccount(u) ==
    /\ Change(u)
    /\ UNCHANGED <<version, completed, pending, floor, stored, requests, faults>>

Bumped(w) == [version EXCEPT ![pending[w].user] = @ + 1]

\* The writer's handler returns, having committed and bumped.
Finish(w) ==
    /\ completed' = [completed EXCEPT ![pending[w].user] =
          Max({@, pending[w].upto})]
    /\ pending' = [pending EXCEPT ![w] = [user |-> Nobody, upto |-> 0]]

\* Mutant: the version is set if it is missing, not incremented.
BumpMissing(w) ==
    /\ pending[w].user # Nobody
    /\ version' = IF version[pending[w].user] = 0 THEN Bumped(w) ELSE version
    /\ Finish(w)
    /\ floor' = IF Greatest(version') > Greatest(version) THEN completed' ELSE floor
    /\ UNCHANGED <<data, stored, reader, requests, faults>>

\* bump_user_data_version.
BumpVersion(w) ==
    /\ pending[w].user # Nobody
    /\ version' = Bumped(w)
    /\ Finish(w)
    /\ floor' = IF Greatest(version') > Greatest(version) THEN completed' ELSE floor
    /\ UNCHANGED <<data, stored, reader, requests, faults>>

\* The process dies before the bump, or Redis raises and the handler goes on.
BumpLost(w) ==
    /\ pending[w].user # Nobody
    /\ Fault
    /\ pending' = [pending EXCEPT ![w] = [user |-> Nobody, upto |-> 0]]
    /\ UNCHANGED <<data, version, completed, floor, stored, reader, requests>>

Write ==
    \/ \E w \in Writers, u \in Users : Commit(w, u)
    \/ \E u \in Users : CommitAccount(u)
    \/ \E w \in Writers : BumpVersion(w) \/ BumpLost(w)

-----------------------------------------------------------------------------
(* What the readers share *)

At(r, p) == reader[r].phase = p
To(r, x) == reader' = [reader EXCEPT ![r] = x]

\* UserDataVersion.get: 0 for a user without a version, and when Redis raises.
ReadsVersion(u, v, raised) ==
    \/ v = version[u] /\ ~raised /\ UNCHANGED faults
    \/ v = 0 /\ raised /\ Fault

\* JsonRedisCache.get.
Hits(cache, k) == k \in DOMAIN cache /\ UNCHANGED faults
Misses(cache, k) ==
    \/ k \notin DOMAIN cache /\ UNCHANGED faults
    \/ k \in DOMAIN cache /\ Fault

\* JsonRedisCache.set.
Sets(cache, k, x) ==
    \/ cache' = Put(cache, k, x) /\ UNCHANGED faults
    \/ UNCHANGED cache /\ Fault

\* finance.balance_before_period, or the finance lists of a profile.
ReadActual(r) ==
    /\ At(r, "actual")
    /\ To(r, [reader[r] EXCEPT !.phase = "expected",
                !.value = IF @ = Mixed THEN Mixed ELSE data[reader[r].user]])
    /\ UNCHANGED <<written, stored, requests, faults>>

\* The expected incomes and expenses, which account for the same changes unless
\* one came in between.
ReadExpected(r) ==
    /\ At(r, "expected")
    /\ To(r, [reader[r] EXCEPT !.phase = IF r \in ProfileReaders THEN "save" ELSE "reread"])
    /\ UNCHANGED <<written, stored, requests, faults>>

\* The version the result is stored under is read once the result is there.
RereadVersion(r) ==
    /\ At(r, "reread")
    /\ \E v \in Changes, raised \in BOOLEAN :
        /\ ReadsVersion(reader[r].user, v, raised)
        /\ To(r, [reader[r] EXCEPT !.version = v, !.phase = "store"])
    /\ UNCHANGED <<written, stored, requests>>

\* A request raises or the process dies: the client gets an error.
ReadFails(r) ==
    /\ ~At(r, "idle")
    /\ Fault
    /\ To(r, Idle)
    /\ UNCHANGED <<written, stored, requests>>

-----------------------------------------------------------------------------
(* analytics.available_balance.get, for a client or for a group's budget *)

Request == requests < MaxRequests /\ requests' = requests + 1

First(members) == CHOOSE u \in members : TRUE

\* Reader x takes up the next member of its group, if there is one.
NextMember(x, shares) ==
    IF x.todo = {}
    THEN [x EXCEPT !.phase = "total", !.shares = shares, !.user = Nobody,
                   !.version = 0, !.value = 0, !.batch = FALSE]
    ELSE LET u == First(x.todo) IN
         [x EXCEPT !.phase = "version", !.shares = shares, !.user = u,
                   !.version = 0, !.value = 0, !.todo = @ \ {u}]

Answer(r, x) ==
    To(r, IF r \in BudgetReaders THEN NextMember(reader[r], Put(reader[r].shares, reader[r].user, x))
          ELSE Idle)

AskBalance(r, u, refresh) ==
    /\ At(r, "idle")
    /\ Request
    /\ To(r, [Idle EXCEPT !.phase = "version", !.user = u, !.refresh = refresh])
    /\ UNCHANGED <<written, stored, faults>>

ReadVersion(r) ==
    /\ At(r, "version")
    /\ \E v \in Changes, raised \in BOOLEAN :
        /\ ReadsVersion(reader[r].user, v, raised)
        /\ To(r, [reader[r] EXCEPT !.version = v, !.value = IF raised THEN Mixed ELSE 0,
                  !.phase = IF ~reader[r].refresh THEN "lookup" ELSE "actual"])
    /\ UNCHANGED <<written, stored, requests>>

BalanceKey(r) == <<reader[r].user, reader[r].version>>

BalanceCached(r) ==
    /\ r \notin ProfileReaders
    /\ At(r, "lookup")
    /\ Hits(balance, BalanceKey(r))
    /\ Answer(r, IF reader[r].value = Mixed THEN Mixed ELSE balance[BalanceKey(r)])
    /\ UNCHANGED <<written, stored, requests>>

BalanceMissing(r) ==
    /\ r \notin ProfileReaders
    /\ At(r, "lookup")
    /\ Misses(balance, BalanceKey(r))
    /\ To(r, [reader[r] EXCEPT !.phase = "actual"])
    /\ UNCHANGED <<written, stored, requests>>

StoreBalance(r) ==
    /\ r \notin ProfileReaders
    /\ At(r, "store")
    /\ Sets(balance, BalanceKey(r), reader[r].value)
    /\ Answer(r, reader[r].value)
    /\ UNCHANGED <<written, profile, snapshot, budget, requests>>

Balance(r) == BalanceCached(r) \/ BalanceMissing(r) \/ StoreBalance(r)

-----------------------------------------------------------------------------
(* health.profile.get *)

ProfileCached(r) ==
    /\ r \in ProfileReaders
    /\ At(r, "lookup")
    /\ Hits(profile, BalanceKey(r))
    /\ To(r, Idle)
    /\ UNCHANGED <<written, stored, requests>>

ProfileMissing(r) ==
    /\ r \in ProfileReaders
    /\ At(r, "lookup")
    /\ Misses(profile, BalanceKey(r))
    /\ To(r, [reader[r] EXCEPT !.phase = "snapshot"])
    /\ UNCHANGED <<written, stored, requests>>

\* The snapshot of an earlier calculation is there, and is stored under the
\* version read before.
SnapshotFound(r) ==
    /\ At(r, "snapshot")
    /\ reader[r].user \in DOMAIN snapshot
    /\ To(r, [reader[r] EXCEPT !.phase = "store", 
                !.value = IF @ = Mixed THEN Mixed ELSE snapshot[reader[r].user]])
    /\ UNCHANGED <<written, stored, requests, faults>>

NoSnapshot(r) ==
    /\ At(r, "snapshot")
    /\ reader[r].user \notin DOMAIN snapshot
    /\ To(r, [reader[r] EXCEPT !.phase = "actual"])
    /\ UNCHANGED <<written, stored, requests, faults>>

\* _store_snapshot: the latest to commit replaces the row.
SaveSnapshot(r) ==
    /\ At(r, "save")
    /\ snapshot' = Put(snapshot, reader[r].user, reader[r].value)
    /\ To(r, [reader[r] EXCEPT !.phase = "reread"])
    /\ UNCHANGED <<written, balance, profile, budget, requests, faults>>

StoreProfile(r) ==
    /\ r \in ProfileReaders
    /\ At(r, "store")
    /\ Sets(profile, BalanceKey(r), reader[r].value)
    /\ To(r, Idle)
    /\ UNCHANGED <<written, balance, snapshot, budget, requests>>

Profile(r) ==
    \/ ProfileCached(r) \/ ProfileMissing(r)
    \/ SnapshotFound(r) \/ NoSnapshot(r) \/ SaveSnapshot(r) \/ StoreProfile(r)

-----------------------------------------------------------------------------
(* groups.budget.get *)

AskBudget(r, refresh) ==
    /\ At(r, "idle")
    /\ Request
    /\ To(r, [Idle EXCEPT !.phase = "keys", !.refresh = refresh, !.todo = Users])
    /\ UNCHANGED <<written, stored, faults>>

\* max_user_data_version reads the members' versions one by one.
ReadKey(r) ==
    /\ At(r, "keys")
    /\ \E v \in Changes, raised \in BOOLEAN :
        LET u == First(reader[r].todo) IN
        /\ ReadsVersion(u, v, raised)
        /\ To(r, [reader[r] EXCEPT
                    !.key = Max({@, v}), !.todo = @ \ {u},
                    !.phase = IF reader[r].todo = {u} THEN "budgets" ELSE "keys"])
    /\ UNCHANGED <<written, stored, requests>>

BudgetCached(r) ==
    /\ At(r, "budgets") /\ ~reader[r].refresh
    /\ Hits(budget, reader[r].key)
    /\ To(r, Idle)
    /\ UNCHANGED <<written, stored, requests>>

\* The batch asks analytics_service for each member, never with refresh.
BudgetMissing(r) ==
    /\ At(r, "budgets")
    /\ \/ reader[r].refresh /\ UNCHANGED faults
       \/ ~reader[r].refresh /\ Misses(budget, reader[r].key)
    /\ To(r, NextMember([reader[r] EXCEPT !.refresh = FALSE, !.todo = Users, !.batch = TRUE],
                         Empty))
    /\ UNCHANGED <<written, stored, requests>>

\* analytics_service fails for a member, and the batch with it: the members are
\* asked for one by one.
BatchFails(r) ==
    /\ reader[r].batch /\ reader[r].user # Nobody
    /\ Fault
    /\ To(r, NextMember([reader[r] EXCEPT !.todo = Users, !.batch = FALSE], Empty))
    /\ UNCHANGED <<written, stored, requests>>

\* It may fail for one of them again, whose budget is left out.
MemberFails(r) ==
    /\ r \in BudgetReaders /\ reader[r].user # Nobody
    /\ ~reader[r].batch
    /\ To(r, NextMember(reader[r], reader[r].shares))
    /\ UNCHANGED <<written, stored, requests, faults>>

\* Mutant: the key is read after the budgets, as the balance's is.
StoreBudgetUnderLatest(r) ==
    /\ At(r, "total")
    /\ Sets(budget, Greatest(version), reader[r].shares)
    /\ To(r, Idle)
    /\ UNCHANGED <<written, balance, profile, snapshot, requests>>

StoreBudget(r) ==
    /\ At(r, "total")
    /\ Sets(budget, reader[r].key, reader[r].shares)
    /\ To(r, Idle)
    /\ UNCHANGED <<written, balance, profile, snapshot, requests>>

Budget(r) ==
    \/ ReadKey(r) \/ BudgetCached(r) \/ BudgetMissing(r)
    \/ BatchFails(r) \/ MemberFails(r) \/ StoreBudget(r)

-----------------------------------------------------------------------------

Ask ==
    \/ \E r \in BalanceReaders \union ProfileReaders, u \in Clients, refresh \in BOOLEAN :
          AskBalance(r, u, refresh)
    \/ \E r \in BudgetReaders, refresh \in BOOLEAN : AskBudget(r, refresh)

Read(r) ==
    \/ ReadVersion(r) \/ ReadActual(r) \/ ReadExpected(r) \/ RereadVersion(r)
    \/ Balance(r) \/ Profile(r) \/ Budget(r)
    \/ ReadFails(r)

Next == Write \/ Ask \/ \E r \in Readers : Read(r)

Spec == Init /\ [][Next]_vars

-----------------------------------------------------------------------------
(* Properties *)

\* Every variable has its type; entries are stored under versions that exist.
TypeOK ==
    /\ {data, completed, floor} \subseteq [Users -> Changes]
    /\ version \in [Users -> Changes]
    /\ pending \in [Writers -> [user : Users \union {Nobody}, upto : Changes]]
    /\ \A k \in DOMAIN balance \union DOMAIN profile : k[1] \in Users /\ k[2] \in 0..version[k[1]]
    /\ \A k \in DOMAIN balance : balance[k] \in Results
    /\ \A k \in DOMAIN profile : profile[k] \in Results
    /\ DOMAIN snapshot \subseteq Users
    /\ \A u \in DOMAIN snapshot : snapshot[u] \in Results
    /\ DOMAIN budget \subseteq 0..Greatest(version)
    /\ \A r \in Readers : reader[r].phase \in Phases
    /\ requests \in 0..MaxRequests /\ faults \in 0..MaxFaults

\* handle_available_balance: writers commit before they bump, and the result is
\* stored under the version read last.  So the entry a user is answered from
\* accounts for every change whose handler has bumped the version, unless a
\* change was committed while it was computed, or Redis failed its reader.
BalanceMissesOnlyOverlaps ==
    \A u \in Users :
        <<u, version[u]>> \in DOMAIN balance =>
            AtLeast(balance[<<u, version[u]>>], completed[u])

\* handle_groups_budget_get reads the key before it asks for the budgets: the
\* entry under the greatest version of the members accounts for every change
\* that was bumped when that version rose to it.  (Later bumps of members with
\* smaller versions it hides.)
BudgetAsFreshAsItsKey ==
    Greatest(version) \in DOMAIN budget =>
        \A u \in DOMAIN budget[Greatest(version)] :
            AtLeast(budget[Greatest(version)][u], floor[u])

=============================================================================
