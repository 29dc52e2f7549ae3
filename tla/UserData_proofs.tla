--------------------------- MODULE UserData_proofs ---------------------------
(***************************************************************************)
(* What users are shown accounts for what their writers have bumped: the   *)
(* inductive invariants behind BalanceMissesOnlyOverlaps and               *)
(* BudgetAsFreshAsItsKey.                                                  *)
(***************************************************************************)
EXTENDS UserData, FiniteSetTheorems, TLAPS

-----------------------------------------------------------------------------
(* Greatest versions *)

HasGreatest(S) == \E m \in S : \A y \in S : m >= y

\* A minimal subset without a greatest element would have one: that of the rest,
\* or the element left out.
LEMMA FiniteHasGreatest ==
  ASSUME NEW S \in SUBSET Nat, IsFiniteSet(S), S # {}
  PROVE  HasGreatest(S)
<1> DEFINE Bad == {T \in SUBSET S : T # {} /\ ~HasGreatest(T)}
<1> SUFFICES ASSUME Bad # {} PROVE FALSE
  OBVIOUS
<1>1. Bad \subseteq FiniteSubsetsOf(S)
  BY FS_FiniteSubsetsOfFinite
<1>2. PICK T \in Bad : \A U \in Bad : ~(<<U, T>> \in StrictSubsetOrdering(S))
  BY <1>1, FS_StrictSubsetOrderingWellFounded, WFMin
<1>3. PICK x \in T : TRUE
  OBVIOUS
<1> DEFINE U == T \ {x}
<1>4. <<U, T>> \in StrictSubsetOrdering(S)
  BY DEF StrictSubsetOrdering
<1>5. U = {} \/ HasGreatest(U)
  BY <1>2, <1>4
<1>6. CASE U = {}
  <2>1. T = {x} /\ x \in Nat
    BY <1>6
  <2> QED BY <2>1 DEF HasGreatest
<1>7. CASE HasGreatest(U)
  <2>1. PICK m \in U : \A y \in U : m >= y
    BY <1>7 DEF HasGreatest
  <2>2. m \in T /\ m \in Nat /\ x \in Nat /\ T \subseteq Nat
    OBVIOUS
  <2>3. HasGreatest(T)
    <3>1. CASE m >= x
      BY <2>1, <2>2, <3>1 DEF HasGreatest
    <3>2. CASE ~(m >= x)
      <4>1. \A y \in T : x >= y
        BY <2>1, <2>2, <3>2
      <4> QED BY <4>1 DEF HasGreatest
    <3> QED BY <3>1, <3>2
  <2> QED BY <2>3
<1> QED BY <1>5, <1>6, <1>7

LEMMA MaxOf ==
  ASSUME NEW S \in SUBSET Nat, HasGreatest(S)
  PROVE  Max(S) \in S /\ \A y \in S : Max(S) >= y
BY DEF Max, HasGreatest

LEMMA MaxOfTwo ==
  ASSUME NEW a \in Nat, NEW b \in Nat
  PROVE  Max({a, b}) = IF a >= b THEN a ELSE b
<1>1. {a, b} \in SUBSET Nat /\ HasGreatest({a, b})
  BY DEF HasGreatest
<1>2. Max({a, b}) \in {a, b} /\ Max({a, b}) >= a /\ Max({a, b}) >= b
  BY <1>1, MaxOf
<1> QED BY <1>2

LEMMA VersionsFinite ==
  ASSUME NEW f \in [Users -> Nat]
  PROVE  IsFiniteSet({f[u] : u \in Users})
<1> DEFINE S == {f[u] : u \in Users}
<1>1. f \in Surjection(Users, S)
  BY DEF Surjection
<1> QED BY <1>1, FS_Surjection, UserDataAssumption

LEMMA GreatestIs ==
  ASSUME NEW f \in [Users -> Nat]
  PROVE  Greatest(f) \in Nat /\ \A u \in Users : f[u] <= Greatest(f)
<1> DEFINE S == {f[u] : u \in Users}
<1>1. S \in SUBSET Nat /\ S # {}
  BY UserDataAssumption
<1>2. IsFiniteSet(S)
  BY VersionsFinite
<1>3. HasGreatest(S)
  BY <1>1, <1>2, FiniteHasGreatest
<1>4. Max(S) \in S /\ \A y \in S : Max(S) >= y
  BY <1>1, <1>3, MaxOf
<1>5. Greatest(f) = Max(S)
  BY DEF Greatest
<1> HIDE DEF S
<1>6. Max(S) \in Nat
  BY <1>1, <1>4
<1> USE DEF S
<1> QED BY <1>4, <1>5, <1>6

\* The greatest version only rises.
LEMMA GreatestRises ==
  ASSUME NEW f \in [Users -> Nat], NEW g \in [Users -> Nat], \A u \in Users : f[u] <= g[u]
  PROVE  Greatest(f) <= Greatest(g)
<1> DEFINE S == {f[u] : u \in Users}
<1>1. S \in SUBSET Nat /\ S # {}
  BY UserDataAssumption
<1>2. IsFiniteSet(S)
  BY VersionsFinite
<1>3. Max(S) \in S
  BY <1>1, <1>2, FiniteHasGreatest, MaxOf
<1>4. PICK u \in Users : Greatest(f) = f[u]
  BY <1>3 DEF Greatest
<1>5. Greatest(g) \in Nat /\ g[u] <= Greatest(g)
  BY GreatestIs
<1> QED BY <1>4, <1>5

-----------------------------------------------------------------------------
(* The invariant *)

Values == Nat \union {Mixed}
Shares == UNION {[S -> Values] : S \in SUBSET Users}
Members == SUBSET Users
Owners == Users \union {Nobody}
ReaderStates == [phase : Phases, user : Owners, refresh : BOOLEAN, version : Nat, value : Values,
                 todo : Members, key : Nat, batch : BOOLEAN, shares : Shares]

WrittenTyped ==
    /\ data \in [Users -> Nat] /\ version \in [Users -> Nat]
    /\ completed \in [Users -> Nat] /\ floor \in [Users -> Nat]
    /\ pending \in [Writers -> [user : Owners, upto : Nat]]
BalanceTyped == \A k \in DOMAIN balance : k \in Users \X Nat /\ balance[k] \in Values
SnapshotTyped == \A u \in DOMAIN snapshot : snapshot[u] \in Values
BudgetTyped == \A k \in DOMAIN budget : k \in Nat /\ budget[k] \in Shares
ReadersTyped == reader \in [Readers -> ReaderStates]

Latest == Greatest(version)
WrittenFits ==
    /\ \A u \in Users : floor[u] <= completed[u] /\ completed[u] <= data[u]
    /\ \A w \in Writers : pending[w].user # Nobody => pending[w].upto <= data[pending[w].user]

\* fv is the version of each user when the greatest last rose.  What is stored
\* under it or a later one accounts for what was completed then, and what is
\* stored under the present version for what is completed now.
BalanceFits(fv) ==
    \A k \in DOMAIN balance :
        /\ k[2] <= version[k[1]]
        /\ k[2] = version[k[1]] => AtLeast(balance[k], completed[k[1]])
        /\ k[2] >= fv[k[1]] => AtLeast(balance[k], floor[k[1]])

FreshShares(shares) == \A u \in DOMAIN shares : AtLeast(shares[u], floor[u])
BudgetFits == \A k \in DOMAIN budget : k <= Latest /\ (k = Latest => FreshShares(budget[k]))

\* A reader that has computed a result holds all that was committed, and the
\* version it reads then is no greater than the user's.
Busy == {"version", "lookup", "snapshot", "actual", "expected", "save", "reread", "store"}
Stores(x, fv) ==
    /\ x.version <= version[x.user]
    /\ x.version = version[x.user] => AtLeast(x.value, completed[x.user])
    /\ x.version >= fv[x.user] => AtLeast(x.value, floor[x.user])
KeyHolds(r, x, fv) ==
    /\ FreshShares(x.shares)
    /\ x.phase = "lookup" /\ x.value # Mixed => x.version >= fv[x.user]
    /\ x.phase = "store" /\ r \notin ProfileReaders => AtLeast(x.value, floor[x.user])
Fits(r, x, fv) ==
    /\ x.phase \in Busy => x.user \in Users
    /\ x.phase = "keys" => x.todo # {} /\ x.shares = Empty
    /\ x.phase = "snapshot" => r \in ProfileReaders
    /\ x.phase \in {"expected", "save", "reread"} => x.value \in {Mixed, data[x.user]}
    /\ x.phase = "store" /\ r \notin ProfileReaders => Stores(x, fv)
    /\ x.key <= Latest
    /\ x.key = Latest => KeyHolds(r, x, fv)

FreshInv(fv) ==
    /\ WrittenTyped /\ BalanceTyped /\ SnapshotTyped /\ BudgetTyped /\ ReadersTyped
    /\ WrittenFits
    /\ \A u \in Users : fv[u] <= version[u]
    /\ BalanceFits(fv) /\ BudgetFits
    /\ \A r \in Readers : Fits(r, reader[r], fv)
UserDataInv == \E fv \in [Users -> Nat] : FreshInv(fv)

LEMMA LatestIs ==
  ASSUME WrittenTyped
  PROVE  Latest \in Nat /\ \A u \in Users : version[u] <= Latest
BY GreatestIs DEF WrittenTyped, Latest

LEMMA ReaderOf ==
  ASSUME NEW fv, FreshInv(fv), NEW r \in Readers
  PROVE  reader[r] \in ReaderStates /\ Fits(r, reader[r], fv)
BY DEF FreshInv, ReadersTyped

LEMMA EmptyShares == Empty \in Shares /\ DOMAIN Empty = {}
<1>1. Empty \in [{} -> Values] /\ {} \in SUBSET Users
  BY DEF Empty
<1> QED BY <1>1 DEF Shares

LEMMA ShareAdded ==
  ASSUME NEW s \in Shares, NEW u \in Users, NEW x \in Values
  PROVE  Put(s, u, x) \in Shares
<1>1. PICK S \in SUBSET Users : s \in [S -> Values]
  BY DEF Shares
<1>2. S \union {u} \in SUBSET Users /\ Put(s, u, x) \in [S \union {u} -> Values]
  BY <1>1 DEF Put
<1> QED BY <1>2 DEF Shares

LEMMA IdleFits ==
  ASSUME WrittenTyped, NEW r, NEW fv
  PROVE  Idle \in ReaderStates /\ Fits(r, Idle, fv)
<1>1. 0 <= Latest
  BY LatestIs
<1>2. FreshShares(Empty)
  BY EmptyShares DEF FreshShares
<1>3. Idle \in ReaderStates
  BY EmptyShares DEF Idle, ReaderStates, Phases, Owners, Values, Members
<1>4. Fits(r, Idle, fv)
  BY <1>1, <1>2 DEF Fits, Idle, Busy, KeyHolds
<1> QED BY <1>3, <1>4

LEMMA InitUserData == Init => UserDataInv
<1> SUFFICES ASSUME Init PROVE UserDataInv
  OBVIOUS
<1> DEFINE fv == [u \in Users |-> 0]
<1>1. fv \in [Users -> Nat]
  OBVIOUS
<1>2. WrittenTyped
  BY DEF Init, WrittenTyped, Owners
<1>3. BalanceTyped /\ SnapshotTyped /\ BudgetTyped /\ BalanceFits(fv) /\ BudgetFits
  BY DEF Init, Empty, BalanceTyped, SnapshotTyped, BudgetTyped, BalanceFits, BudgetFits
<1>4. WrittenFits /\ \A u \in Users : fv[u] <= version[u]
  BY DEF Init, WrittenFits
<1> HIDE DEF fv
<1>5. ReadersTyped /\ \A r \in Readers : Fits(r, reader[r], fv)
  BY <1>2, IdleFits DEF Init, ReadersTyped
<1> QED BY <1>1, <1>2, <1>3, <1>4, <1>5 DEF UserDataInv, FreshInv

-----------------------------------------------------------------------------
(* Readers *)

\* A step of a reader that changes nothing but its own state and the caches.
LEMMA ReaderKeeps ==
  ASSUME NEW fv, FreshInv(fv), NEW r \in Readers, NEW x \in ReaderStates, Fits(r, x, fv),
         reader' = [reader EXCEPT ![r] = x], UNCHANGED written,
         BalanceTyped', SnapshotTyped', BudgetTyped', BalanceFits(fv)', BudgetFits'
  PROVE  FreshInv(fv)'
<1>1. UNCHANGED data /\ UNCHANGED version /\ UNCHANGED completed /\ UNCHANGED pending /\ UNCHANGED floor
  BY DEF written
<1>2. WrittenTyped' /\ WrittenFits' /\ \A u \in Users : fv[u] <= version'[u]
  BY <1>1 DEF FreshInv, WrittenTyped, WrittenFits
<1>3. ReadersTyped' /\ reader'[r] = x /\ \A q \in Readers : q # r => reader'[q] = reader[q]
  BY DEF FreshInv, ReadersTyped
<1>4. Latest' = Latest
  BY <1>1 DEF Latest
<1>5. \A q \in Readers : Fits(q, reader'[q], fv)
  BY <1>3 DEF FreshInv
<1>6. \A q, y : Fits(q, y, fv) => Fits(q, y, fv)'
  BY <1>1, <1>4 DEF Fits, Stores, KeyHolds, FreshShares
<1>7. \A q \in Readers : Fits(q, reader[q], fv)'
  BY <1>5, <1>6
<1> QED BY <1>2, <1>3, <1>7 DEF FreshInv

LEMMA CachesStay ==
  ASSUME NEW fv, FreshInv(fv), UNCHANGED written, UNCHANGED stored
  PROVE  BalanceTyped' /\ SnapshotTyped' /\ BudgetTyped' /\ BalanceFits(fv)' /\ BudgetFits'
<1>1. UNCHANGED version /\ UNCHANGED completed /\ UNCHANGED floor
      /\ UNCHANGED balance /\ UNCHANGED snapshot /\ UNCHANGED budget
  BY DEF written, stored
<1>2. Latest' = Latest
  BY <1>1 DEF Latest
<1> QED BY <1>1, <1>2 DEF FreshInv, BalanceTyped, SnapshotTyped, BudgetTyped, BalanceFits, BudgetFits, FreshShares

LEMMA ReaderMoves ==
  ASSUME NEW fv, FreshInv(fv), NEW r \in Readers, NEW x \in ReaderStates, Fits(r, x, fv),
         reader' = [reader EXCEPT ![r] = x], UNCHANGED written, UNCHANGED stored
  PROVE  FreshInv(fv)'
BY CachesStay, ReaderKeeps

LEMMA DataIs ==
  ASSUME WrittenTyped, WrittenFits, NEW u \in Users
  PROVE  /\ data[u] \in Nat /\ version[u] \in Nat /\ completed[u] \in Nat /\ floor[u] \in Nat
         /\ data[u] >= completed[u] /\ data[u] >= floor[u] /\ completed[u] >= floor[u]
BY DEF WrittenTyped, WrittenFits

LEMMA ReadActualKeeps ==
  ASSUME NEW fv, FreshInv(fv), NEW r \in Readers, ReadActual(r)
  PROVE  FreshInv(fv)'
<1> DEFINE y == reader[r]
           v == IF y.value = Mixed THEN Mixed ELSE data[y.user]
           x == [y EXCEPT !.phase = "expected", !.value = v]
<1>1. y \in ReaderStates /\ Fits(r, y, fv) /\ y.phase = "actual"
  BY ReaderOf DEF ReadActual, At
<1>2. y.user \in Users
  BY <1>1 DEF Fits, Busy
<1>3. v \in Values /\ v \in {Mixed, data[y.user]}
  BY <1>2, DataIs DEF FreshInv, Values
<1>4. reader' = [reader EXCEPT ![r] = x] /\ UNCHANGED written /\ UNCHANGED stored
  <2>1. x = [y EXCEPT !.phase = "expected", !.value = IF @ = Mixed THEN Mixed ELSE data[reader[r].user]]
    BY <1>1 DEF ReaderStates
  <2> QED BY <2>1 DEF ReadActual, To
<1> HIDE DEF v
<1>5. /\ x \in ReaderStates /\ x.phase = "expected" /\ x.value = v
      /\ x.user = y.user /\ x.key = y.key /\ x.shares = y.shares
  BY <1>1, <1>3 DEF ReaderStates, Phases
<1> HIDE DEF x
<1>6. Fits(r, x, fv)
  BY <1>1, <1>2, <1>3, <1>5 DEF Fits, KeyHolds, Busy
<1> QED BY <1>4, <1>5, <1>6, ReaderMoves

LEMMA ReadExpectedKeeps ==
  ASSUME NEW fv, FreshInv(fv), NEW r \in Readers, ReadExpected(r)
  PROVE  FreshInv(fv)'
<1> DEFINE y == reader[r]
           p == IF r \in ProfileReaders THEN "save" ELSE "reread"
           x == [y EXCEPT !.phase = p]
<1>1. y \in ReaderStates /\ Fits(r, y, fv) /\ y.phase = "expected"
  BY ReaderOf DEF ReadExpected, At
<1>2. reader' = [reader EXCEPT ![r] = x] /\ UNCHANGED written /\ UNCHANGED stored
  BY DEF ReadExpected, To
<1>3. p \in {"save", "reread"} /\ p \in Phases
  BY DEF Phases
<1> HIDE DEF p
<1>4. /\ x \in ReaderStates /\ x.phase = p /\ x.value = y.value
      /\ x.user = y.user /\ x.key = y.key /\ x.shares = y.shares
  BY <1>1, <1>3 DEF ReaderStates
<1> HIDE DEF x
<1>5. Fits(r, x, fv)
  BY <1>1, <1>3, <1>4 DEF Fits, KeyHolds, Busy
<1> QED BY <1>2, <1>4, <1>5, ReaderMoves

\* What is read is no greater than the user's version, or nothing is promised.
LEMMA VersionRead ==
  ASSUME NEW fv, FreshInv(fv), NEW u \in Users, NEW v, NEW raised, ReadsVersion(u, v, raised)
  PROVE  v \in Nat /\ v <= version[u] /\ (~raised => v = version[u] /\ v >= fv[u])
BY DataIs DEF FreshInv, ReadsVersion

LEMMA RereadVersionKeeps ==
  ASSUME NEW fv, FreshInv(fv), NEW r \in Readers, RereadVersion(r)
  PROVE  FreshInv(fv)'
<1> DEFINE y == reader[r]
<1>1. y \in ReaderStates /\ Fits(r, y, fv) /\ y.phase = "reread"
  BY ReaderOf DEF RereadVersion, At
<1>2. y.user \in Users /\ y.value \in {Mixed, data[y.user]}
  BY <1>1 DEF Fits, Busy
<1>3. PICK v, raised : /\ ReadsVersion(y.user, v, raised)
                       /\ reader' = [reader EXCEPT ![r] = [y EXCEPT !.version = v, !.phase = "store"]]
  BY DEF RereadVersion, To
<1> DEFINE x == [y EXCEPT !.version = v, !.phase = "store"]
<1>4. v \in Nat /\ v <= version[y.user]
  BY <1>2, <1>3, VersionRead
<1>5. UNCHANGED written /\ UNCHANGED stored
  BY DEF RereadVersion
<1>6. /\ x \in ReaderStates /\ x.phase = "store" /\ x.value = y.value /\ x.version = v
      /\ x.user = y.user /\ x.key = y.key /\ x.shares = y.shares
  BY <1>1, <1>4 DEF ReaderStates, Phases
<1>7. reader' = [reader EXCEPT ![r] = x]
  BY <1>3
<1> HIDE DEF x
<1>8. AtLeast(x.value, completed[x.user]) /\ AtLeast(x.value, floor[x.user])
  BY <1>2, <1>6, DataIs DEF AtLeast, FreshInv
<1>9. Stores(x, fv)
  BY <1>4, <1>6, <1>8 DEF Stores
<1>10. Fits(r, x, fv)
  BY <1>1, <1>2, <1>6, <1>8, <1>9 DEF Fits, KeyHolds, Busy
<1> QED BY <1>5, <1>6, <1>7, <1>10, ReaderMoves

LEMMA ReadFailsKeeps ==
  ASSUME NEW fv, FreshInv(fv), NEW r \in Readers, To(r, Idle), UNCHANGED written, UNCHANGED stored
  PROVE  FreshInv(fv)'
<1>1. Idle \in ReaderStates /\ Fits(r, Idle, fv)
  BY IdleFits DEF FreshInv
<1> QED BY <1>1, ReaderMoves DEF To

LEMMA AskKeeps ==
  ASSUME NEW fv, FreshInv(fv), Ask
  PROVE  FreshInv(fv)'
<1>0. FreshShares(Empty) /\ Empty \in Shares /\ 0 <= Latest
  BY EmptyShares, LatestIs DEF FreshShares, FreshInv
<1>1. ASSUME NEW r \in Readers, NEW u \in Users, NEW refresh \in BOOLEAN, AskBalance(r, u, refresh)
      PROVE  FreshInv(fv)'
  <2> DEFINE x == [Idle EXCEPT !.phase = "version", !.user = u, !.refresh = refresh]
  <2>1. x \in ReaderStates
    BY <1>0 DEF Idle, ReaderStates, Phases, Owners, Values, Members
  <2>2. x.phase = "version" /\ x.user = u /\ x.key = 0 /\ x.shares = Empty
    BY DEF Idle
  <2>3. reader' = [reader EXCEPT ![r] = x] /\ UNCHANGED written /\ UNCHANGED stored
    BY <1>1 DEF AskBalance, To
  <2> HIDE DEF x
  <2>4. Fits(r, x, fv)
    BY <1>0, <2>2 DEF Fits, KeyHolds, Busy
  <2> QED BY <2>1, <2>3, <2>4, ReaderMoves
<1>2. ASSUME NEW r \in Readers, NEW refresh \in BOOLEAN, AskBudget(r, refresh) PROVE FreshInv(fv)'
  <2> DEFINE x == [Idle EXCEPT !.phase = "keys", !.refresh = refresh, !.todo = Users]
  <2>1. x \in ReaderStates
    BY <1>0 DEF Idle, ReaderStates, Phases, Owners, Values, Members
  <2>2. x.phase = "keys" /\ x.todo # {} /\ x.key = 0 /\ x.shares = Empty
    BY UserDataAssumption DEF Idle
  <2>3. reader' = [reader EXCEPT ![r] = x] /\ UNCHANGED written /\ UNCHANGED stored
    BY <1>2 DEF AskBudget, To
  <2> HIDE DEF x
  <2>4. Fits(r, x, fv)
    BY <1>0, <2>2 DEF Fits, KeyHolds, Busy
  <2> QED BY <2>1, <2>3, <2>4, ReaderMoves
<1> QED BY <1>1, <1>2, UserDataAssumption DEF Ask, Readers

\* A user without a version, or whose version Redis did not answer.
LEMMA ReadVersionKeeps ==
  ASSUME NEW fv, FreshInv(fv), NEW r \in Readers, ReadVersion(r)
  PROVE  FreshInv(fv)'
<1> DEFINE y == reader[r]
           p == IF ~y.refresh THEN "lookup" ELSE "actual"
<1>1. y \in ReaderStates /\ Fits(r, y, fv) /\ y.phase = "version"
  BY ReaderOf DEF ReadVersion, At
<1>2. y.user \in Users
  BY <1>1 DEF Fits, Busy
<1>3. PICK v, raised : /\ ReadsVersion(y.user, v, raised)
         /\ reader' = [reader EXCEPT ![r] =
               [y EXCEPT !.version = v, !.value = IF raised THEN Mixed ELSE 0, !.phase = p]]
  BY DEF ReadVersion, To
<1> DEFINE z == IF raised THEN Mixed ELSE 0
           x == [y EXCEPT !.version = v, !.value = z, !.phase = p]
<1>4. v \in Nat /\ (~raised => v >= fv[y.user])
  BY <1>2, <1>3, VersionRead
<1>5. UNCHANGED written /\ UNCHANGED stored
  BY DEF ReadVersion
<1>6. z \in Values /\ (z # Mixed => ~raised) /\ p \in {"lookup", "actual"} /\ p \in Phases
  BY DEF Values, Phases
<1>7. reader' = [reader EXCEPT ![r] = x]
  BY <1>3
<1> HIDE DEF z, p
<1>8. /\ x \in ReaderStates /\ x.phase = p /\ x.value = z /\ x.version = v
      /\ x.user = y.user /\ x.key = y.key /\ x.shares = y.shares
  BY <1>1, <1>4, <1>6 DEF ReaderStates
<1> HIDE DEF x
<1>9. Fits(r, x, fv)
  BY <1>1, <1>2, <1>4, <1>6, <1>8 DEF Fits, KeyHolds, Busy
<1> QED BY <1>5, <1>7, <1>8, <1>9, ReaderMoves

-----------------------------------------------------------------------------
(* Balances *)

LEMMA NextMemberFits ==
  ASSUME NEW r, NEW fv, NEW y \in ReaderStates, NEW s \in Shares, y.key <= Latest,
         y.key = Latest => FreshShares(s)
  PROVE  NextMember(y, s) \in ReaderStates /\ Fits(r, NextMember(y, s), fv)
<1>1. CASE y.todo = {}
  <2> DEFINE x == [y EXCEPT !.phase = "total", !.shares = s, !.user = Nobody,
                            !.version = 0, !.value = 0, !.batch = FALSE]
  <2>1. x \in ReaderStates
    BY DEF ReaderStates, Phases, Owners, Values
  <2>2. x.phase = "total" /\ x.key = y.key /\ x.shares = s
    BY DEF ReaderStates
  <2>3. NextMember(y, s) = x
    BY <1>1 DEF NextMember
  <2> HIDE DEF x
  <2>4. Fits(r, x, fv)
    BY <2>2 DEF Fits, KeyHolds, Busy
  <2> QED BY <2>1, <2>3, <2>4
<1>2. CASE y.todo # {}
  <2> DEFINE u == First(y.todo)
             x == [y EXCEPT !.phase = "version", !.shares = s, !.user = u,
                            !.version = 0, !.value = 0, !.todo = y.todo \ {u}]
  <2>1. u \in Users /\ y.todo \ {u} \in Members
    BY <1>2 DEF First, ReaderStates, Members
  <2>2. NextMember(y, s) = x
    BY <1>2 DEF NextMember
  <2> HIDE DEF u
  <2>3. x \in ReaderStates
    BY <2>1 DEF ReaderStates, Phases, Owners, Values
  <2>4. x.phase = "version" /\ x.user = u /\ x.key = y.key /\ x.shares = s
    BY DEF ReaderStates
  <2> HIDE DEF x
  <2>5. Fits(r, x, fv)
    BY <2>1, <2>4 DEF Fits, KeyHolds, Busy
  <2> QED BY <2>2, <2>3, <2>5
<1> QED BY <1>1, <1>2

\* An answer that accounts for what was bumped when the greatest version rose
\* to the reader's key may become a share of the group's budget.
LEMMA AnswerKeeps ==
  ASSUME NEW fv, FreshInv(fv), NEW r \in Readers, NEW v \in Values, Answer(r, v),
         reader[r].user \in Users, reader[r].key = Latest => AtLeast(v, floor[reader[r].user]),
         UNCHANGED written, BalanceTyped', SnapshotTyped', BudgetTyped', BalanceFits(fv)', BudgetFits'
  PROVE  FreshInv(fv)'
<1> DEFINE y == reader[r]
           s == Put(y.shares, y.user, v)
           x == IF r \in BudgetReaders THEN NextMember(y, s) ELSE Idle
<1>1. y \in ReaderStates /\ Fits(r, y, fv) /\ y.shares \in Shares
  BY ReaderOf DEF ReaderStates
<1>2. y.user \in Users
  OBVIOUS
<1>3. /\ s \in Shares /\ DOMAIN s = DOMAIN y.shares \union {y.user}
      /\ \A u \in DOMAIN y.shares \union {y.user} : s[u] = IF u = y.user THEN v ELSE y.shares[u]
  <2>1. s \in Shares
    BY <1>1, <1>2, ShareAdded
  <2>2. DOMAIN s = DOMAIN y.shares \union {y.user}
    BY DEF Put
  <2>3. ASSUME NEW u \in DOMAIN y.shares \union {y.user} PROVE s[u] = IF u = y.user THEN v ELSE y.shares[u]
    BY DEF Put
  <2> QED BY <2>1, <2>2, <2>3
<1>4. y.key <= Latest /\ (y.key = Latest => FreshShares(y.shares))
  BY <1>1 DEF Fits, KeyHolds
<1> HIDE DEF s
<1>5. y.key = Latest => FreshShares(s)
  BY <1>3, <1>4 DEF FreshShares
<1>6. NextMember(y, s) \in ReaderStates /\ Fits(r, NextMember(y, s), fv)
  BY <1>1, <1>3, <1>4, <1>5, NextMemberFits
<1>7. Idle \in ReaderStates /\ Fits(r, Idle, fv)
  BY IdleFits DEF FreshInv
<1>8. x \in ReaderStates /\ Fits(r, x, fv)
  BY <1>6, <1>7
<1>9. reader' = [reader EXCEPT ![r] = x]
  BY DEF Answer, To, s
<1> HIDE DEF x
<1> QED BY <1>8, <1>9, ReaderKeeps

LEMMA BalanceCachedKeeps ==
  ASSUME NEW fv, FreshInv(fv), NEW r \in Readers, BalanceCached(r)
  PROVE  FreshInv(fv)'
<1> DEFINE y == reader[r]
           k == <<y.user, y.version>>
           v == IF y.value = Mixed THEN Mixed ELSE balance[k]
<1>1. y \in ReaderStates /\ Fits(r, y, fv) /\ y.phase = "lookup"
  BY ReaderOf DEF BalanceCached, At
<1>2. /\ k \in DOMAIN balance /\ k[1] = y.user /\ k[2] = y.version
      /\ Answer(r, v) /\ UNCHANGED written /\ UNCHANGED stored
  BY DEF BalanceCached, Hits, BalanceKey
<1>3. balance[k] \in Values /\ (k[2] >= fv[k[1]] => AtLeast(balance[k], floor[k[1]]))
  BY <1>2 DEF FreshInv, BalanceTyped, BalanceFits
<1>4. y.user \in Users
  BY <1>1 DEF Fits, Busy
<1>5. v \in Values
  BY <1>3 DEF Values
<1>6. y.key = Latest => AtLeast(v, floor[y.user])
  <2>1. y.key = Latest /\ y.value # Mixed => y.version >= fv[y.user]
    BY <1>1 DEF Fits, KeyHolds
  <2>2. AtLeast(Mixed, floor[y.user])
    BY DEF AtLeast
  <2> QED BY <1>2, <1>3, <2>1, <2>2
<1> HIDE DEF v
<1> QED BY <1>2, <1>4, <1>5, <1>6, CachesStay, AnswerKeeps

\* A reader that moves to a phase about which nothing is promised.
LEMMA PhaseKeeps ==
  ASSUME NEW fv, FreshInv(fv), NEW r \in Readers, NEW p, p \in {"actual", "snapshot"},
         p = "snapshot" => r \in ProfileReaders, reader[r].phase \in Busy,
         To(r, [reader[r] EXCEPT !.phase = p]), UNCHANGED written, UNCHANGED stored
  PROVE  FreshInv(fv)'
<1> DEFINE y == reader[r]
           x == [y EXCEPT !.phase = p]
<1>1. y \in ReaderStates /\ Fits(r, y, fv) /\ y.phase \in Busy
  BY ReaderOf
<1>2. reader' = [reader EXCEPT ![r] = x]
  BY DEF To
<1>3. /\ x \in ReaderStates /\ x.phase = p /\ x.value = y.value
      /\ x.user = y.user /\ x.key = y.key /\ x.shares = y.shares
  BY <1>1 DEF ReaderStates, Phases
<1> HIDE DEF x
<1>4. Fits(r, x, fv)
  BY <1>1, <1>3 DEF Fits, KeyHolds, Busy
<1> QED BY <1>2, <1>3, <1>4, ReaderMoves

\* What a reader stores holds all that is completed while its version is the user's.
LEMMA StoreBalanceKeeps ==
  ASSUME NEW fv, FreshInv(fv), NEW r \in Readers, StoreBalance(r)
  PROVE  FreshInv(fv)'
<1> DEFINE y == reader[r]
           k == <<y.user, y.version>>
<1>1. y \in ReaderStates /\ Fits(r, y, fv) /\ y.phase = "store" /\ r \notin ProfileReaders
  BY ReaderOf DEF StoreBalance, At
<1>2. /\ Sets(balance, k, y.value) /\ Answer(r, y.value)
      /\ UNCHANGED written /\ UNCHANGED snapshot /\ UNCHANGED budget
  BY DEF StoreBalance, BalanceKey
<1>3. y.user \in Users /\ y.version \in Nat /\ y.value \in Values
  BY <1>1 DEF Fits, Busy, ReaderStates
<1>4. Stores(y, fv) /\ (y.key = Latest => AtLeast(y.value, floor[y.user]))
  BY <1>1 DEF Fits, KeyHolds
<1>5. UNCHANGED version /\ UNCHANGED completed /\ UNCHANGED floor
  BY <1>2 DEF written
<1>6. Latest' = Latest
  BY <1>5 DEF Latest
<1>7. SnapshotTyped' /\ BudgetTyped' /\ BudgetFits'
  BY <1>2, <1>5, <1>6 DEF FreshInv, SnapshotTyped, BudgetTyped, BudgetFits, FreshShares
<1>8. balance' = Put(balance, k, y.value) \/ balance' = balance
  BY <1>2 DEF Sets
<1>9. BalanceTyped' /\ BalanceFits(fv)'
  <2>1. CASE balance' = balance
    BY <1>5, <2>1 DEF FreshInv, BalanceTyped, BalanceFits
  <2>2. CASE balance' = Put(balance, k, y.value)
    <3>1. /\ k \in Users \X Nat /\ k[1] = y.user /\ k[2] = y.version
          /\ DOMAIN balance' = DOMAIN balance \union {k}
          /\ \A j \in DOMAIN balance' : balance'[j] = IF j = k THEN y.value ELSE balance[j]
      BY <1>3, <2>2 DEF Put
    <3> HIDE DEF k
    <3>2. BalanceTyped'
      BY <1>3, <3>1 DEF FreshInv, BalanceTyped
    <3>3. BalanceFits(fv)'
      BY <1>4, <1>5, <3>1 DEF FreshInv, BalanceFits, Stores
    <3> QED BY <3>2, <3>3
  <2> QED BY <1>8, <2>1, <2>2
<1> QED BY <1>2, <1>3, <1>4, <1>7, <1>9, AnswerKeeps

LEMMA BalanceKeeps ==
  ASSUME NEW fv, FreshInv(fv), NEW r \in Readers, Balance(r)
  PROVE  FreshInv(fv)'
<1>1. CASE BalanceMissing(r)
  <2>1. /\ reader[r].phase \in Busy /\ To(r, [reader[r] EXCEPT !.phase = "actual"])
        /\ UNCHANGED written /\ UNCHANGED stored
    BY <1>1 DEF BalanceMissing, At, Busy
  <2> QED BY <2>1, PhaseKeeps
<1> QED BY <1>1, BalanceCachedKeeps, StoreBalanceKeeps DEF Balance

-----------------------------------------------------------------------------
(* Profiles *)

LEMMA SnapshotFoundKeeps ==
  ASSUME NEW fv, FreshInv(fv), NEW r \in Readers, SnapshotFound(r)
  PROVE  FreshInv(fv)'
<1> DEFINE y == reader[r]
           v == IF y.value = Mixed THEN Mixed ELSE snapshot[y.user]
           x == [y EXCEPT !.phase = "store", !.value = v]
<1>1. /\ y \in ReaderStates /\ Fits(r, y, fv) /\ y.phase = "snapshot"
      /\ y.user \in DOMAIN snapshot /\ UNCHANGED written /\ UNCHANGED stored
  BY ReaderOf DEF SnapshotFound, At
<1>2. y.user \in Users /\ r \in ProfileReaders
  BY <1>1 DEF Fits, Busy
<1>3. v \in Values
  BY <1>1 DEF FreshInv, SnapshotTyped, Values
<1>4. reader' = [reader EXCEPT ![r] = x]
  <2>1. x = [y EXCEPT !.phase = "store", !.value = IF @ = Mixed THEN Mixed ELSE snapshot[reader[r].user]]
    BY <1>1 DEF ReaderStates
  <2> QED BY <2>1 DEF SnapshotFound, To
<1> HIDE DEF v
<1>5. /\ x \in ReaderStates /\ x.phase = "store" /\ x.value = v
      /\ x.user = y.user /\ x.key = y.key /\ x.shares = y.shares
  BY <1>1, <1>3 DEF ReaderStates, Phases
<1> HIDE DEF x
<1>6. Fits(r, x, fv)
  BY <1>1, <1>2, <1>5 DEF Fits, KeyHolds, Busy
<1> QED BY <1>1, <1>4, <1>5, <1>6, ReaderMoves

LEMMA SaveSnapshotKeeps ==
  ASSUME NEW fv, FreshInv(fv), NEW r \in Readers, SaveSnapshot(r)
  PROVE  FreshInv(fv)'
<1> DEFINE y == reader[r]
           x == [y EXCEPT !.phase = "reread"]
<1>1. y \in ReaderStates /\ Fits(r, y, fv) /\ y.phase = "save" /\ y.value \in Values
  BY ReaderOf DEF SaveSnapshot, At, ReaderStates
<1>2. /\ reader' = [reader EXCEPT ![r] = x] /\ UNCHANGED written
      /\ UNCHANGED balance /\ UNCHANGED budget /\ snapshot' = Put(snapshot, y.user, y.value)
  BY DEF SaveSnapshot, To
<1>3. /\ x \in ReaderStates /\ x.phase = "reread" /\ x.value = y.value
      /\ x.user = y.user /\ x.key = y.key /\ x.shares = y.shares
  BY <1>1 DEF ReaderStates, Phases
<1> HIDE DEF x
<1>4. Fits(r, x, fv)
  BY <1>1, <1>3 DEF Fits, KeyHolds, Busy
<1>5. SnapshotTyped'
  BY <1>1, <1>2 DEF FreshInv, SnapshotTyped, Put
<1>6. UNCHANGED version /\ UNCHANGED completed /\ UNCHANGED floor
  BY <1>2 DEF written
<1>7. Latest' = Latest
  BY <1>6 DEF Latest
<1>8. BalanceTyped' /\ BudgetTyped' /\ BalanceFits(fv)' /\ BudgetFits'
  BY <1>2, <1>6, <1>7 DEF FreshInv, BalanceTyped, BudgetTyped, BalanceFits, BudgetFits, FreshShares
<1> QED BY <1>2, <1>3, <1>4, <1>5, <1>8, ReaderKeeps

LEMMA StoreProfileKeeps ==
  ASSUME NEW fv, FreshInv(fv), NEW r \in Readers, StoreProfile(r)
  PROVE  FreshInv(fv)'
<1>1. /\ reader' = [reader EXCEPT ![r] = Idle] /\ UNCHANGED written
      /\ UNCHANGED balance /\ UNCHANGED snapshot /\ UNCHANGED budget
  BY DEF StoreProfile, To
<1>2. Idle \in ReaderStates /\ Fits(r, Idle, fv)
  BY IdleFits DEF FreshInv
<1>3. UNCHANGED version /\ UNCHANGED completed /\ UNCHANGED floor
  BY <1>1 DEF written
<1>4. Latest' = Latest
  BY <1>3 DEF Latest
<1>5. BalanceTyped' /\ SnapshotTyped' /\ BudgetTyped' /\ BalanceFits(fv)' /\ BudgetFits'
  BY <1>1, <1>3, <1>4
  DEF FreshInv, BalanceTyped, SnapshotTyped, BudgetTyped, BalanceFits, BudgetFits, FreshShares
<1> QED BY <1>1, <1>2, <1>5, ReaderKeeps

LEMMA ProfileKeeps ==
  ASSUME NEW fv, FreshInv(fv), NEW r \in Readers, Profile(r)
  PROVE  FreshInv(fv)'
<1>1. CASE ProfileCached(r)
  <2>1. To(r, Idle) /\ UNCHANGED written /\ UNCHANGED stored
    BY <1>1 DEF ProfileCached
  <2> QED BY <2>1, ReadFailsKeeps
<1>2. CASE ProfileMissing(r)
  <2>1. /\ r \in ProfileReaders /\ reader[r].phase \in Busy /\ To(r, [reader[r] EXCEPT !.phase = "snapshot"])
        /\ UNCHANGED written /\ UNCHANGED stored
    BY <1>2 DEF ProfileMissing, At, Busy
  <2> QED BY <2>1, PhaseKeeps
<1>3. CASE NoSnapshot(r)
  <2>1. /\ reader[r].phase \in Busy /\ To(r, [reader[r] EXCEPT !.phase = "actual"])
        /\ UNCHANGED written /\ UNCHANGED stored
    BY <1>3 DEF NoSnapshot, At, Busy
  <2> QED BY <2>1, PhaseKeeps
<1> QED BY <1>1, <1>2, <1>3, SnapshotFoundKeeps, SaveSnapshotKeeps, StoreProfileKeeps DEF Profile

-----------------------------------------------------------------------------
(* Budgets *)

LEMMA ReadKeyKeeps ==
  ASSUME NEW fv, FreshInv(fv), NEW r \in Readers, ReadKey(r)
  PROVE  FreshInv(fv)'
<1> DEFINE y == reader[r]
           u == First(y.todo)
           p == IF y.todo = {u} THEN "budgets" ELSE "keys"
<1>1. y \in ReaderStates /\ Fits(r, y, fv) /\ y.phase = "keys"
  BY ReaderOf DEF ReadKey, At
<1>2. y.todo # {} /\ y.todo \subseteq Users
  BY <1>1 DEF Fits, ReaderStates, Members
<1>3. u \in y.todo /\ u \in Users
  BY <1>2 DEF First
<1>4. PICK v, raised : /\ ReadsVersion(u, v, raised)
         /\ reader' = [reader EXCEPT ![r] =
               [y EXCEPT !.key = Max({@, v}), !.todo = @ \ {u}, !.phase = p]]
  BY DEF ReadKey, To
<1> DEFINE k == Max({y.key, v})
           t == y.todo \ {u}
           x == [y EXCEPT !.key = k, !.todo = t, !.phase = p]
<1>5. UNCHANGED written /\ UNCHANGED stored
  BY DEF ReadKey
<1>6. v \in Nat /\ v <= version[u] /\ version[u] <= Latest /\ version[u] \in Nat /\ Latest \in Nat
  BY <1>3, <1>4, VersionRead, LatestIs, DataIs DEF FreshInv
<1>7. y.key \in Nat /\ y.key <= Latest
  BY <1>1 DEF ReaderStates, Fits
<1>8. k \in Nat /\ k <= Latest /\ k >= y.key /\ (k = Latest => k = y.key \/ v = Latest)
  BY <1>6, <1>7, MaxOfTwo
<1>9. reader' = [reader EXCEPT ![r] = x]
  <2>1. x = [y EXCEPT !.key = Max({@, v}), !.todo = @ \ {u}, !.phase = p]
    BY <1>1 DEF ReaderStates
  <2> QED BY <1>4, <2>1
<1>10. p \in {"budgets", "keys"} /\ p \in Phases /\ (p = "keys" => t # {}) /\ t \in Members
  BY <1>2, <1>3 DEF Members, Phases
<1> HIDE DEF p, k, t
<1>11. x \in ReaderStates /\ x.phase = p /\ x.key = k /\ x.todo = t /\ x.shares = y.shares
  BY <1>1, <1>8, <1>10 DEF ReaderStates
<1> HIDE DEF x
<1>12. y.shares = Empty /\ FreshShares(y.shares)
  BY <1>1, EmptyShares DEF Fits, FreshShares
<1>13. Fits(r, x, fv)
  BY <1>8, <1>10, <1>11, <1>12 DEF Fits, KeyHolds, Busy
<1> QED BY <1>5, <1>9, <1>11, <1>13, ReaderMoves

\* The budgets are asked for again, or one of them is left out.
LEMMA NextMemberKeeps ==
  ASSUME NEW fv, FreshInv(fv), NEW r \in Readers, NEW y \in ReaderStates, y.key = reader[r].key,
         NEW s \in Shares, s \in {Empty, reader[r].shares}, To(r, NextMember(y, s)),
         UNCHANGED written, UNCHANGED stored
  PROVE  FreshInv(fv)'
<1>1. Fits(r, reader[r], fv) /\ FreshShares(Empty)
  BY ReaderOf, EmptyShares DEF FreshShares
<1>2. y.key <= Latest /\ (y.key = Latest => FreshShares(s))
  BY <1>1 DEF Fits, KeyHolds
<1> DEFINE x == NextMember(y, s)
<1>3. x \in ReaderStates /\ Fits(r, x, fv)
  BY <1>2, NextMemberFits
<1>4. reader' = [reader EXCEPT ![r] = x]
  BY DEF To
<1> HIDE DEF x
<1> QED BY <1>3, <1>4, ReaderMoves

LEMMA BudgetMissingKeeps ==
  ASSUME NEW fv, FreshInv(fv), NEW r \in Readers, BudgetMissing(r)
  PROVE  FreshInv(fv)'
<1> DEFINE y == [reader[r] EXCEPT !.refresh = FALSE, !.todo = Users, !.batch = TRUE]
<1>1. reader[r] \in ReaderStates
  BY ReaderOf
<1>2. y \in ReaderStates /\ y.key = reader[r].key
  BY <1>1 DEF ReaderStates, Members
<1>3. To(r, NextMember(y, Empty)) /\ UNCHANGED written /\ UNCHANGED stored
  BY DEF BudgetMissing
<1> HIDE DEF y
<1> QED BY <1>2, <1>3, EmptyShares, NextMemberKeeps

LEMMA BatchFailsKeeps ==
  ASSUME NEW fv, FreshInv(fv), NEW r \in Readers, BatchFails(r)
  PROVE  FreshInv(fv)'
<1> DEFINE y == [reader[r] EXCEPT !.todo = Users, !.batch = FALSE]
<1>1. reader[r] \in ReaderStates
  BY ReaderOf
<1>2. y \in ReaderStates /\ y.key = reader[r].key
  BY <1>1 DEF ReaderStates, Members
<1>3. To(r, NextMember(y, Empty)) /\ UNCHANGED written /\ UNCHANGED stored
  BY DEF BatchFails
<1> HIDE DEF y
<1> QED BY <1>2, <1>3, EmptyShares, NextMemberKeeps

LEMMA MemberFailsKeeps ==
  ASSUME NEW fv, FreshInv(fv), NEW r \in Readers, MemberFails(r)
  PROVE  FreshInv(fv)'
<1>1. reader[r] \in ReaderStates /\ reader[r].shares \in Shares
  BY ReaderOf DEF ReaderStates
<1>2. To(r, NextMember(reader[r], reader[r].shares)) /\ UNCHANGED written /\ UNCHANGED stored
  BY DEF MemberFails
<1> QED BY <1>1, <1>2, NextMemberKeeps

\* The budgets asked for after the key was read hold what was bumped before it.
LEMMA StoreBudgetKeeps ==
  ASSUME NEW fv, FreshInv(fv), NEW r \in Readers, StoreBudget(r)
  PROVE  FreshInv(fv)'
<1> DEFINE y == reader[r]
<1>1. y \in ReaderStates /\ Fits(r, y, fv)
  BY ReaderOf
<1>2. y.key \in Nat /\ y.shares \in Shares /\ y.key <= Latest /\ (y.key = Latest => FreshShares(y.shares))
  BY <1>1 DEF ReaderStates, Fits, KeyHolds
<1>3. /\ reader' = [reader EXCEPT ![r] = Idle] /\ UNCHANGED written
      /\ UNCHANGED balance /\ UNCHANGED snapshot
      /\ budget' = budget \/ budget' = Put(budget, y.key, y.shares)
  BY DEF StoreBudget, To, Sets
<1>4. Idle \in ReaderStates /\ Fits(r, Idle, fv)
  BY IdleFits DEF FreshInv
<1>5. UNCHANGED version /\ UNCHANGED completed /\ UNCHANGED floor
  BY <1>3 DEF written
<1>6. Latest' = Latest
  BY <1>5 DEF Latest
<1>7. BalanceTyped' /\ SnapshotTyped' /\ BalanceFits(fv)'
  BY <1>3, <1>5 DEF FreshInv, BalanceTyped, SnapshotTyped, BalanceFits
<1>8. \A s : FreshShares(s)' <=> FreshShares(s)
  BY <1>5 DEF FreshShares
<1>9. BudgetTyped' /\ BudgetFits'
  <2>1. CASE budget' = budget
    BY <1>6, <1>8, <2>1 DEF FreshInv, BudgetTyped, BudgetFits, FreshShares
  <2>2. CASE budget' = Put(budget, y.key, y.shares)
    <3>1. /\ DOMAIN budget' = DOMAIN budget \union {y.key}
          /\ \A k \in DOMAIN budget' : budget'[k] = IF k = y.key THEN y.shares ELSE budget[k]
      BY <2>2 DEF Put
    <3>2. \A k \in DOMAIN budget' : k \in Nat /\ budget'[k] \in Shares
      BY <1>2, <3>1 DEF FreshInv, BudgetTyped
    <3>3. \A k \in DOMAIN budget' : k <= Latest /\ (k = Latest => FreshShares(budget'[k]))
      BY <1>2, <3>1 DEF FreshInv, BudgetFits
    <3>4. \A k \in DOMAIN budget' : k <= Latest' /\ (k = Latest' => \A u \in DOMAIN budget'[k] : AtLeast(budget'[k][u], floor'[u]))
      BY <1>5, <1>6, <3>3 DEF FreshShares
    <3> QED BY <3>2, <3>4 DEF BudgetTyped, BudgetFits, FreshShares
  <2> QED BY <1>3, <2>1, <2>2
<1> QED BY <1>3, <1>4, <1>7, <1>9, ReaderKeeps

LEMMA BudgetKeeps ==
  ASSUME NEW fv, FreshInv(fv), NEW r \in Readers, Budget(r)
  PROVE  FreshInv(fv)'
<1>1. CASE BudgetCached(r)
  <2>1. To(r, Idle) /\ UNCHANGED written /\ UNCHANGED stored
    BY <1>1 DEF BudgetCached
  <2> QED BY <2>1, ReadFailsKeeps
<1> QED BY <1>1, ReadKeyKeeps, BudgetMissingKeeps, BatchFailsKeeps, MemberFailsKeeps, StoreBudgetKeeps DEF Budget

-----------------------------------------------------------------------------
(* Writers *)

LEMMA ChangeKeeps ==
  ASSUME NEW fv, FreshInv(fv), NEW u \in Users, Change(u),
         UNCHANGED <<version, completed, floor>>, UNCHANGED stored,
         pending' \in [Writers -> [user : Owners, upto : Nat]],
         \A w \in Writers : pending'[w] = pending[w] \/ (pending'[w].user = u /\ pending'[w].upto = data'[u])
  PROVE  FreshInv(fv)'
<1>1. UNCHANGED version /\ UNCHANGED completed /\ UNCHANGED floor
      /\ UNCHANGED balance /\ UNCHANGED snapshot /\ UNCHANGED budget
  BY DEF stored
<1>2. Latest' = Latest
  BY <1>1 DEF Latest
<1>3. /\ data' \in [Users -> Nat] /\ \A v \in Users : data[v] <= data'[v] /\ (v # u => data'[v] = data[v])
  BY DEF Change, FreshInv, WrittenTyped
<1>4. WrittenTyped'
  BY <1>1, <1>3 DEF FreshInv, WrittenTyped
<1>5. WrittenFits'
  <2>1. \A v \in Users : floor'[v] <= completed'[v] /\ completed'[v] <= data'[v]
    BY <1>1, <1>3, DataIs DEF FreshInv
  <2>2. ASSUME NEW w \in Writers, pending'[w].user # Nobody PROVE pending'[w].upto <= data'[pending'[w].user]
    <3>1. CASE pending'[w] = pending[w]
      <4>1. pending[w] \in [user : Owners, upto : Nat]
        BY DEF FreshInv, WrittenTyped
      <4>2. pending[w].user \in Users /\ pending[w].upto \in Nat /\ pending[w].upto <= data[pending[w].user]
        BY <2>2, <3>1, <4>1 DEF FreshInv, WrittenFits, Owners
      <4> QED BY <1>3, <3>1, <4>2, DataIs DEF FreshInv
    <3>2. CASE pending'[w].user = u /\ pending'[w].upto = data'[u]
      BY <1>3, <3>2
    <3> QED BY <3>1, <3>2
  <2> QED BY <2>1, <2>2 DEF WrittenFits
<1>6. BalanceTyped' /\ SnapshotTyped' /\ BudgetTyped' /\ BalanceFits(fv)' /\ BudgetFits'
      /\ \A v \in Users : fv[v] <= version'[v]
  BY <1>1, <1>2 DEF FreshInv, BalanceTyped, SnapshotTyped, BudgetTyped, BalanceFits, BudgetFits, FreshShares
<1>7. ASSUME NEW r \in Readers PROVE reader'[r] \in ReaderStates /\ Fits(r, reader[r], fv)'
  <2> DEFINE y == reader[r]
             x == reader'[r]
  <2>1. y \in ReaderStates /\ Fits(r, y, fv)
    BY ReaderOf
  <2>2. x = IF y.user = u /\ y.phase \in {"expected", "save", "reread"} THEN [y EXCEPT !.value = Mixed] ELSE y
    BY DEF Change
  <2>3. /\ x \in ReaderStates /\ x.phase = y.phase /\ x.user = y.user /\ x.version = y.version
        /\ x.todo = y.todo /\ x.key = y.key /\ x.shares = y.shares
        /\ x.value = IF y.user = u /\ y.phase \in {"expected", "save", "reread"} THEN Mixed ELSE y.value
    BY <2>1, <2>2 DEF ReaderStates, Values
  <2> HIDE DEF x
  <2>4. x.phase \in {"expected", "save", "reread"} => x.value \in {Mixed, data'[x.user]}
    BY <1>3, <2>1, <2>3 DEF Fits, Busy
  <2>5. x.phase = "store" /\ r \notin ProfileReaders => Stores(x, fv)
    BY <2>1, <2>3 DEF Fits, Stores
  <2>6. x.key = Latest => KeyHolds(r, x, fv)
    BY <2>1, <2>3 DEF Fits, KeyHolds
  <2>7. /\ x.phase \in Busy => x.user \in Users
        /\ x.phase = "keys" => x.todo # {} /\ x.shares = Empty
        /\ x.phase = "snapshot" => r \in ProfileReaders
        /\ x.key <= Latest
    BY <2>1, <2>3 DEF Fits
  <2>8. Stores(x, fv) => Stores(reader[r], fv)'
    BY <1>1 DEF Stores, x
  <2>9. KeyHolds(r, x, fv) => KeyHolds(r, reader[r], fv)'
    BY <1>1 DEF KeyHolds, FreshShares, x
  <2>10. Fits(r, reader[r], fv)'
    BY <1>2, <2>4, <2>5, <2>6, <2>7, <2>8, <2>9 DEF Fits, x
  <2> QED BY <2>3, <2>10 DEF x
<1>8. ReadersTyped'
  <2>1. reader' = [r \in Readers |-> reader'[r]]
    BY DEF Change
  <2> QED BY <1>7, <2>1 DEF ReadersTyped
<1> QED BY <1>4, <1>5, <1>6, <1>7, <1>8 DEF FreshInv

LEMMA CommitKeeps ==
  ASSUME NEW fv, FreshInv(fv), NEW w \in Writers, NEW u \in Users, Commit(w, u)
  PROVE  FreshInv(fv)'
<1>1. /\ Change(u) /\ UNCHANGED <<version, completed, floor>> /\ UNCHANGED stored
      /\ pending' = [pending EXCEPT ![w] = [user |-> u, upto |-> data'[u]]]
  BY DEF Commit
<1>2. data'[u] \in Nat
  BY <1>1 DEF Change, FreshInv, WrittenTyped
<1>3. pending' \in [Writers -> [user : Owners, upto : Nat]]
  BY <1>1, <1>2 DEF FreshInv, WrittenTyped, Owners
<1>4. \A v \in Writers : pending'[v] = pending[v] \/ (pending'[v].user = u /\ pending'[v].upto = data'[u])
  BY <1>1 DEF FreshInv, WrittenTyped
<1> QED BY <1>1, <1>3, <1>4, ChangeKeeps

LEMMA CommitAccountKeeps ==
  ASSUME NEW fv, FreshInv(fv), NEW u \in Users, CommitAccount(u)
  PROVE  FreshInv(fv)'
<1>1. Change(u) /\ UNCHANGED <<version, completed, floor>> /\ UNCHANGED stored /\ UNCHANGED pending
  BY DEF CommitAccount
<1>2. pending' \in [Writers -> [user : Owners, upto : Nat]]
  BY <1>1 DEF FreshInv, WrittenTyped
<1> QED BY <1>1, <1>2, ChangeKeeps

LEMMA BumpLostKeeps ==
  ASSUME NEW fv, FreshInv(fv), NEW w \in Writers, BumpLost(w)
  PROVE  FreshInv(fv)'
<1>1. /\ UNCHANGED data /\ UNCHANGED version /\ UNCHANGED completed /\ UNCHANGED floor /\ UNCHANGED reader
      /\ UNCHANGED balance /\ UNCHANGED snapshot /\ UNCHANGED budget
      /\ pending' = [pending EXCEPT ![w] = [user |-> Nobody, upto |-> 0]]
  BY DEF BumpLost, stored
<1>2. Latest' = Latest
  BY <1>1 DEF Latest
<1>3. WrittenTyped'
  BY <1>1 DEF FreshInv, WrittenTyped, Owners
<1>4. WrittenFits'
  BY <1>1 DEF FreshInv, WrittenTyped, WrittenFits
<1>5. BalanceTyped' /\ SnapshotTyped' /\ BudgetTyped' /\ ReadersTyped' /\ BalanceFits(fv)' /\ BudgetFits'
      /\ \A v \in Users : fv[v] <= version'[v]
  BY <1>1, <1>2
  DEF FreshInv, BalanceTyped, SnapshotTyped, BudgetTyped, ReadersTyped, BalanceFits, BudgetFits, FreshShares
<1>6. \A r \in Readers : Fits(r, reader[r], fv)'
  BY <1>1, <1>2 DEF FreshInv, Fits, Stores, KeyHolds, FreshShares
<1> QED BY <1>3, <1>4, <1>5, <1>6 DEF FreshInv

\* Once the greatest version rises, nothing is stored under it and no reader
\* has its key: what counts from then on is the version each user has now.
LEMMA BumpVersionKeeps ==
  ASSUME NEW fv \in [Users -> Nat], FreshInv(fv), NEW w \in Writers, BumpVersion(w)
  PROVE  UserDataInv'
<1> DEFINE u == pending[w].user
           n == pending[w].upto
<1>1. u \in Users /\ n \in Nat /\ n <= data[u]
  BY DEF BumpVersion, FreshInv, WrittenTyped, WrittenFits, Owners
<1>2. /\ version' = [version EXCEPT ![u] = @ + 1]
      /\ completed' = [completed EXCEPT ![u] = Max({@, n})]
      /\ pending' = [pending EXCEPT ![w] = [user |-> Nobody, upto |-> 0]]
      /\ floor' = IF Greatest(version') > Greatest(version) THEN completed' ELSE floor
      /\ UNCHANGED data /\ UNCHANGED balance /\ UNCHANGED snapshot /\ UNCHANGED budget /\ UNCHANGED reader
  BY DEF BumpVersion, Bumped, Finish, stored
<1>3. WrittenTyped /\ WrittenFits
  BY DEF FreshInv
<1> HIDE DEF u, n
<1>4. /\ version' \in [Users -> Nat] /\ version'[u] > version[u]
      /\ \A v \in Users : v # u => version'[v] = version[v]
  BY <1>1, <1>2, <1>3 DEF WrittenTyped
<1>5. PICK m \in Nat : m = Max({completed[u], n}) /\ m >= completed[u] /\ m <= data[u]
  BY <1>1, <1>3, DataIs, MaxOfTwo
<1>6. /\ completed' \in [Users -> Nat]
      /\ \A v \in Users : completed'[v] >= completed[v] /\ completed'[v] <= data[v] /\ (v # u => completed'[v] = completed[v])
  <2>1. completed \in [Users -> Nat] /\ completed' = [completed EXCEPT ![u] = m]
    BY <1>2, <1>3, <1>5 DEF WrittenTyped
  <2>2. completed' \in [Users -> Nat] /\ completed'[u] = m /\ \A v \in Users : v # u => completed'[v] = completed[v]
    BY <1>1, <2>1
  <2>3. ASSUME NEW v \in Users PROVE completed'[v] >= completed[v] /\ completed'[v] <= data[v]
    <3>1. CASE v = u
      BY <1>5, <2>2, <3>1
    <3>2. CASE v # u
      <4>1. completed'[v] = completed[v] /\ completed[v] \in Nat /\ data[v] \in Nat /\ data[v] >= completed[v]
        BY <1>3, <2>2, <3>2, DataIs
      <4> QED BY <4>1
    <3> QED BY <3>1, <3>2
  <2> QED BY <2>2, <2>3
<1>7. Latest \in Nat /\ Latest' \in Nat /\ Latest <= Latest'
  <2>1. \A v \in Users : version[v] <= version'[v]
    BY <1>3, <1>4, DataIs
  <2>2. version \in [Users -> Nat]
    BY <1>3 DEF WrittenTyped
  <2> QED BY <1>4, <2>1, <2>2, GreatestRises, GreatestIs DEF Latest
<1>8. floor' = IF Latest' > Latest THEN completed' ELSE floor
  BY <1>2 DEF Latest
<1>9. WrittenTyped'
  BY <1>2, <1>3, <1>4, <1>6, <1>8 DEF WrittenTyped, Owners
<1>10. WrittenFits'
  <2>1. ASSUME NEW v \in Users PROVE floor'[v] <= completed'[v] /\ completed'[v] <= data'[v]
    <3>1. /\ completed'[v] \in Nat /\ completed'[v] >= completed[v] /\ completed'[v] <= data'[v]
          /\ floor[v] \in Nat /\ completed[v] \in Nat /\ floor[v] <= completed[v]
      BY <1>2, <1>3, <1>6, DataIs
    <3>2. floor'[v] = completed'[v] \/ floor'[v] = floor[v]
      BY <1>8
    <3> QED BY <3>1, <3>2
  <2>2. \A x \in Writers : pending'[x].user # Nobody => pending'[x].upto <= data'[pending'[x].user]
    BY <1>2, <1>3 DEF WrittenTyped, WrittenFits
  <2> QED BY <2>1, <2>2 DEF WrittenFits
<1>11. BalanceTyped' /\ SnapshotTyped' /\ BudgetTyped' /\ ReadersTyped'
  BY <1>2 DEF FreshInv, BalanceTyped, SnapshotTyped, BudgetTyped, ReadersTyped
<1> DEFINE gv == IF Latest' > Latest THEN version' ELSE fv
<1>12. gv \in [Users -> Nat] /\ \A v \in Users : gv[v] <= version'[v]
  <2>1. \A v \in Users : fv[v] <= version[v] /\ version[v] \in Nat /\ fv[v] \in Nat
    BY <1>3, DataIs DEF FreshInv
  <2>2. \A v \in Users : fv[v] <= version'[v]
    BY <1>4, <2>1
  <2> QED BY <1>4, <2>2
<1>13. PICK g \in [Users -> Nat] : g = gv
  BY <1>12
<1> HIDE DEF gv
\* What holds of a value that accounts for the present version of its user.
<1>14. ASSUME NEW v \in Users, NEW k \in Nat, NEW a, k <= version[v],
              k = version[v] => AtLeast(a, completed[v]), k >= fv[v] => AtLeast(a, floor[v])
       PROVE  /\ k <= version'[v]
              /\ k = version'[v] => AtLeast(a, completed'[v])
              /\ k >= g[v] => AtLeast(a, floor'[v])
  <2>1. version[v] \in Nat /\ version'[v] \in Nat
    BY <1>3, <1>4, DataIs
  <2>2. k <= version'[v] /\ (k = version'[v] => k = version[v] /\ v # u)
    BY <1>4, <1>14, <2>1
  <2>3. k = version'[v] => AtLeast(a, completed'[v])
    BY <1>6, <1>14, <2>2
  <2>4. k >= g[v] => AtLeast(a, floor'[v])
    <3>1. CASE Latest' > Latest
      BY <1>8, <1>13, <2>1, <2>2, <2>3, <3>1 DEF gv
    <3>2. CASE ~(Latest' > Latest)
      BY <1>8, <1>13, <1>14, <3>2 DEF gv
    <3> QED BY <3>1, <3>2
  <2> QED BY <2>2, <2>3, <2>4
<1>15. BalanceFits(g)'
  <2> SUFFICES ASSUME NEW k \in DOMAIN balance
               PROVE  /\ k[2] <= version'[k[1]]
                      /\ k[2] = version'[k[1]] => AtLeast(balance[k], completed'[k[1]])
                      /\ k[2] >= g[k[1]] => AtLeast(balance[k], floor'[k[1]])
    BY <1>2 DEF BalanceFits
  <2>1. k[1] \in Users /\ k[2] \in Nat
    BY DEF FreshInv, BalanceTyped
  <2>2. /\ k[2] <= version[k[1]]
        /\ k[2] = version[k[1]] => AtLeast(balance[k], completed[k[1]])
        /\ k[2] >= fv[k[1]] => AtLeast(balance[k], floor[k[1]])
    BY DEF FreshInv, BalanceFits
  <2> QED BY <1>14, <2>1, <2>2
\* A key is the greatest version only if that has not risen.
<1>16. \A k \in Nat : k <= Latest => k <= Latest' /\ (k = Latest' => k = Latest /\ floor' = floor /\ g = fv)
  BY <1>7, <1>8, <1>13 DEF gv
<1>17. BudgetFits'
  <2>1. \A k \in DOMAIN budget : k \in Nat /\ k <= Latest /\ (k = Latest => FreshShares(budget[k]))
    BY DEF FreshInv, BudgetTyped, BudgetFits
  <2>2. \A k \in DOMAIN budget : k <= Latest' /\ (k = Latest' => \A v \in DOMAIN budget[k] : AtLeast(budget[k][v], floor'[v]))
    BY <1>16, <2>1 DEF FreshShares
  <2> QED BY <1>2, <2>2 DEF BudgetFits, FreshShares
<1>18. ASSUME NEW r \in Readers PROVE Fits(r, reader[r], g)'
  <2>1. reader[r] \in ReaderStates /\ Fits(r, reader[r], fv) /\ reader'[r] = reader[r]
    BY <1>2, ReaderOf
  <2> DEFINE x == reader[r]
  <2>2. x.key \in Nat /\ x.version \in Nat /\ x.key <= Latest /\ (x.phase \in Busy => x.user \in Users)
    BY <2>1 DEF ReaderStates, Fits
  <2>3. x.phase = "store" /\ r \notin ProfileReaders => Stores(x, fv) /\ x.user \in Users
    BY <2>1 DEF Fits, Busy
  <2>4. x.phase = "store" /\ r \notin ProfileReaders => Stores(reader[r], g)'
    BY <1>14, <2>1, <2>2, <2>3 DEF Stores
  <2>5. x.key = Latest' => KeyHolds(r, reader[r], g)'
    <3> SUFFICES ASSUME x.key = Latest' PROVE KeyHolds(r, reader[r], g)'
      OBVIOUS
    <3>1. x.key = Latest /\ floor' = floor /\ g = fv
      BY <1>16, <2>2
    <3>2. KeyHolds(r, x, fv)
      BY <2>1, <3>1 DEF Fits
    <3> QED BY <2>1, <3>1, <3>2 DEF KeyHolds, FreshShares
  <2>6. x.key <= Latest'
    BY <1>16, <2>2
  <2>7. /\ x.phase \in Busy => x.user \in Users
        /\ x.phase = "keys" => x.todo # {} /\ x.shares = Empty
        /\ x.phase = "snapshot" => r \in ProfileReaders
        /\ x.phase \in {"expected", "save", "reread"} => x.value \in {Mixed, data'[x.user]}
    BY <1>2, <2>1 DEF Fits
  <2> QED BY <2>1, <2>4, <2>5, <2>6, <2>7 DEF Fits
<1>19. FreshInv(g)'
  BY <1>9, <1>10, <1>11, <1>12, <1>13, <1>15, <1>17, <1>18 DEF FreshInv
<1> QED BY <1>13, <1>19 DEF UserDataInv

-----------------------------------------------------------------------------
(* Theorems *)

LEMMA ReadKeeps ==
  ASSUME NEW fv, FreshInv(fv), NEW r \in Readers, Read(r)
  PROVE  FreshInv(fv)'
<1>1. CASE ReadFails(r)
  <2>1. To(r, Idle) /\ UNCHANGED written /\ UNCHANGED stored
    BY <1>1 DEF ReadFails
  <2> QED BY <2>1, ReadFailsKeeps
<1> QED BY <1>1, ReadVersionKeeps, ReadActualKeeps, ReadExpectedKeeps, RereadVersionKeeps,
           BalanceKeeps, ProfileKeeps, BudgetKeeps DEF Read

LEMMA StutterKeeps ==
  ASSUME NEW fv, FreshInv(fv), UNCHANGED vars
  PROVE  FreshInv(fv)'
<1>1. UNCHANGED written /\ UNCHANGED stored /\ UNCHANGED reader
  BY DEF vars
<1>2. UNCHANGED data /\ UNCHANGED version /\ UNCHANGED completed /\ UNCHANGED pending /\ UNCHANGED floor
  BY <1>1 DEF written
<1>3. Latest' = Latest
  BY <1>2 DEF Latest
<1>4. WrittenTyped' /\ WrittenFits' /\ ReadersTyped' /\ \A u \in Users : fv[u] <= version'[u]
  BY <1>1, <1>2 DEF FreshInv, WrittenTyped, WrittenFits, ReadersTyped
<1>5. \A r \in Readers : Fits(r, reader[r], fv)'
  BY <1>1, <1>2, <1>3 DEF FreshInv, Fits, Stores, KeyHolds, FreshShares
<1> QED BY <1>1, <1>4, <1>5, CachesStay DEF FreshInv

LEMMA NextUserData == UserDataInv /\ [Next]_vars => UserDataInv'
<1> SUFFICES ASSUME UserDataInv, [Next]_vars PROVE UserDataInv'
  OBVIOUS
<1>1. PICK fv \in [Users -> Nat] : FreshInv(fv)
  BY DEF UserDataInv
<1>2. FreshInv(fv)' => UserDataInv'
  BY DEF UserDataInv
<1>3. CASE Write
  <2>1. ASSUME NEW w \in Writers, BumpVersion(w) PROVE UserDataInv'
    BY <1>1, <2>1, BumpVersionKeeps
  <2> QED BY <1>1, <1>2, <1>3, <2>1, CommitKeeps, CommitAccountKeeps, BumpLostKeeps DEF Write
<1>4. CASE Ask
  BY <1>1, <1>2, <1>4, AskKeeps
<1>5. ASSUME NEW r \in Readers, Read(r) PROVE UserDataInv'
  BY <1>1, <1>2, <1>5, ReadKeeps
<1>6. CASE UNCHANGED vars
  BY <1>1, <1>2, <1>6, StutterKeeps
<1> QED BY <1>3, <1>4, <1>5, <1>6 DEF Next

LEMMA InvMissesOnlyOverlaps == UserDataInv => BalanceMissesOnlyOverlaps
<1> SUFFICES ASSUME UserDataInv, NEW u \in Users, <<u, version[u]>> \in DOMAIN balance
             PROVE  AtLeast(balance[<<u, version[u]>>], completed[u])
  BY DEF BalanceMissesOnlyOverlaps
<1> DEFINE k == <<u, version[u]>>
<1>1. k \in DOMAIN balance /\ k[1] = u /\ k[2] = version[u]
  OBVIOUS
<1>2. PICK fv : BalanceFits(fv)
  BY DEF UserDataInv, FreshInv
<1> HIDE DEF k
<1>3. AtLeast(balance[k], completed[u])
  BY <1>1, <1>2 DEF BalanceFits
<1> QED BY <1>3 DEF k

LEMMA InvAsFreshAsItsKey == UserDataInv => BudgetAsFreshAsItsKey
BY DEF UserDataInv, FreshInv, BudgetFits, FreshShares, Latest, BudgetAsFreshAsItsKey

\* Writers commit before they bump, and a balance is stored under the version
\* read last: however many members, writers and readers there are, an entry
\* under the present version accounts for every change whose handler has bumped
\* it, unless a change was committed while it was computed, or Redis failed.
THEOREM BalancesMissOnlyOverlaps == Spec => []BalanceMissesOnlyOverlaps
<1> QED BY InitUserData, NextUserData, InvMissesOnlyOverlaps, PTL DEF Spec

\* The key of a group's budget is read before the balances of its members: the
\* entry under the greatest version accounts for every change bumped when that
\* version rose to it.
THEOREM BudgetsAreAsFreshAsTheirKey == Spec => []BudgetAsFreshAsItsKey
<1> QED BY InitUserData, NextUserData, InvAsFreshAsItsKey, PTL DEF Spec

=============================================================================
