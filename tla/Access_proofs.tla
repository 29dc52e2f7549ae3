----------------------------- MODULE Access_proofs -----------------------------
(***************************************************************************)
(* Proofs about who may act: the sessions of AuthSessions and the members  *)
(* of GroupMembership, for any threads, requests, tokens and invitations.  *)
(* For each component an invariant of its own types and of what its        *)
(* threads hold comes first, and the other theorems add to it.             *)
(***************************************************************************)
EXTENDS AuthSessions, GroupMembership, FiniteSetTheorems, TLAPS

-----------------------------------------------------------------------------
(* AuthSessions: types, and what a thread works on *)

\* The sessions and passwords the threads have read.
AccessStates == [at : AccessPhases, session : Sessions \union {NoSession}, password : Nat,
                 swept : SUBSET Sessions, tokens : SUBSET Tokens]
AccessHolds ==
    /\ access \in [AccessThreads -> AccessStates]
    /\ \A a \in AccessThreads :
        /\ access[a].password <= password
        /\ access[a].at \in {"rotating", "revoking"} =>
              access[a].session \in Sessions /\ session[access[a].session] # "none"

\* Every change of the password was asked for, and so was every one under way.
Changing == {a \in AccessThreads : access[a].at \in {"verified", "sweeping"}}
ChangesAsked == IsFiniteSet(Changing) /\ password + Cardinality(Changing) <= authRequests

GatewayHolds ==
    /\ gateway \in [GatewayThreads -> [at : {"idle", "storing"}, token : Tokens \union {NoToken}]]
    /\ \A g \in GatewayThreads : gateway[g].at = "storing" => gateway[g].token \in Tokens

AInv == AuthTypeOK /\ AccessHolds /\ ChangesAsked /\ GatewayHolds

\* What an uncommitted change of the password has not swept is late.
Swept == \A a \in AccessThreads : access[a].at = "sweeping" =>
            \A s \in Active : s \in access[a].swept \/ s \in late

SweepInv == Swept /\ OldSessionsRevoked

-----------------------------------------------------------------------------
(* What a step of a thread does to the changes under way *)

\* A thread that leaves change_password, or was elsewhere.
LEMMA ChangingLeft ==
  ASSUME AInv, NEW a \in AccessThreads, NEW x, AccessTo(a, x), x.at \notin {"verified", "sweeping"}
  PROVE  /\ Changing' = Changing \ {a}
         /\ IsFiniteSet(Changing')
         /\ Cardinality(Changing) \in Nat /\ Cardinality(Changing') \in Nat
         /\ Cardinality(Changing') =
               IF a \in Changing THEN Cardinality(Changing) - 1 ELSE Cardinality(Changing)
<1>1. Changing' = Changing \ {a}
  BY DEF Changing, AccessTo, AInv, AccessHolds
<1>2. IsFiniteSet(Changing)
  BY DEF AInv, ChangesAsked
<1> QED BY <1>1, <1>2, FS_RemoveElement, FS_CardinalityType

\* A thread that begins change_password, or goes on with it.
LEMMA ChangingJoined ==
  ASSUME AInv, NEW a \in AccessThreads, NEW x, AccessTo(a, x), x.at \in {"verified", "sweeping"}
  PROVE  /\ Changing' = Changing \union {a}
         /\ IsFiniteSet(Changing')
         /\ Cardinality(Changing) \in Nat /\ Cardinality(Changing') \in Nat
         /\ Cardinality(Changing') =
               IF a \in Changing THEN Cardinality(Changing) ELSE Cardinality(Changing) + 1
<1>1. Changing' = Changing \union {a}
  BY DEF Changing, AccessTo, AInv, AccessHolds
<1>2. IsFiniteSet(Changing)
  BY DEF AInv, ChangesAsked
<1> QED BY <1>1, <1>2, FS_AddElement, FS_CardinalityType

-----------------------------------------------------------------------------
(* Types *)

LEMMA InitAInv == AuthInit => AInv
<1> SUFFICES ASSUME AuthInit PROVE AInv
  OBVIOUS
<1> USE AuthAssumption DEF AuthInit, AccessIdle, GatewayIdle
<1>1. AuthTypeOK
  <2>1. {expired, late} \subseteq SUBSET Sessions /\ {cached, index, gap} \subseteq SUBSET Tokens
    OBVIOUS
  <2>2. \A a \in AccessThreads : access[a].at \in AccessPhases /\ access[a].swept \subseteq Sessions
    BY DEF AccessPhases
  <2>3. password \in 0..MaxRequests /\ authRequests \in 0..MaxRequests /\ issued \in [Sessions -> 0..MaxRequests]
    OBVIOUS
  <2>4. session \in [Sessions -> {"none", "active", "revoked"}]
    OBVIOUS
  <2> QED BY <2>1, <2>2, <2>3, <2>4 DEF AuthTypeOK
<1>2. AccessHolds
  BY DEF AccessHolds, AccessStates, AccessPhases
<1>3. ChangesAsked
  <2>1. Changing = {}
    BY DEF Changing
  <2> QED BY <2>1, FS_EmptySet DEF ChangesAsked
<1>4. GatewayHolds
  BY DEF GatewayHolds
<1> QED BY <1>1, <1>2, <1>3, <1>4 DEF AInv

\* A thread takes up a state outside of change_password.
LEMMA AccessMoves ==
  ASSUME AInv, NEW a \in AccessThreads, NEW x \in AccessStates, AccessTo(a, x),
         x.at \notin {"verified", "sweeping"}, x.password <= password,
         x.at \in {"rotating", "revoking"} => x.session \in Sessions /\ session[x.session] # "none",
         \A s \in Sessions : session[s] # "none" => session'[s] # "none",
         password' = password, authRequests' \in {authRequests, authRequests + 1}
  PROVE  AccessHolds' /\ ChangesAsked'
<1>1. /\ access' \in [AccessThreads -> AccessStates]
      /\ \A b \in AccessThreads : access'[b] = IF b = a THEN x ELSE access[b]
  BY DEF AccessTo, AInv, AccessHolds
<1>2. AccessHolds'
  BY <1>1 DEF AInv, AccessHolds
<1>3. IsFiniteSet(Changing') /\ Cardinality(Changing') <= Cardinality(Changing)
      /\ Cardinality(Changing) \in Nat /\ Cardinality(Changing') \in Nat
  BY ChangingLeft
<1>4. password \in Nat /\ authRequests \in Nat /\ password + Cardinality(Changing) <= authRequests
  BY AuthAssumption DEF AInv, AuthTypeOK, ChangesAsked
<1>5. ChangesAsked'
  BY <1>3, <1>4 DEF ChangesAsked
<1> QED BY <1>2, <1>5

\* The states a handler of access_service keeps, outside of the sweep.
Holding(p, s, n, T) == [at |-> p, session |-> s, password |-> n, swept |-> {}, tokens |-> T]

LEMMA HoldingTyped ==
  ASSUME NEW p \in AccessPhases, NEW s \in Sessions \union {NoSession}, NEW n \in Nat,
         NEW T \in SUBSET Tokens
  PROVE  /\ Holding(p, s, n, T) \in AccessStates
         /\ Holding(p, s, n, T).at = p /\ Holding(p, s, n, T).session = s
         /\ Holding(p, s, n, T).password = n
BY DEF Holding, AccessStates

LEMMA HoldingIs ==
  /\ \A p : [AccessIdle EXCEPT !.at = p] = Holding(p, NoSession, 0, {})
  /\ \A p, s : [AccessIdle EXCEPT !.at = p, !.session = s] = Holding(p, s, 0, {})
  /\ \A p, n : [AccessIdle EXCEPT !.at = p, !.password = n] = Holding(p, NoSession, n, {})
  /\ \A p, s, n : [AccessIdle EXCEPT !.at = p, !.session = s, !.password = n] = Holding(p, s, n, {})
  /\ \A p, T : [AccessIdle EXCEPT !.at = p, !.tokens = T] = Holding(p, NoSession, 0, T)
  /\ AccessIdle = Holding("idle", NoSession, 0, {})
<1>1. \A p : [AccessIdle EXCEPT !.at = p] = Holding(p, NoSession, 0, {})
  BY DEF AccessIdle, Holding
<1>2. \A p, s, n, T, x :
         /\ [Holding(p, s, n, T) EXCEPT !.session = x] = Holding(p, x, n, T)
         /\ [Holding(p, s, n, T) EXCEPT !.password = x] = Holding(p, s, x, T)
         /\ [Holding(p, s, n, T) EXCEPT !.tokens = x] = Holding(p, s, n, x)
  BY DEF Holding
<1>3. ASSUME NEW p, NEW s, NEW n, NEW T
      PROVE  /\ [AccessIdle EXCEPT !.at = p, !.session = s] = Holding(p, s, 0, {})
             /\ [AccessIdle EXCEPT !.at = p, !.password = n] = Holding(p, NoSession, n, {})
             /\ [AccessIdle EXCEPT !.at = p, !.session = s, !.password = n] = Holding(p, s, n, {})
             /\ [AccessIdle EXCEPT !.at = p, !.tokens = T] = Holding(p, NoSession, 0, T)
  <2> DEFINE r == [AccessIdle EXCEPT !.at = p]
  <2>1. r = Holding(p, NoSession, 0, {})
    BY <1>1
  <2>2. /\ [AccessIdle EXCEPT !.at = p, !.session = s] = [r EXCEPT !.session = s]
        /\ [AccessIdle EXCEPT !.at = p, !.password = n] = [r EXCEPT !.password = n]
        /\ [AccessIdle EXCEPT !.at = p, !.session = s, !.password = n]
              = [[r EXCEPT !.session = s] EXCEPT !.password = n]
        /\ [AccessIdle EXCEPT !.at = p, !.tokens = T] = [r EXCEPT !.tokens = T]
    BY Zenon
  <2> HIDE DEF r
  <2>3. [r EXCEPT !.session = s] = Holding(p, s, 0, {}) /\ [r EXCEPT !.tokens = T] = Holding(p, NoSession, 0, T)
    BY <1>2, <2>1
  <2>4. [r EXCEPT !.password = n] = Holding(p, NoSession, n, {})
    BY <1>2, <2>1
  <2>5. [[r EXCEPT !.session = s] EXCEPT !.password = n] = [Holding(p, s, 0, {}) EXCEPT !.password = n]
    BY <2>3
  <2>6. [Holding(p, s, 0, {}) EXCEPT !.password = n] = Holding(p, s, n, {})
    BY <1>2
  <2> QED BY <2>2, <2>3, <2>4, <2>5, <2>6
<1>4. AccessIdle = Holding("idle", NoSession, 0, {})
  BY DEF AccessIdle, Holding
<1> QED BY <1>1, <1>3, <1>4, Zenon

LEMMA RegisterAInv ==
  ASSUME AInv, NEW a \in AccessThreads, Register(a)
  PROVE  AInv'
<1> USE AuthAssumption
<1>1. /\ AuthTypeOK /\ AccessHolds /\ GatewayHolds
      /\ access[a] \in AccessStates /\ password \in Nat /\ authRequests \in Nat
      /\ index \in SUBSET Tokens
  BY DEF AInv, AuthTypeOK, AccessHolds
<1> DEFINE x == Holding("registering", NoSession, 0, {})
<1>2. AccessTo(a, x)
  BY HoldingIs DEF Register
<1>3. /\ x \in AccessStates /\ x.at \notin {"verified", "sweeping"} /\ x.password <= password
      /\ x.at \in {"rotating", "revoking"} => x.session \in Sessions /\ session[x.session] # "none"
  BY <1>1, HoldingTyped DEF AccessPhases
<1> HIDE DEF x
<1>4. /\ \A z \in Sessions : session[z] # "none" => session'[z] # "none"
      /\ password' = password /\ authRequests' \in {authRequests, authRequests + 1}
  BY <1>1 DEF Register, Ask, accounts, AuthTypeOK, AccessAt, AccessHolds
<1>5. AccessHolds' /\ ChangesAsked'
  BY <1>2, <1>3, <1>4, AccessMoves
<1>6. AuthTypeOK'
  BY <1>1, <1>5 DEF Register, AuthTypeOK, AccessStates, Ask, accounts, cache, Issue, AccessHolds, AccessAt
<1>7. GatewayHolds'
  BY <1>1 DEF Register, GatewayHolds
<1> QED BY <1>5, <1>6, <1>7 DEF AInv

LEMMA CommitUserAInv ==
  ASSUME AInv, NEW a \in AccessThreads, CommitUser(a)
  PROVE  AInv'
<1> USE AuthAssumption
<1>1. /\ AuthTypeOK /\ AccessHolds /\ GatewayHolds
      /\ access[a] \in AccessStates /\ password \in Nat /\ authRequests \in Nat
      /\ index \in SUBSET Tokens
  BY DEF AInv, AuthTypeOK, AccessHolds
<1> DEFINE x == Holding("idle", NoSession, 0, {})
<1>2. AccessTo(a, x)
  BY HoldingIs DEF CommitUser
<1>3. /\ x \in AccessStates /\ x.at \notin {"verified", "sweeping"} /\ x.password <= password
      /\ x.at \in {"rotating", "revoking"} => x.session \in Sessions /\ session[x.session] # "none"
  BY <1>1, HoldingTyped DEF AccessPhases
<1> HIDE DEF x
<1>4. /\ \A z \in Sessions : session[z] # "none" => session'[z] # "none"
      /\ password' = password /\ authRequests' \in {authRequests, authRequests + 1}
  BY <1>1 DEF CommitUser, Ask, accounts, AuthTypeOK, AccessAt, AccessHolds
<1>5. AccessHolds' /\ ChangesAsked'
  BY <1>2, <1>3, <1>4, AccessMoves
<1>6. AuthTypeOK'
  BY <1>1, <1>5 DEF CommitUser, AuthTypeOK, AccessStates, Ask, accounts, cache, Issue, AccessHolds, AccessAt
<1>7. GatewayHolds'
  BY <1>1 DEF CommitUser, GatewayHolds
<1> QED BY <1>5, <1>6, <1>7 DEF AInv

LEMMA LoginAInv ==
  ASSUME AInv, NEW a \in AccessThreads, Login(a)
  PROVE  AInv'
<1> USE AuthAssumption
<1>1. /\ AuthTypeOK /\ AccessHolds /\ GatewayHolds
      /\ access[a] \in AccessStates /\ password \in Nat /\ authRequests \in Nat
      /\ index \in SUBSET Tokens
  BY DEF AInv, AuthTypeOK, AccessHolds
<1> DEFINE x == Holding("authenticated", NoSession, password, {})
<1>2. AccessTo(a, x)
  BY HoldingIs DEF Login
<1>3. /\ x \in AccessStates /\ x.at \notin {"verified", "sweeping"} /\ x.password <= password
      /\ x.at \in {"rotating", "revoking"} => x.session \in Sessions /\ session[x.session] # "none"
  BY <1>1, HoldingTyped DEF AccessPhases
<1> HIDE DEF x
<1>4. /\ \A z \in Sessions : session[z] # "none" => session'[z] # "none"
      /\ password' = password /\ authRequests' \in {authRequests, authRequests + 1}
  BY <1>1 DEF Login, Ask, accounts, AuthTypeOK, AccessAt, AccessHolds
<1>5. AccessHolds' /\ ChangesAsked'
  BY <1>2, <1>3, <1>4, AccessMoves
<1>6. AuthTypeOK'
  BY <1>1, <1>5 DEF Login, AuthTypeOK, AccessStates, Ask, accounts, cache, Issue, AccessHolds, AccessAt
<1>7. GatewayHolds'
  BY <1>1 DEF Login, GatewayHolds
<1> QED BY <1>5, <1>6, <1>7 DEF AInv

LEMMA CommitLoginAInv ==
  ASSUME AInv, NEW a \in AccessThreads, NEW s \in Sessions, CommitLogin(a, s)
  PROVE  AInv'
<1> USE AuthAssumption
<1>1. /\ AuthTypeOK /\ AccessHolds /\ GatewayHolds
      /\ access[a] \in AccessStates /\ password \in Nat /\ authRequests \in Nat
      /\ index \in SUBSET Tokens
  BY DEF AInv, AuthTypeOK, AccessHolds
<1> DEFINE x == Holding("idle", NoSession, 0, {})
<1>2. AccessTo(a, x)
  BY HoldingIs DEF CommitLogin
<1>3. /\ x \in AccessStates /\ x.at \notin {"verified", "sweeping"} /\ x.password <= password
      /\ x.at \in {"rotating", "revoking"} => x.session \in Sessions /\ session[x.session] # "none"
  BY <1>1, HoldingTyped DEF AccessPhases
<1> HIDE DEF x
<1>4. /\ \A z \in Sessions : session[z] # "none" => session'[z] # "none"
      /\ password' = password /\ authRequests' \in {authRequests, authRequests + 1}
  BY <1>1 DEF CommitLogin, Ask, accounts, AuthTypeOK, AccessAt, AccessHolds
<1>5. AccessHolds' /\ ChangesAsked'
  BY <1>2, <1>3, <1>4, AccessMoves
<1>6. AuthTypeOK'
  BY <1>1, <1>5 DEF CommitLogin, AuthTypeOK, AccessStates, Ask, accounts, cache, Issue, AccessHolds, AccessAt
<1>7. GatewayHolds'
  BY <1>1 DEF CommitLogin, GatewayHolds
<1> QED BY <1>5, <1>6, <1>7 DEF AInv

LEMMA LogoutAInv ==
  ASSUME AInv, NEW a \in AccessThreads, NEW s \in Sessions, Logout(a, s)
  PROVE  AInv'
<1> USE AuthAssumption
<1>1. /\ AuthTypeOK /\ AccessHolds /\ GatewayHolds
      /\ access[a] \in AccessStates /\ password \in Nat /\ authRequests \in Nat
      /\ session[s] # "none"
  BY DEF AInv, AuthTypeOK, AccessHolds, Logout
<1> DEFINE x == Holding("revoking", s, 0, {})
<1>2. AccessTo(a, x)
  BY HoldingIs DEF Logout
<1>3. /\ x \in AccessStates /\ x.at \notin {"verified", "sweeping"} /\ x.password <= password
      /\ x.at \in {"rotating", "revoking"} => x.session \in Sessions /\ session[x.session] # "none"
  BY <1>1, HoldingTyped DEF AccessPhases
<1> HIDE DEF x
<1>4. /\ \A z \in Sessions : session[z] # "none" => session'[z] # "none"
      /\ password' = password /\ authRequests' \in {authRequests, authRequests + 1}
  BY <1>1 DEF Logout, Ask, accounts, AuthTypeOK, AccessAt, AccessHolds
<1>5. AccessHolds' /\ ChangesAsked'
  BY <1>2, <1>3, <1>4, AccessMoves
<1>6. AuthTypeOK'
  BY <1>1, <1>5 DEF Logout, AuthTypeOK, AccessStates, Ask, accounts, cache, Issue, AccessHolds, AccessAt
<1>7. GatewayHolds'
  BY <1>1 DEF Logout, GatewayHolds
<1> QED BY <1>5, <1>6, <1>7 DEF AInv

LEMMA CommitLogoutAInv ==
  ASSUME AInv, NEW a \in AccessThreads, CommitLogout(a)
  PROVE  AInv'
<1> USE AuthAssumption
<1>1. /\ AuthTypeOK /\ AccessHolds /\ GatewayHolds
      /\ access[a] \in AccessStates /\ password \in Nat /\ authRequests \in Nat
      /\ index \in SUBSET Tokens
  BY DEF AInv, AuthTypeOK, AccessHolds
<1> DEFINE x == Holding("idle", NoSession, 0, {})
<1>2. AccessTo(a, x)
  BY HoldingIs DEF CommitLogout
<1>3. /\ x \in AccessStates /\ x.at \notin {"verified", "sweeping"} /\ x.password <= password
      /\ x.at \in {"rotating", "revoking"} => x.session \in Sessions /\ session[x.session] # "none"
  BY <1>1, HoldingTyped DEF AccessPhases
<1> HIDE DEF x
<1>4. /\ \A z \in Sessions : session[z] # "none" => session'[z] # "none"
      /\ password' = password /\ authRequests' \in {authRequests, authRequests + 1}
  BY <1>1 DEF CommitLogout, Ask, accounts, AuthTypeOK, AccessAt, AccessHolds
<1>5. AccessHolds' /\ ChangesAsked'
  BY <1>2, <1>3, <1>4, AccessMoves
<1>6. AuthTypeOK'
  BY <1>1, <1>5 DEF CommitLogout, AuthTypeOK, AccessStates, Ask, accounts, cache, Issue, AccessHolds, AccessAt
<1>7. GatewayHolds'
  BY <1>1 DEF CommitLogout, GatewayHolds
<1> QED BY <1>5, <1>6, <1>7 DEF AInv

LEMMA RefreshAInv ==
  ASSUME AInv, NEW a \in AccessThreads, NEW s \in Sessions, Refresh(a, s)
  PROVE  AInv'
<1> USE AuthAssumption
<1>1. /\ AuthTypeOK /\ AccessHolds /\ GatewayHolds
      /\ access[a] \in AccessStates /\ password \in Nat /\ authRequests \in Nat
      /\ session[s] # "none"
  BY DEF AInv, AuthTypeOK, AccessHolds, Refresh
<1> DEFINE x == Holding("rotating", s, password, {})
<1>2. AccessTo(a, x)
  BY HoldingIs DEF Refresh
<1>3. /\ x \in AccessStates /\ x.at \notin {"verified", "sweeping"} /\ x.password <= password
      /\ x.at \in {"rotating", "revoking"} => x.session \in Sessions /\ session[x.session] # "none"
  BY <1>1, HoldingTyped DEF AccessPhases
<1> HIDE DEF x
<1>4. /\ \A z \in Sessions : session[z] # "none" => session'[z] # "none"
      /\ password' = password /\ authRequests' \in {authRequests, authRequests + 1}
  BY <1>1 DEF Refresh, Ask, accounts, AuthTypeOK, AccessAt, AccessHolds
<1>5. AccessHolds' /\ ChangesAsked'
  BY <1>2, <1>3, <1>4, AccessMoves
<1>6. AuthTypeOK'
  BY <1>1, <1>5 DEF Refresh, AuthTypeOK, AccessStates, Ask, accounts, cache, Issue, AccessHolds, AccessAt
<1>7. GatewayHolds'
  BY <1>1 DEF Refresh, GatewayHolds
<1> QED BY <1>5, <1>6, <1>7 DEF AInv

LEMMA CommitRefreshAInv ==
  ASSUME AInv, NEW a \in AccessThreads, NEW s \in Sessions, CommitRefresh(a, s)
  PROVE  AInv'
<1> USE AuthAssumption
<1>1. /\ AuthTypeOK /\ AccessHolds /\ GatewayHolds
      /\ access[a] \in AccessStates /\ password \in Nat /\ authRequests \in Nat
      /\ index \in SUBSET Tokens
  BY DEF AInv, AuthTypeOK, AccessHolds
<1> DEFINE x == Holding("idle", NoSession, 0, {})
<1>2. AccessTo(a, x)
  BY HoldingIs DEF CommitRefresh
<1>3. /\ x \in AccessStates /\ x.at \notin {"verified", "sweeping"} /\ x.password <= password
      /\ x.at \in {"rotating", "revoking"} => x.session \in Sessions /\ session[x.session] # "none"
  BY <1>1, HoldingTyped DEF AccessPhases
<1> HIDE DEF x
<1>4. /\ \A z \in Sessions : session[z] # "none" => session'[z] # "none"
      /\ password' = password /\ authRequests' \in {authRequests, authRequests + 1}
  BY <1>1 DEF CommitRefresh, Ask, accounts, AuthTypeOK, AccessAt, AccessHolds
<1>5. AccessHolds' /\ ChangesAsked'
  BY <1>2, <1>3, <1>4, AccessMoves
<1>6. AuthTypeOK'
  BY <1>1, <1>5 DEF CommitRefresh, AuthTypeOK, AccessStates, Ask, accounts, cache, Issue, AccessHolds, AccessAt
<1>7. GatewayHolds'
  BY <1>1 DEF CommitRefresh, GatewayHolds
<1> QED BY <1>5, <1>6, <1>7 DEF AInv

LEMMA ReadIndexAInv ==
  ASSUME AInv, NEW a \in AccessThreads, ReadIndex(a)
  PROVE  AInv'
<1> USE AuthAssumption
<1>1. /\ AuthTypeOK /\ AccessHolds /\ GatewayHolds
      /\ access[a] \in AccessStates /\ password \in Nat /\ authRequests \in Nat
      /\ index \in SUBSET Tokens
  BY DEF AInv, AuthTypeOK, AccessHolds
<1> DEFINE x == IF index = {} THEN Holding("idle", NoSession, 0, {})
                   ELSE Holding("invalidating", NoSession, 0, index)
<1>2. AccessTo(a, x)
  BY HoldingIs DEF ReadIndex
<1>3. /\ x \in AccessStates /\ x.at \notin {"verified", "sweeping"} /\ x.password <= password
      /\ x.at \in {"rotating", "revoking"} => x.session \in Sessions /\ session[x.session] # "none"
  BY <1>1, HoldingTyped DEF AccessPhases
<1> HIDE DEF x
<1>4. /\ \A z \in Sessions : session[z] # "none" => session'[z] # "none"
      /\ password' = password /\ authRequests' \in {authRequests, authRequests + 1}
  BY <1>1 DEF ReadIndex, Ask, accounts, AuthTypeOK, AccessAt, AccessHolds
<1>5. AccessHolds' /\ ChangesAsked'
  BY <1>2, <1>3, <1>4, AccessMoves
<1>6. AuthTypeOK'
  BY <1>1, <1>5 DEF ReadIndex, AuthTypeOK, AccessStates, Ask, accounts, cache, Issue, AccessHolds, AccessAt
<1>7. GatewayHolds'
  BY <1>1 DEF ReadIndex, GatewayHolds
<1> QED BY <1>5, <1>6, <1>7 DEF AInv

LEMMA DeleteEntriesAInv ==
  ASSUME AInv, NEW a \in AccessThreads, DeleteEntries(a)
  PROVE  AInv'
<1> USE AuthAssumption
<1>1. /\ AuthTypeOK /\ AccessHolds /\ GatewayHolds
      /\ access[a] \in AccessStates /\ password \in Nat /\ authRequests \in Nat
      /\ index \in SUBSET Tokens
  BY DEF AInv, AuthTypeOK, AccessHolds
<1> DEFINE x == Holding("idle", NoSession, 0, {})
<1>2. AccessTo(a, x)
  BY HoldingIs DEF DeleteEntries
<1>3. /\ x \in AccessStates /\ x.at \notin {"verified", "sweeping"} /\ x.password <= password
      /\ x.at \in {"rotating", "revoking"} => x.session \in Sessions /\ session[x.session] # "none"
  BY <1>1, HoldingTyped DEF AccessPhases
<1> HIDE DEF x
<1>4. /\ \A z \in Sessions : session[z] # "none" => session'[z] # "none"
      /\ password' = password /\ authRequests' \in {authRequests, authRequests + 1}
  BY <1>1 DEF DeleteEntries, Ask, accounts, AuthTypeOK, AccessAt, AccessHolds
<1>5. AccessHolds' /\ ChangesAsked'
  BY <1>2, <1>3, <1>4, AccessMoves
<1>6. AuthTypeOK'
  BY <1>1, <1>5 DEF DeleteEntries, AuthTypeOK, AccessStates, Ask, accounts, cache, Issue, AccessHolds, AccessAt
<1>7. GatewayHolds'
  BY <1>1 DEF DeleteEntries, GatewayHolds
<1> QED BY <1>5, <1>6, <1>7 DEF AInv

LEMMA InvalidationFailsAInv ==
  ASSUME AInv, NEW a \in AccessThreads, InvalidationFails(a)
  PROVE  AInv'
<1> USE AuthAssumption
<1>1. /\ AuthTypeOK /\ AccessHolds /\ GatewayHolds
      /\ access[a] \in AccessStates /\ password \in Nat /\ authRequests \in Nat
      /\ index \in SUBSET Tokens
  BY DEF AInv, AuthTypeOK, AccessHolds
<1> DEFINE x == Holding("idle", NoSession, 0, {})
<1>2. AccessTo(a, x)
  BY HoldingIs DEF InvalidationFails
<1>3. /\ x \in AccessStates /\ x.at \notin {"verified", "sweeping"} /\ x.password <= password
      /\ x.at \in {"rotating", "revoking"} => x.session \in Sessions /\ session[x.session] # "none"
  BY <1>1, HoldingTyped DEF AccessPhases
<1> HIDE DEF x
<1>4. /\ \A z \in Sessions : session[z] # "none" => session'[z] # "none"
      /\ password' = password /\ authRequests' \in {authRequests, authRequests + 1}
  BY <1>1 DEF InvalidationFails, Ask, accounts, AuthTypeOK, AccessAt, AccessHolds
<1>5. AccessHolds' /\ ChangesAsked'
  BY <1>2, <1>3, <1>4, AccessMoves
<1>6. AuthTypeOK'
  BY <1>1, <1>5 DEF InvalidationFails, AuthTypeOK, AccessStates, Ask, accounts, cache, Issue, AccessHolds, AccessAt
<1>7. GatewayHolds'
  BY <1>1 DEF InvalidationFails, GatewayHolds
<1> QED BY <1>5, <1>6, <1>7 DEF AInv

LEMMA AccessFailsAInv ==
  ASSUME AInv, NEW a \in AccessThreads, AccessFails(a)
  PROVE  AInv'
<1> USE AuthAssumption
<1>1. /\ AuthTypeOK /\ AccessHolds /\ GatewayHolds
      /\ access[a] \in AccessStates /\ password \in Nat /\ authRequests \in Nat
      /\ index \in SUBSET Tokens
  BY DEF AInv, AuthTypeOK, AccessHolds
<1> DEFINE x == Holding("idle", NoSession, 0, {})
<1>2. AccessTo(a, x)
  BY HoldingIs DEF AccessFails
<1>3. /\ x \in AccessStates /\ x.at \notin {"verified", "sweeping"} /\ x.password <= password
      /\ x.at \in {"rotating", "revoking"} => x.session \in Sessions /\ session[x.session] # "none"
  BY <1>1, HoldingTyped DEF AccessPhases
<1> HIDE DEF x
<1>4. /\ \A z \in Sessions : session[z] # "none" => session'[z] # "none"
      /\ password' = password /\ authRequests' \in {authRequests, authRequests + 1}
  BY <1>1 DEF AccessFails, Ask, accounts, AuthTypeOK, AccessAt, AccessHolds
<1>5. AccessHolds' /\ ChangesAsked'
  BY <1>2, <1>3, <1>4, AccessMoves
<1>6. AuthTypeOK'
  BY <1>1, <1>5 DEF AccessFails, AuthTypeOK, AccessStates, Ask, accounts, cache, Issue, AccessHolds, AccessAt
<1>7. GatewayHolds'
  BY <1>1 DEF AccessFails, GatewayHolds
<1> QED BY <1>5, <1>6, <1>7 DEF AInv

\* A change of the password is asked for.
LEMMA ChangePasswordAInv ==
  ASSUME AInv, NEW a \in AccessThreads, ChangePassword(a)
  PROVE  AInv'
<1> USE AuthAssumption
<1>1. /\ AuthTypeOK /\ AccessHolds /\ GatewayHolds
      /\ password \in Nat /\ authRequests \in Nat /\ password + Cardinality(Changing) <= authRequests
  BY DEF AInv, AuthTypeOK, AccessHolds, ChangesAsked
<1> DEFINE x == Holding("verified", NoSession, password, {})
<1>2. AccessTo(a, x)
  BY HoldingIs DEF ChangePassword
<1>3. x \in AccessStates /\ x.at = "verified" /\ x.password = password
  BY <1>1, HoldingTyped DEF AccessPhases
<1> HIDE DEF x
<1>4. authRequests' = authRequests + 1 /\ a \notin Changing
  BY DEF ChangePassword, Ask, AccessAt, Changing
<1>5. AccessHolds'
  BY <1>1, <1>2, <1>3 DEF ChangePassword, AccessTo, AccessHolds, accounts
<1>6. AuthTypeOK'
  BY <1>1, <1>5 DEF ChangePassword, AuthTypeOK, AccessStates, Ask, accounts, cache, AccessHolds
<1>7. ChangesAsked'
  <2>1. /\ IsFiniteSet(Changing') /\ Cardinality(Changing) \in Nat
        /\ Cardinality(Changing') = Cardinality(Changing) + 1
    BY <1>2, <1>3, <1>4, ChangingJoined
  <2>2. password' = password
    BY DEF ChangePassword, accounts
  <2> QED BY <1>1, <1>4, <2>1, <2>2 DEF ChangesAsked
<1> QED BY <1>5, <1>6, <1>7 DEF AInv, ChangePassword, GatewayHolds

\* The change locks and revokes the sessions that are active.
LEMMA SweepAInv ==
  ASSUME AInv, NEW a \in AccessThreads, Sweep(a)
  PROVE  AInv'
<1> USE AuthAssumption
<1>1. /\ AuthTypeOK /\ AccessHolds /\ GatewayHolds /\ access[a] \in AccessStates
      /\ password \in Nat /\ authRequests \in Nat /\ password + Cardinality(Changing) <= authRequests
  BY DEF AInv, AuthTypeOK, AccessHolds, ChangesAsked
<1> DEFINE x == [access[a] EXCEPT !.at = "sweeping", !.swept = {s \in Sessions : session[s] = "active"}]
<1>2. AccessTo(a, x)
  BY DEF Sweep
<1>3. x \in AccessStates /\ x.at = "sweeping" /\ x.password = access[a].password
  BY <1>1 DEF AccessStates, AccessPhases
<1> HIDE DEF x
<1>4. a \in Changing
  BY DEF Sweep, AccessAt, Changing
<1>5. AccessHolds'
  BY <1>1, <1>2, <1>3 DEF Sweep, AccessTo, AccessHolds, accounts
<1>6. AuthTypeOK'
  BY <1>1, <1>5 DEF Sweep, AuthTypeOK, AccessStates, accounts, cache, AccessHolds
<1>7. ChangesAsked'
  <2>1. IsFiniteSet(Changing') /\ Cardinality(Changing') = Cardinality(Changing)
    BY <1>2, <1>3, <1>4, ChangingJoined
  <2> QED BY <1>1, <2>1 DEF ChangesAsked, Sweep, accounts
<1> QED BY <1>5, <1>6, <1>7 DEF AInv, Sweep, GatewayHolds

\* The new password takes the place of a change under way.
LEMMA CommitChangeAInv ==
  ASSUME AInv, NEW a \in AccessThreads, CommitChange(a)
  PROVE  AInv'
<1> USE AuthAssumption
<1>1. /\ AuthTypeOK /\ AccessHolds /\ GatewayHolds /\ access[a] \in AccessStates
      /\ password \in Nat /\ authRequests \in 0..MaxRequests
      /\ password + Cardinality(Changing) <= authRequests
  BY DEF AInv, AuthTypeOK, AccessHolds, ChangesAsked
<1> DEFINE x == Holding("changed", NoSession, 0, {})
<1>2. AccessTo(a, x)
  BY HoldingIs DEF CommitChange
<1>3. x \in AccessStates /\ x.at = "changed" /\ x.password = 0
  BY <1>1, HoldingTyped DEF AccessPhases
<1> HIDE DEF x
<1>4. a \in Changing /\ password' = password + 1 /\ authRequests' = authRequests
  BY DEF CommitChange, AccessAt, Changing
<1>5. /\ session' \in [Sessions -> {"none", "active", "revoked"}]
      /\ \A s \in Sessions : session[s] # "none" => session'[s] # "none"
  BY <1>1 DEF CommitChange, AuthTypeOK
<1>6. /\ access' \in [AccessThreads -> AccessStates]
      /\ \A b \in AccessThreads : access'[b] = IF b = a THEN x ELSE access[b]
  BY <1>1, <1>2, <1>3 DEF AccessTo, AccessHolds
<1>7. AccessHolds'
  <2> SUFFICES ASSUME NEW b \in AccessThreads
               PROVE  /\ access'[b].password <= password'
                      /\ access'[b].at \in {"rotating", "revoking"} =>
                            access'[b].session \in Sessions /\ session'[access'[b].session] # "none"
    BY <1>6 DEF AccessHolds
  <2>1. CASE b = a
    BY <2>1, <1>1, <1>3, <1>4, <1>6
  <2>2. CASE b # a
    BY <2>2, <1>1, <1>4, <1>5, <1>6 DEF AccessHolds, AccessStates
  <2> QED BY <2>1, <2>2
<1>8. ChangesAsked' /\ password' \in 0..MaxRequests
  <2>1. /\ IsFiniteSet(Changing') /\ Cardinality(Changing) \in Nat /\ Cardinality(Changing') \in Nat
        /\ Cardinality(Changing') = Cardinality(Changing) - 1
    BY <1>2, <1>3, <1>4, ChangingLeft
  <2> QED BY <1>1, <1>4, <2>1 DEF ChangesAsked
<1>9. AuthTypeOK'
  <2>1. \A b \in AccessThreads : access'[b].at \in AccessPhases /\ access'[b].swept \subseteq Sessions
    BY <1>7 DEF AccessHolds, AccessStates
  <2>2. UNCHANGED <<registered, expired, issued, late, logins, races, authRequests, cached, index, gap>>
    BY DEF CommitChange, cache
  <2> QED BY <1>1, <1>5, <1>8, <2>1, <2>2 DEF AuthTypeOK
<1> QED BY <1>7, <1>8, <1>9 DEF AInv, CommitChange, GatewayHolds, cache

LEMMA AccessStepAInv ==
  ASSUME AInv, NEW a \in AccessThreads, AccessStep(a)
  PROVE  AInv'
BY RegisterAInv, CommitUserAInv, LoginAInv, CommitLoginAInv,
   LogoutAInv, CommitLogoutAInv, RefreshAInv, CommitRefreshAInv,
   ChangePasswordAInv, SweepAInv, CommitChangeAInv, ReadIndexAInv,
   DeleteEntriesAInv, InvalidationFailsAInv, AccessFailsAInv DEF AccessStep

\* The gateway stores the tokens it was given.
LEMMA GatewayStepAInv ==
  ASSUME AInv, NEW g \in GatewayThreads, GatewayStep(g)
  PROVE  AInv'
<1>1. AuthTypeOK' /\ GatewayHolds'
  BY DEF AInv, AuthTypeOK, GatewayHolds, GatewayStep, GatewayTo, Verify, CacheToken, NothingCached, accounts, cache
<1>2. AccessHolds' /\ ChangesAsked'
  BY DEF AInv, AccessHolds, ChangesAsked, Changing, GatewayStep, Verify, CacheToken, NothingCached, accounts, AccessStates
<1> QED BY <1>1, <1>2 DEF AInv

LEMMA AuthNextAInv ==
  ASSUME AInv, [AuthNext]_authVars
  PROVE  AInv'
<1>1. CASE \E a \in AccessThreads : AccessStep(a)
  BY <1>1, AccessStepAInv
<1>2. CASE \E g \in GatewayThreads : GatewayStep(g)
  BY <1>2, GatewayStepAInv
<1>3. CASE (\E s \in Sessions : SessionExpires(s)) \/ (\E t \in Tokens : EntryLapses(t)) \/ IndexLapses
  BY <1>3 DEF AInv, AuthTypeOK, AccessHolds, AccessStates, ChangesAsked, Changing, GatewayHolds,
              SessionExpires, EntryLapses, IndexLapses, accounts, cache
<1>4. CASE UNCHANGED authVars
  BY <1>4 DEF AInv, AuthTypeOK, AccessHolds, AccessStates, ChangesAsked, Changing, GatewayHolds,
              authVars, accounts, cache
<1> QED BY <1>1, <1>2, <1>3, <1>4 DEF AuthNext

LEMMA AlwaysAInv == AuthSpec => []AInv
BY InitAInv, AuthNextAInv, PTL DEF AuthSpec
-----------------------------------------------------------------------------
(* How many sessions there are *)

\* Active sessions are finitely many, and one more or less changes their number by one.
LEMMA ActiveCounted ==
  /\ IsFiniteSet(Active) /\ Cardinality(Active) \in Nat
  /\ \A T \in SUBSET Active : Cardinality(T) \in Nat /\ Cardinality(T) <= Cardinality(Active)
  /\ \A s \in Active : Cardinality(Active \ {s}) = Cardinality(Active) - 1
<1>1. IsFiniteSet(Active)
  BY AuthAssumption, FS_Subset DEF Active
<1> QED BY <1>1, FS_Subset, FS_CardinalityType, FS_RemoveElement

\* A session that is issued is one more.
LEMMA OneMoreActive ==
  ASSUME NEW T \in SUBSET Sessions, NEW s \in Sessions
  PROVE  /\ IsFiniteSet(T) /\ Cardinality(T) \in Nat /\ Cardinality(T \union {s}) \in Nat
         /\ Cardinality(T \union {s}) <= Cardinality(T) + 1
<1>1. IsFiniteSet(T)
  BY AuthAssumption, FS_Subset
<1>2. /\ IsFiniteSet(T \union {s})
      /\ Cardinality(T \union {s}) = IF s \in T THEN Cardinality(T) ELSE Cardinality(T) + 1
  BY <1>1, FS_AddElement
<1>3. Cardinality(T) \in Nat
  BY <1>1, FS_CardinalityType
<1> QED BY <1>1, <1>2, <1>3

\* What is active after a step was active before, but for the sessions of a
\* login and of a rotation, each of which is counted or takes another's place.
LEMMA NextAccounted ==
  ASSUME AInv, SessionsAccounted, [AuthNext]_authVars
  PROVE  SessionsAccounted'
<1>0. /\ logins \in Nat /\ races \in Nat /\ Cardinality(Active) \in Nat
      /\ Cardinality(Active) <= logins + races
      /\ session \in [Sessions -> {"none", "active", "revoked"}]
  BY ActiveCounted DEF AInv, AuthTypeOK, SessionsAccounted
<1>1. ASSUME Active' \subseteq Active, logins' = logins, races' = races
      PROVE  SessionsAccounted'
  BY <1>0, <1>1, ActiveCounted DEF SessionsAccounted
<1>2. ASSUME NEW a \in AccessThreads, NEW s \in Sessions, CommitLogin(a, s)
      PROVE  SessionsAccounted'
  <2>1. Active' = Active \union {s}
    BY <1>0, <1>2 DEF CommitLogin, Active
  <2>2. logins' = logins + 1 /\ races' = races
    BY <1>2 DEF CommitLogin
  <2>3. Active \in SUBSET Sessions
    BY DEF Active
  <2> QED BY <1>0, <2>1, <2>2, <2>3, OneMoreActive DEF SessionsAccounted
<1>3. ASSUME NEW a \in AccessThreads, NEW s \in Sessions, CommitRefresh(a, s)
      PROVE  SessionsAccounted'
  <2> DEFINE old == access[a].session
  <2>1. old \in Sessions /\ session[old] \in {"active", "revoked"} /\ old # s
    BY <1>0, <1>3 DEF AInv, AccessHolds, CommitRefresh, AccessAt
  <2>2. Active' = (Active \ {old}) \union {s}
    BY <1>0, <1>3, <2>1 DEF CommitRefresh, Active
  <2>3. races' = (IF session[old] = "revoked" THEN races + 1 ELSE races) /\ logins' = logins
    BY <1>3 DEF CommitRefresh
  <2>4. Active \ {old} \in SUBSET Sessions /\ (session[old] = "active" => old \in Active)
    BY <2>1 DEF Active
  <2>5. /\ Cardinality(Active') \in Nat /\ Cardinality(Active \ {old}) \in Nat
        /\ Cardinality(Active') <= Cardinality(Active \ {old}) + 1
    BY <2>1, <2>2, <2>4, OneMoreActive
  <2>6. CASE session[old] = "active"
    BY <1>0, <2>3, <2>4, <2>5, <2>6, ActiveCounted DEF SessionsAccounted
  <2>7. CASE session[old] = "revoked"
    <3>1. Cardinality(Active \ {old}) <= Cardinality(Active)
      BY ActiveCounted
    <3> QED BY <1>0, <2>3, <2>5, <2>7, <3>1 DEF SessionsAccounted
  <2> QED BY <2>1, <2>6, <2>7
<1>4. ASSUME NEW a \in AccessThreads, CommitLogout(a) \/ CommitChange(a)
      PROVE  SessionsAccounted'
  <2>1. Active' \subseteq Active /\ logins' = logins /\ races' = races
    BY <1>0, <1>4 DEF CommitLogout, CommitChange, Active
  <2> QED BY <1>1, <2>1
<1>5. ASSUME UNCHANGED <<session, logins, races>>
      PROVE  SessionsAccounted'
  BY <1>1, <1>5 DEF Active
<1>6. ASSUME NEW a \in AccessThreads, AccessStep(a)
      PROVE  SessionsAccounted'
  <2>1. ASSUME NEW s \in Sessions, Logout(a, s) \/ Refresh(a, s)
        PROVE  SessionsAccounted'
    BY <1>5, <2>1 DEF Logout, Refresh, accounts
  <2>2. CASE \/ Register(a) \/ CommitUser(a) \/ Login(a) \/ ChangePassword(a) \/ Sweep(a) \/ ReadIndex(a)
             \/ DeleteEntries(a) \/ InvalidationFails(a) \/ AccessFails(a)
    BY <1>5, <2>2 DEF Register, CommitUser, Login, ChangePassword, Sweep, ReadIndex, DeleteEntries,
                      InvalidationFails, AccessFails, accounts
  <2> QED BY <1>2, <1>3, <1>4, <1>6, <2>1, <2>2 DEF AccessStep
<1>7. CASE \E g \in GatewayThreads : GatewayStep(g)
  BY <1>5, <1>7 DEF GatewayStep, Verify, CacheToken, NothingCached, accounts
<1>8. CASE (\E s \in Sessions : SessionExpires(s)) \/ (\E t \in Tokens : EntryLapses(t)) \/ IndexLapses
  BY <1>5, <1>8 DEF SessionExpires, EntryLapses, IndexLapses, accounts
<1>9. CASE UNCHANGED authVars
  BY <1>5, <1>9 DEF authVars, accounts
<1> QED BY <1>6, <1>7, <1>8, <1>9 DEF AuthNext

LEMMA AuthInitAccounted == AuthInit => SessionsAccounted
<1> SUFFICES ASSUME AuthInit PROVE SessionsAccounted
  OBVIOUS
<1>1. Active = {} /\ logins = 0 /\ races = 0
  BY DEF Active, AuthInit
<1> QED BY <1>1, FS_EmptySet DEF SessionsAccounted

-----------------------------------------------------------------------------
(* Sessions of an old password, and cached tokens *)

LEMMA NextSweepInv ==
  ASSUME AInv, SweepInv, [AuthNext]_authVars
  PROVE  SweepInv'
<1>0. /\ session \in [Sessions -> {"none", "active", "revoked"}] /\ access \in [AccessThreads -> AccessStates]
      /\ issued \in [Sessions -> 0..MaxRequests] /\ password \in Nat /\ late \in SUBSET Sessions
  BY DEF AInv, AuthTypeOK, AccessHolds
<1>a. /\ \A a \in AccessThreads : access[a].at = "sweeping" =>
            \A s \in Active : s \in access[a].swept \/ s \in late
      /\ \A s \in Active : issued[s] = password \/ s \in late
  BY DEF SweepInv, Swept, OldSessionsRevoked
\* A step that issues no session, sweeps nothing and keeps the password.
<1>1. ASSUME Active' \subseteq Active, UNCHANGED <<issued, password, late>>,
             \A a \in AccessThreads : access'[a].at = "sweeping" => access'[a] = access[a]
      PROVE  SweepInv'
  BY <1>a, <1>1 DEF SweepInv, Swept, OldSessionsRevoked
\* A step that issues a session.
<1>2. ASSUME NEW a \in AccessThreads, NEW s \in Sessions, CommitLogin(a, s) \/ CommitRefresh(a, s)
      PROVE  SweepInv'
  <2>1. Issue(s, access[a].password) /\ password' = password /\ Active' \subseteq Active \union {s}
    BY <1>0, <1>2 DEF CommitLogin, CommitRefresh, Active
  <2>2. \A b \in AccessThreads : access'[b].at = "sweeping" => access'[b] = access[b]
    BY <1>0, <1>2 DEF CommitLogin, CommitRefresh, AccessTo, AccessIdle
  <2>3. /\ \A z \in Sessions : z # s => issued'[z] = issued[z]
        /\ late \subseteq late' /\ (s \notin late' => issued'[s] = password)
        /\ \A b \in AccessThreads : access[b].at = "sweeping" => s \in late'
    BY <1>0, <2>1 DEF Issue, AccessAt
  <2>4. OldSessionsRevoked'
    BY <1>a, <2>1, <2>3 DEF OldSessionsRevoked, Active
  <2>5. Swept'
    BY <1>a, <2>1, <2>2, <2>3 DEF Swept
  <2> QED BY <2>4, <2>5 DEF SweepInv
<1>3. ASSUME NEW a \in AccessThreads, Sweep(a)
      PROVE  SweepInv'
  <2>1. /\ \A b \in AccessThreads : b # a => access'[b] = access[b]
        /\ access'[a].swept = Active
    BY <1>0, <1>3 DEF Sweep, AccessTo, AccessStates, Active
  <2>2. Active' = Active /\ UNCHANGED <<issued, password, late>>
    BY <1>3 DEF Sweep, accounts, Active
  <2> QED BY <1>a, <2>1, <2>2 DEF SweepInv, Swept, OldSessionsRevoked
<1>4. ASSUME NEW a \in AccessThreads, CommitChange(a)
      PROVE  SweepInv'
  <2>1. Active' = Active \ access[a].swept /\ UNCHANGED late
    BY <1>0, <1>4 DEF CommitChange, Active
  <2>2. Active' \subseteq late
    BY <1>a, <1>4, <2>1 DEF CommitChange, AccessAt
  <2> QED BY <2>1, <2>2 DEF SweepInv, Swept, OldSessionsRevoked
<1>5. ASSUME NEW a \in AccessThreads, CommitLogout(a)
      PROVE  SweepInv'
  <2>1. Active' \subseteq Active
    BY <1>0, <1>5 DEF CommitLogout, Active
  <2> QED BY <1>0, <1>1, <1>5, <2>1 DEF CommitLogout, AccessTo, AccessIdle
<1>6. ASSUME NEW a \in AccessThreads, NEW x, AccessTo(a, x), x.at # "sweeping",
             UNCHANGED <<session, issued, password, late>>
      PROVE  SweepInv'
  <2>1. \A b \in AccessThreads : access'[b].at = "sweeping" => access'[b] = access[b]
    BY <1>0, <1>6 DEF AccessTo
  <2> QED BY <1>1, <1>6, <2>1 DEF Active
<1>7. ASSUME NEW a \in AccessThreads, AccessStep(a)
      PROVE  SweepInv'
  <2>1. ASSUME NEW s \in Sessions, Logout(a, s) \/ Refresh(a, s)
        PROVE  SweepInv'
    <3>1. CASE Logout(a, s)
      <4>1. AccessTo(a, Holding("revoking", s, 0, {}))
        BY <3>1, HoldingIs DEF Logout
      <4> QED BY <1>6, <3>1, <4>1 DEF Logout, accounts, Holding
    <3>2. CASE Refresh(a, s)
      <4>1. AccessTo(a, Holding("rotating", s, password, {}))
        BY <3>2, HoldingIs DEF Refresh
      <4> QED BY <1>6, <3>2, <4>1 DEF Refresh, accounts, Holding
    <3> QED BY <2>1, <3>1, <3>2
  <2>2. CASE Register(a) \/ Login(a) \/ ChangePassword(a)
    <3>1. CASE Register(a)
      <4>1. AccessTo(a, Holding("registering", NoSession, 0, {}))
        BY <3>1, HoldingIs DEF Register
      <4> QED BY <1>6, <3>1, <4>1 DEF Register, accounts, Holding
    <3>2. CASE Login(a)
      <4>1. AccessTo(a, Holding("authenticated", NoSession, password, {}))
        BY <3>2, HoldingIs DEF Login
      <4> QED BY <1>6, <3>2, <4>1 DEF Login, accounts, Holding
    <3>3. CASE ChangePassword(a)
      <4>1. AccessTo(a, Holding("verified", NoSession, password, {}))
        BY <3>3, HoldingIs DEF ChangePassword
      <4> QED BY <1>6, <3>3, <4>1 DEF ChangePassword, accounts, Holding
    <3> QED BY <2>2, <3>1, <3>2, <3>3
  <2>3. CASE CommitUser(a) \/ ReadIndex(a) \/ DeleteEntries(a) \/ InvalidationFails(a) \/ AccessFails(a)
    <3>1. \E p \in {"idle", "invalidating"}, T \in {{}, index} : AccessTo(a, Holding(p, NoSession, 0, T))
      BY <2>3, HoldingIs DEF CommitUser, ReadIndex, DeleteEntries, InvalidationFails, AccessFails
    <3> QED BY <1>6, <2>3, <3>1 DEF CommitUser, ReadIndex, DeleteEntries, InvalidationFails, AccessFails,
                                    accounts, Holding
  <2> QED BY <1>2, <1>3, <1>4, <1>5, <1>7, <2>1, <2>2, <2>3 DEF AccessStep
<1>8. ASSUME UNCHANGED <<session, issued, password, late, access>>
      PROVE  SweepInv'
  BY <1>1, <1>8 DEF Active
<1>9. CASE \E g \in GatewayThreads : GatewayStep(g)
  BY <1>8, <1>9 DEF GatewayStep, Verify, CacheToken, NothingCached, accounts
<1>10. CASE (\E s \in Sessions : SessionExpires(s)) \/ (\E t \in Tokens : EntryLapses(t)) \/ IndexLapses
  BY <1>8, <1>10 DEF SessionExpires, EntryLapses, IndexLapses, accounts
<1>11. CASE UNCHANGED authVars
  BY <1>8, <1>11 DEF authVars, accounts
<1> QED BY <1>7, <1>9, <1>10, <1>11 DEF AuthNext

LEMMA NextIndexed ==
  ASSUME AInv, CachedTokensIndexed, [AuthNext]_authVars
  PROVE  CachedTokensIndexed'
<1> USE DEF CachedTokensIndexed
<1>1. ASSUME UNCHANGED cache
      PROVE  CachedTokensIndexed'
  BY <1>1 DEF cache
<1>2. ASSUME NEW a \in AccessThreads, AccessStep(a)
      PROVE  CachedTokensIndexed'
  <2>1. CASE DeleteEntries(a)
    BY <2>1 DEF DeleteEntries
  <2>2. CASE ~DeleteEntries(a)
    BY <1>1, <1>2, <2>2 DEF AccessStep, Register, CommitUser, Login, CommitLogin, Logout, CommitLogout, Refresh,
         CommitRefresh, ChangePassword, Sweep, CommitChange, ReadIndex, InvalidationFails, AccessFails
  <2> QED BY <2>1, <2>2
<1>3. ASSUME NEW g \in GatewayThreads, GatewayStep(g)
      PROVE  CachedTokensIndexed'
  BY <1>1, <1>3 DEF GatewayStep, Verify, CacheToken, NothingCached
<1>4. CASE (\E s \in Sessions : SessionExpires(s)) \/ (\E t \in Tokens : EntryLapses(t)) \/ IndexLapses
  BY <1>1, <1>4 DEF SessionExpires, EntryLapses, IndexLapses
<1>5. CASE UNCHANGED authVars
  BY <1>1, <1>5 DEF authVars
<1> QED BY <1>2, <1>3, <1>4, <1>5 DEF AuthNext
-----------------------------------------------------------------------------
(* The theorems of AuthSessions *)

LEMMA InitSweepInv == AuthInit => SweepInv /\ CachedTokensIndexed
BY DEF AuthInit, SweepInv, Swept, OldSessionsRevoked, CachedTokensIndexed, Active, AccessIdle

\* Every variable of AuthSessions keeps its type. That the password is changed no
\* more often than a change of it was asked for, and that a thread revokes or
\* rotates a session that was issued, is what makes it inductive.
THEOREM AuthTypes == AuthSpec => []AuthTypeOK
<1>1. AInv => AuthTypeOK
  BY DEF AInv
<1> QED BY <1>1, AlwaysAInv, PTL

\* handle_refresh gives a session for a session: the active sessions are never
\* more than the logins and the rotations of a session already revoked.
THEOREM SessionsAreAccounted == AuthSpec => []SessionsAccounted
<1>1. AInv /\ SessionsAccounted /\ [AuthNext]_authVars => SessionsAccounted'
  BY NextAccounted
<1> QED BY <1>1, AlwaysAInv, AuthInitAccounted, PTL DEF AuthSpec

\* handle_change_password leaves no session active that was given for an older
\* password, but for one committed by a handler that ran into a change.
THEOREM OldSessionsAreRevoked == AuthSpec => []OldSessionsRevoked
<1>1. AInv /\ SweepInv /\ [AuthNext]_authVars => SweepInv'
  BY NextSweepInv
<1>2. AuthInit => SweepInv
  BY InitSweepInv
<1>3. SweepInv => OldSessionsRevoked
  BY DEF SweepInv
<1> QED BY <1>1, <1>2, <1>3, AlwaysAInv, PTL DEF AuthSpec

\* AuthVerifyCache: invalidate_user finds every cached token through the index,
\* but for those cached while another invalidation was emptying it.
THEOREM CachedTokensAreIndexed == AuthSpec => []CachedTokensIndexed
<1>1. AInv /\ CachedTokensIndexed /\ [AuthNext]_authVars => CachedTokensIndexed'
  BY NextIndexed
<1>2. AuthInit => CachedTokensIndexed
  BY InitSweepInv
<1> QED BY <1>1, <1>2, AlwaysAInv, PTL DEF AuthSpec

-----------------------------------------------------------------------------
(* GroupMembership: types, and what a thread works on *)

InvitationRows == [group : Groups \union {NoGroup}, email : People \union {NoOne},
                   status : Statuses \union {"none", "deleted"}, accepted : People \union {NoOne}]
GroupStates == [at : OwnerActs \union {"free", "accepting"}, group : Groups \union {NoGroup},
                user : People \union {NoOne}, accepts : SUBSET Invitations]

GroupsTyped ==
    /\ creator \in [Groups -> People \union {NoOne}]
    /\ used \subseteq Groups /\ \A g \in Groups : Exists(g) => g \in used
    /\ calls \in 0..MaxGroupRequests
MembersTyped ==
    /\ DOMAIN member \subseteq Groups \X People
    /\ \A k \in DOMAIN member : member[k] \in {"active", "left"} /\ Exists(k[1])
OverruledTyped == \A k \in overruled : k \in Groups \X People /\ Exists(k[1])
InvitationsTyped ==
    /\ invitation \in [Invitations -> InvitationRows]
    /\ \A i \in Invitations : Stands(i) => Exists(invitation[i].group)
HandlersTyped ==
    /\ handler \in [GroupThreads -> GroupStates]
    /\ \A t \in GroupThreads :
        /\ handler[t].at # "free" => handler[t].user \in People
        /\ handler[t].at \in OwnerActs => handler[t].group \in Groups

GInv == GroupsTyped /\ MembersTyped /\ OverruledTyped /\ InvitationsTyped /\ HandlersTyped

\* An invitation being accepted was pending, and is its user's as long as it stands.
Addressed == \A t \in GroupThreads : handler[t].at = "accepting" =>
    \A i \in handler[t].accepts :
        invitation[i].status # "none" /\ (Stands(i) => invitation[i].email = handler[t].user)
-----------------------------------------------------------------------------
(* Types of the groups *)

\* The members and those the owner overruled are of groups that exist.
LEMMA GroupTypesOf == GInv => GroupTypeOK
<1> SUFFICES ASSUME GInv PROVE GroupTypeOK
  OBVIOUS
<1>1. \A k \in DOMAIN member : Exists(k[1]) /\ k[2] \in People /\ member[k] \in {"active", "left"}
  BY DEF GInv, MembersTyped
<1>2. overruled \subseteq {g \in Groups : Exists(g)} \X People
  BY DEF GInv, OverruledTyped
<1> QED BY <1>1, <1>2 DEF GroupTypeOK, GInv, GroupsTyped, InvitationsTyped

\* A member joins, or the status of one changes.
LEMMA MemberAdded ==
  ASSUME GInv, NEW g \in Groups, NEW u \in People, NEW st \in {"active", "left"},
         member' \in {Upsert(member, <<g, u>>, st), Ensure(member, <<g, u>>, st)},
         creator'[g] # NoOne, \A h \in Groups : creator[h] # NoOne => creator'[h] # NoOne
  PROVE  MembersTyped'
<1> DEFINE k == <<g, u>>
<1>1. k \in Groups \X People /\ k[1] = g
  OBVIOUS
<1> HIDE DEF k
<1>2. CASE member' = Upsert(member, k, st)
  <2>1. member' = [y \in DOMAIN member \union {k} |-> IF y = k THEN st ELSE member[y]]
    BY <1>2 DEF Upsert
  <2> QED BY <1>1, <2>1 DEF GInv, MembersTyped, Exists
<1>3. CASE member' = Ensure(member, k, st)
  <2>1. \/ k \in DOMAIN member /\ member' = member
        \/ member' = Upsert(member, k, st)
    BY <1>3 DEF Ensure
  <2>2. CASE member' = member
    BY <2>2 DEF GInv, MembersTyped, Exists
  <2> QED BY <1>2, <2>1, <2>2
<1> QED BY <1>2, <1>3 DEF k

\* Members are taken away, those of a group that goes among them.
LEMMA MembersTaken ==
  ASSUME GInv, NEW S, member' = Without(member, S),
         \A k \in DOMAIN member \ S : creator'[k[1]] # NoOne
  PROVE  MembersTyped'
<1>1. DOMAIN member' = DOMAIN member \ S /\ \A y \in DOMAIN member \ S : member'[y] = member[y]
  BY DEF Without
<1> QED BY <1>1 DEF GInv, MembersTyped, Exists

\* One invitation is written.
LEMMA InvitationSet ==
  ASSUME GInv, NEW i \in Invitations, NEW row \in InvitationRows,
         row.status \in Statuses => Exists(row.group),
         invitation' = [invitation EXCEPT ![i] = row], UNCHANGED creator
  PROVE  InvitationsTyped'
BY DEF GInv, InvitationsTyped, Exists, Stands

\* A thread begins a request, or ends one.
LEMMA HandlerGoes ==
  ASSUME GInv, NEW t \in GroupThreads, NEW x \in GroupStates, Goes(t, x),
         x.at # "free" => x.user \in People, x.at \in OwnerActs => x.group \in Groups
  PROVE  HandlersTyped'
BY DEF GInv, HandlersTyped, Goes

LEMMA FreeTyped == Free \in GroupStates /\ Free.at = "free"
BY DEF Free, GroupStates

LEMMA HandlerFreed ==
  ASSUME GInv, NEW t \in GroupThreads, Goes(t, Free)
  PROVE  HandlersTyped'
BY FreeTyped, HandlerGoes DEF OwnerActs

LEMMA NoInvitationTyped ==
  /\ NoInvitation \in InvitationRows /\ NoInvitation.status = "none"
  /\ Deleted \in InvitationRows /\ Deleted.status = "deleted" /\ Deleted.accepted = NoOne
BY DEF NoInvitation, Deleted, InvitationRows, Statuses

LEMMA InitGInv == GroupInit => GInv
<1> SUFFICES ASSUME GroupInit PROVE GInv
  OBVIOUS
<1>1. GroupsTyped /\ MembersTyped /\ OverruledTyped
  BY GroupAssumption DEF GroupInit, GroupsTyped, MembersTyped, OverruledTyped, Exists
<1>2. InvitationsTyped
  BY NoInvitationTyped DEF GroupInit, InvitationsTyped, Stands, Statuses
<1>3. HandlersTyped
  BY FreeTyped DEF GroupInit, HandlersTyped, OwnerActs
<1> QED BY <1>1, <1>2, <1>3 DEF GInv

LEMMA CreateGroupGInv ==
  ASSUME GInv, NEW t \in GroupThreads, NEW u \in People, NEW g \in Groups, CreateGroup(t, u, g)
  PROVE  GInv'
<1>1. u # NoOne /\ creator' = [creator EXCEPT ![g] = u] /\ creator \in [Groups -> People \union {NoOne}]
  BY GroupAssumption DEF CreateGroup, GInv, GroupsTyped
<1>2. creator'[g] # NoOne /\ \A h \in Groups : creator[h] # NoOne => creator'[h] # NoOne
  BY <1>1
<1>3. MembersTyped'
  BY <1>2, MemberAdded DEF CreateGroup
<1>4. GroupsTyped'
  BY <1>1, GroupAssumption DEF CreateGroup, GInv, GroupsTyped, Exists, Begins
<1>5. OverruledTyped'
  BY <1>2 DEF CreateGroup, GInv, OverruledTyped, Exists
<1>6. InvitationsTyped'
  BY <1>2 DEF CreateGroup, GInv, InvitationsTyped, Exists, Stands
<1>7. HandlersTyped'
  BY DEF CreateGroup, GInv, HandlersTyped
<1> QED BY <1>3, <1>4, <1>5, <1>6, <1>7 DEF GInv

\* The other handlers leave the groups as they are, but for the deletion.
LEMMA GroupsStay ==
  ASSUME GInv, UNCHANGED <<creator, used>>, calls' \in 0..MaxGroupRequests
  PROVE  GroupsTyped' /\ (UNCHANGED member => MembersTyped') /\ (UNCHANGED overruled => OverruledTyped')
         /\ (UNCHANGED invitation => InvitationsTyped') /\ (UNCHANGED handler => HandlersTyped')
BY DEF GInv, GroupsTyped, MembersTyped, OverruledTyped, InvitationsTyped, HandlersTyped, Exists, Stands

LEMMA CallsBounded ==
  ASSUME GInv, NEW t \in GroupThreads, Begins(t) \/ UNCHANGED calls
  PROVE  calls' \in 0..MaxGroupRequests
BY GroupAssumption DEF GInv, GroupsTyped, Begins

LEMMA CheckOwnerGInv ==
  ASSUME GInv, NEW t \in GroupThreads, NEW g \in Groups, NEW u \in People, NEW act \in OwnerActs,
         CheckOwner(t, g, u, act)
  PROVE  GInv'
<1> DEFINE x == [Free EXCEPT !.at = act, !.group = g, !.user = u]
<1>1. x \in GroupStates /\ x.user = u /\ x.group = g
  BY FreeTyped DEF GroupStates
<1>2. Goes(t, x)
  BY DEF CheckOwner
<1> HIDE DEF x
<1>3. HandlersTyped'
  BY <1>1, <1>2, HandlerGoes
<1> QED BY <1>3, GroupsStay, CallsBounded DEF CheckOwner, GInv

LEMMA CommitDeleteGroupGInv ==
  ASSUME GInv, NEW t \in GroupThreads, CommitDeleteGroup(t)
  PROVE  GInv'
<1> DEFINE g == handler[t].group
<1>1. g \in Groups /\ HandlersTyped'
  BY HandlerFreed DEF CommitDeleteGroup, Answers, GInv, HandlersTyped, OwnerActs
<1>2. creator' = [creator EXCEPT ![g] = NoOne] /\ creator \in [Groups -> People \union {NoOne}]
  BY DEF CommitDeleteGroup, GInv, GroupsTyped
<1>3. \A k \in DOMAIN member \ ({g} \X People) : creator'[k[1]] # NoOne
  BY <1>2 DEF GInv, MembersTyped, Exists
<1>4. MembersTyped'
  BY <1>3, MembersTaken DEF CommitDeleteGroup
<1>5. GroupsTyped'
  BY <1>1, <1>2 DEF CommitDeleteGroup, Answers, GInv, GroupsTyped, Exists
<1>6. OverruledTyped'
  BY <1>2 DEF CommitDeleteGroup, GInv, OverruledTyped, Exists
<1>7. InvitationsTyped'
  <2>1. \A i \in Invitations : invitation'[i] = IF invitation[i].group = g THEN Deleted ELSE invitation[i]
    BY DEF CommitDeleteGroup
  <2>2. invitation' \in [Invitations -> InvitationRows]
    BY <2>1, NoInvitationTyped DEF CommitDeleteGroup, GInv, InvitationsTyped
  <2> QED BY <1>2, <2>1, <2>2, NoInvitationTyped DEF GInv, InvitationsTyped, Stands, Exists, Statuses
<1> QED BY <1>1, <1>4, <1>5, <1>6, <1>7 DEF GInv

LEMMA MemberCommitsGInv ==
  ASSUME GInv, NEW t \in GroupThreads,
         \/ CommitAddMember(t) \/ CommitRemoveMember(t)
         \/ \E status \in {"active", "left"} : CommitChangeMember(t, status)
  PROVE  GInv'
<1> DEFINE g == handler[t].group
           u == handler[t].user
<1>1. g \in Groups /\ u \in People /\ HandlersTyped' /\ UNCHANGED <<creator, used, calls, invitation>>
  BY HandlerFreed DEF CommitAddMember, CommitChangeMember, CommitRemoveMember, Answers, GInv, HandlersTyped, OwnerActs
<1>2. MembersTyped'
  <2>1. ASSUME NEW st \in {"active", "left"}, member' = Upsert(member, <<g, u>>, st), Exists(g)
        PROVE  MembersTyped'
    BY <1>1, <2>1, MemberAdded DEF Exists
  <2>2. CASE CommitAddMember(t)
    BY <2>1, <2>2 DEF CommitAddMember
  <2>3. ASSUME NEW status \in {"active", "left"}, CommitChangeMember(t, status) PROVE MembersTyped'
    <3>1. Exists(g)
      BY <2>3 DEF CommitChangeMember, GInv, MembersTyped
    <3> QED BY <2>1, <2>3, <3>1 DEF CommitChangeMember
  <2>4. CASE CommitRemoveMember(t)
    <3>1. \A k \in DOMAIN member : creator'[k[1]] # NoOne
      BY <1>1 DEF GInv, MembersTyped, Exists
    <3> QED BY <2>4, <3>1, MembersTaken DEF CommitRemoveMember
  <2> QED BY <2>2, <2>3, <2>4
<1>3. OverruledTyped'
  <2>1. CASE UNCHANGED overruled
    BY <1>1, <2>1 DEF GInv, OverruledTyped, Exists
  <2>2. CASE overruled' = overruled \union {<<g, u>>} /\ Exists(g)
    BY <1>1, <2>2 DEF GInv, OverruledTyped, Exists
  <2> QED BY <2>1, <2>2 DEF CommitAddMember, CommitChangeMember, CommitRemoveMember, GInv, MembersTyped
<1> QED BY <1>1, <1>2, <1>3, GroupsStay DEF GInv, GroupsTyped

LEMMA InvitationCommitsGInv ==
  ASSUME GInv, NEW t \in GroupThreads, NEW i \in Invitations,
         \/ CommitInvite(t, i) \/ CommitWithdraw(t, i) \/ Decline(t, i)
         \/ \E status \in Statuses : CommitEdit(t, i, status)
  PROVE  GInv'
<1>1. UNCHANGED <<creator, used, member, overruled>> /\ calls' \in 0..MaxGroupRequests
  <2>1. UNCHANGED <<creator, used, member, overruled>> /\ (Begins(t) \/ UNCHANGED calls)
    BY DEF CommitInvite, CommitWithdraw, Decline, CommitEdit, Answers
  <2> QED BY <2>1, CallsBounded
<1>2. HandlersTyped'
  <2>1. Goes(t, Free) \/ UNCHANGED handler
    BY DEF CommitInvite, CommitWithdraw, Decline, CommitEdit, Answers
  <2> QED BY <2>1, HandlerFreed DEF GInv, HandlersTyped
<1>3. InvitationsTyped'
  <2>0. invitation[i] \in InvitationRows /\ (Stands(i) => Exists(invitation[i].group))
    BY DEF GInv, InvitationsTyped
  <2>1. CASE CommitInvite(t, i)
    <3> DEFINE row == [NoInvitation EXCEPT !.group = handler[t].group, !.email = handler[t].user,
                                           !.status = "pending"]
    <3>1. invitation' = [invitation EXCEPT ![i] = row]
      BY <2>1 DEF CommitInvite
    <3>2. handler[t].group \in Groups /\ handler[t].user \in People /\ Exists(handler[t].group)
      BY <2>1 DEF CommitInvite, GInv, HandlersTyped, OwnerActs, Answers
    <3>3. row \in InvitationRows /\ row.group = handler[t].group
      BY <3>2, NoInvitationTyped DEF InvitationRows, Statuses
    <3> HIDE DEF row
    <3> QED BY <1>1, <3>1, <3>2, <3>3, InvitationSet
  <2>2. CASE CommitWithdraw(t, i)
    BY <1>1, <2>2, InvitationSet, NoInvitationTyped DEF CommitWithdraw, Statuses
  <2>3. ASSUME NEW st \in Statuses, SetStatus(i, st) PROVE InvitationsTyped'
    <3> DEFINE row == [invitation[i] EXCEPT !.status = st]
    <3>1. invitation' = [invitation EXCEPT ![i] = row]
      BY <2>0, <2>3 DEF SetStatus, InvitationRows
    <3>2. row \in InvitationRows /\ row.group = invitation[i].group
      BY <2>0 DEF InvitationRows
    <3> QED BY <1>1, <2>0, <2>3, <3>1, <3>2, InvitationSet DEF SetStatus
  <2>4. "declined" \in Statuses
    BY DEF Statuses
  <2> QED BY <2>1, <2>2, <2>3, <2>4 DEF Decline, CommitEdit
<1> QED BY <1>1, <1>2, <1>3, GroupsStay DEF GInv

LEMMA SelectInvitationGInv ==
  ASSUME GInv, NEW t \in GroupThreads, NEW u \in People, NEW i \in Invitations, SelectInvitation(t, u, i)
  PROVE  GInv'
<1> DEFINE x == [Free EXCEPT !.at = "accepting", !.user = u, !.accepts = {i}, !.group = invitation[i].group]
<1>1. invitation[i].group \in Groups \union {NoGroup}
  BY DEF GInv, InvitationsTyped, InvitationRows
<1>2. x \in GroupStates /\ x.user = u /\ x.at = "accepting"
  BY <1>1, FreeTyped DEF GroupStates
<1>3. Goes(t, x)
  BY DEF SelectInvitation
<1> HIDE DEF x
<1>4. HandlersTyped'
  BY <1>2, <1>3, HandlerGoes DEF OwnerActs
<1> QED BY <1>4, GroupsStay, CallsBounded DEF SelectInvitation, GInv

LEMMA CommitAcceptGInv ==
  ASSUME GInv, NEW t \in GroupThreads, NEW i \in Invitations, CommitAccept(t, i)
  PROVE  GInv'
<1> DEFINE g == invitation[i].group
           u == handler[t].user
           row == [invitation[i] EXCEPT !.status = "accepted", !.accepted = u]
<1>1. /\ HandlersTyped' /\ u \in People /\ Exists(g) /\ g \in Groups
      /\ UNCHANGED <<creator, used, calls>> /\ invitation[i] \in InvitationRows
  BY HandlerFreed DEF CommitAccept, Answers, GInv, HandlersTyped, InvitationsTyped, Exists
<1>2. invitation' = [invitation EXCEPT ![i] = row]
  BY <1>1 DEF CommitAccept, Accepted, InvitationRows, GInv, InvitationsTyped
<1>3. row \in InvitationRows /\ row.group = g
  BY <1>1 DEF InvitationRows, Statuses
<1>4. InvitationsTyped'
  BY <1>1, <1>2, <1>3, InvitationSet
<1>5. MembersTyped'
  BY <1>1, MemberAdded DEF CommitAccept, Joins, Exists
<1>6. OverruledTyped'
  BY <1>1 DEF CommitAccept, Joins, GInv, OverruledTyped, Exists
<1> QED BY <1>1, <1>4, <1>5, <1>6, GroupsStay DEF GInv, GroupsTyped

LEMMA GroupNextGInv ==
  ASSUME GInv, [GroupNext]_groupVars
  PROVE  GInv'
<1>1. ASSUME NEW t \in GroupThreads, GroupFails(t) PROVE GInv'
  BY <1>1, HandlerFreed, GroupsStay DEF GroupFails, GInv, GroupsTyped
<1>2. ASSUME NEW t \in GroupThreads, OwnerStep(t) PROVE GInv'
  BY <1>2, CheckOwnerGInv, CommitDeleteGroupGInv, MemberCommitsGInv, InvitationCommitsGInv DEF OwnerStep
<1>3. ASSUME GroupNext PROVE GInv'
  BY <1>1, <1>2, <1>3, CreateGroupGInv, InvitationCommitsGInv, SelectInvitationGInv, CommitAcceptGInv DEF GroupNext
<1>4. CASE UNCHANGED groupVars
  BY <1>4, GroupsStay DEF groupVars, GInv, GroupsTyped
<1> QED BY <1>3, <1>4

LEMMA AlwaysGInv == GroupSpec => []GInv
BY InitGInv, GroupNextGInv, PTL DEF GroupSpec

\* Every variable of GroupMembership keeps its type; members, those the owner
\* overruled and invitations that stand are of groups that exist: deleting a
\* group takes them with it, and a row is written only under its group.
THEOREM GroupTypes == GroupSpec => []GroupTypeOK
BY AlwaysGInv, GroupTypesOf, PTL

-----------------------------------------------------------------------------
(* Who is a member *)

\* Who accepted an invitation is a member, or was overruled; a row that is gone
\* tells of nobody.
Settled(g, u) == IsActiveMember(g, u) \/ <<g, u>> \in overruled
MemberInv ==
    /\ AcceptedIsMember
    /\ \A i \in Invitations : invitation[i].accepted # NoOne => Stands(i)

LEMMA InitMemberInv == GroupInit => MemberInv /\ Addressed
BY DEF GroupInit, MemberInv, AcceptedIsMember, Addressed, NoInvitation, Free

\* A step that accepts nothing, and after which no member is lost but to the
\* owner or with the group.
LEMMA MembersKept ==
  ASSUME GInv, MemberInv,
         \A i \in Invitations : invitation'[i].accepted # NoOne =>
            /\ invitation'[i].accepted = invitation[i].accepted
            /\ invitation'[i].group = invitation[i].group
            /\ invitation'[i].status \in Statuses,
         \A i \in Invitations : \A g, u :
            /\ invitation'[i].accepted # NoOne /\ g = invitation[i].group /\ u = invitation[i].accepted
            /\ Settled(g, u)
            => Settled(g, u)'
  PROVE  MemberInv'
BY DEF MemberInv, AcceptedIsMember, Settled, Stands, IsActiveMember

\* The rows a step leaves alone, when it writes one that nobody has accepted by it.
LEMMA NobodyAccepts ==
  ASSUME GInv, MemberInv, UNCHANGED <<member, overruled>>, NEW i \in Invitations, NEW row \in InvitationRows,
         invitation' = [invitation EXCEPT ![i] = row],
         \/ row.accepted = NoOne
         \/ /\ row.accepted = invitation[i].accepted /\ row.group = invitation[i].group
            /\ row.status \in Statuses
  PROVE  MemberInv'
<1>1. invitation \in [Invitations -> InvitationRows]
  BY DEF GInv, InvitationsTyped
<1>2. \A g, u : Settled(g, u) => Settled(g, u)'
  BY DEF Settled, IsActiveMember
<1> QED BY <1>1, <1>2, MembersKept DEF MemberInv, Stands

LEMMA InvitationCommitsMemberInv ==
  ASSUME GInv, MemberInv, NEW t \in GroupThreads, NEW i \in Invitations,
         \/ CommitInvite(t, i) \/ CommitWithdraw(t, i) \/ Decline(t, i)
         \/ \E status \in Statuses : CommitEdit(t, i, status)
  PROVE  MemberInv'
<1>1. UNCHANGED <<member, overruled>>
  BY DEF CommitInvite, CommitWithdraw, Decline, CommitEdit
<1>2. invitation \in [Invitations -> InvitationRows] /\ invitation[i] \in InvitationRows
  BY DEF GInv, InvitationsTyped
<1>3. CASE CommitInvite(t, i)
  <2> DEFINE row == [NoInvitation EXCEPT !.group = handler[t].group, !.email = handler[t].user,
                                         !.status = "pending"]
  <2>1. invitation' = [invitation EXCEPT ![i] = row]
    BY <1>3 DEF CommitInvite
  <2>2. handler[t].group \in Groups /\ handler[t].user \in People
    BY <1>3 DEF CommitInvite, GInv, HandlersTyped, OwnerActs, Answers
  <2>3. row \in InvitationRows /\ row.accepted = NoOne
    BY <2>2, NoInvitationTyped DEF InvitationRows, Statuses, NoInvitation
  <2> HIDE DEF row
  <2> QED BY <1>1, <2>1, <2>3, NobodyAccepts
<1>4. CASE CommitWithdraw(t, i)
  BY <1>1, <1>4, NoInvitationTyped, NobodyAccepts DEF CommitWithdraw
<1>5. ASSUME NEW st \in Statuses, SetStatus(i, st) PROVE MemberInv'
  <2> DEFINE row == [invitation[i] EXCEPT !.status = st]
  <2>1. invitation' = [invitation EXCEPT ![i] = row]
    BY <1>2, <1>5 DEF SetStatus, InvitationRows
  <2>2. /\ row \in InvitationRows /\ row.accepted = invitation[i].accepted
        /\ row.group = invitation[i].group /\ row.status = st
    BY <1>2 DEF InvitationRows
  <2> HIDE DEF row
  <2> QED BY <1>1, <2>1, <2>2, NobodyAccepts
<1>6. "declined" \in Statuses
  BY DEF Statuses
<1> QED BY <1>3, <1>4, <1>5, <1>6 DEF Decline, CommitEdit

\* A step that leaves the invitations alone.
LEMMA InvitationsLeft ==
  ASSUME GInv, MemberInv, UNCHANGED invitation,
         \A g \in Groups, u \in People : Settled(g, u) /\ Exists(g) => Settled(g, u)'
  PROVE  MemberInv'
<1>1. ASSUME NEW i \in Invitations, invitation[i].accepted # NoOne
      PROVE  invitation[i].group \in Groups /\ invitation[i].accepted \in People /\ Exists(invitation[i].group)
             /\ invitation[i].status \in Statuses
  BY <1>1 DEF MemberInv, GInv, InvitationsTyped, InvitationRows, Exists, Stands
<1> QED BY <1>1, MembersKept

\* A member that is set, or another's row.
LEMMA SetIsMember ==
  ASSUME NEW k \in Groups \X People, NEW st, NEW f \in {Upsert(member, k, st), Ensure(member, k, st)},
         NEW j \in DOMAIN member, member' = f
  PROVE  j \in DOMAIN member' /\ (j # k => member'[j] = member[j])
<1>1. CASE member' = Upsert(member, k, st)
  <2>1. member' = [y \in DOMAIN member \union {k} |-> IF y = k THEN st ELSE member[y]]
    BY <1>1 DEF Upsert
  <2> QED BY <2>1
<1>2. CASE member' = Ensure(member, k, st)
  BY <1>1, <1>2 DEF Ensure
<1> QED BY <1>1, <1>2

LEMMA MemberCommitsMemberInv ==
  ASSUME GInv, MemberInv, NEW t \in GroupThreads,
         \/ CommitAddMember(t) \/ CommitRemoveMember(t)
         \/ \E status \in {"active", "left"} : CommitChangeMember(t, status)
  PROVE  MemberInv'
<1> DEFINE k == <<handler[t].group, handler[t].user>>
<1>1. k \in Groups \X People /\ k[1] = handler[t].group /\ UNCHANGED <<invitation, creator>>
  BY DEF CommitAddMember, CommitChangeMember, CommitRemoveMember, Answers, GInv, HandlersTyped, OwnerActs
<1>a. \A g \in Groups, u \in People : <<g, u>> = k => g = k[1]
  BY <1>1
<1>2. CASE CommitAddMember(t)
  <2>1. member' = Upsert(member, k, "active") /\ UNCHANGED overruled
    BY <1>2 DEF CommitAddMember
  <2> HIDE DEF k
  <2>2. member' = [y \in DOMAIN member \union {k} |-> IF y = k THEN "active" ELSE member[y]]
    BY <2>1 DEF Upsert
  <2>3. \A g \in Groups, u \in People : Settled(g, u) => Settled(g, u)'
    BY <2>1, <2>2 DEF Settled, IsActiveMember
  <2> QED BY <1>1, <2>3, InvitationsLeft
<1>3. ASSUME NEW status \in {"active", "left"}, CommitChangeMember(t, status) PROVE MemberInv'
  <2>1. member' = Upsert(member, k, status) /\ overruled' = overruled \union {k}
    BY <1>3 DEF CommitChangeMember
  <2> HIDE DEF k
  <2>2. member' = [y \in DOMAIN member \union {k} |-> IF y = k THEN status ELSE member[y]]
    BY <2>1 DEF Upsert
  <2>3. \A g \in Groups, u \in People : Settled(g, u) => Settled(g, u)'
    BY <2>1, <2>2 DEF Settled, IsActiveMember
  <2> QED BY <1>1, <2>3, InvitationsLeft
<1>4. CASE CommitRemoveMember(t)
  <2>1. member' = Without(member, {k}) /\ overruled' = IF Exists(k[1]) THEN overruled \union {k} ELSE overruled
    BY <1>4 DEF CommitRemoveMember
  <2> HIDE DEF k
  <2>2. member' = [y \in DOMAIN member \ {k} |-> member[y]]
    BY <2>1 DEF Without
  <2>3. \A g \in Groups, u \in People : Settled(g, u) /\ Exists(g) => Settled(g, u)'
    BY <1>a, <2>1, <2>2 DEF Settled, IsActiveMember
  <2> QED BY <1>1, <2>3, InvitationsLeft
<1> QED BY <1>2, <1>3, <1>4

LEMMA CreateGroupMemberInv ==
  ASSUME GInv, MemberInv, NEW t \in GroupThreads, NEW u \in People, NEW g \in Groups, CreateGroup(t, u, g)
  PROVE  MemberInv'
<1> DEFINE k == <<g, u>>
<1>1. member' = Ensure(member, k, "active") /\ UNCHANGED <<overruled, invitation>>
  BY DEF CreateGroup
<1> HIDE DEF k
<1>2. \/ member' = member
      \/ member' = [y \in DOMAIN member \union {k} |-> IF y = k THEN "active" ELSE member[y]]
  BY <1>1 DEF Ensure, Upsert
<1>3. \A h \in Groups, w \in People : Settled(h, w) => Settled(h, w)'
  BY <1>1, <1>2 DEF Settled, IsActiveMember
<1> QED BY <1>1, <1>3, InvitationsLeft

LEMMA CommitDeleteGroupMemberInv ==
  ASSUME GInv, MemberInv, NEW t \in GroupThreads, CommitDeleteGroup(t)
  PROVE  MemberInv'
<1> DEFINE g == handler[t].group
<1>1. /\ member' = Without(member, {g} \X People) /\ overruled' = overruled \ ({g} \X People)
      /\ \A i \in Invitations : invitation'[i] = IF invitation[i].group = g THEN Deleted ELSE invitation[i]
  BY DEF CommitDeleteGroup
<1> HIDE DEF g
<1>2. member' = [y \in DOMAIN member \ ({g} \X People) |-> member[y]]
  BY <1>1 DEF Without
<1>3. \A h, u : h # g /\ Settled(h, u) => Settled(h, u)'
  <2> SUFFICES ASSUME NEW h, NEW u, h # g, Settled(h, u) PROVE Settled(h, u)'
    OBVIOUS
  <2>1. <<h, u>> \notin {g} \X People
    OBVIOUS
  <2> HIDE DEF g
  <2> QED BY <1>1, <1>2, <2>1 DEF Settled, IsActiveMember
<1>4. \A i \in Invitations : invitation'[i].accepted # NoOne =>
          invitation[i].group # g /\ invitation'[i] = invitation[i] /\ invitation[i].status \in Statuses
  BY <1>1, NoInvitationTyped DEF MemberInv, Stands
<1> QED BY <1>3, <1>4, MembersKept

LEMMA CommitAcceptMemberInv ==
  ASSUME GInv, MemberInv, NEW t \in GroupThreads, NEW i \in Invitations, CommitAccept(t, i)
  PROVE  MemberInv'
<1> DEFINE g == invitation[i].group
           u == handler[t].user
           k == <<g, u>>
<1>1. invitation[i] \in InvitationRows /\ invitation \in [Invitations -> InvitationRows]
  BY DEF GInv, InvitationsTyped
<1>2. /\ \A j \in Invitations : j # i => invitation'[j] = invitation[j]
      /\ invitation'[i].group = g /\ invitation'[i].accepted = u /\ invitation'[i].status = "accepted"
  BY <1>1 DEF CommitAccept, Accepted, InvitationRows
<1>3. member' = Upsert(member, k, "active") /\ overruled' = overruled \ {k}
  BY DEF CommitAccept, Joins
<1>4. /\ \A h, w : h = g /\ w = u => Settled(h, w)'
      /\ \A h, w : Settled(h, w) => Settled(h, w)'
  <2>2. ASSUME NEW h, NEW w
        PROVE  /\ Settled(h, w) => \/ <<h, w>> \in DOMAIN member' /\ member'[<<h, w>>] = "active"
                                \/ <<h, w>> \in overruled'
               /\ k \in DOMAIN member' /\ member'[k] = "active"
    <3> DEFINE y == <<h, w>>
    <3> HIDE DEF k, y
    <3>1. member' = [z \in DOMAIN member \union {k} |-> IF z = k THEN "active" ELSE member[z]]
      BY <1>3 DEF Upsert
    <3>2. (y \in DOMAIN member /\ member[y] = "active") \/ y \in overruled
            => (y \in DOMAIN member' /\ member'[y] = "active") \/ y \in overruled'
      BY <1>3, <3>1
    <3> QED BY <3>1, <3>2 DEF Settled, IsActiveMember, y
  <2> QED BY <2>2 DEF Settled, IsActiveMember
<1>5. ASSUME NEW j \in Invitations, invitation'[j].accepted # NoOne
      PROVE  (\A h, w : h = invitation'[j].group /\ w = invitation'[j].accepted => Settled(h, w)')
             /\ invitation'[j].status \in Statuses
  <2>1. CASE j = i
    BY <1>2, <1>4, <2>1 DEF Statuses
  <2>2. CASE j # i
    <3>1. Settled(invitation[j].group, invitation[j].accepted) /\ invitation[j].status \in Statuses
      BY <1>2, <1>5, <2>2 DEF MemberInv, AcceptedIsMember, Settled, Stands
    <3> QED BY <1>2, <1>4, <2>2, <3>1
  <2> QED BY <2>1, <2>2
<1> QED BY <1>5 DEF MemberInv, AcceptedIsMember, Settled, Stands

LEMMA NextMemberInv ==
  ASSUME GInv, MemberInv, [GroupNext]_groupVars
  PROVE  MemberInv'
<1>1. ASSUME UNCHANGED <<member, overruled, invitation>> PROVE MemberInv'
  BY <1>1, InvitationsLeft DEF Settled, IsActiveMember
<1>2. ASSUME NEW t \in GroupThreads, OwnerStep(t) PROVE MemberInv'
  <2>1. ASSUME NEW g \in Groups, NEW u \in People, NEW act \in OwnerActs, CheckOwner(t, g, u, act) PROVE MemberInv'
    BY <1>1, <2>1 DEF CheckOwner
  <2> QED BY <1>2, <2>1, CommitDeleteGroupMemberInv, MemberCommitsMemberInv, InvitationCommitsMemberInv DEF OwnerStep
<1>3. ASSUME NEW t \in GroupThreads, NEW i \in Invitations, NEW u \in People, SelectInvitation(t, u, i) PROVE MemberInv'
  BY <1>1, <1>3 DEF SelectInvitation
<1>4. ASSUME NEW t \in GroupThreads, GroupFails(t) PROVE MemberInv'
  BY <1>1, <1>4 DEF GroupFails
<1>5. ASSUME GroupNext PROVE MemberInv'
  BY <1>2, <1>3, <1>4, <1>5, CreateGroupMemberInv, InvitationCommitsMemberInv, CommitAcceptMemberInv DEF GroupNext
<1>6. CASE UNCHANGED groupVars
  BY <1>1, <1>6 DEF groupVars
<1> QED BY <1>5, <1>6

\* handle_invitations_accept commits the answer with the membership: who accepted
\* an invitation is an active member until the owner removes or changes them, for
\* any requests in flight, of the owner's and of other users, and whatever the
\* invitation's row has become.
THEOREM AcceptedAreMembers == GroupSpec => []AcceptedIsMember
<1>1. GInv /\ MemberInv /\ [GroupNext]_groupVars => MemberInv'
  BY NextMemberInv
<1>2. GroupInit => MemberInv
  BY InitMemberInv
<1>3. MemberInv => AcceptedIsMember
  BY DEF MemberInv
<1> QED BY <1>1, <1>2, <1>3, AlwaysGInv, PTL DEF GroupSpec

-----------------------------------------------------------------------------
(* Who becomes a member *)

\* An invitation keeps its addressee, and one that was given up never stands again.
Readdressed ==
    \A i \in Invitations :
        invitation[i].status # "none" =>
            /\ invitation'[i].status # "none"
            /\ invitation'[i].status \in Statuses =>
                  invitation[i].status \in Statuses /\ invitation'[i].email = invitation[i].email

LEMMA NextReaddressed ==
  ASSUME GInv, GroupNext
  PROVE  Readdressed
<1>0. invitation \in [Invitations -> InvitationRows]
  BY DEF GInv, InvitationsTyped
<1>1. ASSUME UNCHANGED invitation PROVE Readdressed
  BY <1>1 DEF Readdressed
<1>2. ASSUME NEW t \in GroupThreads, NEW i \in Invitations, CommitInvite(t, i) PROVE Readdressed
  <2>1. invitation[i].status = "none" /\ \A j \in Invitations : j # i => invitation'[j] = invitation[j]
    BY <1>0, <1>2, NoInvitationTyped DEF CommitInvite
  <2> QED BY <2>1 DEF Readdressed
<1>3. ASSUME NEW i \in Invitations, NEW st \in Statuses, SetStatus(i, st) PROVE Readdressed
  <2>1. /\ \A j \in Invitations : j # i => invitation'[j] = invitation[j]
        /\ invitation'[i].email = invitation[i].email /\ invitation'[i].status = st /\ Stands(i)
    BY <1>0, <1>3 DEF SetStatus, InvitationRows
  <2> QED BY <2>1 DEF Readdressed, Stands, Statuses
<1>4. ASSUME NEW t \in GroupThreads, NEW i \in Invitations, CommitWithdraw(t, i) PROVE Readdressed
  BY <1>0, <1>4, NoInvitationTyped DEF CommitWithdraw, Readdressed, Statuses
<1>5. ASSUME NEW t \in GroupThreads, NEW i \in Invitations, CommitAccept(t, i) PROVE Readdressed
  <2>1. /\ \A j \in Invitations : j # i => invitation'[j] = invitation[j]
        /\ invitation'[i].email = invitation[i].email /\ invitation'[i].status = "accepted" /\ Stands(i)
    BY <1>0, <1>5 DEF CommitAccept, Accepted, InvitationRows
  <2> QED BY <2>1 DEF Readdressed, Stands, Statuses
<1>6. ASSUME NEW t \in GroupThreads, CommitDeleteGroup(t) PROVE Readdressed
  <2>1. \A j \in Invitations : invitation'[j] = invitation[j] \/ invitation'[j] = Deleted
    BY <1>6 DEF CommitDeleteGroup
  <2> QED BY <2>1, NoInvitationTyped DEF Readdressed, Statuses
<1>7. ASSUME NEW t \in GroupThreads, OwnerStep(t) PROVE Readdressed
  <2>1. ASSUME \/ \E g \in Groups, u \in People, act \in OwnerActs : CheckOwner(t, g, u, act)
               \/ CommitAddMember(t) \/ CommitRemoveMember(t)
               \/ \E status \in {"active", "left"} : CommitChangeMember(t, status)
        PROVE  Readdressed
    <3>1. UNCHANGED invitation
      BY <2>1 DEF CheckOwner, CommitAddMember, CommitRemoveMember, CommitChangeMember
    <3> QED BY <1>1, <3>1
  <2>2. ASSUME NEW i \in Invitations, NEW st \in Statuses, CommitEdit(t, i, st) PROVE Readdressed
    BY <1>3, <2>2 DEF CommitEdit
  <2> QED BY <1>2, <1>4, <1>6, <1>7, <2>1, <2>2 DEF OwnerStep
<1>8. "declined" \in Statuses
  BY DEF Statuses
<1>9. ASSUME NEW t \in GroupThreads, NEW i \in Invitations, Decline(t, i) PROVE Readdressed
  BY <1>3, <1>8, <1>9 DEF Decline
<1>10. ASSUME NEW t \in GroupThreads, NEW i \in Invitations, NEW u \in People, SelectInvitation(t, u, i) PROVE Readdressed
  BY <1>1, <1>10 DEF SelectInvitation
<1>11. ASSUME NEW t \in GroupThreads, NEW u \in People, NEW g \in Groups, CreateGroup(t, u, g) PROVE Readdressed
  BY <1>1, <1>11 DEF CreateGroup
<1>12. ASSUME NEW t \in GroupThreads, GroupFails(t) PROVE Readdressed
  BY <1>1, <1>12 DEF GroupFails
<1> QED BY <1>5, <1>7, <1>9, <1>10, <1>11, <1>12 DEF GroupNext

LEMMA NextAddressed ==
  ASSUME GInv, Addressed, [GroupNext]_groupVars
  PROVE  Addressed'
<1>0. handler \in [GroupThreads -> GroupStates] /\ invitation \in [Invitations -> InvitationRows]
  BY DEF GInv, HandlersTyped, InvitationsTyped
<1>1. ASSUME Readdressed,
             \A t \in GroupThreads : handler'[t].at = "accepting" =>
                handler'[t] = handler[t] \/ \E i \in Invitations :
                    /\ handler'[t].accepts = {i} /\ invitation[i].status = "pending"
                    /\ invitation[i].email = handler'[t].user
      PROVE  Addressed'
  <2> SUFFICES ASSUME NEW t \in GroupThreads, handler'[t].at = "accepting", NEW i \in handler'[t].accepts
               PROVE  /\ invitation'[i].status # "none"
                      /\ invitation'[i].status \in Statuses => invitation'[i].email = handler'[t].user
    BY DEF Addressed, Stands
  <2>1. i \in Invitations /\ invitation[i].status # "none"
        /\ (invitation[i].status \in Statuses => invitation[i].email = handler'[t].user)
    <3>1. CASE handler'[t] = handler[t]
      BY <1>0, <3>1 DEF Addressed, Stands, GroupStates
    <3>2. CASE \E j \in Invitations : /\ handler'[t].accepts = {j} /\ invitation[j].status = "pending"
                                      /\ invitation[j].email = handler'[t].user
      BY <3>2
    <3> QED BY <1>1, <3>1, <3>2
  <2> QED BY <1>1, <2>1 DEF Readdressed
<1>2. ASSUME NEW t \in GroupThreads, NEW x, Goes(t, x), x.at # "accepting", Readdressed
      PROVE  Addressed'
  BY <1>0, <1>1, <1>2 DEF Goes
<1>3. Free.at # "accepting"
  BY FreeTyped
<1>4. ASSUME NEW t \in GroupThreads, NEW p, Answers(t, p), Readdressed
      PROVE  Addressed'
  BY <1>2, <1>3, <1>4 DEF Answers
<1>5. ASSUME UNCHANGED handler, Readdressed PROVE Addressed'
  BY <1>1, <1>5
<1>6. ASSUME NEW t \in GroupThreads, OwnerStep(t), Readdressed PROVE Addressed'
  <2>1. ASSUME NEW g \in Groups, NEW u \in People, NEW act \in OwnerActs, CheckOwner(t, g, u, act) PROVE Addressed'
    <3> DEFINE x == [Free EXCEPT !.at = act, !.group = g, !.user = u]
    <3>1. x.at # "accepting"
      BY FreeTyped DEF GroupStates, OwnerActs
    <3>2. Goes(t, x)
      BY <2>1 DEF CheckOwner
    <3> HIDE DEF x
    <3> QED BY <1>2, <1>6, <3>1, <3>2
  <2> QED BY <1>4, <1>6, <2>1
      DEF OwnerStep, CommitDeleteGroup, CommitAddMember, CommitRemoveMember, CommitChangeMember, CommitInvite,
          CommitWithdraw, CommitEdit
<1>7. ASSUME NEW t \in GroupThreads, NEW i \in Invitations, NEW u \in People, SelectInvitation(t, u, i), Readdressed
      PROVE  Addressed'
  <2> DEFINE x == [Free EXCEPT !.at = "accepting", !.user = u, !.accepts = {i}, !.group = invitation[i].group]
  <2>1. x.accepts = {i} /\ x.user = u
    BY FreeTyped DEF GroupStates
  <2>2. Goes(t, x) /\ invitation[i].status = "pending" /\ invitation[i].email = u
    BY <1>7 DEF SelectInvitation
  <2> HIDE DEF x
  <2> QED BY <1>0, <1>1, <1>7, <2>1, <2>2 DEF Goes
<1>8. CASE GroupNext
  <2>1. Readdressed
    BY <1>8, NextReaddressed
  <2>2. ASSUME NEW t \in GroupThreads, GroupFails(t) PROVE Addressed'
    BY <1>2, <1>3, <2>1, <2>2 DEF GroupFails
  <2>3. ASSUME NEW t \in GroupThreads, NEW i \in Invitations, CommitAccept(t, i) \/ Decline(t, i) PROVE Addressed'
    BY <1>4, <1>5, <2>1, <2>3 DEF CommitAccept, Decline
  <2>4. ASSUME NEW t \in GroupThreads, NEW u \in People, NEW g \in Groups, CreateGroup(t, u, g) PROVE Addressed'
    BY <1>5, <2>1, <2>4 DEF CreateGroup
  <2> QED BY <1>6, <1>7, <1>8, <2>1, <2>2, <2>3, <2>4 DEF GroupNext
<1>9. CASE UNCHANGED groupVars
  BY <1>9 DEF groupVars, Addressed, Stands
<1> QED BY <1>8, <1>9

\* What a step may make of a membership.
LEMMA StepAdmits ==
  ASSUME GInv, Addressed, [GroupNext]_groupVars, NEW g \in Groups, NEW u \in People,
         IsActiveMember(g, u)', ~IsActiveMember(g, u)
  PROVE  \/ creator'[g] = u
         \/ \E t \in GroupThreads :
                handler[t].at \in {"adding", "changing"} /\ handler[t].group = g /\ handler[t].user = u
         \/ \E i \in Invitations : invitation[i].group = g /\ invitation[i].email = u
<1> DEFINE Goal == \/ creator'[g] = u
                   \/ \E t \in GroupThreads :
                         handler[t].at \in {"adding", "changing"} /\ handler[t].group = g /\ handler[t].user = u
                   \/ \E i \in Invitations : invitation[i].group = g /\ invitation[i].email = u
           k == <<g, u>>
<1>0. (k \in DOMAIN member' /\ member'[k] = "active") /\ ~(k \in DOMAIN member /\ member[k] = "active")
  BY DEF IsActiveMember
<1>k. \A h, w : <<h, w>> = k => h = g /\ w = u
  OBVIOUS
<1> HIDE DEF k
<1>1. ~UNCHANGED member
  BY <1>0
<1>2. ASSUME NEW S, member' = Without(member, S) PROVE FALSE
  <2>1. member' = [y \in DOMAIN member \ S |-> member[y]]
    BY <1>2 DEF Without
  <2> QED BY <1>0, <2>1
<1>3. ASSUME NEW j, NEW st, member' = Upsert(member, j, st) \/ member' = Ensure(member, j, st)
      PROVE  j = k
  <2>1. member' = member \/ member' = [y \in DOMAIN member \union {j} |-> IF y = j THEN st ELSE member[y]]
    BY <1>3 DEF Upsert, Ensure
  <2> QED BY <1>0, <2>1
<1>4. ASSUME NEW t \in GroupThreads, NEW w \in People, NEW h \in Groups, CreateGroup(t, w, h) PROVE Goal
  <2>1. <<h, w>> = k
    BY <1>3, <1>4 DEF CreateGroup
  <2>2. creator \in [Groups -> People \union {NoOne}]
    BY DEF GInv, GroupsTyped
  <2> QED BY <1>k, <1>4, <2>1, <2>2 DEF CreateGroup
<1>5. ASSUME NEW t \in GroupThreads, OwnerStep(t) PROVE Goal
  <2>1. CASE CommitAddMember(t)
    <3>1. <<handler[t].group, handler[t].user>> = k /\ handler[t].at = "adding"
      BY <1>3, <2>1 DEF CommitAddMember, Answers
    <3> QED BY <1>k, <3>1
  <2>2. ASSUME NEW st \in {"active", "left"}, CommitChangeMember(t, st) PROVE Goal
    <3>1. <<handler[t].group, handler[t].user>> = k /\ handler[t].at = "changing"
      BY <1>3, <2>2 DEF CommitChangeMember, Answers
    <3> QED BY <1>k, <3>1
  <2>3. CASE CommitDeleteGroup(t) \/ CommitRemoveMember(t)
    BY <1>2, <2>3 DEF CommitDeleteGroup, CommitRemoveMember
  <2>4. ASSUME NEW h \in Groups, NEW w \in People, NEW act \in OwnerActs, CheckOwner(t, h, w, act) PROVE FALSE
    BY <1>1, <2>4 DEF CheckOwner
  <2>5. ASSUME NEW i \in Invitations, CommitInvite(t, i) \/ CommitWithdraw(t, i) PROVE FALSE
    BY <1>1, <2>5 DEF CommitInvite, CommitWithdraw
  <2>6. ASSUME NEW i \in Invitations, NEW st \in Statuses, CommitEdit(t, i, st) PROVE FALSE
    BY <1>1, <2>6 DEF CommitEdit
  <2> HIDE DEF Goal
  <2> QED BY <1>5, <2>1, <2>2, <2>3, <2>4, <2>5, <2>6 DEF OwnerStep
<1>6. ASSUME NEW t \in GroupThreads, NEW i \in Invitations, CommitAccept(t, i) PROVE Goal
  <2>1. <<invitation[i].group, handler[t].user>> = k
    BY <1>3, <1>6 DEF CommitAccept, Joins
  <2>2. invitation[i].email = handler[t].user
    BY <1>6 DEF CommitAccept, Addressed, Answers
  <2> QED BY <1>k, <2>1, <2>2
<1>7. ASSUME NEW t \in GroupThreads, NEW i \in Invitations, Decline(t, i) PROVE FALSE
  BY <1>1, <1>7 DEF Decline
<1>8. ASSUME NEW t \in GroupThreads, NEW i \in Invitations, NEW w \in People, SelectInvitation(t, w, i) PROVE FALSE
  BY <1>1, <1>8 DEF SelectInvitation
<1>9. ASSUME NEW t \in GroupThreads, GroupFails(t) PROVE FALSE
  BY <1>1, <1>9 DEF GroupFails
<1>10. CASE UNCHANGED groupVars
  BY <1>1, <1>10 DEF groupVars
<1>11. CASE GroupNext
  <2> HIDE DEF Goal
  <2>1. PICK t \in GroupThreads :
           \/ \E h \in Groups, w \in People : CreateGroup(t, w, h)
           \/ OwnerStep(t)
           \/ \E i \in Invitations :
                 \/ Decline(t, i)
                 \/ \E w \in People : SelectInvitation(t, w, i)
                 \/ CommitAccept(t, i)
           \/ GroupFails(t)
    BY <1>11 DEF GroupNext
  <2>2. Goal
    BY <1>4, <1>5, <1>6, <1>7, <1>8, <1>9, <2>1
  <2> QED BY <2>2 DEF Goal
<1> QED BY <1>10, <1>11

\* A user becomes an active member by creating the group, by an act of its owner
\* under way, or by an invitation to them in that group that stands when it is
\* accepted: handle_invitations_accept updates the row it selected by its id, so
\* one withdrawn in between admits nobody, and one accepted is still its user's.
THEOREM MembersAreAdmitted == GroupSpec => AdmittedByOwner
<1>1. GInv /\ Addressed /\ [GroupNext]_groupVars =>
         [\A g \in Groups, u \in People :
            IsActiveMember(g, u)' /\ ~IsActiveMember(g, u) =>
               \/ creator'[g] = u
               \/ \E t \in GroupThreads :
                      handler[t].at \in {"adding", "changing"} /\ handler[t].group = g
                          /\ handler[t].user = u
               \/ \E i \in Invitations : invitation[i].group = g /\ invitation[i].email = u]_groupVars
  BY StepAdmits
<1>2. GInv /\ Addressed /\ [GroupNext]_groupVars => Addressed'
  BY NextAddressed
<1>3. GroupInit => Addressed
  BY InitMemberInv
<1> QED BY <1>1, <1>2, <1>3, AlwaysGInv, PTL DEF GroupSpec, AdmittedByOwner

===============================================================================
