---------------------------- MODULE AuthSessions ----------------------------
(***************************************************************************)
(* The sessions of one user: access_service's threads, which register,     *)
(* log in, rotate and revoke refresh sessions and change the password, and *)
(* the gateway's threads, which verify access tokens through a cache in    *)
(* Redis with an index of the user's cached tokens.                        *)
(*                                                                         *)
(* A handler reads under READ COMMITTED without locks and commits later;   *)
(* only rows updated by an uncommitted transaction hold up another update. *)
(* Passwords are numbered by the change that set them.                     *)
(***************************************************************************)
EXTENDS Naturals, FiniteSets

CONSTANTS
    AccessThreads,   \* threads of access_service
    GatewayThreads,  \* threads of the gateway
    Sessions,        \* refresh sessions, told apart by their token's hash
    Tokens,          \* access tokens of the user
    NoSession,       \* what a thread without a session works on
    NoToken,         \* the token of an idle gateway thread
    MaxRequests      \* bound: requests to access_service

ASSUME AuthAssumption ==
    /\ NoSession \notin Sessions /\ NoToken \notin Tokens
    /\ IsFiniteSet(Sessions)
    /\ MaxRequests \in Nat

VARIABLES
    registered,  \* the user's row exists
    password,    \* the password its hash is of
    session,     \* status of each refresh session, none before it is issued
    expired,     \* sessions past their expires_at
    issued,      \* the password in force when the session's handler read
    late,        \* sessions committed after a change its handler did not see
    access,      \* what each thread of access_service is at
    logins,      \* sessions given for a password
    races,       \* rotations of a session that was revoked meanwhile
    authRequests,       \* requests to access_service so far
    cached,      \* tokens with an auth:verify entry
    index,       \* auth:user:<id>:token_hashes
    gap,         \* cached tokens set while the index was being emptied
    gateway      \* what each thread of the gateway is at

accounts == <<registered, password, session, expired, issued, late, logins, races>>
cache == <<cached, index, gap>>
authVars == <<accounts, access, authRequests, cache, gateway>>

AccessIdle == [at |-> "idle", session |-> NoSession, password |-> 0, swept |-> {},
               tokens |-> {}]
GatewayIdle == [at |-> "idle", token |-> NoToken]

AccessPhases == {"idle", "registering", "authenticated", "rotating", "revoking", "verified",
                 "sweeping", "changed", "invalidating"}

AuthInit ==
    /\ registered = FALSE
    /\ password = 0
    /\ session = [s \in Sessions |-> "none"]
    /\ expired = {} /\ late = {}
    /\ issued = [s \in Sessions |-> 0]
    /\ access = [a \in AccessThreads |-> AccessIdle]
    /\ logins = 0 /\ races = 0 /\ authRequests = 0
    /\ cached = {} /\ index = {} /\ gap = {}
    /\ gateway = [g \in GatewayThreads |-> GatewayIdle]

AccessAt(a, p) == access[a].at = p
AccessTo(a, x) == access' = [access EXCEPT ![a] = x]
Ask(a) == AccessAt(a, "idle") /\ authRequests < MaxRequests /\ authRequests' = authRequests + 1

\* Sessions an uncommitted change_password has updated: their rows are locked.
RowsLocked == UNION {access[a].swept : a \in AccessThreads}

\* A new session is committed by thread a, whose handler read password p.
Issue(s, p) ==
    /\ issued' = [issued EXCEPT ![s] = p]
    /\ late' = IF p # password \/ \E b \in AccessThreads : AccessAt(b, "sweeping")
               THEN late \union {s} ELSE late

-----------------------------------------------------------------------------
(* auth.register, auth.login, auth.logout, auth.refresh *)

Register(a) ==
    /\ Ask(a)
    /\ AccessTo(a, [AccessIdle EXCEPT !.at = "registering"])
    /\ UNCHANGED <<accounts, cache, gateway>>

\* users.email is unique: the second of two registrations gets an error.
CommitUser(a) ==
    /\ AccessAt(a, "registering")
    /\ registered' = TRUE
    /\ AccessTo(a, AccessIdle)
    /\ UNCHANGED <<password, session, expired, issued, late, logins, races, authRequests, cache, gateway>>

\* The password is verified against the hash read.
Login(a) ==
    /\ Ask(a)
    /\ registered
    /\ AccessTo(a, [AccessIdle EXCEPT !.at = "authenticated", !.password = password])
    /\ UNCHANGED <<accounts, cache, gateway>>

CommitLogin(a, s) ==
    /\ AccessAt(a, "authenticated")
    /\ session[s] = "none"
    /\ session' = [session EXCEPT ![s] = "active"]
    /\ Issue(s, access[a].password)
    /\ logins' = logins + 1
    /\ AccessTo(a, AccessIdle)
    /\ UNCHANGED <<registered, password, expired, races, authRequests, cache, gateway>>

Logout(a, s) ==
    /\ Ask(a)
    /\ session[s] = "active"
    /\ AccessTo(a, [AccessIdle EXCEPT !.at = "revoking", !.session = s])
    /\ UNCHANGED <<accounts, cache, gateway>>

CommitLogout(a) ==
    /\ AccessAt(a, "revoking")
    /\ access[a].session \notin RowsLocked
    /\ session' = [session EXCEPT ![access[a].session] = "revoked"]
    /\ AccessTo(a, AccessIdle)
    /\ UNCHANGED <<registered, password, expired, issued, late, logins, races, authRequests, cache,
                   gateway>>

Refresh(a, s) ==
    /\ Ask(a)
    /\ session[s] = "active" /\ s \notin expired
    /\ AccessTo(a, [AccessIdle EXCEPT !.at = "rotating", !.session = s, !.password = password])
    /\ UNCHANGED <<accounts, cache, gateway>>

\* Mutant: the rotated session is not revoked.
CommitRefreshKeepingOld(a, s) ==
    /\ AccessAt(a, "rotating")
    /\ session[s] = "none"
    /\ session' = [session EXCEPT ![s] = "active"]
    /\ Issue(s, access[a].password)
    /\ AccessTo(a, AccessIdle)
    /\ UNCHANGED <<registered, password, expired, logins, races, authRequests, cache, gateway>>

\* The old session is revoked by its id, whatever became of it, and the new one
\* is committed with it.
CommitRefresh(a, s) ==
    /\ AccessAt(a, "rotating")
    /\ session[s] = "none"
    /\ access[a].session \notin RowsLocked
    /\ session' = [session EXCEPT ![access[a].session] = "revoked", ![s] = "active"]
    /\ races' = IF session[access[a].session] = "revoked" THEN races + 1 ELSE races
    /\ Issue(s, access[a].password)
    /\ AccessTo(a, AccessIdle)
    /\ UNCHANGED <<registered, password, expired, logins, authRequests, cache, gateway>>

SessionExpires(s) ==
    /\ session[s] = "active"
    /\ expired' = expired \union {s}
    /\ UNCHANGED <<registered, password, session, issued, late, logins, races, access, authRequests,
                   cache, gateway>>

-----------------------------------------------------------------------------
(* auth.change_password *)

ChangePassword(a) ==
    /\ Ask(a)
    /\ registered
    /\ AccessTo(a, [AccessIdle EXCEPT !.at = "verified", !.password = password])
    /\ UNCHANGED <<accounts, cache, gateway>>

\* The user's row and its active sessions are updated: another change waits.
Sweep(a) ==
    /\ AccessAt(a, "verified")
    /\ \A b \in AccessThreads : ~AccessAt(b, "sweeping")
    /\ AccessTo(a, [access[a] EXCEPT !.at = "sweeping",
                    !.swept = {s \in Sessions : session[s] = "active"}])
    /\ UNCHANGED <<accounts, authRequests, cache, gateway>>

\* Mutant: the sessions are left as they are.
CommitHashOnly(a) ==
    /\ AccessAt(a, "sweeping")
    /\ password' = password + 1
    /\ AccessTo(a, [AccessIdle EXCEPT !.at = "changed"])
    /\ UNCHANGED <<registered, session, expired, issued, late, logins, races, authRequests, cache,
                   gateway>>

CommitChange(a) ==
    /\ AccessAt(a, "sweeping")
    /\ password' = password + 1
    /\ session' = [s \in Sessions |-> IF s \in access[a].swept THEN "revoked" ELSE session[s]]
    /\ AccessTo(a, [AccessIdle EXCEPT !.at = "changed"])
    /\ UNCHANGED <<registered, expired, issued, late, logins, races, authRequests, cache, gateway>>

\* invalidate_user: the index is read, then its entries and itself deleted.
ReadIndex(a) ==
    /\ AccessAt(a, "changed")
    /\ AccessTo(a, IF index = {} THEN AccessIdle
                   ELSE [AccessIdle EXCEPT !.at = "invalidating", !.tokens = index])
    /\ UNCHANGED <<accounts, authRequests, cache, gateway>>

DeleteEntries(a) ==
    /\ AccessAt(a, "invalidating")
    /\ cached' = cached \ access[a].tokens
    /\ gap' = (gap \union index) \ access[a].tokens
    /\ index' = {}
    /\ AccessTo(a, AccessIdle)
    /\ UNCHANGED <<accounts, authRequests, gateway>>

\* Redis raises, which invalidate_user logs.
InvalidationFails(a) ==
    /\ access[a].at \in {"changed", "invalidating"}
    /\ AccessTo(a, AccessIdle)
    /\ UNCHANGED <<accounts, authRequests, cache, gateway>>

\* The process dies, or the database raises: nothing is committed.
AccessFails(a) ==
    /\ access[a].at \in {"registering", "authenticated", "rotating", "revoking", "verified", "sweeping"}
    /\ AccessTo(a, AccessIdle)
    /\ UNCHANGED <<accounts, authRequests, cache, gateway>>

-----------------------------------------------------------------------------
(* The gateway: current_user *)

GatewayTo(g, p, t) == gateway' = [gateway EXCEPT ![g] = [at |-> p, token |-> t]]

\* auth.verify_token loads the user; it looks at no session.
Verify(g, t) ==
    /\ gateway[g].at = "idle"
    /\ t \notin cached
    /\ registered
    /\ GatewayTo(g, "storing", t)
    /\ UNCHANGED <<accounts, access, authRequests, cache>>

\* Mutant: the index is added to in a command of its own, which may not come.
CacheWithoutIndex(g) ==
    /\ gateway[g].at = "storing"
    /\ cached' = cached \union {gateway[g].token}
    /\ GatewayTo(g, "idle", NoToken)
    /\ UNCHANGED <<accounts, access, authRequests, index, gap>>

\* AuthVerifyCache.set: the entry and its place in the index in one pipeline.
CacheToken(g) ==
    /\ gateway[g].at = "storing"
    /\ cached' = cached \union {gateway[g].token}
    /\ index' = index \union {gateway[g].token}
    /\ gap' = gap \ {gateway[g].token}
    /\ GatewayTo(g, "idle", NoToken)
    /\ UNCHANGED <<accounts, access, authRequests>>

\* Redis raises, or the token has expired meanwhile: nothing is stored.
NothingCached(g) ==
    /\ gateway[g].at = "storing"
    /\ GatewayTo(g, "idle", NoToken)
    /\ UNCHANGED <<accounts, access, authRequests, cache>>

EntryLapses(t) ==
    /\ t \in cached
    /\ cached' = cached \ {t}
    /\ gap' = gap \ {t}
    /\ UNCHANGED <<accounts, access, authRequests, index, gateway>>

\* The index lives an hour longer than the entry set last.
IndexLapses ==
    /\ index # {} /\ index \intersect cached = {}
    /\ index' = {}
    /\ UNCHANGED <<accounts, access, authRequests, cached, gap, gateway>>

-----------------------------------------------------------------------------

AccessStep(a) ==
    \/ Register(a) \/ CommitUser(a)
    \/ Login(a) \/ \E s \in Sessions : CommitLogin(a, s)
    \/ (\E s \in Sessions : Logout(a, s)) \/ CommitLogout(a)
    \/ \E s \in Sessions : Refresh(a, s) \/ CommitRefresh(a, s)
    \/ ChangePassword(a) \/ Sweep(a) \/ CommitChange(a)
    \/ ReadIndex(a) \/ DeleteEntries(a) \/ InvalidationFails(a)
    \/ AccessFails(a)

GatewayStep(g) ==
    \/ \E t \in Tokens : Verify(g, t)
    \/ CacheToken(g) \/ NothingCached(g)

AuthNext ==
    \/ \E a \in AccessThreads : AccessStep(a)
    \/ \E g \in GatewayThreads : GatewayStep(g)
    \/ \E s \in Sessions : SessionExpires(s)
    \/ \E t \in Tokens : EntryLapses(t)
    \/ IndexLapses

AuthSpec == AuthInit /\ [][AuthNext]_authVars

-----------------------------------------------------------------------------
(* Properties *)

Active == {s \in Sessions : session[s] = "active"}

AuthTypeOK ==
    /\ registered \in BOOLEAN
    /\ password \in 0..MaxRequests
    /\ session \in [Sessions -> {"none", "active", "revoked"}]
    /\ {expired, late} \subseteq SUBSET Sessions
    /\ issued \in [Sessions -> 0..MaxRequests]
    /\ \A a \in AccessThreads : access[a].at \in AccessPhases /\ access[a].swept \subseteq Sessions
    /\ {cached, index, gap} \subseteq SUBSET Tokens
    /\ logins \in Nat /\ races \in Nat /\ authRequests \in 0..MaxRequests

\* handle_refresh gives a session for a session: a user has as many as logins
\* gave, and one more for each rotation that did not see its session revoked by
\* another rotation, a logout or a change of the password.
SessionsAccounted == Cardinality(Active) <= logins + races

\* handle_change_password revokes every session given for the old password,
\* directly or by rotation: what survives was committed by a handler that ran
\* into the change.
OldSessionsRevoked == \A s \in Active : issued[s] = password \/ s \in late

\* AuthVerifyCache: a cached token is in the index, where invalidate_user finds
\* it, unless it was cached while the index was being emptied.
CachedTokensIndexed == cached \subseteq index \union gap

=============================================================================
