--------------------------- MODULE GroupMembership ---------------------------
(***************************************************************************)
(* Family groups, their members and invitations: the handlers of           *)
(* group_service, each a read without a lock followed by a commit.  Rows   *)
(* of family_members and family_invitations refer to family_groups with    *)
(* on delete cascade; a user belongs to a group at most once.              *)
(***************************************************************************)
EXTENDS Naturals, FiniteSets

CONSTANTS
    GroupThreads,   \* threads of group_service
    Groups,
    People,         \* users, each with an email of their own
    Invitations,
    NoOne,          \* the creator of a group that does not exist
    NoGroup,        \* the group of an invitation that does not exist
    MaxGroupRequests  \* bound: requests

ASSUME GroupAssumption ==
    /\ NoOne \notin People /\ NoGroup \notin Groups
    /\ MaxGroupRequests \in Nat

VARIABLES
    creator,     \* created_by_user_id of each group
    used,        \* groups that exist or existed
    member,      \* status of family_members rows, by <<group, user>>
    invitation,  \* family_invitations rows
    overruled,   \* members the owner removed or changed since they last joined
    handler,     \* what each thread is at
    calls        \* requests so far

groupVars == <<creator, used, member, invitation, overruled, handler, calls>>

NoInvitation == [group |-> NoGroup, email |-> NoOne, status |-> "none", accepted |-> NoOne]
Deleted == [NoInvitation EXCEPT !.status = "deleted"]
Statuses == {"pending", "accepted", "declined"}
Free == [at |-> "free", group |-> NoGroup, user |-> NoOne, accepts |-> {}]

GroupInit ==
    /\ creator = [g \in Groups |-> NoOne]
    /\ used = {}
    /\ member = [k \in {} |-> "active"]
    /\ invitation = [i \in Invitations |-> NoInvitation]
    /\ overruled = {}
    /\ handler = [t \in GroupThreads |-> Free]
    /\ calls = 0

Exists(g) == g \in Groups /\ creator[g] # NoOne
Stands(i) == invitation[i].status \in Statuses
Begins(t) == handler[t].at = "free" /\ calls < MaxGroupRequests /\ calls' = calls + 1
Goes(t, x) == handler' = [handler EXCEPT ![t] = x]
Answers(t, p) == handler[t].at = p /\ Goes(t, Free) /\ UNCHANGED calls

\* insert ... on conflict do update, or do nothing.
Upsert(f, k, x) == [y \in DOMAIN f \union {k} |-> IF y = k THEN x ELSE f[y]]
Ensure(f, k, x) == IF k \in DOMAIN f THEN f ELSE Upsert(f, k, x)
Without(f, S) == [y \in DOMAIN f \ S |-> f[y]]

-----------------------------------------------------------------------------
(* groups.create, groups.delete *)

\* The group and its owner's membership are committed together.
CreateGroup(t, u, g) ==
    /\ Begins(t)
    /\ g \notin used
    /\ used' = used \union {g}
    /\ creator' = [creator EXCEPT ![g] = u]
    /\ member' = Ensure(member, <<g, u>>, "active")
    /\ UNCHANGED <<invitation, overruled, handler>>

OwnerActs == {"adding", "changing", "removing", "inviting", "editing", "withdrawing", "deleting"}

\* _require_group_owner, in the handlers of the owner: otherwise they answer 403.
CheckOwner(t, g, u, act) ==
    /\ Begins(t)
    /\ Exists(g)
    /\ Goes(t, [Free EXCEPT !.at = act, !.group = g, !.user = u])
    /\ UNCHANGED <<creator, used, member, invitation, overruled>>

\* The members and invitations go with the group.
CommitDeleteGroup(t) ==
    LET g == handler[t].group IN
    /\ Answers(t, "deleting")
    /\ creator' = [creator EXCEPT ![g] = NoOne]
    /\ member' = Without(member, {g} \X People)
    /\ invitation' = [i \in Invitations |->
          IF invitation[i].group = g THEN Deleted ELSE invitation[i]]
    /\ overruled' = overruled \ ({g} \X People)
    /\ UNCHANGED used

-----------------------------------------------------------------------------
(* group_members.create, update, delete *)

\* A group deleted meanwhile fails the foreign key.
CommitAddMember(t) ==
    LET k == <<handler[t].group, handler[t].user>> IN
    /\ Exists(handler[t].group)
    /\ Answers(t, "adding")
    /\ member' = Upsert(member, k, "active")
    /\ UNCHANGED <<creator, used, invitation, overruled>>

CommitChangeMember(t, status) ==
    LET k == <<handler[t].group, handler[t].user>> IN
    /\ k \in DOMAIN member
    /\ Answers(t, "changing")
    /\ member' = Upsert(member, k, status)
    /\ overruled' = overruled \union {k}
    /\ UNCHANGED <<creator, used, invitation>>

CommitRemoveMember(t) ==
    LET k == <<handler[t].group, handler[t].user>> IN
    /\ Answers(t, "removing")
    /\ member' = Without(member, {k})
    /\ overruled' = IF Exists(k[1]) THEN overruled \union {k} ELSE overruled
    /\ UNCHANGED <<creator, used, invitation>>

-----------------------------------------------------------------------------
(* group_invitations.create, update, delete, accept, decline *)

CommitInvite(t, i) ==
    /\ Exists(handler[t].group)
    /\ invitation[i] = NoInvitation
    /\ Answers(t, "inviting")
    /\ invitation' = [invitation EXCEPT ![i] =
          [NoInvitation EXCEPT !.group = handler[t].group, !.email = handler[t].user,
                               !.status = "pending"]]
    /\ UNCHANGED <<creator, used, member, overruled>>

SetStatus(i, status) ==
    /\ Stands(i)
    /\ invitation' = [invitation EXCEPT ![i].status = status]

\* The update looks at the invitation's id alone: not at its group or status.
CommitEdit(t, i, status) ==
    /\ SetStatus(i, status)
    /\ Answers(t, "editing")
    /\ UNCHANGED <<creator, used, member, overruled>>

CommitWithdraw(t, i) ==
    /\ invitation[i].group = handler[t].group
    /\ Answers(t, "withdrawing")
    /\ invitation' = [invitation EXCEPT ![i] = Deleted]
    /\ UNCHANGED <<creator, used, member, overruled>>

Decline(t, i) ==
    /\ Begins(t)
    /\ SetStatus(i, "declined")
    /\ UNCHANGED <<creator, used, member, overruled, handler>>

\* The invitation is selected as pending, and addressed to the user's email or,
\* once accepted, to the user.  The email is looked at only if the request carries
\* one, which it does: the gateway passes on what users.email, not null, has.
SelectInvitation(t, u, i) ==
    /\ Begins(t)
    /\ invitation[i].status = "pending"
    /\ invitation[i].email = u
    /\ Goes(t, [Free EXCEPT !.at = "accepting", !.user = u, !.accepts = {i},
                         !.group = invitation[i].group])
    /\ UNCHANGED <<creator, used, member, invitation, overruled>>

\* User u joins group g.
Joins(g, u) ==
    /\ member' = Upsert(member, <<g, u>>, "active")
    /\ overruled' = overruled \ {<<g, u>>}

Accepted(t, i) ==
    invitation' = [invitation EXCEPT ![i].status = "accepted", ![i].accepted = handler[t].user]

\* Mutant: a member that is there is left as it is, as groups.create leaves it.
CommitAcceptOnce(t, i) ==
    /\ Stands(i)
    /\ i \in handler[t].accepts
    /\ Answers(t, "accepting")
    /\ Accepted(t, i)
    /\ member' = Ensure(member, <<invitation[i].group, handler[t].user>>, "active")
    /\ overruled' = overruled \ {<<invitation[i].group, handler[t].user>>}
    /\ UNCHANGED <<creator, used>>

\* Mutant: the invitation selected is accepted, whatever became of its row.
CommitAcceptSelected(t, i) ==
    /\ i \in handler[t].accepts
    /\ Answers(t, "accepting")
    /\ invitation' = [invitation EXCEPT ![i] = IF Stands(i)
          THEN [@ EXCEPT !.status = "accepted", !.accepted = handler[t].user] ELSE @]
    /\ Exists(handler[t].group)
    /\ Joins(handler[t].group, handler[t].user)
    /\ UNCHANGED <<creator, used>>

\* The row is updated by its id, and must be there; its user joins with it.
CommitAccept(t, i) ==
    /\ Stands(i)
    /\ i \in handler[t].accepts
    /\ Answers(t, "accepting")
    /\ Accepted(t, i)
    /\ Joins(invitation[i].group, handler[t].user)
    /\ UNCHANGED <<creator, used>>

\* A row is gone, the database raises or the process dies: nothing is committed.
GroupFails(t) ==
    /\ handler[t].at # "free"
    /\ Goes(t, Free)
    /\ UNCHANGED <<creator, used, member, invitation, overruled, calls>>

-----------------------------------------------------------------------------

OwnerStep(t) ==
    \/ \E g \in Groups, u \in People, act \in OwnerActs : CheckOwner(t, g, u, act)
    \/ CommitDeleteGroup(t)
    \/ CommitAddMember(t) \/ CommitRemoveMember(t)
    \/ \E status \in {"active", "left"} : CommitChangeMember(t, status)
    \/ \E i \in Invitations :
        \/ CommitInvite(t, i) \/ CommitWithdraw(t, i)
        \/ \E status \in Statuses : CommitEdit(t, i, status)

GroupNext ==
    \E t \in GroupThreads :
        \/ \E g \in Groups, u \in People : CreateGroup(t, u, g)
        \/ OwnerStep(t)
        \/ \E i \in Invitations :
            \/ Decline(t, i)
            \/ \E u \in People : SelectInvitation(t, u, i)
            \/ CommitAccept(t, i)
        \/ GroupFails(t)

GroupSpec == GroupInit /\ [][GroupNext]_groupVars

-----------------------------------------------------------------------------
(* Properties *)

\* Every variable has its type; members and invitations are of groups that exist.
GroupTypeOK ==
    /\ creator \in [Groups -> People \union {NoOne}]
    /\ {g \in Groups : Exists(g)} \subseteq used
    /\ \A k \in DOMAIN member : Exists(k[1]) /\ k[2] \in People /\ member[k] \in {"active", "left"}
    /\ \A i \in Invitations :
        Stands(i) => Exists(invitation[i].group)
    /\ overruled \subseteq {g \in Groups : Exists(g)} \X People
    /\ calls \in 0..MaxGroupRequests

IsActiveMember(g, u) == <<g, u>> \in DOMAIN member /\ member[<<g, u>>] = "active"

\* handle_invitations_accept commits the answer with the membership: the user
\* who accepted an invitation is an active member, whatever the invitation's
\* status says now, unless the owner has removed or changed the member since.
AcceptedIsMember ==
    \A i \in Invitations :
        LET u == invitation[i].accepted
            g == invitation[i].group
        IN u # NoOne => IsActiveMember(g, u) \/ <<g, u>> \in overruled

\* A user becomes an active member by creating the group, by an act of its
\* owner, or by an invitation to them that stands to the moment it is accepted:
\* one withdrawn while it is being accepted admits nobody.
AdmittedByOwner ==
    [][\A g \in Groups, u \in People :
          IsActiveMember(g, u)' /\ ~IsActiveMember(g, u) =>
             \/ creator'[g] = u
             \/ \E t \in GroupThreads :
                    handler[t].at \in {"adding", "changing"} /\ handler[t].group = g
                        /\ handler[t].user = u
             \/ \E i \in Invitations : invitation[i].group = g /\ invitation[i].email = u
      ]_groupVars

=============================================================================
