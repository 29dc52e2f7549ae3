--------------------------- MODULE BackgroundTask ---------------------------
(***************************************************************************)
(* What a producer is promised about a background task it hands to the     *)
(* bus: once submitted, the task stays outstanding until an outcome is on  *)
(* record, either the completed work or an entry in the dead-letter queue, *)
(* or until the bus gives it up while it still answers for it.  Nothing is *)
(* said about how many times the work is attempted.                        *)
(***************************************************************************)

CONSTANT Tasks

VARIABLES
    submitted,     \* tasks accepted by the bus
    outstanding,   \* tasks some queue or some consumer still answers for
    recorded,      \* tasks whose success or dead letter is on record
    abandoned      \* tasks the bus gave up in a failure of its own

vars == <<submitted, outstanding, recorded, abandoned>>

Init ==
    /\ submitted = {}
    /\ outstanding = {}
    /\ recorded = {}
    /\ abandoned = {}

Submit(t) ==
    /\ t \notin submitted
    /\ submitted' = submitted \union {t}
    /\ outstanding' = outstanding \union {t}
    /\ UNCHANGED <<recorded, abandoned>>

Record(t) ==
    /\ t \in submitted
    /\ recorded' = recorded \union {t}
    /\ UNCHANGED <<submitted, outstanding, abandoned>>

\* A task that is outstanding is given up, with its last copy or with one of
\* several.
Abandon(t) ==
    /\ t \in outstanding
    /\ abandoned' = abandoned \union {t}
    /\ outstanding' \in {outstanding, outstanding \ {t}}
    /\ UNCHANGED <<submitted, recorded>>

\* The last copy goes away quietly: only a task that is recorded, or was given
\* up before, may be forgotten like that.
Retire(t) ==
    /\ t \in outstanding
    /\ t \in recorded \union abandoned
    /\ outstanding' = outstanding \ {t}
    /\ UNCHANGED <<submitted, recorded, abandoned>>

\* A consumer that lost its delivery may put a late copy back.
Revive(t) ==
    /\ t \in recorded \union abandoned
    /\ outstanding' = outstanding \union {t}
    /\ UNCHANGED <<submitted, recorded, abandoned>>

Next ==
    \E t \in Tasks :
        Submit(t) \/ Record(t) \/ Abandon(t) \/ Retire(t) \/ Revive(t)

Spec == Init /\ [][Next]_vars

=============================================================================
