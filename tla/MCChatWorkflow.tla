--------------------------- MODULE MCChatWorkflow ---------------------------
(***************************************************************************)
(* Small instances of ChatWorkflow: prompts p1 and p2 and a message n1     *)
(* that starts no workflow; every message belongs to the one chat c1.      *)
(***************************************************************************)
EXTENDS ChatWorkflow, TLC

CONSTANTS c1

AllInOneChat == [m \in Messages |-> c1]

\* Replicas of the service run the same threads.
ThreadSymmetry ==
    Permutations(Handlers) \union Permutations(Flushers) \union Permutations(Consumers)

=============================================================================
