-------------------------- MODULE MCMessageWorker --------------------------
(***************************************************************************)
(* Small instances of MessageWorker: a background message b1, a request r1 *)
(* and a background message x1 that does not parse.                        *)
(***************************************************************************)
EXTENDS MessageWorker, TLC

\* Replicas of a service run the same worker.
WorkerSymmetry == Permutations(Workers)

=============================================================================
