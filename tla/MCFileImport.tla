---------------------------- MODULE MCFileImport ----------------------------
(***************************************************************************)
(* Small instances of FileImport: one file of two rows, or two files of a  *)
(* row each, all of one card.                                              *)
(***************************************************************************)
EXTENDS FileImport, TLC

CONSTANTS f1, f2, k1, k2, d1

OneFile == f1 :> {k1, k2}
TwoFiles == f1 :> {k1} @@ f2 :> {k2}
OneCard == [k \in {k1, k2} |-> d1]

\* Workers run the same threads; the rows of one file are alike.
Alike ==
    Permutations(Runners) \union Permutations(Ledgers) \union Permutations({k1, k2})

WorkersAlike == Permutations(Runners) \union Permutations(Ledgers)

=============================================================================
