------------------------------- MODULE MCTrans -------------------------------
(* Instances of Trans for TLC. *)
EXTENDS Trans, TLC

\* Transactions are interchangeable; used where only invariants are checked.
Symmetry == Permutations(Trans)
=============================================================================
