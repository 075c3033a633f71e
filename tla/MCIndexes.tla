------------------------------ MODULE MCIndexes ------------------------------
(***************************************************************************)
(* Indexes alone, for what is said about its errors.  The runs of MCOpLock *)
(* check the rest of it.                                                   *)
(***************************************************************************)
EXTENDS Indexes, TLC

CONSTANTS i1, i2, d1, d2

MCWishes == {[i \in Indices |-> None], [i \in Indices |-> d1], (i1 :> d2) @@ (i2 :> None)}
=============================================================================
