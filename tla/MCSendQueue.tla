----------------------------- MODULE MCSendQueue -----------------------------
(* SendQueue with watermarks of a few requests. *)
EXTENDS SendQueue, TLC

Symmetry == Permutations(Producers)
=============================================================================
