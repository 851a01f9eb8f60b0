--------------------------- MODULE MC_RequestFlow ---------------------------
(* Instances of RequestFlow for TLC. *)
EXTENDS RequestFlow, TLC

Symmetry == Permutations(Requests)
=============================================================================
