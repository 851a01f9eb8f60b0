--------------------------- MODULE MC_BufferStream ---------------------------
(* Instances of BufferStream for TLC. *)
EXTENDS BufferStream, TLC

Symmetry == Permutations(Workers) \cup Permutations(Streams)
=============================================================================
