---------------------------- MODULE MC_Downloader ----------------------------
(* Instances of Downloader for TLC. *)
EXTENDS Downloader, TLC

Symmetry == Permutations(Workers) \cup Permutations(Data)
=============================================================================
