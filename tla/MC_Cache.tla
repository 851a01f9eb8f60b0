------------------------------ MODULE MC_Cache ------------------------------
\* Instances of Cache for model checking.
EXTENDS Cache, TLC

Symmetry == Permutations(Urls)
=============================================================================
