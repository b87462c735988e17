---------------------------- MODULE MCSearchIndex ----------------------------
(* Small instances of the search projection.                               *)
EXTENDS SearchIndex, TLC

Symmetry == Permutations(Writers)
=============================================================================
