--------------------------- MODULE MCContinuations ---------------------------
(* Instance of Continuations for TLC: four Matters, enough for two closures *)
(* that touch disjoint pairs to close a ring, and two transactions at once.  *)
EXTENDS Continuations, TLC

CONSTANTS w1, w2

MCMatters == 1..4
MCWriters == {w1, w2}
Symmetry == Permutations(MCWriters)

\* A start with every Matter open, and two that earlier closures leave behind:
\* two continuations which two more closures could join into a ring, in an order
\* that follows the keys and in one that does not.
MCStarts == {<<None, None, None, None>>, <<2, None, 4, None>>, <<3, None, None, 2>>}
=============================================================================
