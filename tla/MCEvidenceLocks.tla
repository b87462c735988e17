--------------------------- MODULE MCEvidenceLocks ---------------------------
(* Two transactions on a Matter with two opinions and two files.            *)
EXTENDS EvidenceLocks

CONSTANTS w1, w2, d1, d2, s1, s2

TwoWriters == {w1, w2}
TwoDocuments == {d1, d2}
TwoSubmissions == {s1, s2}

Alike == Permutations(TwoWriters) \cup Permutations(TwoDocuments)
             \cup Permutations(TwoSubmissions)
=============================================================================
