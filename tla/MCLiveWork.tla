----------------------------- MODULE MCLiveWork -----------------------------
(* Instance of LiveWork for TLC: steps enough for a current one, a planned   *)
(* one, a check and the check after it, an opinion, and a wait, which does    *)
(* all that an overview does and may be replied to besides.                  *)
EXTENDS LiveWork, TLC

CONSTANTS a1, a2, a3, a4, o1, w1

MCActions == {a1, a2, a3, a4}
MCOpinions == {o1}
MCOverviews == {}
MCWaits == {w1}
Symmetry == Permutations(MCActions)
=============================================================================
