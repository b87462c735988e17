----------------------------- MODULE ServedText -----------------------------
(***************************************************************************)
(* What a reader of extracted text may rely on, however the extraction     *)
(* queue schedules its passes: for each version and each derivative kind   *)
(* there is nothing yet, or one parse that serves.  A publish replaces, in *)
(* one step, the kinds one parse yielded, and that parse is newer than     *)
(* everything the version served before.  Nothing else ever changes.       *)
(***************************************************************************)
EXTENDS Naturals

CONSTANTS Versions, Kinds

VARIABLE served

Init == served = [v \in Versions |-> [k \in Kinds |-> {}]]

Publish(v, pass, K) ==
    /\ \A k \in Kinds : \A older \in served[v][k] : older < pass
    /\ served' = [served EXCEPT ![v] =
                     [k \in Kinds |-> IF k \in K THEN {pass} ELSE served[v][k]]]

\* The pass is one of those that serve once it has published.
Next ==
    \E v \in Versions, K \in SUBSET Kinds :
        \E pass \in UNION {served'[v][k] : k \in Kinds} : Publish(v, pass, K)

Spec == Init /\ [][Next]_served
=============================================================================
