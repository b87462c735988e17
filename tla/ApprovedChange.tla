--------------------------- MODULE ApprovedChange ---------------------------
(***************************************************************************)
(* What a person who approves an AI-prepared change may rely on.  A change *)
(* is offered against the Matter as it stood, may then be agreed to, and   *)
(* is saved at most once, in one step, and only over a Matter that still   *)
(* (or again) stands as it did.  Short of that it is closed, for good.     *)
(***************************************************************************)
CONSTANTS Proposals, MatterStates, None

VARIABLES life, basis, matter

vars == <<life, basis, matter>>

Init ==
    /\ life = [p \in Proposals |-> "none"]
    /\ basis = [p \in Proposals |-> None]
    /\ matter \in MatterStates

Offer(p) ==
    /\ life[p] = "none"
    /\ life' = [life EXCEPT ![p] = "offered"]
    /\ basis' = [basis EXCEPT ![p] = matter]
    /\ UNCHANGED matter

Agree(p) ==
    /\ life[p] = "offered"
    /\ life' = [life EXCEPT ![p] = "agreed"]
    /\ UNCHANGED <<basis, matter>>

Save(p) ==
    /\ life[p] = "agreed"
    /\ matter = basis[p]
    /\ life' = [life EXCEPT ![p] = "saved"]
    /\ matter' \in MatterStates
    /\ UNCHANGED basis

Close(p) ==
    /\ life[p] \in {"offered", "agreed"}
    /\ life' = [life EXCEPT ![p] = "closed"]
    /\ UNCHANGED <<basis, matter>>

\* A colleague's own write.
Edit ==
    /\ matter' \in MatterStates
    /\ UNCHANGED <<life, basis>>

Next ==
    \/ \E p \in Proposals : Offer(p) \/ Agree(p) \/ Save(p) \/ Close(p)
    \/ Edit

Spec == Init /\ [][Next]_vars
=============================================================================
