---------------------------- MODULE OpinionWatch ----------------------------
(***************************************************************************)
(* What a sent opinion is promised (app/workflow/follow_ups.py): from the  *)
(* day it is sent somebody keeps looking for an answer, until the answer   *)
(* is recorded, a person ends the watch, the opinion is withdrawn, or the  *)
(* Matter closes.  A closed Matter watches nothing, and a watch that ended *)
(* with it is the only one that can be taken up again.                     *)
(***************************************************************************)
CONSTANT Opinions

VARIABLES
    open,  \* the Matter is open
    fate   \* what has become of each opinion

watchVars == <<open, fate>>

Over == {"answered", "ended", "withdrawn"}

WatchInit ==
    /\ open = TRUE
    /\ fate = [o \in Opinions |-> "draft"]

Send(o) ==
    /\ open
    /\ fate[o] = "draft"
    /\ fate' = [fate EXCEPT ![o] = "watched"]
    /\ UNCHANGED open

Answer(o) ==
    /\ open
    /\ fate[o] = "watched"
    /\ \E how \in {"answered", "ended"} : fate' = [fate EXCEPT ![o] = how]
    /\ UNCHANGED open

\* An opinion may be withdrawn whether or not anybody still waits for its answer.
Withdraw(o) ==
    /\ fate[o] # "withdrawn"
    /\ fate' = [fate EXCEPT ![o] = "withdrawn"]
    /\ UNCHANGED open

\* A closure ends every watch, that of an opinion it sends included.
Close ==
    /\ open
    /\ open' = FALSE
    /\ \E sent \in SUBSET {o \in Opinions : fate[o] = "draft"} :
         fate' = [o \in Opinions |->
                    IF fate[o] = "watched" \/ o \in sent THEN "closed" ELSE fate[o]]

Reopen ==
    /\ ~open
    /\ open' = TRUE
    /\ UNCHANGED fate

Restart(o) ==
    /\ open
    /\ fate[o] = "closed"
    /\ fate' = [fate EXCEPT ![o] = "watched"]
    /\ UNCHANGED open

WatchNext ==
    \/ Close \/ Reopen
    \/ \E o \in Opinions : Send(o) \/ Answer(o) \/ Withdraw(o) \/ Restart(o)

WatchSpec == WatchInit /\ [][WatchNext]_watchVars
=============================================================================
