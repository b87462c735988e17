------------------------------ MODULE LiveWork ------------------------------
(***************************************************************************)
(* The work one Matter owes: its current step and its planned ones         *)
(* (app/workflow/services.py), the plan step the current one may carry     *)
(* (plan.py), the checks on its sent opinions (follow_ups.py), its planned *)
(* website overviews and its open feedback waits, and the closure that     *)
(* ends them all with the warning a person confirms first                  *)
(* (app/matters/closure_work.py, services.py, workspace.py).               *)
(*                                                                         *)
(* Every writer takes the Matter's row lock before it reads what it acts   *)
(* on, so a transaction is one action here.  What it was asked for comes   *)
(* from a page drawn earlier: the step it names is any step, and the       *)
(* closure's confirmation names the work that was live when its warning    *)
(* was drawn.  Days are left out, so any planned step may be the next.     *)
(***************************************************************************)
EXTENDS FiniteSets

CONSTANTS
    Actions,    \* NextAction rows
    Opinions,   \* Submission rows, each with at most one OpinionFollowUp
    Overviews,  \* MatterWebsiteOverview rows
    Waits,      \* MatterEngagement rows that may await feedback
    None,       \* no opinion: an ordinary step
    ToCome      \* the check a closing save would schedule, in a warning

Others == Overviews \cup Waits
Work == Actions \cup Others

ASSUME KindsAssumption ==
    /\ Actions \cap Others = {} /\ Overviews \cap Waits = {}
    /\ None \notin Opinions
    /\ ToCome \notin Work

VARIABLES
    open,     \* Matter.is_open
    closer,   \* who closed it: a person (closed_by), or the register, or nobody
    act,      \* the NextAction rows
    plan,     \* MatterPlanStep.state of a step that is started as an action
    opinion,  \* Submission.status
    watch,    \* OpinionFollowUp.state, and whether its end can be undone
    other,    \* the overviews and the waits
    warned    \* the work the last closure warning named: its digest

vars == <<open, closer, act, plan, opinion, watch, other, warned>>

Row == [status : {"unused", "open", "planned", "completed", "cancelled",
                  "superseded"},
        of : Opinions \cup {None}, step : BOOLEAN]
Ended == {"completed", "cancelled", "superseded"}

TypeOK ==
    /\ open \in BOOLEAN
    /\ closer \in {"nobody", "person"}
    /\ act \in [Actions -> Row]
    /\ plan \in {"suggested", "planned", "completed", "skipped"}
    /\ opinion \in [Opinions -> {"draft", "sent", "withdrawn"}]
    /\ watch \in [Opinions -> {"none", "monitoring", "answered", "ended",
                               "closed", "withdrawn"}]
    /\ other \in [Others -> {"none", "live", "replied", "over", "removed"}]
    /\ warned \subseteq Work \cup {ToCome}

Init ==
    /\ open = TRUE
    /\ closer = "nobody"
    /\ act = [a \in Actions |-> [status |-> "unused", of |-> None, step |-> FALSE]]
    /\ plan = "suggested"
    /\ opinion = [o \in Opinions |-> "draft"]
    /\ watch = [o \in Opinions |-> "none"]
    /\ other = [x \in Others |-> "none"]
    /\ warned = {}

-----------------------------------------------------------------------------
(* The rows of the steps                                                    *)

With(rows, status) == {a \in Actions : rows[a].status = status}
Current(rows) == With(rows, "open")
Planned(rows) == With(rows, "planned")
Live(rows) == Current(rows) \cup Planned(rows)
Unused == With(act, "unused")

\* The steps a page's ordinary controls may name: never a check.
Plain(rows, S) == {a \in S : rows[a].of = None}

\* Mutant of Checks: the checks that are over are found as well.
AllChecks(rows, o) == {a \in Actions : rows[a].of = o}

Checks(rows, o) == {a \in Live(rows) : rows[a].of = o}

Marked(rows, S, status) ==
    [a \in Actions |->
        IF a \in S THEN [rows[a] EXCEPT !.status = status] ELSE rows[a]]

Added(rows, n, status, o, step) ==
    [rows EXCEPT ![n] = [status |-> status, of |-> o, step |-> step]]

\* Mutant of SetCurrent: a check is superseded like any other step.
SupersedeAny(rows, n, step) ==
    Added(Marked(rows, Current(rows), "superseded"), n, "open", None, step)

\* set_next_action: the new step is current; the one it replaces is superseded,
\* and a check goes back to the plan.
SetCurrent(rows, n, step) ==
    LET ordinary == Plain(rows, Current(rows))
        kept == Marked(rows, Current(rows) \ ordinary, "planned")
    IN Added(Marked(kept, ordinary, "superseded"), n, "open", None, step)

\* Mutant of Promoted: the next planned step is left where it is.
NotPromoted(rows) == {rows}

\* promote_next_planned_action: one planned step becomes current when none is.
Promoted(rows) ==
    IF Current(rows) # {} \/ Planned(rows) = {} THEN {rows}
    ELSE {Marked(rows, {a}, "open") : a \in Planned(rows)}

\* Promotion after a step that was current, and only then.
PromotedAfter(a, rows) == IF a \in Current(act) THEN Promoted(rows) ELSE {rows}

Schedule(rows, n, o) == Added(rows, n, "planned", o, FALSE)

LiveOthers == {x \in Others : other[x] = "live"}

-----------------------------------------------------------------------------
(* Steps                                                                    *)

OnlyActs == UNCHANGED <<open, closer, plan, opinion, watch, other, warned>>

\* New work written over whatever is current (+ Marge, opinion preparation).
SetNextAction(n) ==
    /\ open
    /\ act' = SetCurrent(act, n, FALSE)
    /\ OnlyActs

\* The row that is current is edited: the same work, with its plan step.
ChangeCurrent(a, n) ==
    /\ open
    /\ a \in Plain(act, Current(act))
    /\ act' = SetCurrent(act, n, act[a].step)
    /\ OnlyActs

\* Mutant of AddUnnamedStep: decided on what the page showed, a file with no
\* current step, so the new one is made current beside any other.
AddCurrentStep(n) ==
    /\ open
    /\ act' = Added(act, n, "open", None, FALSE)
    /\ OnlyActs

\* A step typed into a page that named none: current if there still is none
\* when the Matter is locked, otherwise planned (an undated one is refused).
AddUnnamedStep(n) ==
    /\ open
    /\ act' = IF Current(act) = {} THEN SetCurrent(act, n, FALSE)
                                   ELSE Added(act, n, "planned", None, FALSE)
    /\ OnlyActs

ChangePlanned(a, n) ==
    /\ open
    /\ a \in Plain(act, Planned(act))
    /\ act' = Added(Marked(act, {a}, "superseded"), n, "planned", None, act[a].step)
    /\ OnlyActs

CancelPlanned(a) ==
    /\ a \in Plain(act, Planned(act))
    /\ act' = Marked(act, {a}, "cancelled")
    /\ OnlyActs

FinishPlanned(a) ==
    /\ open
    /\ a \in Plain(act, Planned(act))
    /\ act' = Marked(act, {a}, "completed")
    /\ OnlyActs

\* The plan step a completed action carries is completed with it.
StepOf(a) == IF act[a].step THEN "completed" ELSE plan

CompleteCurrent(a) ==
    /\ open
    /\ a \in Plain(act, Current(act))
    /\ act' \in Promoted(Marked(act, {a}, "completed"))
    /\ plan' = StepOf(a)
    /\ UNCHANGED <<open, closer, opinion, watch, other, warned>>

\* Completed with the next step written in the same save: nothing is promoted.
CompleteAndSet(a, n) ==
    /\ open
    /\ a \in Plain(act, Current(act))
    /\ act' = SetCurrent(Marked(act, {a}, "completed"), n, FALSE)
    /\ plan' = StepOf(a)
    /\ UNCHANGED <<open, closer, opinion, watch, other, warned>>

-----------------------------------------------------------------------------
(* The plan step                                                            *)

StepIsOpen == plan \in {"suggested", "planned"}

StartStep(n) ==
    /\ open
    /\ StepIsOpen
    /\ Current(act) = {}
    /\ act' = SetCurrent(act, n, TRUE)
    /\ plan' = "planned"
    /\ UNCHANGED <<open, closer, opinion, watch, other, warned>>

\* Mutant of SkipStep: the step in hand may be skipped.
SkipAnyStep ==
    /\ open
    /\ StepIsOpen
    /\ plan' = "skipped"
    /\ UNCHANGED <<open, closer, act, opinion, watch, other, warned>>

SkipStep ==
    /\ open
    /\ StepIsOpen
    /\ \A a \in Current(act) : ~act[a].step
    /\ plan' = "skipped"
    /\ UNCHANGED <<open, closer, act, opinion, watch, other, warned>>

-----------------------------------------------------------------------------
(* Sent opinions and the checks on them                                     *)

Sends(o) ==
    /\ opinion[o] = "draft"
    /\ opinion' = [opinion EXCEPT ![o] = "sent"]

\* add_matter_koda_opinion with no step named.
SendOpinion(o, n) ==
    /\ open
    /\ Sends(o)
    /\ watch' = [watch EXCEPT ![o] = "monitoring"]
    /\ act' = Schedule(act, n, o)
    /\ UNCHANGED <<open, closer, plan, other, warned>>

\* The same, completing the current step it was written in.
SendFinishing(o, n, a) ==
    /\ open
    /\ Sends(o)
    /\ a \in Plain(act, Current(act))
    /\ watch' = [watch EXCEPT ![o] = "monitoring"]
    /\ act' \in Promoted(Marked(Schedule(act, n, o), {a}, "completed"))
    /\ plan' = StepOf(a)
    /\ UNCHANGED <<open, closer, other, warned>>

\* A proposal sent before its Matter was registered: the check is promoted when
\* the new Matter has no step.
SendOnNewMatter(o, n) ==
    /\ open
    /\ Sends(o)
    /\ \A a \in Actions : act[a].status \notin Ended
    /\ \A p \in Opinions : opinion[p] = "draft"
    /\ watch' = [watch EXCEPT ![o] = "monitoring"]
    /\ act' \in Promoted(Schedule(act, n, o))
    /\ UNCHANGED <<open, closer, plan, other, warned>>

\* A check that found an answer, or that ends the watch.
EndCheck(a) ==
    /\ open
    /\ a \in Live(act) /\ act[a].of # None
    /\ \E how \in {"answered", "ended"} :
         watch' = [watch EXCEPT ![act[a].of] = how]
    /\ act' \in PromotedAfter(a, Marked(act, {a}, "completed"))
    /\ UNCHANGED <<open, closer, plan, opinion, other, warned>>

\* A check that found none plans the next one.
CheckAgain(a, n) ==
    /\ open
    /\ a \in Live(act) /\ act[a].of # None
    /\ act' \in PromotedAfter(a, Schedule(Marked(act, {a}, "completed"), n, act[a].of))
    /\ OnlyActs

\* Mutant of Restart: any follow-up that is over may be taken up again.
RestartAny(o, n) ==
    /\ open
    /\ watch[o] \notin {"none", "monitoring"}
    /\ watch' = [watch EXCEPT ![o] = "monitoring"]
    /\ act' = Schedule(act, n, o)
    /\ UNCHANGED <<open, closer, plan, opinion, other, warned>>

\* restart_follow_up: only a watch the closure ended, on an opinion still sent.
Restart(o, n) ==
    /\ open
    /\ opinion[o] = "sent"
    /\ watch[o] = "closed"
    /\ watch' = [watch EXCEPT ![o] = "monitoring"]
    /\ act' = Schedule(act, n, o)
    /\ UNCHANGED <<open, closer, plan, opinion, other, warned>>

\* withdraw_submission and supersede_submission, on a closed Matter too.
Withdraw(o) ==
    /\ opinion[o] \in {"draft", "sent"}
    /\ opinion' = [opinion EXCEPT ![o] = "withdrawn"]
    /\ IF watch[o] = "monitoring"
       THEN LET rows == Marked(act, Checks(act, o), "cancelled")
            IN /\ watch' = [watch EXCEPT ![o] = "withdrawn"]
               /\ act' \in IF Checks(act, o) \cap Current(act) # {}
                           THEN Promoted(rows) ELSE {rows}
       ELSE UNCHANGED <<watch, act>>
    /\ UNCHANGED <<open, closer, plan, other, warned>>

-----------------------------------------------------------------------------
(* Website overviews and feedback waits                                     *)

OnlyOthers == UNCHANGED <<open, closer, act, plan, opinion, watch, warned>>
Becomes(x, from, to) ==
    /\ open
    /\ other[x] = from
    /\ other' = [other EXCEPT ![x] = to]

Begin(x) == Becomes(x, "none", "live") /\ OnlyOthers
Finish(x) == Becomes(x, "live", "over") /\ OnlyOthers

\* Feedback completed together with the current step it was gathered in.
FinishWait(x, a) ==
    /\ Becomes(x, "live", "over")
    /\ a \in Plain(act, Current(act))
    /\ act' \in Promoted(Marked(act, {a}, "completed"))
    /\ plan' = StepOf(a)
    /\ UNCHANGED <<open, closer, opinion, watch, warned>>

Reply(x) == Becomes(x, "live", "replied") /\ OnlyOthers
ReplyRemoved(x) == Becomes(x, "replied", "live") /\ OnlyOthers
Remove(x) ==
    /\ \E from \in {"live", "replied", "over"} : Becomes(x, from, "removed")
    /\ OnlyOthers

-----------------------------------------------------------------------------
(* Closure                                                                  *)

\* live_work_at_closure, as the digest counts it.
WorkAtClosure(fin, coming) == (Live(act) \ fin) \cup LiveOthers \cup coming

\* A save that would close the Matter is refused with a warning that names the
\* work it would end: beside a step it finishes, and with the check it would
\* schedule.  The page posts that digest back.
DrawWarning ==
    /\ open
    /\ \E fin \in {{}} \cup {{a} : a \in Plain(act, Current(act))},
          coming \in {{}, {ToCome}} : warned' = WorkAtClosure(fin, coming)
    /\ UNCHANGED <<open, closer, act, plan, opinion, watch, other>>

\* Mutant of Confirmed: a ticked box is a confirmation whatever it was given for.
ConfirmedAtAll(work) == warned # {}

\* refuse_unconfirmed_closure: nothing is ended, or just what the warning named.
Confirmed(work) == work = {} \/ warned = work

\* Mutant of EndLiveWork: the planned steps are left as they are.
EndCurrentWork(rows, watched) ==
    /\ act' = Marked(rows, Current(rows), "cancelled")
    /\ watch' = [o \in Opinions |->
         IF watched[o] = "monitoring" /\ Checks(rows, o) # {} THEN "closed"
         ELSE watched[o]]
    /\ other' = [x \in Others |-> IF other[x] = "live" THEN "over" ELSE other[x]]

\* end_live_work_for_closure.
EndLiveWork(rows, watched) ==
    /\ act' = Marked(rows, Live(rows), "cancelled")
    /\ watch' = [o \in Opinions |->
         IF watched[o] = "monitoring" /\ Checks(rows, o) # {} THEN "closed"
         ELSE watched[o]]
    /\ other' = [x \in Others |-> IF other[x] = "live" THEN "over" ELSE other[x]]

ByPerson == open /\ open' = FALSE /\ closer' = "person"

Close ==
    /\ ByPerson
    /\ Confirmed(WorkAtClosure({}, {}))
    /\ EndLiveWork(act, watch)
    /\ UNCHANGED <<plan, opinion, warned>>

\* The current step completed by the save whose stage ends the Matter.
CompleteAndClose(a) ==
    /\ ByPerson
    /\ a \in Plain(act, Current(act))
    /\ Confirmed(WorkAtClosure({a}, {}))
    /\ EndLiveWork(Marked(act, {a}, "completed"), watch)
    /\ plan' = StepOf(a)
    /\ UNCHANGED <<opinion, warned>>

\* The opinion sent by the save whose stage ends the Matter: always confirmed,
\* because its own check ends with it.
SendAndClose(o, n) ==
    /\ ByPerson
    /\ Sends(o)
    /\ Confirmed(WorkAtClosure({}, {ToCome}))
    /\ EndLiveWork(Schedule(act, n, o), [watch EXCEPT ![o] = "monitoring"])
    /\ UNCHANGED <<plan, warned>>

SendFinishAndClose(o, n, a) ==
    /\ ByPerson
    /\ Sends(o)
    /\ a \in Plain(act, Current(act))
    /\ Confirmed(WorkAtClosure({a}, {ToCome}))
    /\ EndLiveWork(Marked(Schedule(act, n, o), {a}, "completed"),
                   [watch EXCEPT ![o] = "monitoring"])
    /\ plan' = StepOf(a)
    /\ UNCHANGED warned

\* The register's last snapshot no longer lists the Matter: nobody is asked.
CloseByRegister ==
    /\ open
    /\ open' = FALSE
    /\ EndLiveWork(act, watch)
    /\ UNCHANGED <<closer, plan, opinion, warned>>

Reopen ==
    /\ ~open
    /\ open' = TRUE
    /\ closer' = "nobody"
    /\ UNCHANGED <<act, plan, opinion, watch, other, warned>>

NextStep(n) ==
    \/ SetNextAction(n) \/ AddUnnamedStep(n) \/ StartStep(n)
    \/ \E a \in Actions :
         ChangeCurrent(a, n) \/ ChangePlanned(a, n) \/ CompleteAndSet(a, n)
    \/ \E o \in Opinions :
         \/ SendOpinion(o, n) \/ SendOnNewMatter(o, n) \/ Restart(o, n)
         \/ SendAndClose(o, n)
         \/ \E a \in Actions :
              SendFinishing(o, n, a) \/ SendFinishAndClose(o, n, a)
    \/ \E a \in Actions : CheckAgain(a, n)

Next ==
    \/ \E n \in Unused : NextStep(n)
    \/ \E a \in Actions :
         \/ CancelPlanned(a) \/ FinishPlanned(a) \/ CompleteCurrent(a)
         \/ EndCheck(a) \/ CompleteAndClose(a)
         \/ \E x \in Waits : FinishWait(x, a)
    \/ \E o \in Opinions : Withdraw(o)
    \/ \E x \in Others : Begin(x) \/ Finish(x) \/ Remove(x)
    \/ \E x \in Waits : Reply(x) \/ ReplyRemoved(x)
    \/ SkipStep \/ DrawWarning \/ Close \/ CloseByRegister \/ Reopen

Spec == Init /\ [][Next]_vars

-----------------------------------------------------------------------------
(* Properties                                                               *)

\* A Matter has one current step at most (the constraint
\* workflow_one_open_action_per_matter is never what refuses a write).
OneCurrentStep == \A a, b \in Current(act) : a = b

\* A closed Matter owes nothing: no step, overview or wait is live on it and no
\* opinion's answer is waited for, however it was closed.
ClosedOwesNothing ==
    ~open => /\ Live(act) = {} /\ LiveOthers = {}
             /\ \A o \in Opinions : watch[o] # "monitoring"

\* An opinion whose answer is waited for is sent, and exactly one live check
\* looks for the answer; a check looks for one that is waited for.
WatchedIsChecked ==
    \A o \in Opinions :
        IF watch[o] = "monitoring"
        THEN /\ opinion[o] = "sent"
             /\ \E a \in Checks(act, o) : Checks(act, o) = {a}
        ELSE Checks(act, o) = {}

\* The plan step the current action works on is neither completed nor skipped.
StepWorkIsOpen == \A a \in Live(act) : act[a].step => StepIsOpen

\* When the current step of an open Matter ends, another one is current
\* afterwards unless nothing is planned: no plan waits behind an empty desk.
PlanKept ==
    [][(open /\ open' /\ \E a \in Current(act) : act'[a].status \in Ended)
         => (Current(act') # {} \/ Planned(act') = {})]_vars

\* A person's closure ends nothing the confirmed warning did not name, except
\* the check on the opinion it sends, and that one only if it was announced.
KnownClosure ==
    [][closer' = "person" /\ closer = "nobody" =>
         \A a \in Actions :
            act[a] # act'[a] /\ act'[a].status = "cancelled" =>
               IF act[a].status = "unused" THEN ToCome \in warned ELSE a \in warned]_vars

\* A step that is over is history: nothing changes it again.
EndedStays ==
    [][\A a \in Actions : act[a].status \in Ended => act'[a] = act[a]]_vars

-----------------------------------------------------------------------------
(* What a sent opinion is promised                                          *)

\* The watch as a reader sees it: some check is live, or it has an end.
Fate(o) ==
    CASE opinion[o] = "withdrawn" -> "withdrawn"
      [] opinion[o] = "draft" -> "draft"
      [] opinion[o] = "sent" /\ Checks(act, o) # {} -> "watched"
      [] OTHER -> IF watch[o] = "monitoring" THEN "lost" ELSE watch[o]

OpinionPromise == INSTANCE OpinionWatch WITH fate <- [o \in Opinions |-> Fate(o)]

\* Every step does to an opinion's watch what the promise allows: nothing makes
\* an unanswered opinion disappear silently.
OpinionsAreWatched == OpinionPromise!WatchSpec
=============================================================================
