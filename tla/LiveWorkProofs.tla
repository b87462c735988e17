---------------------------- MODULE LiveWorkProofs ----------------------------
(***************************************************************************)
(* Proofs about the work a Matter owes, for any number of steps, opinions, *)
(* overviews and waits.                                                    *)
(***************************************************************************)
EXTENDS LiveWork, TLAPS

\* What is kept of the rows alone: one is current, and a live row that carries
\* a plan step is that one and no check.
GoodRows(rows) ==
    /\ rows \in [Actions -> Row]
    /\ \A a, b \in Current(rows) : a = b
    /\ \A a \in Live(rows) : rows[a].step => a \in Plain(rows, Current(rows))

\* The live rows that carry the plan step.
StepRows(rows) == {a \in Live(rows) : rows[a].step}

Status == {"unused", "open", "planned", "completed", "cancelled", "superseded"}

-----------------------------------------------------------------------------
(* What each operation does to the rows                                     *)

LEMMA MarkedRows ==
    ASSUME NEW rows \in [Actions -> Row], NEW S \in SUBSET Actions, NEW status \in Status
    PROVE  /\ Marked(rows, S, status) \in [Actions -> Row]
           /\ \A a \in Actions :
                /\ Marked(rows, S, status)[a].status = IF a \in S THEN status ELSE rows[a].status
                /\ Marked(rows, S, status)[a].of = rows[a].of
                /\ Marked(rows, S, status)[a].step = rows[a].step
                /\ a \notin S => Marked(rows, S, status)[a] = rows[a]
BY DEF Marked, Row, Status

LEMMA LiveRows ==
    ASSUME NEW rows
    PROVE  /\ Current(rows) = {a \in Actions : rows[a].status = "open"}
           /\ Planned(rows) = {a \in Actions : rows[a].status = "planned"}
           /\ Live(rows) = {a \in Actions : rows[a].status \in {"open", "planned"}}
BY DEF Current, Planned, Live, With

\* A step ends: the rest stays.
LEMMA EndsRows ==
    ASSUME NEW rows, GoodRows(rows), NEW S \in SUBSET Live(rows), NEW status \in Ended
    PROVE  LET r == Marked(rows, S, status) IN
           /\ GoodRows(r)
           /\ Current(r) = Current(rows) \ S
           /\ Planned(r) = Planned(rows) \ S
           /\ StepRows(r) = StepRows(rows) \ S
           /\ \A o \in Opinions : Checks(r, o) = Checks(rows, o) \ S
           /\ \A a \in Actions \ S : r[a] = rows[a]
<1> DEFINE r == Marked(rows, S, status)
<1>1. S \subseteq Actions /\ status \in Status /\ status \notin {"open", "planned"}
  BY LiveRows DEF Ended, Status
<1>2. /\ r \in [Actions -> Row]
      /\ \A a \in Actions : /\ r[a].status = IF a \in S THEN status ELSE rows[a].status
                            /\ r[a].of = rows[a].of /\ r[a].step = rows[a].step
                            /\ a \notin S => r[a] = rows[a]
  <2>1. rows \in [Actions -> Row] /\ S \in SUBSET Actions /\ status \in Status
    BY <1>1 DEF GoodRows
  <2> QED
    BY <2>1, MarkedRows
<1>3. Current(r) = Current(rows) \ S /\ Planned(r) = Planned(rows) \ S /\ Live(r) = Live(rows) \ S
  <2> HIDE DEF r
  <2> QED
    BY <1>1, <1>2, LiveRows
<1>4. GoodRows(r) /\ StepRows(r) = StepRows(rows) \ S
  <2> HIDE DEF r
  <2> QED
    BY <1>2, <1>3, LiveRows DEF GoodRows, StepRows, Plain
<1>5. \A o \in Opinions : Checks(r, o) = Checks(rows, o) \ S
  <2> HIDE DEF r
  <2> QED
    BY <1>2, <1>3, LiveRows DEF Checks
<1> QED
  BY <1>2, <1>3, <1>4, <1>5

\* An ordinary step ends: the checks stay.
LEMMA EndsStep ==
    ASSUME NEW rows, GoodRows(rows), NEW a \in Plain(rows, Live(rows)), NEW status \in Ended
    PROVE  LET r == Marked(rows, {a}, status) IN
           /\ GoodRows(r)
           /\ a \in Actions
           /\ Current(r) = Current(rows) \ {a}
           /\ Planned(r) = Planned(rows) \ {a}
           /\ StepRows(r) = StepRows(rows) \ {a}
           /\ \A o \in Opinions : Checks(r, o) = Checks(rows, o)
           /\ \A b \in Actions \ {a} : r[b] = rows[b]
<1> DEFINE r == Marked(rows, {a}, status)
<1>1. {a} \in SUBSET Live(rows) /\ a \in Actions
  BY LiveRows DEF Plain
<1>2. PICK S \in SUBSET Live(rows) : S = {a}
  BY <1>1
<1>3. LET t == Marked(rows, S, status) IN
      /\ GoodRows(t)
      /\ Current(t) = Current(rows) \ S
      /\ Planned(t) = Planned(rows) \ S
      /\ StepRows(t) = StepRows(rows) \ S
      /\ \A o \in Opinions : Checks(t, o) = Checks(rows, o) \ S
      /\ \A b \in Actions \ S : t[b] = rows[b]
  BY EndsRows
<1>4. \A o \in Opinions : a \notin Checks(rows, o)
  BY KindsAssumption DEF Plain, Checks
<1>5. r = Marked(rows, S, status)
  BY <1>2
<1> HIDE DEF r
<1>6. /\ GoodRows(r)
      /\ Current(r) = Current(rows) \ {a}
      /\ Planned(r) = Planned(rows) \ {a}
      /\ StepRows(r) = StepRows(rows) \ {a}
      /\ \A o \in Opinions : Checks(r, o) = Checks(rows, o) \ {a}
      /\ \A b \in Actions \ {a} : r[b] = rows[b]
  BY <1>2, <1>3, <1>5
<1>7. \A o \in Opinions : Checks(r, o) = Checks(rows, o)
  BY <1>4, <1>6
<1> QED
  BY <1>1, <1>6, <1>7 DEF r

\* A row is planned: a check, or a step without a plan step.
LEMMA PlansRow ==
    ASSUME NEW rows, GoodRows(rows), NEW n \in Actions \ Live(rows),
           NEW o \in Opinions \cup {None}
    PROVE  LET r == Added(rows, n, "planned", o, FALSE) IN
           /\ GoodRows(r)
           /\ Current(r) = Current(rows)
           /\ Planned(r) = Planned(rows) \cup {n}
           /\ StepRows(r) = StepRows(rows)
           /\ \A p \in Opinions :
                Checks(r, p) = IF p = o THEN Checks(rows, p) \cup {n} ELSE Checks(rows, p)
           /\ \A a \in Actions \ {n} : r[a] = rows[a]
<1> DEFINE r == Added(rows, n, "planned", o, FALSE)
<1>1. rows \in [Actions -> Row] /\ "planned" \in Status
  BY DEF GoodRows, Status
<1>2. /\ r \in [Actions -> Row]
      /\ r[n].status = "planned" /\ r[n].of = o /\ ~r[n].step
      /\ \A a \in Actions \ {n} : r[a] = rows[a]
  BY <1>1 DEF Added, Row
<1>3. /\ Current(r) = Current(rows) /\ Planned(r) = Planned(rows) \cup {n}
      /\ Live(r) = Live(rows) \cup {n}
  <2> HIDE DEF r
  <2> QED
    BY <1>2 DEF Current, Planned, Live, With
<1>4. GoodRows(r) /\ StepRows(r) = StepRows(rows)
  <2> HIDE DEF r
  <2> QED
    BY <1>2, <1>3, LiveRows DEF GoodRows, StepRows, Plain
<1>5. \A p \in Opinions :
        Checks(r, p) = IF p = o THEN Checks(rows, p) \cup {n} ELSE Checks(rows, p)
  <2> HIDE DEF r
  <2> QED
    BY <1>2, <1>3, LiveRows DEF Checks
<1> QED
  BY <1>2, <1>3, <1>4, <1>5

LEMMA PlansStep ==
    ASSUME NEW rows, GoodRows(rows), NEW n \in Actions \ Live(rows)
    PROVE  LET r == Added(rows, n, "planned", None, FALSE) IN
           /\ GoodRows(r)
           /\ Current(r) = Current(rows)
           /\ Planned(r) = Planned(rows) \cup {n}
           /\ StepRows(r) = StepRows(rows)
           /\ \A p \in Opinions : Checks(r, p) = Checks(rows, p)
           /\ \A a \in Actions \ {n} : r[a] = rows[a]
<1>1. PICK o \in Opinions \cup {None} : o = None
  OBVIOUS
<1> DEFINE r == Added(rows, n, "planned", o, FALSE)
<1>2. /\ GoodRows(r)
      /\ Current(r) = Current(rows)
      /\ Planned(r) = Planned(rows) \cup {n}
      /\ StepRows(r) = StepRows(rows)
      /\ \A p \in Opinions :
           Checks(r, p) = IF p = o THEN Checks(rows, p) \cup {n} ELSE Checks(rows, p)
      /\ \A a \in Actions \ {n} : r[a] = rows[a]
  BY PlansRow
<1>3. \A p \in Opinions : p # o
  BY <1>1, KindsAssumption
<1> HIDE DEF r
<1>4. \A p \in Opinions : Checks(r, p) = Checks(rows, p)
  BY <1>2, <1>3
<1> QED
  BY <1>1, <1>2, <1>4 DEF r

\* A step becomes the current one: what was current is over, or planned again
\* when it is a check.
LEMMA SetsCurrentRow ==
    ASSUME NEW rows, GoodRows(rows), NEW n \in Actions \ Live(rows), NEW step \in BOOLEAN
    PROVE  LET r == SetCurrent(rows, n, step) IN
           /\ GoodRows(r)
           /\ Current(r) = {n}
           /\ Planned(rows) \subseteq Planned(r)
           /\ StepRows(r) = IF step THEN {n} ELSE {}
           /\ \A o \in Opinions : Checks(r, o) = Checks(rows, o)
           /\ \A a \in Actions \ (Current(rows) \cup {n}) : r[a] = rows[a]
<1> DEFINE ordinary == Plain(rows, Current(rows))
           kept == Marked(rows, Current(rows) \ ordinary, "planned")
           ended == Marked(kept, ordinary, "superseded")
           r == Added(ended, n, "open", None, step)
<1>1. /\ rows \in [Actions -> Row]
      /\ ordinary \in SUBSET Actions /\ Current(rows) \ ordinary \in SUBSET Actions
      /\ "planned" \in Status /\ "superseded" \in Status /\ "open" \in Status
      /\ None \in Opinions \cup {None}
  BY LiveRows DEF GoodRows, Status, Plain
<1>2. /\ kept \in [Actions -> Row]
      /\ \A a \in Actions :
           /\ kept[a].status = IF a \in Current(rows) \ ordinary THEN "planned" ELSE rows[a].status
           /\ kept[a].of = rows[a].of /\ kept[a].step = rows[a].step
           /\ a \notin Current(rows) => kept[a] = rows[a]
  BY <1>1 DEF Marked, Row
<1>3. /\ ended \in [Actions -> Row]
      /\ \A a \in Actions :
           /\ ended[a].status = IF a \in ordinary THEN "superseded" ELSE kept[a].status
           /\ ended[a].of = rows[a].of /\ ended[a].step = rows[a].step
           /\ a \notin Current(rows) => ended[a] = rows[a]
  <2> HIDE DEF kept
  <2> QED
    BY <1>1, <1>2 DEF Marked, Plain, Row
<1>4. /\ r \in [Actions -> Row]
      /\ r[n].status = "open" /\ r[n].of = None /\ r[n].step = step
      /\ \A a \in Actions \ {n} : r[a] = ended[a]
  <2> HIDE DEF ended
  <2> QED
    BY <1>1, <1>3 DEF Added, Row
<1> HIDE DEF kept, ended, r
<1>5. \A a \in Actions \ {n} :
        /\ r[a].status = IF a \in ordinary THEN "superseded"
                         ELSE IF a \in Current(rows) THEN "planned" ELSE rows[a].status
        /\ r[a].of = rows[a].of /\ r[a].step = rows[a].step
        /\ a \notin Current(rows) => r[a] = rows[a]
  BY <1>2, <1>3, <1>4
<1>6. \A a \in Current(rows) : a \in Actions \ {n} /\ (a \in ordinary <=> rows[a].of = None)
  BY LiveRows DEF Plain
<1>7. /\ Current(r) = {n}
      /\ Planned(r) = Planned(rows) \cup (Current(rows) \ ordinary)
      /\ Live(r) = (Live(rows) \ ordinary) \cup {n}
  BY <1>4, <1>5, <1>6, LiveRows
<1>8. \A a \in Live(r) : r[a].step => a = n
  <2>1. \A a \in Live(rows) : a \in Actions /\ (rows[a].step => a \in ordinary)
    BY LiveRows DEF GoodRows
  <2> QED
    BY <1>5, <1>7, <2>1
<1>9. GoodRows(r) /\ StepRows(r) = IF step THEN {n} ELSE {}
  BY <1>4, <1>7, <1>8, LiveRows DEF GoodRows, StepRows, Plain
<1>10. ASSUME NEW o \in Opinions PROVE Checks(r, o) = Checks(rows, o)
  <2>1. o # None
    BY KindsAssumption
  <2> QED
    BY <1>4, <1>5, <1>6, <1>7, <2>1, LiveRows DEF Checks
<1> QED
  BY <1>4, <1>5, <1>7, <1>9, <1>10 DEF SetCurrent, r, kept, ended

LEMMA SetsStep ==
    ASSUME NEW rows, GoodRows(rows), NEW n \in Actions \ Live(rows)
    PROVE  LET r == SetCurrent(rows, n, FALSE) IN
           /\ GoodRows(r)
           /\ Current(r) = {n}
           /\ StepRows(r) = {}
           /\ \A o \in Opinions : Checks(r, o) = Checks(rows, o)
           /\ \A a \in Actions \ (Current(rows) \cup {n}) : r[a] = rows[a]
<1>1. PICK step \in BOOLEAN : step = FALSE
  OBVIOUS
<1> DEFINE r == SetCurrent(rows, n, step)
<1>2. /\ GoodRows(r)
      /\ Current(r) = {n}
      /\ Planned(rows) \subseteq Planned(r)
      /\ StepRows(r) = IF step THEN {n} ELSE {}
      /\ \A o \in Opinions : Checks(r, o) = Checks(rows, o)
      /\ \A a \in Actions \ (Current(rows) \cup {n}) : r[a] = rows[a]
  BY SetsCurrentRow
<1> QED
  BY <1>1, <1>2

\* The next planned step becomes current if none is.
LEMMA PromotesRow ==
    ASSUME NEW rows, GoodRows(rows), NEW r \in Promoted(rows)
    PROVE  /\ GoodRows(r)
           /\ Current(r) # {} \/ Planned(r) = {}
           /\ Live(r) = Live(rows)
           /\ StepRows(r) = StepRows(rows)
           /\ \A o \in Opinions : Checks(r, o) = Checks(rows, o)
           /\ \A a \in Actions \ Planned(rows) : r[a] = rows[a]
<1>1. CASE r = rows /\ (Current(rows) # {} \/ Planned(rows) = {})
  BY <1>1
<1>2. CASE /\ Current(rows) = {}
           /\ \E b \in Planned(rows) : r = Marked(rows, {b}, "open")
  <2>1. PICK b \in Planned(rows) : r = Marked(rows, {b}, "open")
    BY <1>2
  <2>2. rows \in [Actions -> Row] /\ {b} \in SUBSET Actions /\ "open" \in Status
    BY LiveRows DEF GoodRows, Status
  <2>3. /\ r \in [Actions -> Row]
        /\ \A a \in Actions : /\ r[a].status = IF a = b THEN "open" ELSE rows[a].status
                              /\ r[a].of = rows[a].of /\ r[a].step = rows[a].step
                              /\ a # b => r[a] = rows[a]
    BY <2>1, <2>2 DEF Marked, Row
  <2>4. Current(r) = {b} /\ Planned(r) = Planned(rows) \ {b} /\ Live(r) = Live(rows)
    <3>1. b \in Actions /\ \A a \in Actions : rows[a].status # "open"
      BY <1>2 DEF Current, Planned, With
    <3>2. Current(r) = {b}
      BY <2>3, <3>1 DEF Current, With
    <3>3. Planned(r) = Planned(rows) \ {b}
      BY <2>3, <3>1 DEF Planned, With
    <3> QED
      BY <1>2, <3>2, <3>3 DEF Live
  <2>5. \A a \in Live(rows) : ~rows[a].step
    BY <1>2 DEF GoodRows, Plain
  <2>6. GoodRows(r) /\ StepRows(r) = StepRows(rows)
    BY <2>3, <2>4, <2>5, LiveRows DEF GoodRows, StepRows
  <2> QED
    BY <2>3, <2>4, <2>6, LiveRows DEF Checks
<1> QED
  BY <1>1, <1>2 DEF Promoted

\* Everything live is ended.
LEMMA EndsAll ==
    ASSUME NEW rows, GoodRows(rows)
    PROVE  LET r == Marked(rows, Live(rows), "cancelled") IN
           /\ GoodRows(r)
           /\ Live(r) = {} /\ StepRows(r) = {}
           /\ \A o \in Opinions : Checks(r, o) = {}
           /\ \A a \in Actions \ Live(rows) : r[a] = rows[a]
<1> DEFINE r == Marked(rows, Live(rows), "cancelled")
<1>1. PICK ended \in Ended : ended = "cancelled"
  BY DEF Ended
<1>2. PICK S \in SUBSET Live(rows) : S = Live(rows)
  OBVIOUS
<1>3. LET t == Marked(rows, S, ended) IN
      /\ GoodRows(t)
      /\ Current(t) = Current(rows) \ S
      /\ Planned(t) = Planned(rows) \ S
      /\ StepRows(t) = StepRows(rows) \ S
      /\ \A o \in Opinions : Checks(t, o) = Checks(rows, o) \ S
      /\ \A a \in Actions \ S : t[a] = rows[a]
  BY EndsRows
<1>4. Live(r) = {}
  BY <1>1, <1>2, <1>3 DEF Live
<1> QED
  BY <1>1, <1>2, <1>3, <1>4 DEF StepRows, Checks

-----------------------------------------------------------------------------
(* The invariant                                                            *)

Watched(o) ==
    IF watch[o] = "monitoring"
    THEN opinion[o] = "sent" /\ \E a \in Checks(act, o) : Checks(act, o) = {a}
    ELSE Checks(act, o) = {}

\* None of the four properties is inductive without the others: a plan step is
\* in work only on a current row, a promotion finds no current row only if there
\* is one at most, and a closure ends each watch because each has its check.
WorkInv ==
    /\ TypeOK
    /\ GoodRows(act)
    /\ StepRows(act) # {} => StepIsOpen
    /\ \A o \in Opinions : Watched(o)
    /\ ClosedOwesNothing

LEMMA InvMeans ==
    WorkInv => OneCurrentStep /\ ClosedOwesNothing /\ WatchedIsChecked /\ StepWorkIsOpen
BY DEF WorkInv, GoodRows, OneCurrentStep, WatchedIsChecked, Watched, StepWorkIsOpen, StepRows

PlanState == {"suggested", "planned", "completed", "skipped"}
OpinionState == {"draft", "sent", "withdrawn"}
WatchState == {"none", "monitoring", "answered", "ended", "closed", "withdrawn"}
OtherState == {"none", "live", "replied", "over", "removed"}

\* The other variables keep their types.
Typed ==
    /\ closer \in {"nobody", "person"}
    /\ plan \in PlanState
    /\ opinion \in [Opinions -> OpinionState]
    /\ watch \in [Opinions -> WatchState]
    /\ other \in [Others -> OtherState]
    /\ warned \subseteq Work \cup {ToCome}

LEMMA TypedParts == TypeOK <=> open \in BOOLEAN /\ act \in [Actions -> Row] /\ Typed
BY DEF TypeOK, Typed, PlanState, OpinionState, WatchState, OtherState

\* A write on an open Matter.
LEMMA WrittenOpen ==
    ASSUME open' = TRUE, Typed', GoodRows(act'),
           StepRows(act') # {} => StepIsOpen',
           \A o \in Opinions : Watched(o)'
    PROVE  WorkInv'
<1>1. TypeOK'
  BY DEF TypeOK, Typed, PlanState, OpinionState, WatchState, OtherState, GoodRows
<1> QED
  BY <1>1 DEF WorkInv, ClosedOwesNothing

\* One that leaves the opinions alone.
LEMMA WrittenRows ==
    ASSUME WorkInv, open, GoodRows(act'),
           UNCHANGED <<open, closer, opinion, watch>>,
           plan' \in PlanState, other' \in [Others -> OtherState],
           warned' \subseteq Work \cup {ToCome},
           StepRows(act') # {} => StepIsOpen',
           \A o \in Opinions : Checks(act', o) = Checks(act, o)
    PROVE  WorkInv'
<1>1. open' = TRUE /\ Typed'
  BY TypedParts DEF WorkInv, Typed, TypeOK
<1>2. \A o \in Opinions : Watched(o)'
  BY DEF WorkInv, Watched
<1> QED
  BY <1>1, <1>2, WrittenOpen

\* One that leaves all opinions but o alone.
LEMMA WrittenOpinion ==
    ASSUME WorkInv, open, GoodRows(act'), NEW o \in Opinions,
           NEW x \in OpinionState, NEW y \in WatchState,
           opinion' = [opinion EXCEPT ![o] = x], watch' = [watch EXCEPT ![o] = y],
           UNCHANGED <<open, closer, other, warned>>, plan' \in PlanState,
           StepRows(act') # {} => StepIsOpen',
           \A p \in Opinions \ {o} : Checks(act', p) = Checks(act, p),
           IF y = "monitoring" THEN x = "sent" /\ \E a \in Actions : Checks(act', o) = {a}
                               ELSE Checks(act', o) = {}
    PROVE  WorkInv'
<1>1. open' = TRUE /\ Typed'
  BY TypedParts DEF WorkInv, Typed, TypeOK
<1>2. ASSUME NEW p \in Opinions PROVE Watched(p)'
  BY DEF WorkInv, Watched, TypeOK
<1> QED
  BY <1>1, <1>2, WrittenOpen

LEMMA UnusedRows ==
    ASSUME NEW n \in Unused PROVE n \in Actions \ Live(act)
BY LiveRows DEF Unused, With

LEMMA PlainRows ==
    /\ Plain(act, Current(act)) \subseteq Plain(act, Live(act))
    /\ Plain(act, Planned(act)) \subseteq Plain(act, Live(act))
BY DEF Plain, Live

\* A plan step in work is in work on the one current row.
LEMMA StepInHand ==
    ASSUME WorkInv
    PROVE  /\ \A a \in StepRows(act) : StepRows(act) = {a} /\ a \in Plain(act, Current(act))
           /\ \A a \in Current(act) : Current(act) = {a}
           /\ \A a \in Live(act) : a \in StepRows(act) <=> act[a].step
           /\ act \in [Actions -> Row]
<1>1. GoodRows(act)
  BY DEF WorkInv
<1> QED
  BY <1>1 DEF GoodRows, StepRows, Plain

\* The ordinary step a becomes the row status says, and is over.
LEMMA EndsOwnStep ==
    ASSUME WorkInv, NEW a \in Plain(act, Live(act)),
           NEW status \in {"completed", "cancelled", "superseded"}
    PROVE  LET r == Marked(act, {a}, status) IN
           /\ GoodRows(r)
           /\ a \in Actions
           /\ Current(r) = Current(act) \ {a}
           /\ Planned(r) = Planned(act) \ {a}
           /\ Live(r) = Live(act) \ {a}
           /\ StepRows(r) = IF act[a].step THEN {} ELSE StepRows(act)
           /\ \A o \in Opinions : Checks(r, o) = Checks(act, o)
           /\ \A b \in Actions \ {a} : r[b] = act[b]
<1> DEFINE r == Marked(act, {a}, status)
<1>1. status \in Ended /\ GoodRows(act)
  BY DEF Ended, WorkInv
<1>2. /\ GoodRows(r)
      /\ a \in Actions
      /\ Current(r) = Current(act) \ {a}
      /\ Planned(r) = Planned(act) \ {a}
      /\ StepRows(r) = StepRows(act) \ {a}
      /\ \A o \in Opinions : Checks(r, o) = Checks(act, o)
      /\ \A b \in Actions \ {a} : r[b] = act[b]
  BY <1>1, EndsStep
<1>3. a \in Live(act)
  BY DEF Plain
<1>4. StepRows(act) \ {a} = IF act[a].step THEN {} ELSE StepRows(act)
  BY <1>3, StepInHand
<1> QED
  BY <1>2, <1>4 DEF Live

\* What StepOf leaves of the plan step when the step a is completed.
LEMMA StepOfKeeps ==
    ASSUME WorkInv, NEW a \in Actions
    PROVE  /\ StepOf(a) \in PlanState
           /\ ~act[a].step => StepOf(a) = plan
BY TypedParts DEF WorkInv, Typed, StepOf, PlanState

-----------------------------------------------------------------------------
(* Steps                                                                    *)

LEMMA KeptBySteps ==
    ASSUME WorkInv, NEW n \in Unused,
           \/ SetNextAction(n) \/ AddUnnamedStep(n) \/ StartStep(n)
           \/ \E a \in Actions :
                ChangeCurrent(a, n) \/ ChangePlanned(a, n) \/ CompleteAndSet(a, n)
    PROVE  WorkInv'
<1>1. n \in Actions \ Live(act) /\ GoodRows(act)
  BY UnusedRows DEF WorkInv
<1>2. CASE SetNextAction(n)
  <2>1. /\ GoodRows(act') /\ StepRows(act') = {}
        /\ \A o \in Opinions : Checks(act', o) = Checks(act, o)
    BY <1>1, <1>2, SetsStep DEF SetNextAction
  <2> QED
    BY <1>2, <2>1, WrittenRows, TypedParts DEF SetNextAction, OnlyActs, WorkInv, Typed
<1>3. CASE AddUnnamedStep(n)
  <2>1. CASE Current(act) = {}
    <3>1. /\ GoodRows(act') /\ StepRows(act') = {}
          /\ \A o \in Opinions : Checks(act', o) = Checks(act, o)
      BY <1>1, <1>3, <2>1, SetsStep DEF AddUnnamedStep
    <3> QED
      BY <1>3, <3>1, WrittenRows, TypedParts DEF AddUnnamedStep, OnlyActs, WorkInv, Typed
  <2>2. CASE Current(act) # {}
    <3>1. act' = Added(act, n, "planned", None, FALSE)
      BY <1>3, <2>2 DEF AddUnnamedStep
    <3>2. /\ GoodRows(act') /\ StepRows(act') = StepRows(act)
          /\ \A p \in Opinions : Checks(act', p) = Checks(act, p)
      BY <1>1, <3>1, PlansStep
    <3> QED
      BY <1>3, <3>2, WrittenRows, TypedParts
         DEF AddUnnamedStep, OnlyActs, WorkInv, Typed, StepIsOpen
  <2> QED
    BY <2>1, <2>2
<1>4. CASE StartStep(n)
  <2>1. /\ GoodRows(act')
        /\ \A o \in Opinions : Checks(act', o) = Checks(act, o)
    BY <1>1, <1>4, SetsCurrentRow DEF StartStep
  <2>2. plan' \in PlanState /\ StepIsOpen'
    BY <1>4 DEF StartStep, PlanState, StepIsOpen
  <2> QED
    BY <1>4, <2>1, <2>2, WrittenRows, TypedParts DEF StartStep, WorkInv, Typed
<1>5. ASSUME NEW a \in Actions, ChangeCurrent(a, n) PROVE WorkInv'
  <2>1. act[a].step \in BOOLEAN /\ (act[a].step => StepRows(act) # {})
    BY <1>5, StepInHand, PlainRows DEF ChangeCurrent, Plain, Row
  <2>2. PICK step \in BOOLEAN : step = act[a].step
    BY <2>1
  <2>3. /\ GoodRows(act') /\ (StepRows(act') # {} => step)
        /\ \A o \in Opinions : Checks(act', o) = Checks(act, o)
    BY <1>1, <1>5, <2>2, SetsCurrentRow DEF ChangeCurrent
  <2>4. StepRows(act') # {} => StepIsOpen'
    BY <1>5, <2>1, <2>2, <2>3 DEF ChangeCurrent, OnlyActs, WorkInv, StepIsOpen
  <2> QED
    BY <1>5, <2>3, <2>4, WrittenRows, TypedParts DEF ChangeCurrent, OnlyActs, WorkInv, Typed
<1>6. ASSUME NEW a \in Actions, ChangePlanned(a, n) PROVE WorkInv'
  <2> DEFINE r == Marked(act, {a}, "superseded")
  <2>1. a \in Plain(act, Live(act)) /\ a \in Planned(act)
    BY <1>6, PlainRows DEF ChangePlanned, Plain
  <2>2. ~act[a].step /\ act[a].step \in BOOLEAN
    <3>1. act[a].status # "open" /\ a \in Live(act)
      BY <2>1 DEF Planned, With, Live
    <3> QED
      BY <3>1, StepInHand DEF Plain, Current, With, Row
  <2>3. /\ GoodRows(r) /\ StepRows(r) = StepRows(act) /\ Live(r) = Live(act) \ {a}
        /\ \A o \in Opinions : Checks(r, o) = Checks(act, o)
    BY <2>1, <2>2, EndsOwnStep
  <2>4. act' = Added(r, n, "planned", None, FALSE)
    BY <1>6, <2>2 DEF ChangePlanned
  <2> HIDE DEF r
  <2>5. n \in Actions \ Live(r)
    BY <1>1, <2>3
  <2>6. /\ GoodRows(act') /\ StepRows(act') = StepRows(r)
        /\ \A p \in Opinions : Checks(act', p) = Checks(r, p)
    BY <2>3, <2>4, <2>5, PlansStep
  <2>7. StepRows(act') = StepRows(act) /\ \A p \in Opinions : Checks(act', p) = Checks(act, p)
    BY <2>3, <2>6
  <2> QED
    BY <1>6, <2>6, <2>7, WrittenRows, TypedParts DEF ChangePlanned, OnlyActs, WorkInv, Typed, StepIsOpen
<1>7. ASSUME NEW a \in Actions, CompleteAndSet(a, n) PROVE WorkInv'
  <2> DEFINE r == Marked(act, {a}, "completed")
  <2>1. a \in Plain(act, Live(act))
    BY <1>7, PlainRows DEF CompleteAndSet
  <2>2. /\ GoodRows(r) /\ Live(r) = Live(act) \ {a}
        /\ \A o \in Opinions : Checks(r, o) = Checks(act, o)
    BY <2>1, EndsOwnStep
  <2>3. act' = SetCurrent(r, n, FALSE)
    BY <1>7 DEF CompleteAndSet
  <2> HIDE DEF r
  <2>4. n \in Actions \ Live(r)
    BY <1>1, <2>2
  <2>5. /\ GoodRows(act') /\ StepRows(act') = {}
        /\ \A o \in Opinions : Checks(act', o) = Checks(r, o)
    BY <2>2, <2>3, <2>4, SetsStep
  <2>6. \A o \in Opinions : Checks(act', o) = Checks(act, o)
    BY <2>2, <2>5
  <2> QED
    BY <1>7, <2>5, <2>6, StepOfKeeps, WrittenRows, TypedParts DEF CompleteAndSet, WorkInv, Typed
<1> QED
  BY <1>2, <1>3, <1>4, <1>5, <1>6, <1>7

LEMMA KeptByEndings ==
    ASSUME WorkInv, NEW a \in Actions,
           \/ CancelPlanned(a) \/ FinishPlanned(a) \/ CompleteCurrent(a)
           \/ \E x \in Waits : FinishWait(x, a)
    PROVE  WorkInv'
<1>1. CASE CancelPlanned(a) \/ FinishPlanned(a)
  <2>1. a \in Plain(act, Live(act)) /\ a \in Planned(act)
    BY <1>1, PlainRows DEF CancelPlanned, FinishPlanned, Plain
  <2>2. a \in Live(act) /\ act[a].step \in BOOLEAN /\ ~act[a].step
    <3>1. act[a].status # "open" /\ a \in Live(act)
      BY <2>1 DEF Planned, With, Live
    <3> QED
      BY <3>1, StepInHand DEF Plain, Current, With, Row
  <2>3. open
    BY <2>2 DEF WorkInv, ClosedOwesNothing
  <2>4. PICK status \in {"completed", "cancelled", "superseded"} :
          act' = Marked(act, {a}, status)
    BY <1>1 DEF CancelPlanned, FinishPlanned
  <2>5. /\ GoodRows(act') /\ StepRows(act') = StepRows(act)
        /\ \A o \in Opinions : Checks(act', o) = Checks(act, o)
    BY <2>1, <2>2, <2>4, EndsOwnStep
  <2> QED
    BY <1>1, <2>3, <2>5, WrittenRows, TypedParts
       DEF CancelPlanned, FinishPlanned, OnlyActs, WorkInv, Typed, StepIsOpen
<1>2. ASSUME CompleteCurrent(a) \/ \E x \in Waits : FinishWait(x, a)
      PROVE  WorkInv'
  <2> DEFINE r == Marked(act, {a}, "completed")
  <2>1. /\ open /\ a \in Plain(act, Live(act)) /\ act' \in Promoted(r) /\ plan' = StepOf(a)
        /\ UNCHANGED <<open, closer, opinion, watch, warned>>
    BY <1>2, PlainRows DEF CompleteCurrent, FinishWait, Becomes
  <2>2. /\ GoodRows(r) /\ StepRows(r) = IF act[a].step THEN {} ELSE StepRows(act)
        /\ \A o \in Opinions : Checks(r, o) = Checks(act, o)
    BY <2>1, EndsOwnStep
  <2>3. other' \in [Others -> OtherState]
    BY <1>2, TypedParts DEF CompleteCurrent, FinishWait, Becomes, WorkInv, Typed, OtherState
  <2> HIDE DEF r
  <2>4. /\ GoodRows(act') /\ StepRows(act') = StepRows(r)
        /\ \A o \in Opinions : Checks(act', o) = Checks(r, o)
    BY <2>1, <2>2, PromotesRow
  <2>5. \A o \in Opinions : Checks(act', o) = Checks(act, o)
    BY <2>2, <2>4
  <2>6. plan' \in PlanState /\ (StepRows(act') # {} => StepIsOpen')
    BY <2>1, <2>2, <2>4, StepOfKeeps DEF WorkInv, StepIsOpen
  <2>7. warned' \subseteq Work \cup {ToCome}
    BY <2>1, TypedParts DEF WorkInv, Typed
  <2> QED
    BY <2>1, <2>3, <2>4, <2>5, <2>6, <2>7, WrittenRows
<1> QED
  BY <1>1, <1>2

LEMMA KeptBesideSteps ==
    ASSUME WorkInv,
           \/ \E x \in Others : Begin(x) \/ Finish(x) \/ Remove(x)
           \/ \E x \in Waits : Reply(x) \/ ReplyRemoved(x)
           \/ SkipStep \/ DrawWarning
    PROVE  WorkInv'
<1> USE TypedParts
<1>1. CASE SkipStep
  <2>1. StepRows(act) = {} /\ plan' \in PlanState
    BY <1>1, StepInHand, LiveRows DEF SkipStep, StepRows, Plain, PlanState
  <2> QED
    BY <1>1, <2>1, WrittenRows DEF SkipStep, WorkInv, Typed
<1>2. CASE DrawWarning
  <2>1. warned' \subseteq Work \cup {ToCome}
    BY <1>2, LiveRows DEF DrawWarning, WorkAtClosure, LiveOthers, Work
  <2> QED
    BY <1>2, <2>1, WrittenRows DEF DrawWarning, WorkInv, Typed, StepIsOpen
<1>3. ASSUME NEW x \in Others,
             \/ Begin(x) \/ Finish(x) \/ Remove(x) \/ Reply(x) \/ ReplyRemoved(x)
      PROVE  WorkInv'
  <2>1. PICK from \in OtherState, to \in OtherState : Becomes(x, from, to) /\ OnlyOthers
    BY <1>3 DEF Begin, Finish, Remove, Reply, ReplyRemoved, OtherState
  <2>2. other' \in [Others -> OtherState]
    BY <2>1 DEF Becomes, WorkInv, Typed
  <2> QED
    BY <2>1, <2>2, WrittenRows DEF Becomes, OnlyOthers, WorkInv, Typed, StepIsOpen
<1> QED
  BY <1>1, <1>2, <1>3 DEF Others

-----------------------------------------------------------------------------
(* Opinions                                                                 *)

\* The next check on o is planned.
LEMMA PlansCheck ==
    ASSUME NEW rows, GoodRows(rows), NEW n \in Actions \ Live(rows), NEW o \in Opinions
    PROVE  LET r == Schedule(rows, n, o) IN
           /\ GoodRows(r)
           /\ Current(r) = Current(rows)
           /\ Live(r) = Live(rows) \cup {n}
           /\ StepRows(r) = StepRows(rows)
           /\ Checks(r, o) = Checks(rows, o) \cup {n}
           /\ \A p \in Opinions \ {o} : Checks(r, p) = Checks(rows, p)
           /\ \A a \in Actions \ {n} : r[a] = rows[a]
<1>1. PICK q \in Opinions \cup {None} : q = o
  OBVIOUS
<1> DEFINE r == Added(rows, n, "planned", q, FALSE)
<1>2. /\ GoodRows(r)
      /\ Current(r) = Current(rows)
      /\ Planned(r) = Planned(rows) \cup {n}
      /\ StepRows(r) = StepRows(rows)
      /\ \A p \in Opinions :
           Checks(r, p) = IF p = q THEN Checks(rows, p) \cup {n} ELSE Checks(rows, p)
      /\ \A a \in Actions \ {n} : r[a] = rows[a]
  BY PlansRow
<1>3. r = Schedule(rows, n, o)
  BY <1>1 DEF Schedule
<1> HIDE DEF r
<1>4. Live(r) = Live(rows) \cup {n}
  BY <1>2 DEF Live
<1>5. Checks(r, o) = Checks(rows, o) \cup {n}
      /\ \A p \in Opinions \ {o} : Checks(r, p) = Checks(rows, p)
  BY <1>1, <1>2
<1> QED
  BY <1>2, <1>3, <1>4, <1>5

\* An opinion nobody watches has no check, one that is watched has just one.
LEMMA CheckOf ==
    ASSUME WorkInv, NEW o \in Opinions
    PROVE  /\ watch[o] # "monitoring" => Checks(act, o) = {}
           /\ \A a \in Checks(act, o) : /\ Checks(act, o) = {a} /\ opinion[o] = "sent"
                                        /\ watch[o] = "monitoring" /\ open
           /\ watch[o] = "monitoring" => open /\ opinion[o] = "sent"
<1>1. Watched(o) /\ (watch[o] = "monitoring" => open)
  BY TypedParts DEF WorkInv, ClosedOwesNothing
<1> QED
  BY <1>1 DEF Watched

\* A promotion that may follow keeps all that.
LEMMA MaybePromotes ==
    ASSUME NEW rows, GoodRows(rows), NEW a,
           NEW r \in Promoted(rows) \cup PromotedAfter(a, rows)
    PROVE  /\ GoodRows(r) /\ Live(r) = Live(rows) /\ StepRows(r) = StepRows(rows)
           /\ \A o \in Opinions : Checks(r, o) = Checks(rows, o)
           /\ \A b \in Actions \ Planned(rows) : r[b] = rows[b]
<1>1. r \in Promoted(rows) \/ r = rows
  BY DEF PromotedAfter
<1> QED
  BY <1>1, PromotesRow

\* An opinion is sent and its first check is planned, whatever else is ended.
LEMMA Sent ==
    ASSUME WorkInv, open, NEW o \in Opinions, NEW n \in Actions, Sends(o),
           watch' = [watch EXCEPT ![o] = "monitoring"],
           UNCHANGED <<open, closer, other, warned>>, plan' \in PlanState,
           GoodRows(act'), StepRows(act') # {} => StepIsOpen',
           Checks(act', o) = Checks(act, o) \cup {n},
           \A p \in Opinions \ {o} : Checks(act', p) = Checks(act, p)
    PROVE  WorkInv'
<1>1. Checks(act, o) = {}
  BY CheckOf DEF Sends
<1>2. PICK x \in OpinionState, y \in WatchState : x = "sent" /\ y = "monitoring"
  BY DEF OpinionState, WatchState
<1>3. opinion' = [opinion EXCEPT ![o] = x] /\ watch' = [watch EXCEPT ![o] = y]
  BY <1>2 DEF Sends
<1>4. IF y = "monitoring" THEN x = "sent" /\ \E a \in Actions : Checks(act', o) = {a}
                          ELSE Checks(act', o) = {}
  BY <1>1, <1>2
<1> QED
  BY <1>3, <1>4, WrittenOpinion

LEMMA KeptBySending ==
    ASSUME WorkInv, NEW n \in Unused, NEW o \in Opinions,
           \/ SendOpinion(o, n) \/ SendOnNewMatter(o, n)
           \/ \E a \in Actions : SendFinishing(o, n, a)
    PROVE  WorkInv'
<1> DEFINE r == Schedule(act, n, o)
<1>1. n \in Actions \ Live(act) /\ GoodRows(act) /\ plan \in PlanState
  BY UnusedRows, TypedParts DEF WorkInv, Typed
<1>2. /\ GoodRows(r)
      /\ Current(r) = Current(act)
      /\ Live(r) = Live(act) \cup {n}
      /\ StepRows(r) = StepRows(act)
      /\ Checks(r, o) = Checks(act, o) \cup {n}
      /\ \A p \in Opinions \ {o} : Checks(r, p) = Checks(act, p)
      /\ \A a \in Actions \ {n} : r[a] = act[a]
  BY <1>1, PlansCheck
<1>3. CASE SendOpinion(o, n)
  BY <1>1, <1>2, <1>3, Sent DEF SendOpinion, WorkInv, StepIsOpen
<1>4. CASE SendOnNewMatter(o, n)
  <2>1. act' \in Promoted(r)
    BY <1>4 DEF SendOnNewMatter
  <2> HIDE DEF r
  <2>2. /\ GoodRows(act') /\ StepRows(act') = StepRows(r)
        /\ \A p \in Opinions : Checks(act', p) = Checks(r, p)
    BY <1>2, <2>1, PromotesRow
  <2>3. /\ StepRows(act') = StepRows(act) /\ Checks(act', o) = Checks(act, o) \cup {n}
        /\ \A p \in Opinions \ {o} : Checks(act', p) = Checks(act, p)
    BY <1>2, <2>2
  <2> QED
    BY <1>1, <1>4, <2>2, <2>3, Sent DEF SendOnNewMatter, WorkInv, StepIsOpen
<1>5. ASSUME NEW a \in Actions, SendFinishing(o, n, a) PROVE WorkInv'
  <2> DEFINE t == Marked(r, {a}, "completed")
  <2>1. /\ a \in Current(act) /\ a # n /\ act[a].of = None /\ act' \in Promoted(t)
    BY <1>1, <1>5 DEF SendFinishing, Plain, Live
  <2>2. a \in Plain(r, Live(r))
    BY <1>2, <2>1 DEF Plain, Live
  <2>3. PICK status \in Ended : status = "completed"
    BY DEF Ended
  <2>4. t = Marked(r, {a}, status)
    BY <2>3
  <2> HIDE DEF r, t
  <2>5. /\ GoodRows(t) /\ StepRows(t) = StepRows(r) \ {a}
        /\ \A p \in Opinions : Checks(t, p) = Checks(r, p)
    <3>1. GoodRows(r)
      BY <1>2
    <3>2. LET u == Marked(r, {a}, status) IN
          /\ GoodRows(u)
          /\ a \in Actions
          /\ Current(u) = Current(r) \ {a}
          /\ Planned(u) = Planned(r) \ {a}
          /\ StepRows(u) = StepRows(r) \ {a}
          /\ \A p \in Opinions : Checks(u, p) = Checks(r, p)
          /\ \A b \in Actions \ {a} : u[b] = r[b]
      BY <2>2, <3>1, EndsStep
    <3> QED
      BY <2>4, <3>2
  <2>6. /\ GoodRows(act') /\ StepRows(act') = StepRows(t)
        /\ \A p \in Opinions : Checks(act', p) = Checks(t, p)
    BY <2>1, <2>5, PromotesRow
  <2>7. /\ Checks(act', o) = Checks(act, o) \cup {n}
        /\ \A p \in Opinions \ {o} : Checks(act', p) = Checks(act, p)
    BY <1>2, <2>5, <2>6
  <2>8. StepRows(act') = IF act[a].step THEN {} ELSE StepRows(act)
    <3>1. a \in Live(act)
      BY <2>1 DEF Live
    <3> QED
      BY <1>2, <2>5, <2>6, <3>1, StepInHand
  <2>9. plan' \in PlanState /\ (StepRows(act') # {} => StepIsOpen')
    BY <1>5, <2>8, StepOfKeeps DEF SendFinishing, WorkInv, StepIsOpen
  <2> QED
    BY <1>1, <1>5, <2>6, <2>7, <2>9, Sent DEF SendFinishing
<1> QED
  BY <1>3, <1>4, <1>5

LEMMA KeptByChecking ==
    ASSUME WorkInv,
           \/ \E a \in Actions : EndCheck(a)
           \/ \E n \in Unused : \E a \in Actions : CheckAgain(a, n)
           \/ \E n \in Unused : \E o \in Opinions : Restart(o, n)
           \/ \E o \in Opinions : Withdraw(o)
    PROVE  WorkInv'
<1>1. GoodRows(act) /\ plan \in PlanState
  BY TypedParts DEF WorkInv, Typed
<1>2. ASSUME NEW a \in Live(act), act[a].of # None
      PROVE  LET o == act[a].of
                 r == Marked(act, {a}, "completed")
             IN  /\ o \in Opinions /\ open /\ opinion[o] = "sent" /\ watch[o] = "monitoring"
                 /\ GoodRows(r) /\ Live(r) = Live(act) \ {a} /\ StepRows(r) = StepRows(act)
                 /\ Checks(r, o) = {}
                 /\ \A p \in Opinions \ {o} : Checks(r, p) = Checks(act, p)
  <2> DEFINE o == act[a].of
             r == Marked(act, {a}, "completed")
  <2>1. a \in Actions /\ o \in Opinions /\ a \in Checks(act, o)
    BY <1>2, LiveRows, StepInHand DEF Row, Checks
  <2>2. Checks(act, o) = {a} /\ opinion[o] = "sent" /\ watch[o] = "monitoring" /\ open
    BY <2>1, CheckOf
  <2>3. PICK S \in SUBSET Live(act), status \in Ended : S = {a} /\ status = "completed"
    BY DEF Ended
  <2>4. LET t == Marked(act, S, status) IN
        /\ GoodRows(t)
        /\ Current(t) = Current(act) \ S
        /\ Planned(t) = Planned(act) \ S
        /\ StepRows(t) = StepRows(act) \ S
        /\ \A p \in Opinions : Checks(t, p) = Checks(act, p) \ S
        /\ \A b \in Actions \ S : t[b] = act[b]
    BY <1>1, EndsRows
  <2>5. r = Marked(act, S, status)
    BY <2>3
  <2>6. a \notin StepRows(act) /\ \A p \in Opinions \ {o} : a \notin Checks(act, p)
    BY <1>2, StepInHand DEF Plain, Checks
  <2> HIDE DEF r
  <2>7. StepRows(r) = StepRows(act) /\ Live(r) = Live(act) \ {a}
    BY <2>3, <2>4, <2>5, <2>6 DEF Live
  <2>8. Checks(r, o) = {} /\ \A p \in Opinions \ {o} : Checks(r, p) = Checks(act, p)
    <3>1. \A p \in Opinions : Checks(r, p) = Checks(act, p) \ {a}
      BY <2>3, <2>4, <2>5
    <3> HIDE DEF o
    <3>2. Checks(r, o) = {}
      BY <2>1, <2>2, <3>1
    <3>3. \A p \in Opinions \ {o} : Checks(r, p) = Checks(act, p)
      BY <2>6, <3>1
    <3> QED
      BY <3>2, <3>3
  <2> QED
    BY <2>1, <2>2, <2>4, <2>5, <2>7, <2>8 DEF r
<1>3. ASSUME NEW a \in Actions, EndCheck(a) PROVE WorkInv'
  <2> DEFINE o == act[a].of
             r == Marked(act, {a}, "completed")
  <2>1. /\ o \in Opinions /\ open /\ opinion[o] = "sent"
        /\ GoodRows(r) /\ StepRows(r) = StepRows(act) /\ Checks(r, o) = {}
        /\ \A p \in Opinions \ {o} : Checks(r, p) = Checks(act, p)
    BY <1>2, <1>3 DEF EndCheck
  <2>2. act' \in PromotedAfter(a, r)
    BY <1>3 DEF EndCheck
  <2>3. PICK how \in WatchState \ {"monitoring"} : watch' = [watch EXCEPT ![o] = how]
    BY <1>3 DEF EndCheck, WatchState
  <2>4. PICK x \in OpinionState : x = opinion[o]
    BY <2>1 DEF OpinionState
  <2>5. opinion' = [opinion EXCEPT ![o] = x]
    BY <1>3, <2>4, TypedParts DEF EndCheck, WorkInv, Typed
  <2> HIDE DEF o, r
  <2>6. /\ GoodRows(act') /\ StepRows(act') = StepRows(r)
        /\ \A p \in Opinions : Checks(act', p) = Checks(r, p)
    BY <2>1, <2>2, MaybePromotes
  <2>7. Checks(act', o) = {} /\ \A p \in Opinions \ {o} : Checks(act', p) = Checks(act, p)
    BY <2>1, <2>6
  <2>8. StepRows(act') # {} => StepIsOpen'
    BY <1>3, <2>1, <2>6 DEF EndCheck, WorkInv, StepIsOpen
  <2> QED
    BY <1>1, <1>3, <2>1, <2>3, <2>5, <2>6, <2>7, <2>8, WrittenOpinion DEF EndCheck
<1>4. ASSUME NEW n \in Unused, NEW a \in Actions, CheckAgain(a, n) PROVE WorkInv'
  <2> DEFINE o == act[a].of
             r == Marked(act, {a}, "completed")
             t == Schedule(r, n, o)
  <2>1. /\ o \in Opinions /\ open /\ opinion[o] = "sent" /\ watch[o] = "monitoring"
        /\ GoodRows(r) /\ Live(r) = Live(act) \ {a} /\ StepRows(r) = StepRows(act)
        /\ Checks(r, o) = {}
        /\ \A p \in Opinions \ {o} : Checks(r, p) = Checks(act, p)
    BY <1>2, <1>4 DEF CheckAgain
  <2>2. act' \in PromotedAfter(a, t)
    BY <1>4 DEF CheckAgain
  <2> HIDE DEF o, r
  <2>3. n \in Actions \ Live(r)
    BY <2>1, UnusedRows
  <2>4. /\ GoodRows(t) /\ StepRows(t) = StepRows(r)
        /\ Checks(t, o) = Checks(r, o) \cup {n}
        /\ \A p \in Opinions \ {o} : Checks(t, p) = Checks(r, p)
    BY <2>1, <2>3, PlansCheck
  <2> HIDE DEF t
  <2>5. /\ GoodRows(act') /\ StepRows(act') = StepRows(t)
        /\ \A p \in Opinions : Checks(act', p) = Checks(t, p)
    BY <2>2, <2>4, MaybePromotes
  <2>6. Checks(act', o) = {n} /\ \A p \in Opinions \ {o} : Checks(act', p) = Checks(act, p)
    BY <2>1, <2>4, <2>5
  <2>7. StepRows(act') # {} => StepIsOpen'
    BY <1>4, <2>1, <2>4, <2>5 DEF CheckAgain, OnlyActs, WorkInv, StepIsOpen
  <2>8. open' = TRUE /\ Typed'
    BY <1>4, <2>1, TypedParts DEF CheckAgain, OnlyActs, WorkInv, Typed
  <2>9. ASSUME NEW p \in Opinions PROVE Watched(p)'
    <3>1. Watched(p) /\ opinion' = opinion /\ watch' = watch
      BY <1>4 DEF WorkInv, CheckAgain, OnlyActs
    <3> QED
      BY <2>1, <2>6, <3>1 DEF Watched
  <2> QED
    BY <2>5, <2>7, <2>8, <2>9, WrittenOpen
<1>5. ASSUME NEW n \in Unused, NEW o \in Opinions, Restart(o, n) PROVE WorkInv'
  <2> DEFINE r == Schedule(act, n, o)
  <2>1. n \in Actions \ Live(act)
    BY UnusedRows
  <2>2. /\ GoodRows(r) /\ StepRows(r) = StepRows(act)
        /\ Checks(r, o) = Checks(act, o) \cup {n}
        /\ \A p \in Opinions \ {o} : Checks(r, p) = Checks(act, p)
    BY <1>1, <2>1, PlansCheck
  <2>3. Checks(act, o) = {}
    BY <1>5, CheckOf DEF Restart
  <2>4. PICK x \in OpinionState, y \in WatchState : x = "sent" /\ y = "monitoring"
    BY DEF OpinionState, WatchState
  <2>5. opinion' = [opinion EXCEPT ![o] = x] /\ watch' = [watch EXCEPT ![o] = y]
    BY <1>5, <2>4, TypedParts DEF Restart, WorkInv, Typed
  <2>6. act' = r /\ (StepRows(act') # {} => StepIsOpen')
    BY <1>5, <2>2 DEF Restart, WorkInv, StepIsOpen
  <2> HIDE DEF r
  <2>7. IF y = "monitoring" THEN x = "sent" /\ \E a \in Actions : Checks(act', o) = {a}
                            ELSE Checks(act', o) = {}
    BY <2>1, <2>2, <2>3, <2>4, <2>6
  <2>8. /\ open /\ UNCHANGED <<open, closer, other, warned>> /\ plan' \in PlanState
        /\ GoodRows(act') /\ \A p \in Opinions \ {o} : Checks(act', p) = Checks(act, p)
    BY <1>1, <1>5, <2>2, <2>6 DEF Restart
  <2> QED
    BY <2>5, <2>6, <2>7, <2>8, WrittenOpinion
<1>6. ASSUME NEW o \in Opinions, Withdraw(o) PROVE WorkInv'
  <2>1. PICK x \in OpinionState, y \in WatchState : x = "withdrawn" /\ y = "withdrawn"
    BY DEF OpinionState, WatchState
  <2>2. CASE watch[o] = "monitoring"
    <3>1. PICK S \in SUBSET Live(act), status \in Ended : S = Checks(act, o) /\ status = "cancelled"
      BY DEF Ended, Checks
    <3> DEFINE r == Marked(act, S, status)
    <3>2. /\ GoodRows(r)
          /\ Current(r) = Current(act) \ S
          /\ Planned(r) = Planned(act) \ S
          /\ StepRows(r) = StepRows(act) \ S
          /\ \A p \in Opinions : Checks(r, p) = Checks(act, p) \ S
          /\ \A b \in Actions \ S : r[b] = act[b]
      BY <1>1, EndsRows
    <3>3. act' \in Promoted(r) \/ act' = r
      BY <1>6, <2>2, <3>1 DEF Withdraw
    <3>4. S \cap StepRows(act) = {} /\ \A p \in Opinions \ {o} : S \cap Checks(act, p) = {}
      BY <3>1, StepInHand, KindsAssumption DEF Checks, Plain
    <3> HIDE DEF r
    <3>5. /\ GoodRows(act') /\ StepRows(act') = StepRows(r)
          /\ \A p \in Opinions : Checks(act', p) = Checks(r, p)
      BY <3>2, <3>3, PromotesRow
    <3>6. /\ StepRows(act') = StepRows(act) /\ Checks(act', o) = {}
          /\ \A p \in Opinions \ {o} : Checks(act', p) = Checks(act, p)
      BY <3>1, <3>2, <3>4, <3>5
    <3>7. /\ opinion' = [opinion EXCEPT ![o] = x] /\ watch' = [watch EXCEPT ![o] = y]
          /\ UNCHANGED <<open, closer, plan, other, warned>> /\ open
      BY <1>6, <2>1, <2>2, CheckOf DEF Withdraw
    <3>8. StepRows(act') # {} => StepIsOpen'
      BY <3>6, <3>7 DEF WorkInv, StepIsOpen
    <3> QED
      BY <1>1, <2>1, <3>5, <3>6, <3>7, <3>8, WrittenOpinion
  <2>3. CASE watch[o] # "monitoring"
    <3>1. /\ opinion' = [opinion EXCEPT ![o] = x]
          /\ UNCHANGED <<open, closer, act, plan, watch, other, warned>>
      BY <1>6, <2>1, <2>3 DEF Withdraw
    <3>2. TypeOK'
      BY <3>1, TypedParts DEF WorkInv, TypeOK, OpinionState
    <3>3. ASSUME NEW p \in Opinions PROVE Watched(p)'
      <4>1. Watched(p) /\ (p # o => opinion'[p] = opinion[p]) /\ (p = o => watch'[p] # "monitoring")
        BY <2>3, <3>1, TypedParts DEF WorkInv, Typed
      <4> QED
        BY <3>1, <4>1 DEF Watched, Checks
    <3>4. ClosedOwesNothing' /\ (StepRows(act) # {} => StepIsOpen)'
      BY <3>1 DEF WorkInv, ClosedOwesNothing, LiveOthers, StepIsOpen
    <3> QED
      BY <3>1, <3>2, <3>3, <3>4 DEF WorkInv
  <2> QED
    BY <2>2, <2>3
<1> QED
  BY <1>3, <1>4, <1>5, <1>6

-----------------------------------------------------------------------------
(* Closure                                                                  *)

\* Whatever rows a closure finishes first, it ends the rest and every watch.
LEMMA KeptByEnd ==
    ASSUME NEW rows, GoodRows(rows), NEW watched \in [Opinions -> WatchState],
           EndLiveWork(rows, watched),
           \A o \in Opinions : watched[o] = "monitoring" => Checks(rows, o) # {},
           open' = FALSE, closer' \in {"nobody", "person"}, plan' \in PlanState,
           opinion' \in [Opinions -> OpinionState], other \in [Others -> OtherState],
           warned' \subseteq Work \cup {ToCome}
    PROVE  WorkInv'
<1>1. /\ GoodRows(act')
      /\ Live(act') = {} /\ StepRows(act') = {}
      /\ \A o \in Opinions : Checks(act', o) = {}
  BY EndsAll DEF EndLiveWork
<1>2. watch' \in [Opinions -> WatchState] /\ \A o \in Opinions : watch'[o] # "monitoring"
  BY DEF EndLiveWork, WatchState
<1>3. other' \in [Others -> OtherState] /\ LiveOthers' = {}
  BY DEF EndLiveWork, OtherState, LiveOthers
<1>4. TypeOK'
  BY <1>1, <1>2, <1>3, TypedParts
     DEF GoodRows, TypeOK, PlanState, OpinionState, WatchState, OtherState
<1>5. ClosedOwesNothing'
  BY <1>1, <1>2, <1>3 DEF ClosedOwesNothing
<1> QED
  BY <1>1, <1>2, <1>4, <1>5 DEF WorkInv, Watched

LEMMA KeptByClosing ==
    ASSUME WorkInv,
           \/ Close \/ CloseByRegister \/ Reopen
           \/ \E a \in Actions : CompleteAndClose(a)
           \/ \E n \in Unused : \E o \in Opinions :
                SendAndClose(o, n) \/ \E a \in Actions : SendFinishAndClose(o, n, a)
    PROVE  WorkInv'
<1>1. GoodRows(act) /\ Typed
  BY TypedParts DEF WorkInv
<1>2. \A o \in Opinions : watch[o] = "monitoring" => Checks(act, o) # {}
  BY DEF WorkInv, Watched
<1>3. CASE Close \/ CloseByRegister
  BY <1>1, <1>2, <1>3, KeptByEnd DEF Close, CloseByRegister, ByPerson, Typed
<1>4. CASE Reopen
  <2>1. /\ open' = TRUE /\ closer' = "nobody"
        /\ UNCHANGED <<act, plan, opinion, watch, other, warned>>
    BY <1>4 DEF Reopen
  <2>2. TypeOK' /\ ClosedOwesNothing'
    BY <2>1 DEF WorkInv, TypeOK, ClosedOwesNothing
  <2>3. (StepRows(act) # {} => StepIsOpen)' /\ \A o \in Opinions : Watched(o)'
    BY <2>1 DEF WorkInv, StepIsOpen, Watched
  <2> QED
    BY <1>1, <2>1, <2>2, <2>3 DEF WorkInv
<1>5. ASSUME NEW a \in Actions, CompleteAndClose(a) PROVE WorkInv'
  <2> DEFINE r == Marked(act, {a}, "completed")
  <2>1. /\ a \in Plain(act, Live(act)) /\ plan' \in PlanState /\ EndLiveWork(r, watch)
        /\ open' = FALSE /\ closer' = "person" /\ UNCHANGED <<opinion, warned>>
    BY <1>5, PlainRows, StepOfKeeps DEF CompleteAndClose, ByPerson
  <2>2. GoodRows(r) /\ \A o \in Opinions : Checks(r, o) = Checks(act, o)
    BY <2>1, EndsOwnStep
  <2> HIDE DEF r
  <2> QED
    BY <1>1, <1>2, <2>1, <2>2, KeptByEnd DEF Typed
<1>6. ASSUME NEW n \in Unused, NEW o \in Opinions, Sends(o)
      PROVE  LET r == Schedule(act, n, o)
                 watched == [watch EXCEPT ![o] = "monitoring"]
             IN  /\ GoodRows(r) /\ Live(r) = Live(act) \cup {n} /\ n \notin Live(act)
                 /\ \A a \in Actions \ {n} : r[a] = act[a]
                 /\ watched \in [Opinions -> WatchState]
                 /\ \A p \in Opinions : watched[p] = "monitoring" => Checks(r, p) # {}
                 /\ opinion' \in [Opinions -> OpinionState]
  <2> DEFINE r == Schedule(act, n, o)
             watched == [watch EXCEPT ![o] = "monitoring"]
  <2>1. n \in Actions \ Live(act)
    BY UnusedRows
  <2>2. /\ GoodRows(r)
        /\ Current(r) = Current(act)
        /\ Live(r) = Live(act) \cup {n}
        /\ StepRows(r) = StepRows(act)
        /\ Checks(r, o) = Checks(act, o) \cup {n}
        /\ \A p \in Opinions \ {o} : Checks(r, p) = Checks(act, p)
        /\ \A a \in Actions \ {n} : r[a] = act[a]
    BY <1>1, <2>1, PlansCheck
  <2>3. watched \in [Opinions -> WatchState] /\ opinion' \in [Opinions -> OpinionState]
    BY <1>6, <1>1 DEF Sends, Typed, WatchState, OpinionState
  <2>4. \A p \in Opinions \ {o} : watched[p] = watch[p]
    BY <1>1 DEF Typed
  <2> HIDE DEF r, watched
  <2>5. \A p \in Opinions : watched[p] = "monitoring" => Checks(r, p) # {}
    BY <1>2, <2>2, <2>4
  <2> QED
    BY <2>1, <2>2, <2>3, <2>5 DEF r, watched
<1>7. ASSUME NEW n \in Unused, NEW o \in Opinions, SendAndClose(o, n) PROVE WorkInv'
  <2> DEFINE r == Schedule(act, n, o)
             watched == [watch EXCEPT ![o] = "monitoring"]
  <2>1. /\ Sends(o) /\ EndLiveWork(r, watched)
        /\ open' = FALSE /\ closer' = "person" /\ UNCHANGED <<plan, warned>>
    BY <1>7 DEF SendAndClose, ByPerson
  <2>2. /\ GoodRows(r) /\ watched \in [Opinions -> WatchState]
        /\ \A p \in Opinions : watched[p] = "monitoring" => Checks(r, p) # {}
        /\ opinion' \in [Opinions -> OpinionState]
    BY <1>6, <2>1
  <2> HIDE DEF r, watched
  <2> QED
    BY <1>1, <2>1, <2>2, KeptByEnd DEF Typed
<1>8. ASSUME NEW n \in Unused, NEW o \in Opinions, NEW a \in Actions,
             SendFinishAndClose(o, n, a)
      PROVE  WorkInv'
  <2> DEFINE r == Schedule(act, n, o)
             watched == [watch EXCEPT ![o] = "monitoring"]
             t == Marked(r, {a}, "completed")
  <2>1. /\ Sends(o) /\ EndLiveWork(t, watched) /\ a \in Current(act) /\ act[a].of = None
        /\ open' = FALSE /\ closer' = "person" /\ plan' \in PlanState /\ UNCHANGED warned
    BY <1>8, StepOfKeeps DEF SendFinishAndClose, ByPerson, Plain
  <2>2. /\ GoodRows(r) /\ Live(r) = Live(act) \cup {n} /\ n \notin Live(act)
        /\ \A b \in Actions \ {n} : r[b] = act[b]
        /\ watched \in [Opinions -> WatchState]
        /\ \A p \in Opinions : watched[p] = "monitoring" => Checks(r, p) # {}
        /\ opinion' \in [Opinions -> OpinionState]
    BY <1>6, <2>1
  <2>3. PICK status \in Ended : status = "completed"
    BY DEF Ended
  <2>4. t = Marked(r, {a}, status)
    BY <2>3
  <2> HIDE DEF r, watched, t
  <2>5. a \in Plain(r, Live(r))
    <3>1. a \in Live(act)
      BY <2>1 DEF Live
    <3> QED
      BY <2>1, <2>2, <3>1 DEF Plain
  <2>6. LET u == Marked(r, {a}, status) IN
        /\ GoodRows(u)
        /\ a \in Actions
        /\ Current(u) = Current(r) \ {a}
        /\ Planned(u) = Planned(r) \ {a}
        /\ StepRows(u) = StepRows(r) \ {a}
        /\ \A p \in Opinions : Checks(u, p) = Checks(r, p)
        /\ \A b \in Actions \ {a} : u[b] = r[b]
    BY <2>2, <2>5, EndsStep
  <2>7. GoodRows(t) /\ \A p \in Opinions : watched[p] = "monitoring" => Checks(t, p) # {}
    BY <2>2, <2>4, <2>6
  <2> QED
    BY <1>1, <2>1, <2>2, <2>7, KeptByEnd DEF Typed
<1> QED
  BY <1>3, <1>4, <1>5, <1>7, <1>8

-----------------------------------------------------------------------------
(* The invariant holds                                                      *)

LEMMA WorkStarts == Init => WorkInv
<1> SUFFICES ASSUME Init PROVE WorkInv
  OBVIOUS
<1>1. Live(act) = {} /\ act \in [Actions -> Row]
  BY LiveRows DEF Init, Row
<1>2. TypeOK
  BY <1>1 DEF Init, TypeOK
<1>3. GoodRows(act) /\ StepRows(act) = {} /\ \A o \in Opinions : Checks(act, o) = {}
  BY <1>1 DEF GoodRows, StepRows, Checks, Live
<1> QED
  BY <1>2, <1>3 DEF Init, WorkInv, Watched, ClosedOwesNothing

LEMMA WorkKept == WorkInv /\ [Next]_vars => WorkInv'
<1> SUFFICES ASSUME WorkInv, [Next]_vars PROVE WorkInv'
  OBVIOUS
<1>1. CASE UNCHANGED vars
  BY <1>1 DEF vars, WorkInv, TypeOK, GoodRows, StepRows, StepIsOpen, Watched,
              ClosedOwesNothing, LiveOthers, Checks, Plain, Live, Current, Planned, With
<1>2. ASSUME NEW n \in Unused, NextStep(n) PROVE WorkInv'
  BY <1>2, KeptBySteps, KeptBySending, KeptByChecking, KeptByClosing DEF NextStep
<1>3. ASSUME NEW a \in Actions,
             \/ CancelPlanned(a) \/ FinishPlanned(a) \/ CompleteCurrent(a)
             \/ EndCheck(a) \/ CompleteAndClose(a)
             \/ \E x \in Waits : FinishWait(x, a)
      PROVE  WorkInv'
  BY <1>3, KeptByEndings, KeptByChecking, KeptByClosing
<1>4. CASE \E o \in Opinions : Withdraw(o)
  BY <1>4, KeptByChecking
<1>5. CASE \/ \E x \in Others : Begin(x) \/ Finish(x) \/ Remove(x)
           \/ \E x \in Waits : Reply(x) \/ ReplyRemoved(x)
           \/ SkipStep \/ DrawWarning
  BY <1>5, KeptBesideSteps
<1>6. CASE Close \/ CloseByRegister \/ Reopen
  BY <1>6, KeptByClosing
<1> QED
  BY <1>1, <1>2, <1>3, <1>4, <1>5, <1>6 DEF Next

LEMMA WorkHolds == Spec => []WorkInv
<1> QED
  BY WorkStarts, WorkKept, PTL DEF Spec

\* The rows of a Matter's work keep their shape whatever its pages are asked for.
THEOREM WorkTyped == Spec => []TypeOK
<1>1. WorkInv => TypeOK
  BY DEF WorkInv
<1> QED
  BY <1>1, WorkHolds, PTL

\* No order of saves, checks, promotions and reopenings gives a Matter two
\* current steps (set_next_action, promote_next_planned_action).
THEOREM StepIsOne == Spec => []OneCurrentStep
<1>1. WorkInv => OneCurrentStep
  BY InvMeans
<1> QED
  BY <1>1, WorkHolds, PTL

\* A closed Matter owes nothing, by whichever of the five ways it was closed and
\* whatever happens to its opinions afterwards (end_live_work_for_closure).
THEOREM ClosedOwes == Spec => []ClosedOwesNothing
<1>1. WorkInv => ClosedOwesNothing
  BY InvMeans
<1> QED
  BY <1>1, WorkHolds, PTL

\* An opinion's answer is waited for just as long as one live check looks for it
\* (follow_ups.py keeps the follow-up and the action in step).
THEOREM WatchIsChecked == Spec => []WatchedIsChecked
<1>1. WorkInv => WatchedIsChecked
  BY InvMeans
<1> QED
  BY <1>1, WorkHolds, PTL

\* No live step works on a plan step that is completed or skipped (plan.py).
THEOREM StepWork == Spec => []StepWorkIsOpen
<1>1. WorkInv => StepWorkIsOpen
  BY InvMeans
<1> QED
  BY <1>1, WorkHolds, PTL
-----------------------------------------------------------------------------
(* What a sent opinion is promised                                          *)

\* With the invariant the rows of the steps no longer matter to an opinion's fate.
FateIs(status, state) ==
    IF status # "sent" THEN status
    ELSE IF state = "monitoring" THEN "watched" ELSE state

Fates == [o \in Opinions |-> Fate(o)]

LEMMA FateNow == WorkInv => Fates = [o \in Opinions |-> FateIs(opinion[o], watch[o])]
<1> SUFFICES ASSUME WorkInv, NEW o \in Opinions PROVE Fate(o) = FateIs(opinion[o], watch[o])
  BY DEF Fates
<1>1. Watched(o) /\ opinion[o] \in OpinionState
  BY TypedParts DEF WorkInv, Typed
<1> QED
  BY <1>1 DEF Watched, Fate, FateIs, OpinionState

LEMMA FateThen == WorkInv' => Fates' = [o \in Opinions |-> FateIs(opinion'[o], watch'[o])]
<1> SUFFICES ASSUME WorkInv', NEW o \in Opinions PROVE Fate(o)' = FateIs(opinion'[o], watch'[o])
  BY DEF Fates
<1>1. Watched(o)' /\ opinion'[o] \in OpinionState
  BY DEF WorkInv, TypeOK, OpinionState
<1> QED
  BY <1>1 DEF Watched, Fate, FateIs, OpinionState

\* An opinion's answer is what a step sets out to find or to stop looking for.
Sending(o) ==
    /\ open /\ opinion[o] = "draft"
    /\ opinion' = [opinion EXCEPT ![o] = "sent"]
    /\ watch' = [watch EXCEPT ![o] = "monitoring"]
    /\ UNCHANGED open

Answering(o) ==
    /\ open /\ opinion[o] = "sent" /\ watch[o] = "monitoring"
    /\ \E how \in {"answered", "ended"} : watch' = [watch EXCEPT ![o] = how]
    /\ UNCHANGED <<open, opinion>>

Withdrawing(o) ==
    /\ opinion[o] # "withdrawn"
    /\ opinion' = [opinion EXCEPT ![o] = "withdrawn"]
    /\ \A p \in Opinions \ {o} : watch'[p] = watch[p]
    /\ UNCHANGED open

Restarting(o) ==
    /\ open /\ opinion[o] = "sent" /\ watch[o] = "closed"
    /\ watch' = [watch EXCEPT ![o] = "monitoring"]
    /\ UNCHANGED <<open, opinion>>

\* The opinions in sent are sent by the save that closes the Matter.
Closing(sent) ==
    /\ open /\ open' = FALSE
    /\ \A o \in sent : opinion[o] = "draft"
    /\ \A o \in Opinions :
         /\ opinion'[o] = IF o \in sent THEN "sent" ELSE opinion[o]
         /\ watch'[o] = IF o \in sent \/ watch[o] = "monitoring" THEN "closed" ELSE watch[o]

Reopening == ~open /\ open' = TRUE /\ UNCHANGED <<opinion, watch>>

OpinionStep ==
    \/ \E o \in Opinions : Sending(o) \/ Answering(o) \/ Withdrawing(o) \/ Restarting(o)
    \/ \E sent \in SUBSET Opinions : Closing(sent)
    \/ Reopening
    \/ UNCHANGED <<open, opinion, watch>>

\* A closure that finds the checks rows ends the watch of each opinion watched.
LEMMA ClosesWatches ==
    ASSUME WorkInv, NEW rows, NEW watched \in [Opinions -> WatchState],
           EndLiveWork(rows, watched),
           \A o \in Opinions : watched[o] = "monitoring" => Checks(rows, o) # {}
    PROVE  \A o \in Opinions :
             watch'[o] = IF watched[o] = "monitoring" THEN "closed" ELSE watched[o]
BY DEF EndLiveWork

LEMMA ClosureSteps ==
    ASSUME WorkInv,
           \/ Close \/ CloseByRegister
           \/ \E a \in Actions : CompleteAndClose(a)
           \/ \E n \in Unused : \E o \in Opinions :
                SendAndClose(o, n) \/ \E a \in Actions : SendFinishAndClose(o, n, a)
    PROVE  OpinionStep
<1>1. /\ GoodRows(act) /\ watch \in [Opinions -> WatchState]
      /\ opinion \in [Opinions -> OpinionState]
  BY TypedParts DEF WorkInv, Typed
<1>2. \A o \in Opinions : watch[o] = "monitoring" => Checks(act, o) # {}
  BY DEF WorkInv, Watched
<1>3. ASSUME NEW rows, EndLiveWork(rows, watch), open, open' = FALSE, opinion' = opinion,
             \A o \in Opinions : Checks(rows, o) = Checks(act, o)
      PROVE  OpinionStep
  <2>1. \A o \in Opinions : watch'[o] = IF watch[o] = "monitoring" THEN "closed" ELSE watch[o]
    BY <1>1, <1>2, <1>3, ClosesWatches
  <2>2. Closing({})
    BY <1>3, <2>1 DEF Closing
  <2> QED
    BY <2>2 DEF OpinionStep
<1>4. ASSUME NEW o \in Opinions, NEW rows, Sends(o), open, open' = FALSE,
             EndLiveWork(rows, [watch EXCEPT ![o] = "monitoring"]), Checks(rows, o) # {},
             \A p \in Opinions \ {o} : Checks(rows, p) = Checks(act, p)
      PROVE  OpinionStep
  <2> DEFINE watched == [watch EXCEPT ![o] = "monitoring"]
  <2>1. /\ watched \in [Opinions -> WatchState] /\ watched[o] = "monitoring"
        /\ \A p \in Opinions \ {o} : watched[p] = watch[p]
    BY <1>1 DEF WatchState
  <2> HIDE DEF watched
  <2>2. \A p \in Opinions : watch'[p] = IF watched[p] = "monitoring" THEN "closed" ELSE watched[p]
    <3>1. EndLiveWork(rows, watched)
      BY <1>4 DEF watched
    <3>2. \A p \in Opinions : watched[p] = "monitoring" => Checks(rows, p) # {}
      BY <1>2, <1>4, <2>1
    <3> QED
      BY <2>1, <3>1, <3>2, ClosesWatches
  <2>3. Closing({o})
    BY <1>1, <1>4, <2>1, <2>2 DEF Closing, Sends
  <2> QED
    BY <2>3 DEF OpinionStep
<1>5. CASE Close \/ CloseByRegister
  BY <1>3, <1>5 DEF Close, CloseByRegister, ByPerson
<1>6. ASSUME NEW a \in Actions, CompleteAndClose(a) PROVE OpinionStep
  <2>1. \A o \in Opinions : Checks(Marked(act, {a}, "completed"), o) = Checks(act, o)
    BY <1>6, PlainRows, EndsOwnStep DEF CompleteAndClose
  <2> QED
    BY <1>3, <1>6, <2>1 DEF CompleteAndClose, ByPerson
<1>7. ASSUME NEW n \in Unused, NEW o \in Opinions
      PROVE  LET r == Schedule(act, n, o)
             IN  /\ GoodRows(r) /\ Current(r) = Current(act) /\ n \in Checks(r, o)
                 /\ \A b \in Current(act) : r[b] = act[b]
                 /\ \A p \in Opinions \ {o} : Checks(r, p) = Checks(act, p)
  <2> DEFINE r == Schedule(act, n, o)
  <2>1. n \in Actions \ Live(act)
    BY UnusedRows
  <2>2. /\ GoodRows(r)
        /\ Current(r) = Current(act)
        /\ Live(r) = Live(act) \cup {n}
        /\ StepRows(r) = StepRows(act)
        /\ Checks(r, o) = Checks(act, o) \cup {n}
        /\ \A p \in Opinions \ {o} : Checks(r, p) = Checks(act, p)
        /\ \A a \in Actions \ {n} : r[a] = act[a]
    BY <1>1, <2>1, PlansCheck
  <2>3. Current(act) \subseteq Actions \ {n}
    BY <2>1, LiveRows
  <2> HIDE DEF r
  <2>4. n \in Checks(r, o) /\ \A b \in Current(act) : r[b] = act[b]
    BY <2>2, <2>3
  <2> QED
    BY <2>2, <2>4 DEF r
<1>8. ASSUME NEW n \in Unused, NEW o \in Opinions, SendAndClose(o, n) PROVE OpinionStep
  BY <1>4, <1>7, <1>8 DEF SendAndClose, ByPerson
<1>9. ASSUME NEW n \in Unused, NEW o \in Opinions, NEW a \in Actions,
             SendFinishAndClose(o, n, a)
      PROVE  OpinionStep
  <2> DEFINE r == Schedule(act, n, o)
             t == Marked(r, {a}, "completed")
  <2>1. /\ GoodRows(r) /\ Current(r) = Current(act) /\ n \in Checks(r, o)
        /\ \A b \in Current(act) : r[b] = act[b]
        /\ \A p \in Opinions \ {o} : Checks(r, p) = Checks(act, p)
    BY <1>7
  <2>2. /\ a \in Current(act) /\ act[a].of = None /\ Sends(o) /\ open /\ open' = FALSE
        /\ EndLiveWork(t, [watch EXCEPT ![o] = "monitoring"])
    BY <1>9 DEF SendFinishAndClose, ByPerson, Plain
  <2>3. PICK status \in Ended : status = "completed"
    BY DEF Ended
  <2>4. t = Marked(r, {a}, status)
    BY <2>3
  <2> HIDE DEF r, t
  <2>5. a \in Plain(r, Live(r))
    BY <2>1, <2>2 DEF Plain, Live
  <2>6. LET u == Marked(r, {a}, status) IN
        /\ GoodRows(u)
        /\ a \in Actions
        /\ Current(u) = Current(r) \ {a}
        /\ Planned(u) = Planned(r) \ {a}
        /\ StepRows(u) = StepRows(r) \ {a}
        /\ \A p \in Opinions : Checks(u, p) = Checks(r, p)
        /\ \A b \in Actions \ {a} : u[b] = r[b]
    BY <2>1, <2>5, EndsStep
  <2>7. Checks(t, o) # {} /\ \A p \in Opinions \ {o} : Checks(t, p) = Checks(act, p)
    BY <2>1, <2>4, <2>6
  <2> QED
    BY <1>4, <2>2, <2>7
<1> QED
  BY <1>5, <1>6, <1>8, <1>9

LEMMA OpinionSteps == WorkInv /\ [Next]_vars => OpinionStep
<1> SUFFICES ASSUME WorkInv, [Next]_vars PROVE OpinionStep
  OBVIOUS
<1>1. CASE UNCHANGED <<open, opinion, watch>>
  BY <1>1 DEF OpinionStep
<1>2. ASSUME NEW o \in Opinions,
             \/ \E n \in Unused : \/ SendOpinion(o, n) \/ SendOnNewMatter(o, n)
                                  \/ \E a \in Actions : SendFinishing(o, n, a)
      PROVE  OpinionStep
  <2>1. Sending(o)
    BY <1>2 DEF SendOpinion, SendOnNewMatter, SendFinishing, Sends, Sending
  <2> QED
    BY <2>1 DEF OpinionStep
<1>3. ASSUME NEW a \in Actions, EndCheck(a) PROVE OpinionStep
  <2> DEFINE o == act[a].of
  <2>1. o \in Opinions /\ a \in Checks(act, o)
    BY <1>3, LiveRows, StepInHand DEF EndCheck, Checks, Row
  <2>2. Answering(o)
    BY <1>3, <2>1, CheckOf DEF EndCheck, Answering
  <2> HIDE DEF o
  <2> QED
    BY <2>1, <2>2 DEF OpinionStep
<1>4. ASSUME NEW n \in Unused, NEW o \in Opinions, Restart(o, n) PROVE OpinionStep
  <2>1. Restarting(o)
    BY <1>4 DEF Restart, Restarting
  <2> QED
    BY <2>1 DEF OpinionStep
<1>5. ASSUME NEW o \in Opinions, Withdraw(o) PROVE OpinionStep
  <2>1. Withdrawing(o)
    BY <1>5, TypedParts DEF Withdraw, Withdrawing, WorkInv, Typed
  <2> QED
    BY <2>1 DEF OpinionStep
<1>6. CASE Reopen
  BY <1>6 DEF Reopen, Reopening, OpinionStep
<1>7. CASE \/ Close \/ CloseByRegister
           \/ \E a \in Actions : CompleteAndClose(a)
           \/ \E n \in Unused : \E o \in Opinions :
                SendAndClose(o, n) \/ \E a \in Actions : SendFinishAndClose(o, n, a)
  BY <1>7, ClosureSteps
<1>8. ASSUME NEW n \in Unused,
             \/ SetNextAction(n) \/ AddUnnamedStep(n) \/ StartStep(n)
             \/ \E a \in Actions :
                  \/ ChangeCurrent(a, n) \/ ChangePlanned(a, n) \/ CompleteAndSet(a, n)
                  \/ CheckAgain(a, n)
      PROVE  UNCHANGED <<open, opinion, watch>>
  BY <1>8 DEF SetNextAction, AddUnnamedStep, StartStep, ChangeCurrent, ChangePlanned,
              CompleteAndSet, CheckAgain, OnlyActs
<1>9. ASSUME NEW a \in Actions,
             \/ CancelPlanned(a) \/ FinishPlanned(a) \/ CompleteCurrent(a)
             \/ \E x \in Waits : FinishWait(x, a)
      PROVE  UNCHANGED <<open, opinion, watch>>
  BY <1>9 DEF CancelPlanned, FinishPlanned, CompleteCurrent, FinishWait, OnlyActs
<1>10. CASE \/ \E x \in Others : Begin(x) \/ Finish(x) \/ Remove(x)
            \/ \E x \in Waits : Reply(x) \/ ReplyRemoved(x)
            \/ SkipStep \/ DrawWarning
  BY <1>1, <1>10 DEF Begin, Finish, Remove, Reply, ReplyRemoved, SkipStep, DrawWarning, OnlyOthers
<1> QED
  <2>1. CASE UNCHANGED vars
    BY <1>1, <2>1 DEF vars
  <2>2. ASSUME NEW n \in Unused, NextStep(n) PROVE OpinionStep
    BY <1>1, <1>2, <1>4, <1>7, <1>8, <2>2 DEF NextStep
  <2> QED
    BY <1>1, <1>3, <1>5, <1>6, <1>7, <1>9, <1>10, <2>1, <2>2 DEF Next

LEMMA PromiseStep ==
    WorkInv /\ WorkInv' /\ [Next]_vars
        => [OpinionPromise!WatchNext]_(OpinionPromise!watchVars)
<1> SUFFICES ASSUME WorkInv, WorkInv', OpinionStep
             PROVE  [OpinionPromise!WatchNext]_(OpinionPromise!watchVars)
  BY OpinionSteps
<1>1. /\ Fates = [o \in Opinions |-> FateIs(opinion[o], watch[o])]
      /\ Fates' = [o \in Opinions |-> FateIs(opinion'[o], watch'[o])]
      /\ opinion \in [Opinions -> OpinionState] /\ watch \in [Opinions -> WatchState]
  BY FateNow, FateThen, TypedParts DEF WorkInv, Typed
<1>2. CASE UNCHANGED <<open, opinion, watch>>
  <2>1. UNCHANGED <<open, Fates>>
    BY <1>1, <1>2
  <2> QED
    BY <2>1 DEF OpinionPromise!watchVars, Fates
<1>3. CASE Reopening
  <2>1. ~open /\ open' = TRUE /\ Fates' = Fates
    BY <1>1, <1>3 DEF Reopening
  <2> QED
    BY <2>1 DEF OpinionPromise!WatchNext, OpinionPromise!Reopen, Fates
<1>4. ASSUME NEW o \in Opinions, Sending(o) PROVE OpinionPromise!WatchNext
  <2>1. open /\ Fates[o] = "draft" /\ Fates' = [Fates EXCEPT ![o] = "watched"] /\ UNCHANGED open
    BY <1>1, <1>4 DEF Sending, FateIs
  <2> QED
    BY <2>1 DEF OpinionPromise!WatchNext, OpinionPromise!Send, Fates
<1>5. ASSUME NEW o \in Opinions, Answering(o) PROVE OpinionPromise!WatchNext
  <2>1. PICK how \in {"answered", "ended"} : watch' = [watch EXCEPT ![o] = how]
    BY <1>5 DEF Answering
  <2>2. open /\ Fates[o] = "watched" /\ Fates' = [Fates EXCEPT ![o] = how] /\ UNCHANGED open
    BY <1>1, <1>5, <2>1 DEF Answering, FateIs
  <2> QED
    BY <2>2 DEF OpinionPromise!WatchNext, OpinionPromise!Answer, Fates
<1>6. ASSUME NEW o \in Opinions, Restarting(o) PROVE OpinionPromise!WatchNext
  <2>1. open /\ Fates[o] = "closed" /\ Fates' = [Fates EXCEPT ![o] = "watched"] /\ UNCHANGED open
    BY <1>1, <1>6 DEF Restarting, FateIs
  <2> QED
    BY <2>1 DEF OpinionPromise!WatchNext, OpinionPromise!Restart, Fates
<1>7. ASSUME NEW o \in Opinions, Withdrawing(o)
      PROVE  [OpinionPromise!WatchNext]_(OpinionPromise!watchVars)
  <2>1. Fates' = [Fates EXCEPT ![o] = "withdrawn"] /\ UNCHANGED open
    BY <1>1, <1>7 DEF Withdrawing, FateIs
  <2>2. CASE Fates[o] = "withdrawn"
    <3>1. UNCHANGED <<open, Fates>>
      BY <1>1, <2>1, <2>2
    <3> QED
      BY <3>1 DEF OpinionPromise!watchVars, Fates
  <2>3. CASE Fates[o] # "withdrawn"
    BY <2>1, <2>3 DEF OpinionPromise!WatchNext, OpinionPromise!Withdraw, Fates
  <2> QED
    BY <2>2, <2>3
<1>8. ASSUME NEW sent \in SUBSET Opinions, Closing(sent) PROVE OpinionPromise!WatchNext
  <2>1. sent \in SUBSET {o \in Opinions : Fates[o] = "draft"}
    BY <1>1, <1>8 DEF Closing, FateIs
  <2>2. ASSUME NEW o \in Opinions
        PROVE  Fates'[o] = IF Fates[o] = "watched" \/ o \in sent THEN "closed" ELSE Fates[o]
    BY <1>1, <1>8 DEF Closing, FateIs, OpinionState, WatchState
  <2>3. Fates' = [o \in Opinions |->
                    IF Fates[o] = "watched" \/ o \in sent THEN "closed" ELSE Fates[o]]
    BY <1>1, <2>2
  <2>4. open /\ open' = FALSE
    BY <1>8 DEF Closing
  <2> QED
    BY <2>1, <2>3, <2>4 DEF OpinionPromise!WatchNext, OpinionPromise!Close, Fates
<1> QED
  BY <1>2, <1>3, <1>4, <1>5, <1>6, <1>7, <1>8 DEF OpinionStep

\* Whatever is done to the steps, the checks and the Matter, each sent opinion's
\* watch goes as promised: looked for until answered, ended, withdrawn or closed
\* with the Matter, and taken up again only after the last (follow_ups.py).
THEOREM PromiseKept == Spec => OpinionsAreWatched
<1>1. Init => OpinionPromise!WatchInit
  <2>1. Init => open = TRUE /\ Fates = [o \in Opinions |-> "draft"]
    BY DEF Init, Fates, Fate
  <2> QED
    BY <2>1 DEF OpinionPromise!WatchInit, Fates
<1> QED
  BY <1>1, WorkHolds, PromiseStep, PTL DEF Spec, OpinionsAreWatched, OpinionPromise!WatchSpec
-----------------------------------------------------------------------------
(* Steps that are over                                                      *)

\* The rows r are over wherever the Matter's rows are, and as they were.
Remembers(r) ==
    /\ r \in [Actions -> Row]
    /\ \A a \in Actions : act[a].status \in Ended => r[a] = act[a]

LEMMA MarkingRemembers ==
    ASSUME NEW r, Remembers(r), NEW S \in SUBSET Live(r), NEW status \in Status
    PROVE  Remembers(Marked(r, S, status))
<1>1. S \in SUBSET Actions /\ \A a \in S : r[a].status \notin Ended
  BY LiveRows DEF Ended
<1>2. r \in [Actions -> Row]
  BY DEF Remembers
<1>3. /\ Marked(r, S, status) \in [Actions -> Row]
      /\ \A a \in Actions : a \notin S => Marked(r, S, status)[a] = r[a]
  BY <1>1, <1>2, MarkedRows
<1> QED
  BY <1>1, <1>3 DEF Remembers

LEMMA AddingRemembers ==
    ASSUME NEW r, Remembers(r), NEW n \in Unused, NEW status \in Status,
           NEW o \in Opinions \cup {None}, NEW step \in BOOLEAN
    PROVE  Remembers(Added(r, n, status, o, step))
<1>1. n \in Actions /\ act[n].status \notin Ended
  BY DEF Unused, With, Ended
<1>2. /\ Added(r, n, status, o, step) \in [Actions -> Row]
      /\ \A a \in Actions \ {n} : Added(r, n, status, o, step)[a] = r[a]
  BY <1>1 DEF Remembers, Added, Row, Status
<1> QED
  BY <1>1, <1>2 DEF Remembers

\* The marks a step can be given, one by one.
LEMMA EndingRemembers ==
    ASSUME NEW r, Remembers(r), NEW S \in SUBSET Live(r)
    PROVE  /\ Remembers(Marked(r, S, "completed"))
           /\ Remembers(Marked(r, S, "cancelled"))
           /\ Remembers(Marked(r, S, "superseded"))
           /\ Remembers(Marked(r, S, "planned"))
           /\ Remembers(Marked(r, S, "open"))
<1>1. \A status \in Status : Remembers(Marked(r, S, status))
  BY MarkingRemembers
<1> QED
  BY <1>1 DEF Status

LEMMA PlanningRemembers ==
    ASSUME NEW r, Remembers(r), NEW n \in Unused
    PROVE  /\ Remembers(Added(r, n, "planned", None, FALSE))
           /\ \A o \in Opinions : Remembers(Schedule(r, n, o))
           /\ \A step \in BOOLEAN : /\ Remembers(Added(r, n, "planned", None, step))
                                    /\ Remembers(Added(r, n, "open", None, step))
<1>1. \A status \in Status, o \in Opinions \cup {None}, step \in BOOLEAN :
        Remembers(Added(r, n, status, o, step))
  BY AddingRemembers
<1> QED
  BY <1>1 DEF Status, Schedule

LEMMA SettingRemembers ==
    ASSUME NEW r, Remembers(r), NEW n \in Unused, NEW step \in BOOLEAN
    PROVE  Remembers(SetCurrent(r, n, step))
<1> DEFINE ordinary == Plain(r, Current(r))
           kept == Marked(r, Current(r) \ ordinary, "planned")
           ended == Marked(kept, ordinary, "superseded")
<1>1. ordinary \in SUBSET Live(r) /\ Current(r) \ ordinary \in SUBSET Live(r)
  BY DEF Plain, Live
<1>2. Remembers(kept)
  BY <1>1, EndingRemembers
<1>3. ordinary \in SUBSET Live(kept)
  <2>1. \A a \in ordinary : a \in Actions /\ kept[a].status = r[a].status
    BY LiveRows DEF Marked, Plain
  <2> HIDE DEF kept, ordinary
  <2> QED
    BY <1>1, <2>1, LiveRows
<1>4. Remembers(ended)
  <2> HIDE DEF kept, ordinary
  <2> QED
    BY <1>2, <1>3, EndingRemembers
<1>5. Remembers(Added(ended, n, "open", None, step))
  <2> HIDE DEF ended
  <2> QED
    BY <1>4, PlanningRemembers
<1> QED
  BY <1>5 DEF SetCurrent

LEMMA PromotingRemembers ==
    ASSUME NEW r, Remembers(r), NEW a, NEW t \in Promoted(r) \cup PromotedAfter(a, r)
    PROVE  Remembers(t)
<1>1. t = r \/ \E b \in Planned(r) : t = Marked(r, {b}, "open")
  BY DEF Promoted, PromotedAfter
<1>2. ASSUME NEW b \in Planned(r), t = Marked(r, {b}, "open") PROVE Remembers(t)
  <2>1. {b} \in SUBSET Live(r)
    BY DEF Live
  <2> QED
    BY <1>2, <2>1, EndingRemembers
<1> QED
  BY <1>1, <1>2

\* A step added to rows leaves those that were live live.
LEMMA StaysLive ==
    ASSUME NEW r \in [Actions -> Row], NEW n \in Unused, NEW o, NEW a \in Live(act),
           r[a] = act[a]
    PROVE  a \in Live(Schedule(r, n, o))
<1>1. a # n /\ a \in Actions
  BY UnusedRows, LiveRows
<1>2. Schedule(r, n, o)[a] = r[a]
  BY <1>1 DEF Schedule, Added
<1> QED
  BY <1>1, <1>2, LiveRows

LEMMA ClosingRemembers ==
    ASSUME NEW rows, Remembers(rows), NEW watched, EndLiveWork(rows, watched)
    PROVE  Remembers(act')
<1>1. Live(rows) \in SUBSET Live(rows)
  OBVIOUS
<1> QED
  BY <1>1, EndingRemembers DEF EndLiveWork

LEMMA StepRemembers ==
    ASSUME WorkInv, [Next]_vars
    PROVE  Remembers(act')
<1>1. Remembers(act)
  BY StepInHand DEF Remembers
<1>2. \A a \in Live(act) : {a} \in SUBSET Live(act)
  OBVIOUS
<1>3. \A a \in Live(act) : Remembers(Marked(act, {a}, "completed"))
  BY <1>1, <1>2, EndingRemembers
<1>4. CASE UNCHANGED act
  BY <1>1, <1>4 DEF Remembers
<1>5. ASSUME NEW n \in Unused,
             \/ SetNextAction(n) \/ AddUnnamedStep(n) \/ StartStep(n)
             \/ \E a \in Actions : ChangeCurrent(a, n)
      PROVE  Remembers(act')
  <2>1. \A a \in Actions : act[a].step \in BOOLEAN
    BY StepInHand DEF Row
  <2>2. (\E step \in BOOLEAN : act' = SetCurrent(act, n, step))
           \/ act' = Added(act, n, "planned", None, FALSE)
    BY <1>5, <2>1 DEF SetNextAction, AddUnnamedStep, StartStep, ChangeCurrent
  <2> QED
    BY <1>1, <2>2, SettingRemembers, PlanningRemembers
<1>6. ASSUME NEW n \in Unused, NEW a \in Actions, ChangePlanned(a, n) PROVE Remembers(act')
  <2>1. {a} \in SUBSET Live(act) /\ act[a].step \in BOOLEAN
    BY <1>6, StepInHand DEF ChangePlanned, Plain, Live, Row
  <2>2. Remembers(Marked(act, {a}, "superseded"))
    BY <1>1, <2>1, EndingRemembers
  <2> QED
    BY <1>6, <2>1, <2>2, PlanningRemembers DEF ChangePlanned
<1>7. ASSUME NEW n \in Unused, NEW a \in Actions, CompleteAndSet(a, n) PROVE Remembers(act')
  <2>1. Remembers(Marked(act, {a}, "completed"))
    BY <1>3, <1>7 DEF CompleteAndSet, Plain, Live
  <2> QED
    BY <1>7, <2>1, SettingRemembers DEF CompleteAndSet
<1>8. ASSUME NEW a \in Actions,
             \/ CancelPlanned(a) \/ FinishPlanned(a) \/ CompleteCurrent(a) \/ EndCheck(a)
             \/ \E x \in Waits : FinishWait(x, a)
      PROVE  Remembers(act')
  <2>1. a \in Live(act) /\ {a} \in SUBSET Live(act)
    BY <1>8 DEF CancelPlanned, FinishPlanned, CompleteCurrent, EndCheck, FinishWait, Plain, Live
  <2>2. /\ Remembers(Marked(act, {a}, "completed"))
        /\ Remembers(Marked(act, {a}, "cancelled"))
    BY <1>1, <2>1, EndingRemembers
  <2>3. \/ act' = Marked(act, {a}, "completed") \/ act' = Marked(act, {a}, "cancelled")
        \/ act' \in Promoted(Marked(act, {a}, "completed"))
        \/ act' \in PromotedAfter(a, Marked(act, {a}, "completed"))
    BY <1>8 DEF CancelPlanned, FinishPlanned, CompleteCurrent, EndCheck, FinishWait
  <2> QED
    BY <2>2, <2>3, PromotingRemembers
<1>9. ASSUME NEW n \in Unused, NEW o \in Opinions, SendOpinion(o, n) \/ SendOnNewMatter(o, n)
                                                   \/ Restart(o, n)
      PROVE  Remembers(act')
  <2>1. Remembers(Schedule(act, n, o))
    BY <1>1, PlanningRemembers
  <2> QED
    BY <1>9, <2>1, PromotingRemembers DEF SendOpinion, SendOnNewMatter, Restart
<1>10. ASSUME NEW n \in Unused, NEW o \in Opinions, NEW a \in Current(act)
       PROVE  Remembers(Marked(Schedule(act, n, o), {a}, "completed"))
  <2>1. Remembers(Schedule(act, n, o))
    BY <1>1, PlanningRemembers
  <2>2. a \in Live(Schedule(act, n, o))
    BY StaysLive, StepInHand DEF Live
  <2>3. {a} \in SUBSET Live(Schedule(act, n, o))
    BY <2>2
  <2> QED
    BY <2>1, <2>3, EndingRemembers
<1>11. ASSUME NEW n \in Unused, NEW o \in Opinions, NEW a \in Actions,
              SendFinishing(o, n, a) \/ SendFinishAndClose(o, n, a)
       PROVE  Remembers(act')
  <2>1. Remembers(Marked(Schedule(act, n, o), {a}, "completed"))
    BY <1>10, <1>11 DEF SendFinishing, SendFinishAndClose, Plain
  <2> QED
    BY <1>11, <2>1, PromotingRemembers, ClosingRemembers DEF SendFinishing, SendFinishAndClose
<1>12. ASSUME NEW n \in Unused, NEW a \in Actions, CheckAgain(a, n) PROVE Remembers(act')
  <2>1. Remembers(Marked(act, {a}, "completed"))
    BY <1>3, <1>12 DEF CheckAgain
  <2>2. act[a].of \in Opinions
    BY <1>12, StepInHand DEF CheckAgain, Row
  <2>3. Remembers(Schedule(Marked(act, {a}, "completed"), n, act[a].of))
    BY <2>1, <2>2, PlanningRemembers
  <2> QED
    BY <1>12, <2>3, PromotingRemembers DEF CheckAgain
<1>13. ASSUME NEW o \in Opinions, Withdraw(o) PROVE Remembers(act')
  <2>1. Remembers(Marked(act, Checks(act, o), "cancelled"))
    BY <1>1, EndingRemembers DEF Checks
  <2> QED
    BY <1>1, <1>13, <2>1, PromotingRemembers DEF Withdraw
<1>14. CASE Close \/ CloseByRegister
  BY <1>1, <1>14, ClosingRemembers DEF Close, CloseByRegister
<1>15. ASSUME NEW a \in Actions, CompleteAndClose(a) PROVE Remembers(act')
  <2>1. Remembers(Marked(act, {a}, "completed"))
    BY <1>3, <1>15 DEF CompleteAndClose, Plain, Live
  <2> QED
    BY <1>15, <2>1, ClosingRemembers DEF CompleteAndClose
<1>16. ASSUME NEW n \in Unused, NEW o \in Opinions, SendAndClose(o, n) PROVE Remembers(act')
  <2>1. Remembers(Schedule(act, n, o))
    BY <1>1, PlanningRemembers
  <2> QED
    BY <1>16, <2>1, ClosingRemembers DEF SendAndClose
<1>17. CASE \/ \E x \in Others : Begin(x) \/ Finish(x) \/ Remove(x)
            \/ \E x \in Waits : Reply(x) \/ ReplyRemoved(x)
            \/ SkipStep \/ DrawWarning \/ Reopen \/ UNCHANGED vars
  BY <1>4, <1>17
     DEF Begin, Finish, Remove, Reply, ReplyRemoved, SkipStep, DrawWarning, Reopen, OnlyOthers, vars
<1> QED
  <2>1. ASSUME NEW n \in Unused, NextStep(n) PROVE Remembers(act')
    BY <1>5, <1>6, <1>7, <1>9, <1>11, <1>12, <1>16, <2>1 DEF NextStep
  <2> QED
    BY <1>8, <1>13, <1>14, <1>15, <1>17, <2>1 DEF Next

\* A step that was completed, cancelled or superseded is never written again, by
\* any save of any page (workflow/services.py).
THEOREM HistoryStays == Spec => EndedStays
<1>1. WorkInv /\ [Next]_vars => \A a \in Actions : act[a].status \in Ended => act'[a] = act[a]
  BY StepRemembers DEF Remembers
<1> QED
  BY <1>1, WorkHolds, PTL DEF Spec, EndedStays
-----------------------------------------------------------------------------
(* What a closure tells                                                     *)

Announced ==
    \A a \in Actions :
        act[a] # act'[a] /\ act'[a].status = "cancelled" =>
            IF act[a].status = "unused" THEN ToCome \in warned ELSE a \in warned

\* A closure of rows ends nothing but confirmed work, given what rows finish
\* (fin) and plan (coming) beside it.
LEMMA ConfirmedEnd ==
    ASSUME NEW rows \in [Actions -> Row], NEW watched, EndLiveWork(rows, watched),
           NEW fin, NEW coming, Confirmed(WorkAtClosure(fin, coming)),
           \A a \in Actions \ Live(rows) : rows[a] = act[a] \/ rows[a].status # "cancelled",
           \A a \in Live(rows) :
             a \in Live(act) \ fin \/ (act[a].status = "unused" /\ ToCome \in coming)
    PROVE  Announced
<1> SUFFICES ASSUME NEW a \in Actions, act[a] # act'[a], act'[a].status = "cancelled"
             PROVE  IF act[a].status = "unused" THEN ToCome \in warned ELSE a \in warned
  BY DEF Announced
<1>1. a \notin Live(rows) => act'[a] = rows[a]
  BY DEF EndLiveWork, Marked
<1>2. a \in Live(rows)
  BY <1>1
<1>3. a \in Live(act) => act[a].status # "unused"
  BY LiveRows
<1>4. CASE a \in Live(act) \ fin
  <2>1. a \in WorkAtClosure(fin, coming)
    BY <1>4 DEF WorkAtClosure
  <2> QED
    BY <1>3, <1>4, <2>1 DEF Confirmed
<1>5. CASE act[a].status = "unused" /\ ToCome \in coming
  <2>1. ToCome \in WorkAtClosure(fin, coming)
    BY <1>5 DEF WorkAtClosure
  <2> QED
    BY <1>5, <2>1 DEF Confirmed
<1> QED
  BY <1>2, <1>4, <1>5

LEMMA ClosureIsKnown ==
    ASSUME WorkInv, [Next]_vars, closer' = "person", closer = "nobody"
    PROVE  Announced
<1>1. act \in [Actions -> Row] /\ GoodRows(act)
  BY DEF WorkInv, GoodRows
<1>2. CASE Close
  <2>1. EndLiveWork(act, watch) /\ Confirmed(WorkAtClosure({}, {}))
    BY <1>2 DEF Close
  <2> QED
    BY <1>1, <2>1, ConfirmedEnd
<1>3. ASSUME NEW b \in Actions, CompleteAndClose(b) PROVE Announced
  <2> DEFINE r == Marked(act, {b}, "completed")
  <2>1. /\ b \in Plain(act, Live(act))
        /\ EndLiveWork(r, watch) /\ Confirmed(WorkAtClosure({b}, {}))
    BY <1>3, PlainRows DEF CompleteAndClose
  <2>2. /\ r \in [Actions -> Row] /\ Live(r) = Live(act) \ {b}
        /\ \A a \in Actions \ {b} : r[a] = act[a]
    BY <2>1, EndsOwnStep DEF GoodRows
  <2>3. r[b].status = "completed"
    BY <1>1 DEF Marked, Row
  <2> HIDE DEF r
  <2>4. \A a \in Actions \ Live(r) : r[a] = act[a] \/ r[a].status # "cancelled"
    BY <2>2, <2>3
  <2> QED
    BY <2>1, <2>2, <2>4, ConfirmedEnd
<1>4. ASSUME NEW n \in Unused, NEW o \in Opinions
      PROVE  LET r == Schedule(act, n, o)
             IN  /\ r \in [Actions -> Row] /\ Live(r) = Live(act) \cup {n}
                 /\ n \notin Live(act) /\ act[n].status = "unused"
                 /\ \A a \in Actions \ {n} : r[a] = act[a]
  <2> DEFINE r == Schedule(act, n, o)
  <2>1. n \in Actions \ Live(act) /\ act[n].status = "unused"
    BY UnusedRows DEF Unused, With
  <2>2. /\ GoodRows(r)
        /\ Current(r) = Current(act)
        /\ Live(r) = Live(act) \cup {n}
        /\ StepRows(r) = StepRows(act)
        /\ Checks(r, o) = Checks(act, o) \cup {n}
        /\ \A p \in Opinions \ {o} : Checks(r, p) = Checks(act, p)
        /\ \A a \in Actions \ {n} : r[a] = act[a]
    BY <1>1, <2>1, PlansCheck
  <2> QED
    BY <2>1, <2>2 DEF GoodRows
<1>5. ASSUME NEW n \in Unused, NEW o \in Opinions, SendAndClose(o, n) PROVE Announced
  <2> DEFINE r == Schedule(act, n, o)
             watched == [watch EXCEPT ![o] = "monitoring"]
  <2>1. EndLiveWork(r, watched) /\ Confirmed(WorkAtClosure({}, {ToCome}))
    BY <1>5 DEF SendAndClose
  <2>2. /\ r \in [Actions -> Row] /\ Live(r) = Live(act) \cup {n}
        /\ act[n].status = "unused" /\ \A a \in Actions \ {n} : r[a] = act[a]
    BY <1>4
  <2> HIDE DEF r, watched
  <2> QED
    BY <2>1, <2>2, ConfirmedEnd
<1>6. ASSUME NEW n \in Unused, NEW o \in Opinions, NEW b \in Actions,
             SendFinishAndClose(o, n, b)
      PROVE  Announced
  <2> DEFINE r == Schedule(act, n, o)
             t == Marked(r, {b}, "completed")
             watched == [watch EXCEPT ![o] = "monitoring"]
  <2>1. EndLiveWork(t, watched) /\ Confirmed(WorkAtClosure({b}, {ToCome})) /\ b \in Live(act)
    BY <1>6 DEF SendFinishAndClose, Plain, Live
  <2>2. /\ r \in [Actions -> Row] /\ Live(r) = Live(act) \cup {n}
        /\ n \notin Live(act) /\ act[n].status = "unused"
        /\ \A a \in Actions \ {n} : r[a] = act[a]
    BY <1>4
  <2> HIDE DEF r
  <2>3. /\ t \in [Actions -> Row] /\ t[b].status = "completed"
        /\ \A a \in Actions \ {b} : t[a] = r[a]
    BY <2>2 DEF Marked, Row
  <2> HIDE DEF t, watched
  <2>4. Live(t) = Live(r) \ {b}
    BY <2>3, LiveRows
  <2>5. \A a \in Actions \ Live(t) : t[a] = act[a] \/ t[a].status # "cancelled"
    BY <2>2, <2>3, <2>4
  <2>6. \A a \in Live(t) : a \in Live(act) \ {b}
                           \/ (act[a].status = "unused" /\ ToCome \in {ToCome})
    BY <2>2, <2>4
  <2> QED
    BY <2>1, <2>3, <2>5, <2>6, ConfirmedEnd
<1>7. ASSUME NEW n \in Unused, NextStep(n) PROVE Announced
  <2>1. CASE \/ SetNextAction(n) \/ AddUnnamedStep(n) \/ StartStep(n)
             \/ \E a \in Actions :
                  \/ ChangeCurrent(a, n) \/ ChangePlanned(a, n) \/ CompleteAndSet(a, n)
                  \/ CheckAgain(a, n)
    BY <2>1 DEF SetNextAction, AddUnnamedStep, StartStep, ChangeCurrent, ChangePlanned,
                CompleteAndSet, CheckAgain, OnlyActs
  <2>2. CASE \E o \in Opinions : \/ SendOpinion(o, n) \/ SendOnNewMatter(o, n) \/ Restart(o, n)
                                 \/ \E a \in Actions : SendFinishing(o, n, a)
    BY <2>2 DEF SendOpinion, SendOnNewMatter, Restart, SendFinishing
  <2> QED
    BY <1>5, <1>6, <1>7, <2>1, <2>2 DEF NextStep
<1>8. CASE \E a \in Actions :
             \/ CancelPlanned(a) \/ FinishPlanned(a) \/ CompleteCurrent(a) \/ EndCheck(a)
             \/ \E x \in Waits : FinishWait(x, a)
  BY <1>8 DEF CancelPlanned, FinishPlanned, CompleteCurrent, EndCheck, FinishWait, OnlyActs
<1>9. CASE \/ \E o \in Opinions : Withdraw(o)
           \/ \E x \in Others : Begin(x) \/ Finish(x) \/ Remove(x)
           \/ \E x \in Waits : Reply(x) \/ ReplyRemoved(x)
           \/ SkipStep \/ DrawWarning \/ CloseByRegister \/ Reopen \/ UNCHANGED vars
  BY <1>9 DEF Withdraw, Begin, Finish, Remove, Reply, ReplyRemoved, SkipStep, DrawWarning,
              CloseByRegister, Reopen, OnlyOthers, vars
<1> QED
  BY <1>2, <1>3, <1>7, <1>8, <1>9 DEF Next

\* A person's closure cancels no step that the confirmed warning did not name,
\* and the check on the opinion it sends only if that was announced
\* (refuse_unconfirmed_closure compares the digests under the Matter's lock).
THEOREM ClosureTold == Spec => KnownClosure
<1>1. WorkInv /\ [Next]_vars => (closer' = "person" /\ closer = "nobody" => Announced)
  BY ClosureIsKnown
<1>2. WorkInv /\ [Next]_vars =>
        (closer' = "person" /\ closer = "nobody" =>
           \A a \in Actions :
              act[a] # act'[a] /\ act'[a].status = "cancelled" =>
                 IF act[a].status = "unused" THEN ToCome \in warned ELSE a \in warned)
  BY <1>1 DEF Announced
<1> QED
  BY <1>2, WorkHolds, PTL DEF Spec, KnownClosure

-----------------------------------------------------------------------------
(* What follows a current step                                              *)

Followed(r) == Current(r) # {} \/ Planned(r) = {}

LEMMA PromotionFollows ==
    ASSUME NEW rows \in [Actions -> Row], NEW r \in Promoted(rows)
    PROVE  Followed(r)
<1>1. CASE r = rows /\ (Current(rows) # {} \/ Planned(rows) = {})
  BY <1>1 DEF Followed
<1>2. ASSUME NEW b \in Planned(rows), r = Marked(rows, {b}, "open") PROVE Followed(r)
  <2>1. b \in Actions /\ r[b].status = "open"
    BY <1>2, LiveRows DEF Marked, Row
  <2> QED
    BY <2>1, LiveRows DEF Followed
<1> QED
  BY <1>1, <1>2 DEF Promoted

LEMMA StepFollows ==
    ASSUME WorkInv, [Next]_vars, open, open', NEW c \in Current(act), act'[c].status \in Ended
    PROVE  Followed(act')
<1>1. /\ act \in [Actions -> Row] /\ GoodRows(act)
      /\ c \in Actions /\ c \in Live(act) /\ c \notin Planned(act) /\ c \notin Unused
      /\ act'[c] # act[c]
  <2>1. act[c].status = "open" /\ c \in Actions
    BY LiveRows
  <2> QED
    BY <2>1, LiveRows DEF WorkInv, GoodRows, Unused, With, Ended
<1>2. ASSUME NEW rows \in [Actions -> Row], act' \in Promoted(rows) PROVE Followed(act')
  BY <1>2, PromotionFollows
<1>3. ASSUME NEW S \in SUBSET Actions
      PROVE  Marked(act, S, "completed") \in [Actions -> Row]
             /\ Marked(act, S, "cancelled") \in [Actions -> Row]
             /\ Marked(act, S, "superseded") \in [Actions -> Row]
  BY <1>1 DEF Marked, Row
<1>4. ASSUME NEW r \in [Actions -> Row], NEW n \in Unused, NEW o \in Opinions
      PROVE  Schedule(r, n, o) \in [Actions -> Row]
  BY UnusedRows DEF Schedule, Added, Row
<1>5. ASSUME NEW n \in Unused,
             \/ SetNextAction(n) \/ AddUnnamedStep(n) \/ StartStep(n)
             \/ \E a \in Actions :
                  ChangeCurrent(a, n) \/ ChangePlanned(a, n) \/ CompleteAndSet(a, n)
      PROVE  Followed(act')
  <2>1. CASE \E r, step : act' = SetCurrent(r, n, step)
    <3>1. PICK r, step : act' = SetCurrent(r, n, step)
      BY <2>1
    <3>2. n \in Actions /\ act'[n].status = "open"
      BY <3>1, UnusedRows DEF SetCurrent, Added, Marked
    <3> QED
      BY <3>2, LiveRows DEF Followed
  <2>2. CASE act' = Added(act, n, "planned", None, FALSE)
    BY <1>1, <2>2 DEF Added
  <2>3. ASSUME NEW a \in Actions, ChangePlanned(a, n) PROVE FALSE
    <3>1. a # c /\ n # c
      BY <1>1, <2>3 DEF ChangePlanned, Plain
    <3> QED
      BY <1>1, <2>3, <3>1 DEF ChangePlanned, Added, Marked
  <2> QED
    BY <1>5, <2>1, <2>2, <2>3
       DEF SetNextAction, AddUnnamedStep, StartStep, ChangeCurrent, CompleteAndSet
<1>6. ASSUME NEW a \in Actions, CancelPlanned(a) \/ FinishPlanned(a) PROVE FALSE
  <2>1. a # c
    BY <1>1, <1>6 DEF CancelPlanned, FinishPlanned, Plain
  <2> QED
    BY <1>1, <1>6, <2>1 DEF CancelPlanned, FinishPlanned, Marked
<1>7. ASSUME NEW a \in Actions, CompleteCurrent(a) \/ \E x \in Waits : FinishWait(x, a)
      PROVE  Followed(act')
  <2>1. {a} \in SUBSET Actions /\ act' \in Promoted(Marked(act, {a}, "completed"))
    BY <1>7 DEF CompleteCurrent, FinishWait
  <2> QED
    BY <1>2, <1>3, <2>1
<1>8. ASSUME NEW n \in Unused, NEW o \in Opinions, SendOpinion(o, n) \/ Restart(o, n)
      PROVE  FALSE
  <2>1. act' = Schedule(act, n, o) /\ n # c
    BY <1>1, <1>8 DEF SendOpinion, Restart
  <2> QED
    BY <1>1, <2>1 DEF Schedule, Added
<1>9. ASSUME NEW n \in Unused, NEW o \in Opinions, SendOnNewMatter(o, n) PROVE Followed(act')
  BY <1>1, <1>2, <1>4, <1>9 DEF SendOnNewMatter
<1>10. ASSUME NEW n \in Unused, NEW o \in Opinions, NEW a \in Actions, SendFinishing(o, n, a)
       PROVE  Followed(act')
  <2>1. Schedule(act, n, o) \in [Actions -> Row]
    BY <1>1, <1>4
  <2>2. Marked(Schedule(act, n, o), {a}, "completed") \in [Actions -> Row]
    BY <2>1 DEF Marked, Row
  <2> QED
    BY <1>2, <1>10, <2>2 DEF SendFinishing
<1>11. ASSUME NEW a \in Actions, EndCheck(a) PROVE Followed(act')
  <2>1. {a} \in SUBSET Actions /\ act' \in PromotedAfter(a, Marked(act, {a}, "completed"))
    BY <1>11 DEF EndCheck
  <2>2. CASE a \in Current(act)
    BY <1>2, <1>3, <2>1, <2>2 DEF PromotedAfter
  <2>3. CASE a \notin Current(act)
    BY <1>1, <2>1, <2>3 DEF PromotedAfter, Marked
  <2> QED
    BY <2>2, <2>3
<1>12. ASSUME NEW n \in Unused, NEW a \in Actions, CheckAgain(a, n) PROVE Followed(act')
  <2> DEFINE r == Schedule(Marked(act, {a}, "completed"), n, act[a].of)
  <2>1. act' \in PromotedAfter(a, r) /\ act[a].of \in Opinions /\ {a} \in SUBSET Actions
    BY <1>1, <1>12 DEF CheckAgain, Row
  <2>2. CASE a \in Current(act)
    <3>1. r \in [Actions -> Row]
      BY <1>3, <1>4, <2>1
    <3> QED
      BY <1>2, <2>1, <2>2, <3>1 DEF PromotedAfter
  <2>3. CASE a \notin Current(act)
    <3>1. a # c /\ n # c
      BY <1>1, <2>3
    <3> QED
      BY <1>1, <2>1, <2>3, <3>1 DEF PromotedAfter, Schedule, Added, Marked
  <2> QED
    BY <2>2, <2>3
<1>13. ASSUME NEW o \in Opinions, Withdraw(o) PROVE Followed(act')
  <2> DEFINE r == Marked(act, Checks(act, o), "cancelled")
  <2>1. watch[o] = "monitoring"
    BY <1>1, <1>13 DEF Withdraw
  <2>2. CASE Checks(act, o) \cap Current(act) # {}
    <3>1. r \in [Actions -> Row]
      BY <1>3, LiveRows DEF Checks
    <3> QED
      BY <1>2, <1>13, <2>1, <2>2, <3>1 DEF Withdraw
  <2>3. CASE Checks(act, o) \cap Current(act) = {}
    <3>1. act' = r /\ c \notin Checks(act, o)
      BY <1>13, <2>1, <2>3 DEF Withdraw
    <3> QED
      BY <1>1, <3>1 DEF Marked
  <2> QED
    BY <2>2, <2>3
<1>14. ~ByPerson /\ ~CloseByRegister /\ ~Reopen /\ ~UNCHANGED act
  BY <1>1 DEF ByPerson, CloseByRegister, Reopen
<1>15. ~ \/ \E x \in Others : Begin(x) \/ Finish(x) \/ Remove(x)
         \/ \E x \in Waits : Reply(x) \/ ReplyRemoved(x)
         \/ SkipStep \/ DrawWarning \/ UNCHANGED vars
  BY <1>14 DEF Begin, Finish, Remove, Reply, ReplyRemoved, SkipStep, DrawWarning, OnlyOthers, vars
<1>16. ASSUME NEW n \in Unused, NextStep(n) PROVE Followed(act')
  <2>1. \A o \in Opinions : ~SendAndClose(o, n) /\ \A a \in Actions : ~SendFinishAndClose(o, n, a)
    BY <1>14 DEF SendAndClose, SendFinishAndClose
  <2> QED
    BY <1>5, <1>8, <1>9, <1>10, <1>12, <1>16, <2>1 DEF NextStep
<1>17. ~Close /\ \A a \in Actions : ~CompleteAndClose(a)
  BY <1>14 DEF Close, CompleteAndClose
<1> QED
  BY <1>6, <1>7, <1>11, <1>13, <1>14, <1>15, <1>16, <1>17 DEF Next

\* When the current step of an open Matter ends, the next planned one is current
\* in the same transaction (promote_next_planned_action after every ending).
THEOREM DeskKept == Spec => PlanKept
<1>1. WorkInv /\ [Next]_vars =>
        ((open /\ open' /\ \E a \in Current(act) : act'[a].status \in Ended)
           => (Current(act') # {} \/ Planned(act') = {}))
  BY StepFollows DEF Followed
<1> QED
  BY <1>1, WorkHolds, PTL DEF Spec, PlanKept
=============================================================================
