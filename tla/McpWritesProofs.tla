--------------------------- MODULE McpWritesProofs ---------------------------
(***************************************************************************)
(* Proofs about the approval protocol, for any number of proposals, people *)
(* and connections, gateway threads and tabs.                              *)
(***************************************************************************)
EXTENDS McpWrites, TLAPS

\* The records the actions build are of their types.
LEMMA IdleTyped == IdleThread \in Thread /\ IdleTab \in Tab
BY DEF IdleThread, Doing, Thread, IdleTab, Handling, Tab, Codes, Remembered

\* A thread's record is of its type, whatever it is doing.
LEMMA DoingTyped ==
    ASSUME NEW pc \in {"idle", "preview", "called", "ask", "lock", "execute"},
           NEW p \in Proposals \cup {None}, NEW f \in Families \cup {None},
           NEW s \in MatterStates \cup {None}, NEW b \in BOOLEAN
    PROVE  Doing(pc, p, f, s, b) \in Thread
BY DEF Doing, Thread

\* A tab's record is of its type, whatever it is handling.
LEMMA HandlingTyped ==
    ASSUME NEW pc \in {"idle", "decline", "withdraw", "check", "code", "approve"},
           NEW p \in Proposals \cup {None}, NEW u \in Users \cup {None},
           NEW c \in Codes \cup {Remembered}
    PROVE  Handling(pc, p, u, c) \in Tab
BY DEF Handling, Tab

\* Giving one thread a typed record keeps the type of thread.
LEMMA ThreadStepTyped ==
    ASSUME TypeOK, NEW g \in Threads, NEW th \in Thread,
           thread' = [thread EXCEPT ![g] = th]
    PROVE  thread' \in [Threads -> Thread]
BY DEF TypeOK

\* Giving one tab a typed record keeps the type of tab.
LEMMA TabStepTyped ==
    ASSUME TypeOK, NEW t \in Tabs, NEW tb \in Tab, tab' = [tab EXCEPT ![t] = tb]
    PROVE  tab' \in [Tabs -> Tab]
BY DEF TypeOK

\* Moving a proposal to a status keeps the type of the rows.
LEMMA MoveTyped ==
    ASSUME TypeOK, NEW p \in Proposals, NEW s \in Statuses, Move(p, s)
    PROVE  proposal' \in [Proposals -> Proposal]
<1>1. proposal[p] \in Proposal
  BY DEF TypeOK
<1>2. [proposal[p] EXCEPT !.status = s] \in Proposal
  BY <1>1 DEF Proposal
<1>3. proposal' = [proposal EXCEPT ![p] = [@ EXCEPT !.status = s]]
  BY DEF Move
<1> QED
  BY <1>2, <1>3 DEF TypeOK

\* A move of no proposal changes none.
LEMMA MoveNone ==
    ASSUME TypeOK, NEW s, Move(None, s)
    PROVE  proposal' = proposal
BY NoneAssumption DEF TypeOK, Move

\* Every variable keeps its type.
THEOREM TypeCorrect == Spec => []TypeOK
<1>1. Init => TypeOK
  <2> SUFFICES ASSUME Init PROVE TypeOK
    OBVIOUS
  <2>1. NoProposal \in Proposal
    BY DEF NoProposal, Proposal, Statuses
  <2>2. [active |-> TRUE, write |-> FALSE, era |-> 0] \in Grant
    BY BoundsAssumption DEF Grant
  <2>3. NoApproval \in Approval /\ NoChange \in Change
    BY DEF NoApproval, Approval, NoChange, Change
  <2> QED
    BY <2>1, <2>2, <2>3, IdleTyped, BoundsAssumption DEF Init, TypeOK
<1>2. TypeOK /\ [Next]_vars => TypeOK'
  <2> SUFFICES ASSUME TypeOK, [Next]_vars PROVE TypeOK'
    OBVIOUS
  <2> USE DEF rows, clocks, access, TabUnchanged, AccessUnchanged
  <2>1. ASSUME NEW g \in Threads, ThreadStep(g) PROVE TypeOK'
    <3> DEFINE p == thread[g].proposal
               f == thread[g].family
    <3>a. thread[g] \in Thread
      BY DEF TypeOK
    <3>b. /\ p \in Proposals \cup {None} /\ f \in Families \cup {None}
          /\ thread[g].shown \in MatterStates \cup {None} /\ thread[g].standing \in BOOLEAN
      BY <3>a DEF Thread
    <3>1. ASSUME NEW h \in Families, Preview(g, h) PROVE TypeOK'
      <4>1. Doing("preview", None, h, matter, FALSE) \in Thread
        BY DoingTyped DEF TypeOK
      <4> QED
        BY <3>1, <4>1, ThreadStepTyped DEF Preview, TypeOK
    <3>2. ASSUME NEW q \in Proposals, Prepare(g, q) PROVE TypeOK'
      <4>1. [status |-> "PENDING", family |-> f, shown |-> thread[g].shown,
             state |-> matter] \in Proposal
        BY <3>b DEF TypeOK, Proposal, Statuses
      <4> QED
        BY <3>2, <4>1, IdleTyped, ThreadStepTyped DEF Prepare, TypeOK
    <3>3. ASSUME NEW q \in Proposals, NEW h \in Families, Call(g, q, h) PROVE TypeOK'
      <4>1. Doing("called", q, h, None, FALSE) \in Thread
        BY DoingTyped
      <4> QED
        BY <3>3, <4>1, ThreadStepTyped DEF Call, TypeOK
    <3>4. ASSUME Begin(g) PROVE TypeOK'
      <4> DEFINE verdict == BeginChecks(p, f)
                 b == Writer(f) /\ p \notin edited \cup overdue
      <4>1. CASE verdict = "go on"
        <5>1. Doing("ask", p, f, None, b) \in Thread
          BY <3>b, DoingTyped
        <5>2. thread' = [thread EXCEPT ![g] = Doing("ask", p, f, None, b)] /\ proposal' = proposal
          BY <3>4, <4>1 DEF Begin
        <5> QED
          BY <3>4, <5>1, <5>2, ThreadStepTyped DEF Begin, TypeOK
      <4>2. CASE verdict = "answered"
        <5>1. thread' = [thread EXCEPT ![g] = IdleThread] /\ proposal' = proposal
          BY <3>4, <4>2 DEF Begin
        <5> QED
          BY <3>4, <5>1, IdleTyped, ThreadStepTyped DEF Begin, TypeOK
      <4>3. CASE verdict \notin {"go on", "answered"}
        <5>1. thread' = [thread EXCEPT ![g] = IdleThread] /\ Move(p, verdict)
          BY <3>4, <4>3 DEF Begin
        <5>2. verdict \in Statuses
          BY <4>3 DEF BeginChecks, Statuses, Final
        <5>3. p \in Proposals \/ proposal' = proposal
          BY <5>1, <3>b, NoneAssumption DEF Move, TypeOK
        <5>4. proposal' \in [Proposals -> Proposal]
          BY <5>1, <5>2, <5>3, MoveTyped DEF TypeOK
        <5> QED
          BY <3>4, <5>1, <5>4, IdleTyped, ThreadStepTyped DEF Begin, TypeOK
      <4> QED
        BY <4>1, <4>2, <4>3
    <3>5. ASSUME Ask(g) PROVE TypeOK'
      <4>1. Onward(thread[g], "lock") \in Thread
        BY <3>b, DoingTyped DEF Onward
      <4>2. PICK th \in Thread : thread' = [thread EXCEPT ![g] = th]
        BY <3>5, <4>1, IdleTyped DEF Ask
      <4> QED
        BY <3>5, <4>2, ThreadStepTyped DEF Ask, TypeOK
    <3>6. ASSUME LockTarget(g) PROVE TypeOK'
      <4>1. Onward(thread[g], "execute") \in Thread
        BY <3>b, DoingTyped DEF Onward
      <4>2. PICK th \in Thread : thread' = [thread EXCEPT ![g] = th]
        BY <3>6, <4>1, IdleTyped DEF LockTarget
      <4>3. proposal' = proposal \/ Move(p, "STALE")
        BY <3>6 DEF LockTarget
      <4>4. p \in Proposals \/ proposal' = proposal
        BY <4>3, <3>b, NoneAssumption DEF Move, TypeOK
      <4>5. proposal' \in [Proposals -> Proposal]
        BY <4>3, <4>4, MoveTyped DEF TypeOK, Statuses, Final
      <4> QED
        BY <3>6, <4>2, <4>5, ThreadStepTyped DEF LockTarget, TypeOK
    <3>7. ASSUME Execute(g) \/ ExecuteRefused(g) PROVE TypeOK'
      <4>1. thread' = [thread EXCEPT ![g] = IdleThread] /\ \E s \in Final : Move(p, s)
        BY <3>7 DEF Execute, ExecuteRefused, Final
      <4>2. p \in Proposals \/ proposal' = proposal
        BY <4>1, <3>b, NoneAssumption DEF Move, TypeOK
      <4>3. proposal' \in [Proposals -> Proposal]
        BY <4>1, <4>2, MoveTyped DEF TypeOK, Statuses
      <4>4. thread' \in [Threads -> Thread]
        BY <4>1, IdleTyped, ThreadStepTyped
      <4>5. made' \in [Proposals -> Nat] /\ matter' \in MatterStates
        BY <3>7 DEF Execute, ExecuteRefused, TypeOK
      <4>6. change' \in [Proposals -> Change]
        BY <3>7, <3>b DEF Execute, ExecuteRefused, TypeOK, Change
      <4> QED
        BY <3>7, <4>3, <4>4, <4>5, <4>6 DEF Execute, ExecuteRefused, TypeOK
    <3>8. ASSUME Abort(g) PROVE TypeOK'
      BY <3>8, IdleTyped, ThreadStepTyped DEF Abort, TypeOK
    <3> QED
      BY <2>1, <3>1, <3>2, <3>3, <3>4, <3>5, <3>6, <3>7, <3>8 DEF ThreadStep
  <2>2. ASSUME NEW t \in Tabs, TabStep(t) PROVE TypeOK'
    <3> DEFINE p == tab[t].proposal
               u == tab[t].user
    <3>a. tab[t] \in Tab
      BY DEF TypeOK
    <3>b. /\ p \in Proposals \cup {None} /\ u \in Users \cup {None}
          /\ tab[t].step \in Codes \cup {Remembered}
      BY <3>a DEF Tab
    <3>c. \A s \in Statuses : Move(p, s) => proposal' \in [Proposals -> Proposal]
      <4> TAKE s \in Statuses
      <4>1. CASE p \in Proposals
        BY <4>1, MoveTyped
      <4>2. CASE p = None
        BY <4>2, MoveNone DEF TypeOK
      <4> QED
        BY <4>1, <4>2, <3>b
    <3>d. \A problem : Settle(p, problem) => proposal' \in [Proposals -> Proposal]
      <4> SUFFICES ASSUME NEW problem, Settle(p, problem)
                   PROVE  proposal' \in [Proposals -> Proposal]
        OBVIOUS
      <4>1. CASE problem \in DOMAIN Settled
        <5>1. Settled[problem] \in Statuses
          BY <4>1 DEF Settled, Statuses, Final
        <5> QED
          BY <4>1, <5>1, <3>c DEF Settle
      <4> QED
        BY <4>1 DEF Settle, TypeOK
    <3>1. ASSUME NEW v \in Users, NEW q \in Proposals,
                 NEW pc \in {"decline", "withdraw", "check"}, Post(t, v, q, pc)
          PROVE  TypeOK'
      <4>1. Handling(pc, q, v, Remembered) \in Tab
        BY HandlingTyped
      <4> QED
        BY <3>1, <4>1, TabStepTyped DEF Post, TypeOK
    <3>2. ASSUME NEW s \in Statuses, CloseFrom(t, s) PROVE TypeOK'
      <4>1. proposal' \in [Proposals -> Proposal]
        BY <3>2, <3>c DEF CloseFrom, TypeOK, Statuses, Final
      <4> QED
        BY <3>2, <4>1, IdleTyped, TabStepTyped DEF CloseFrom, TypeOK
    <3>3. ASSUME Check(t) PROVE TypeOK'
      <4>1. Handling("code", p, u, Remembered) \in Tab
        BY <3>b, HandlingTyped
      <4>2. PICK tb \in Tab : tab' = [tab EXCEPT ![t] = tb]
        BY <3>3, <4>1, IdleTyped DEF Check
      <4>3. proposal' \in [Proposals -> Proposal]
        BY <3>3, <3>d DEF Check
      <4> QED
        BY <3>3, <4>2, <4>3, TabStepTyped DEF Check, TypeOK
    <3>4. ASSUME UseRecent(t) PROVE TypeOK'
      <4>1. Handling("approve", p, u, Remembered) \in Tab
        BY <3>b, HandlingTyped
      <4> QED
        BY <3>4, <4>1, TabStepTyped DEF UseRecent, TypeOK
    <3>5. ASSUME RefuseCode(t) PROVE TypeOK'
      BY <3>5, IdleTyped, TabStepTyped DEF RefuseCode, TypeOK
    <3>6. ASSUME NEW c \in Codes, ConfirmCode(t, c) PROVE TypeOK'
      <4>1. Handling("approve", p, u, c) \in Tab
        BY <3>b, HandlingTyped
      <4>2. PICK tb \in Tab : tab' = [tab EXCEPT ![t] = tb]
        BY <3>6, <4>1, IdleTyped DEF ConfirmCode
      <4>3. lastStep' \in [Users -> 0..MaxCode]
        <5>1. c \in 0..MaxCode
          BY BoundsAssumption DEF Codes
        <5> QED
          BY <3>6, <5>1 DEF ConfirmCode, TypeOK
      <4> QED
        BY <3>6, <4>2, <4>3, TabStepTyped DEF ConfirmCode, TypeOK
    <3>7. ASSUME Approve(t) PROVE TypeOK'
      <4>1. proposal' \in [Proposals -> Proposal]
        BY <3>7, <3>c, <3>d DEF Approve, Statuses
      <4>2. tab' \in [Tabs -> Tab]
        BY <3>7, IdleTyped, TabStepTyped DEF Approve
      <4>3. recent' \in [Tabs -> Users \cup {None}]
        BY <3>7, <3>b DEF Approve, TypeOK
      <4>4. approval' \in [Proposals -> Approval]
        <5>1. [user |-> u, step |-> tab[t].step] \in Approval
          BY <3>b DEF Approval
        <5> QED
          BY <3>7, <5>1 DEF Approve, TypeOK
      <4> QED
        BY <3>7, <4>1, <4>2, <4>3, <4>4 DEF Approve, TypeOK
    <3>8. ASSUME Forget(t) PROVE TypeOK'
      BY <3>8 DEF Forget, TypeOK
    <3> QED
      BY <2>2, <3>1, <3>2, <3>3, <3>4, <3>5, <3>6, <3>7, <3>8
         DEF TabStep, Decline, Withdraw, Statuses
  <2>3. ASSUME Around PROVE TypeOK'
    <3>1. ASSUME EditMatter PROVE TypeOK'
      BY <3>1 DEF EditMatter, TypeOK
    <3>2. ASSUME NEW u \in Users, GrantWrite(u) \/ RevokeWrite(u) \/ RevokeGrant(u)
          PROVE  TypeOK'
      <4>1. grant[u] \in Grant
        BY DEF TypeOK
      <4>2. grant' \in [Users -> Grant]
        <5>1. CASE GrantWrite(u)
          <6>1. [active |-> TRUE, write |-> TRUE, era |-> grant[u].era + 1] \in Grant
            BY <4>1, <5>1, BoundsAssumption DEF GrantWrite, Grant
          <6> QED
            BY <5>1, <6>1 DEF GrantWrite, TypeOK
        <5>2. CASE RevokeWrite(u) \/ RevokeGrant(u)
          <6>1. /\ [grant[u] EXCEPT !.write = FALSE] \in Grant
                /\ [grant[u] EXCEPT !.active = FALSE] \in Grant
            BY <4>1 DEF Grant
          <6> QED
            BY <5>2, <6>1 DEF RevokeWrite, RevokeGrant, TypeOK
        <5> QED
          BY <3>2, <5>1, <5>2
      <4>3. family' \in [Families -> [live : BOOLEAN, era : 0..MaxEra]]
        <5>1. \A f \in Families :
                [family[f] EXCEPT !.live = FALSE] \in [live : BOOLEAN, era : 0..MaxEra]
          BY DEF TypeOK
        <5> QED
          BY <3>2, <5>1 DEF GrantWrite, RevokeWrite, RevokeGrant, TypeOK
      <4> QED
        BY <3>2, <4>2, <4>3 DEF GrantWrite, RevokeWrite, RevokeGrant, TypeOK
    <3>3. ASSUME NEW f \in Families, BeginFamily(f) \/ EndFamily(f) PROVE TypeOK'
      <4>1. grant[Person[f]].era \in 0..MaxEra
        BY PersonAssumption DEF TypeOK, Grant
      <4>2. /\ [family[f] EXCEPT !.live = FALSE] \in [live : BOOLEAN, era : 0..MaxEra]
            /\ [live |-> TRUE, era |-> grant[Person[f]].era] \in [live : BOOLEAN, era : 0..MaxEra]
        BY <4>1 DEF TypeOK
      <4>3. family' \in [Families -> [live : BOOLEAN, era : 0..MaxEra]]
        BY <3>3, <4>2 DEF BeginFamily, EndFamily, TypeOK
      <4> QED
        BY <3>3, <4>3 DEF BeginFamily, EndFamily, TypeOK
    <3>4. ASSUME NEW p \in Proposals, Lapse(p) \/ Overrun(p) \/ EditRow(p) PROVE TypeOK'
      BY <3>4 DEF Lapse, Overrun, EditRow, TypeOK
    <3>5. ASSUME NEW u \in Users, NEW p \in Proposals, ExpireAtPage(u, p) PROVE TypeOK'
      <4>1. proposal' \in [Proposals -> Proposal]
        BY <3>5, MoveTyped DEF ExpireAtPage, Statuses, Final
      <4> QED
        BY <3>5, <4>1 DEF ExpireAtPage, TypeOK
    <3> QED
      BY <2>3, <3>1, <3>2, <3>3, <3>4, <3>5 DEF Around
  <2>4. CASE UNCHANGED vars
    BY <2>4 DEF vars, TypeOK
  <2> QED
    BY <2>1, <2>2, <2>3, <2>4 DEF Next
<1> QED
  BY <1>1, <1>2, PTL DEF Spec
-----------------------------------------------------------------------------
(* The inductive invariant                                                 *)

\* A write decision has a number, and a family began under one not later than
\* the grant's.
Lineage ==
    /\ \A u \in Users : grant[u].write => grant[u].era > 0
    /\ \A f \in Families : /\ family[f].era <= grant[Person[f]].era
                           /\ family[f].live => family[f].era > 0

\* A stored proposal names its family and snapshot; an approval row is there
\* once the proposal is approved, never before, and is its own person's.
RowsOK ==
    \A p \in Proposals :
        /\ proposal[p].status # "NONE" =>
               proposal[p].family \in Families /\ proposal[p].state \in MatterStates
        /\ proposal[p].status \in {"NONE", "PENDING"} => approval[p] = NoApproval
        /\ proposal[p].status \in {"APPROVED", "EXECUTED"} =>
               approval[p].user = Person[proposal[p].family]

\* The page handles its own persona's proposals.
TabsOK ==
    \A t \in Tabs : tab[t].pc # "idle" =>
        /\ tab[t].proposal \in Proposals
        /\ proposal[tab[t].proposal].status # "NONE"
        /\ tab[t].user = Person[proposal[tab[t].proposal].family]

Holding == {"ask", "lock", "execute"}

\* What a commit may rely on while it holds the proposal's row.
ThreadOK(g) ==
    /\ thread[g].pc # "idle" =>
           thread[g].family \in Families /\ family[thread[g].family].era > 0
    /\ thread[g].pc \in Holding \cup {"called"} =>
           /\ thread[g].proposal \in Proposals
           /\ proposal[thread[g].proposal].status # "NONE"
    /\ thread[g].pc \in Holding =>
           /\ proposal[thread[g].proposal].status = "APPROVED"
           /\ proposal[thread[g].proposal].family = thread[g].family
    /\ thread[g].pc = "ask" /\ Writer(thread[g].family) => thread[g].standing
    /\ thread[g].pc \in {"lock", "execute"} => thread[g].standing
    /\ thread[g].pc = "execute" => matter = proposal[thread[g].proposal].state

ThreadsOK == \A g \in Threads : ThreadOK(g)

\* One commit holds a row, and one holds the Matter.
OneHolder ==
    \A g, h \in Threads : g # h =>
        /\ thread[g].pc \in Holding /\ thread[h].pc \in Holding
               => thread[g].proposal # thread[h].proposal
        /\ ~(thread[g].pc = "execute" /\ thread[h].pc = "execute")

Protocol ==
    Lineage /\ RowsOK /\ TabsOK /\ ThreadsOK /\ OneHolder /\ SavedOnce /\ SavedAsApproved

\* A typed code is spent, no approval holds it, and no other tab does.
CodesOK ==
    /\ \A p \in Proposals : approval[p].user \in Users =>
           approval[p].step <= lastStep[approval[p].user]
    /\ \A t \in Tabs : tab[t].pc = "approve" /\ tab[t].step # Remembered =>
           /\ tab[t].step <= lastStep[tab[t].user]
           /\ \A p \in Proposals : approval[p].user = tab[t].user =>
                  approval[p].step # tab[t].step
           /\ \A s \in Tabs : /\ s # t
                              /\ tab[s].pc = "approve"
                              /\ tab[s].user = tab[t].user
                              => tab[s].step # tab[t].step

-----------------------------------------------------------------------------
(* What one step may do to one proposal, and to the locks it is under      *)

SameBody(q) ==
    /\ proposal'[q].family = proposal[q].family
    /\ proposal'[q].state = proposal[q].state

SameRest(q) == approval'[q] = approval[q] /\ made'[q] = made[q] /\ change'[q] = change[q]

Untouched(q) == proposal'[q] = proposal[q] /\ SameRest(q)

Released(q) ==
    \A g \in Threads : thread[g].pc \in Holding /\ thread[g].proposal = q
                          => thread'[g] = IdleThread

Stored(q) ==
    /\ proposal[q].status = "NONE" /\ proposal'[q].status = "PENDING"
    /\ proposal'[q].family \in Families /\ proposal'[q].state = matter
    /\ SameRest(q) /\ matter' = matter

Closed(q) ==
    /\ proposal[q].status \in {"PENDING", "APPROVED"}
    /\ proposal'[q].status \in Final \ {"EXECUTED"}
    /\ SameBody(q) /\ SameRest(q) /\ Released(q) /\ matter' = matter

Agreed(q) ==
    /\ proposal[q].status = "PENDING" /\ proposal'[q].status = "APPROVED"
    /\ SameBody(q) /\ Released(q) /\ matter' = matter
    /\ approval'[q].user = Person[proposal[q].family]
    /\ made'[q] = made[q] /\ change'[q] = change[q]

Saved(q) ==
    /\ proposal[q].status = "APPROVED" /\ proposal'[q].status = "EXECUTED"
    /\ SameBody(q) /\ Released(q)
    /\ approval'[q] = approval[q]
    /\ made'[q] = made[q] + 1
    /\ matter = proposal[q].state
    /\ change'[q].over = proposal[q].state
    /\ change'[q].family = proposal[q].family
    /\ change'[q].standing

Verdict(q) == Stored(q) \/ Closed(q) \/ Agreed(q) \/ Saved(q)

Effect(q) == Untouched(q) \/ Verdict(q)

\* One step gives one proposal a verdict, or none.
OneVerdict ==
    \/ \A q \in Proposals : Untouched(q)
    \/ \E p \in Proposals : Verdict(p) /\ \A q \in Proposals : q # p => Untouched(q)

\* A move changes the status of its own row and nothing else of any row.
LEMMA MoveRow ==
    ASSUME TypeOK, NEW p \in Proposals, NEW s \in Statuses, Move(p, s)
    PROVE  /\ proposal'[p].status = s
           /\ SameBody(p)
           /\ \A q \in Proposals : q # p => proposal'[q] = proposal[q]
<1>1. proposal[p] \in Proposal
  BY DEF TypeOK
<1>2. proposal'[p] = [proposal[p] EXCEPT !.status = s]
  BY DEF TypeOK, Move
<1>3. \A q \in Proposals : q # p => proposal'[q] = proposal[q]
  BY DEF TypeOK, Move
<1> QED
  BY <1>1, <1>2, <1>3 DEF Proposal, SameBody

\* A move to a closing status under the row's lock closes that row only.
LEMMA MoveCloses ==
    ASSUME TypeOK, NEW p \in Proposals, NEW s \in Final \ {"EXECUTED"}, Move(p, s),
           proposal[p].status \in {"PENDING", "APPROVED"}, Released(p),
           UNCHANGED <<approval, made, change, matter>>
    PROVE  OneVerdict
<1>1. s \in Statuses
  BY DEF Statuses
<1>2. Closed(p)
  BY <1>1, MoveRow DEF Closed, SameRest
<1>3. \A q \in Proposals : q # p => Untouched(q)
  BY <1>1, MoveRow DEF Untouched, SameRest
<1> QED
  BY <1>2, <1>3 DEF OneVerdict, Verdict

\* Nobody is left holding a row whose lock was free.
LEMMA FreeReleased == ASSUME NEW p, RowFree(p) PROVE Released(p)
BY DEF RowFree, LockedBy, Released, Holding

\* The one commit that holds a row lets go of it when it ends.
LEMMA HolderReleases ==
    ASSUME TypeOK, OneHolder, NEW g \in Threads, thread[g].pc \in Holding,
           thread' = [thread EXCEPT ![g] = IdleThread]
    PROVE  Released(thread[g].proposal)
BY DEF TypeOK, OneHolder, Released

\* Whatever step is taken, at most one proposal gets a verdict: it is stored,
\* closed, agreed to or saved, under its row lock and with all that goes with it.
LEMMA Effects ==
    ASSUME TypeOK, Protocol, [Next]_vars
    PROVE  OneVerdict
<1> USE DEF rows, clocks, access, TabUnchanged, AccessUnchanged
<1>0. ASSUME UNCHANGED <<proposal, approval, made, change>>
      PROVE  OneVerdict
  BY <1>0 DEF OneVerdict, Untouched, SameRest
<1>1. ASSUME NEW g \in Threads, ThreadStep(g) PROVE OneVerdict
  <2> DEFINE p == thread[g].proposal
  <2>1. ASSUME NEW q \in Proposals, Prepare(g, q) PROVE OneVerdict
    <3>1. proposal'[q] = [status |-> "PENDING", family |-> thread[g].family,
                          shown |-> thread[g].shown, state |-> matter]
      BY <2>1 DEF Prepare, TypeOK
    <3>2. thread[g].family \in Families /\ matter \in MatterStates
      BY <2>1 DEF Prepare, TypeOK, Protocol, ThreadsOK, ThreadOK
    <3>3. Stored(q)
      BY <2>1, <3>1, <3>2 DEF Prepare, Stored, SameRest
    <3>4. \A r \in Proposals : r # q => Untouched(r)
      BY <2>1 DEF Prepare, Untouched, SameRest, TypeOK
    <3> QED
      BY <3>3, <3>4 DEF OneVerdict, Verdict
  <2>2. ASSUME Begin(g) PROVE OneVerdict
    <3> DEFINE verdict == BeginChecks(p, thread[g].family)
    <3>1. CASE verdict \in {"go on", "answered"}
      <4>1. UNCHANGED <<proposal, approval, made, change>>
        BY <2>2, <3>1 DEF Begin
      <4> QED
        BY <4>1, <1>0
    <3>2. CASE verdict \notin {"go on", "answered"}
      <4>1. Move(p, verdict) /\ RowFree(p) /\ UNCHANGED <<approval, made, change, matter>>
        BY <2>2, <3>2 DEF Begin
      <4>2. p \in Proposals
        BY <2>2 DEF Begin, Protocol, ThreadsOK, ThreadOK
      <4>3. verdict \in {"EXPIRED", "FAILED"} /\ proposal[p].status \in {"PENDING", "APPROVED"}
        BY <3>2 DEF BeginChecks
      <4> QED
        BY <4>1, <4>2, <4>3, MoveCloses, FreeReleased DEF Final
    <3> QED
      BY <3>1, <3>2
  <2>3. ASSUME LockTarget(g) PROVE OneVerdict
    <3>1. p \in Proposals /\ proposal[p].status = "APPROVED" /\ thread[g].pc \in Holding
      BY <2>3 DEF LockTarget, Protocol, ThreadsOK, ThreadOK, Holding
    <3>2. CASE matter = proposal[p].state
      BY <2>3, <3>2, <1>0 DEF LockTarget
    <3>3. CASE matter # proposal[p].state
      <4>1. /\ Move(p, "STALE") /\ thread' = [thread EXCEPT ![g] = IdleThread]
            /\ UNCHANGED <<approval, made, change, matter>>
        BY <2>3, <3>3 DEF LockTarget
      <4> QED
        BY <4>1, <3>1, MoveCloses, HolderReleases DEF Final, Protocol
    <3> QED
      BY <3>2, <3>3
  <2>4. ASSUME ExecuteRefused(g) PROVE OneVerdict
    <3>1. p \in Proposals /\ proposal[p].status = "APPROVED" /\ thread[g].pc \in Holding
      BY <2>4 DEF ExecuteRefused, Protocol, ThreadsOK, ThreadOK, Holding
    <3>2. /\ Move(p, "FAILED") /\ thread' = [thread EXCEPT ![g] = IdleThread]
          /\ UNCHANGED <<approval, made, change, matter>>
      BY <2>4 DEF ExecuteRefused
    <3> QED
      BY <3>1, <3>2, MoveCloses, HolderReleases DEF Final, Protocol
  <2>5. ASSUME Execute(g) PROVE OneVerdict
    <3>1. /\ p \in Proposals /\ proposal[p].status = "APPROVED" /\ thread[g].pc \in Holding
          /\ matter = proposal[p].state /\ thread[g].standing
          /\ thread[g].family = proposal[p].family
      BY <2>5 DEF Execute, Protocol, ThreadsOK, ThreadOK, Holding
    <3>2. Move(p, "EXECUTED") /\ thread' = [thread EXCEPT ![g] = IdleThread] /\ approval' = approval
      BY <2>5 DEF Execute
    <3>3. Released(p)
      BY <3>1, <3>2, HolderReleases DEF Protocol
    <3>4. /\ proposal'[p].status = "EXECUTED" /\ SameBody(p)
          /\ \A q \in Proposals : q # p => proposal'[q] = proposal[q]
      BY <3>1, <3>2, MoveRow DEF Statuses, Final
    <3>5. /\ made'[p] = made[p] + 1
          /\ change'[p] = [over |-> matter, family |-> thread[g].family,
                           standing |-> thread[g].standing]
          /\ \A q \in Proposals : q # p => made'[q] = made[q] /\ change'[q] = change[q]
      BY <2>5, <3>1 DEF Execute, TypeOK
    <3>6. Saved(p)
      BY <3>1, <3>2, <3>3, <3>4, <3>5 DEF Saved
    <3>7. \A q \in Proposals : q # p => Untouched(q)
      BY <3>2, <3>4, <3>5 DEF Untouched, SameRest
    <3> QED
      BY <3>6, <3>7 DEF OneVerdict, Verdict
  <2>6. ASSUME \/ \E f \in Families : Preview(g, f)
               \/ \E q \in Proposals, f \in Families : Call(g, q, f)
               \/ Ask(g) \/ Abort(g)
        PROVE OneVerdict
    BY <2>6, <1>0 DEF Preview, Call, Ask, Abort
  <2> QED
    BY <1>1, <2>1, <2>2, <2>3, <2>4, <2>5, <2>6 DEF ThreadStep
<1>2. ASSUME NEW t \in Tabs, TabStep(t) PROVE OneVerdict
  <2> DEFINE p == tab[t].proposal
             u == tab[t].user
  <2>a. tab[t].pc # "idle" => p \in Proposals /\ proposal[p].status # "NONE"
                              /\ u = Person[proposal[p].family]
    BY DEF Protocol, TabsOK
  <2>1. ASSUME NEW s \in {"PENDING", "APPROVED"}, tab[t].pc # "idle", CloseFrom(t, s)
        PROVE  OneVerdict
    <3>1. CASE proposal[p].status = s
      <4>1. Move(p, "DECLINED") /\ RowFree(p) /\ UNCHANGED <<approval, made, change, matter>>
        BY <2>1, <3>1 DEF CloseFrom
      <4> QED
        BY <2>1, <2>a, <3>1, <4>1, MoveCloses, FreeReleased DEF Final
    <3>2. CASE proposal[p].status # s
      BY <2>1, <3>2, <1>0 DEF CloseFrom
    <3> QED
      BY <3>1, <3>2
  <2>2. ASSUME NEW problem, problem = Problem(p, u), Settle(p, problem), RowFree(p),
               tab[t].pc # "idle", UNCHANGED <<approval, made, change, matter>>
        PROVE  OneVerdict
    <3>1. CASE problem \in {"expired", "digest", "stale"}
      <4>1. proposal[p].status = "PENDING"
        BY <2>2, <3>1 DEF Problem
      <4>2. Settled[problem] \in Final \ {"EXECUTED"} /\ Move(p, Settled[problem])
        BY <2>2, <3>1 DEF Settle, Settled, Final
      <4> QED
        BY <2>2, <2>a, <4>1, <4>2, MoveCloses, FreeReleased
    <3>2. CASE problem \notin {"expired", "digest", "stale"}
      BY <2>2, <3>2, <1>0 DEF Settle, Settled
    <3> QED
      BY <3>1, <3>2
  <2>3. ASSUME Check(t) PROVE OneVerdict
    BY <2>3, <2>2 DEF Check
  <2>4. ASSUME Approve(t) PROVE OneVerdict
    <3>1. CASE Problem(p, u) # ""
      BY <2>4, <3>1, <2>2 DEF Approve
    <3>2. CASE Problem(p, u) = ""
      <4>1. /\ Move(p, "APPROVED") /\ RowFree(p) /\ UNCHANGED <<made, change, matter>>
            /\ approval' = [approval EXCEPT ![p] = [user |-> u, step |-> tab[t].step]]
        BY <2>4, <3>2 DEF Approve
      <4>2. proposal[p].status = "PENDING"
        BY <3>2 DEF Problem
      <4>3. p \in Proposals /\ u = Person[proposal[p].family]
        BY <2>4, <2>a DEF Approve
      <4>4. /\ proposal'[p].status = "APPROVED" /\ SameBody(p)
            /\ \A q \in Proposals : q # p => proposal'[q] = proposal[q]
        BY <4>1, <4>3, MoveRow DEF Statuses
      <4>5. /\ approval'[p].user = u
            /\ \A q \in Proposals : q # p => approval'[q] = approval[q]
        BY <4>1, <4>3 DEF TypeOK
      <4>6. Agreed(p)
        BY <4>1, <4>2, <4>3, <4>4, <4>5, FreeReleased DEF Agreed
      <4>7. \A q \in Proposals : q # p => Untouched(q)
        BY <4>1, <4>4, <4>5 DEF Untouched, SameRest
      <4> QED
        BY <4>6, <4>7 DEF OneVerdict, Verdict
    <3> QED
      BY <3>1, <3>2
  <2>5. ASSUME \/ \E v \in Users, q \in Proposals, pc \in {"decline", "withdraw", "check"} :
                      Post(t, v, q, pc)
               \/ UseRecent(t) \/ RefuseCode(t) \/ Forget(t)
               \/ \E c \in Codes : ConfirmCode(t, c)
        PROVE OneVerdict
    BY <2>5, <1>0 DEF Post, UseRecent, RefuseCode, Forget, ConfirmCode
  <2> QED
    BY <1>2, <2>1, <2>3, <2>4, <2>5 DEF TabStep, Decline, Withdraw
<1>3. ASSUME Around PROVE OneVerdict
  <2>1. ASSUME NEW u \in Users, NEW p \in Proposals, ExpireAtPage(u, p)
        PROVE  OneVerdict
    <3>1. /\ Move(p, "EXPIRED") /\ RowFree(p) /\ proposal[p].status = "PENDING"
          /\ UNCHANGED <<approval, made, change, matter>>
      BY <2>1 DEF ExpireAtPage
    <3> QED
      BY <3>1, MoveCloses, FreeReleased DEF Final
  <2>2. CASE \/ EditMatter
             \/ \E u \in Users : GrantWrite(u) \/ RevokeWrite(u) \/ RevokeGrant(u)
             \/ \E f \in Families : BeginFamily(f) \/ EndFamily(f)
             \/ \E p \in Proposals : Lapse(p) \/ Overrun(p) \/ EditRow(p)
    BY <2>2, <1>0 DEF EditMatter, GrantWrite, RevokeWrite, RevokeGrant, BeginFamily,
       EndFamily, Lapse, Overrun, EditRow
  <2> QED
    BY <1>3, <2>1, <2>2 DEF Around
<1>4. CASE UNCHANGED vars
  BY <1>4, <1>0 DEF vars
<1> QED
  BY <1>1, <1>2, <1>3, <1>4 DEF Next

-----------------------------------------------------------------------------
(* What follows for the rows                                               *)

\* A stored proposal stays stored, with what was prepared.
LEMMA StoredStays ==
    ASSUME NEW q, Effect(q), proposal[q].status # "NONE"
    PROVE  proposal'[q].status # "NONE" /\ SameBody(q)
BY DEF Effect, Verdict, Untouched, Stored, Closed, Agreed, Saved, SameBody, Final

\* A change saved once, as approved, stays so, and no other step saves one.
LEMMA RowsStep ==
    ASSUME TypeOK, Protocol, NEW q \in Proposals, Effect(q)
    PROVE  /\ proposal'[q].status # "NONE" =>
                  proposal'[q].family \in Families /\ proposal'[q].state \in MatterStates
           /\ proposal'[q].status \in {"NONE", "PENDING"} => approval'[q] = NoApproval
           /\ proposal'[q].status \in {"APPROVED", "EXECUTED"} =>
                  approval'[q].user = Person[proposal'[q].family]
           /\ made'[q] = IF proposal'[q].status = "EXECUTED" THEN 1 ELSE 0
           /\ made'[q] > 0 =>
                  /\ change'[q].over = proposal'[q].state
                  /\ change'[q].family = proposal'[q].family
                  /\ approval'[q].user = Person[proposal'[q].family]
                  /\ change'[q].standing
<1>0. /\ made[q] = IF proposal[q].status = "EXECUTED" THEN 1 ELSE 0
      /\ proposal[q].status # "NONE" =>
             proposal[q].family \in Families /\ proposal[q].state \in MatterStates
      /\ proposal[q].status \in {"NONE", "PENDING"} => approval[q] = NoApproval
      /\ proposal[q].status \in {"APPROVED", "EXECUTED"} =>
             approval[q].user = Person[proposal[q].family]
      /\ made[q] > 0 =>
             /\ change[q].over = proposal[q].state
             /\ change[q].family = proposal[q].family
             /\ approval[q].user = Person[proposal[q].family]
             /\ change[q].standing
  BY DEF Protocol, RowsOK, SavedOnce, SavedAsApproved
<1>1. CASE Untouched(q)
  BY <1>0, <1>1 DEF Untouched, SameRest
<1>2. CASE Stored(q)
  BY <1>0, <1>2 DEF Stored, SameRest, TypeOK
<1>3. CASE Closed(q)
  BY <1>0, <1>3 DEF Closed, SameRest, SameBody, Final
<1>4. CASE Agreed(q)
  BY <1>0, <1>4 DEF Agreed, SameBody
<1>5. CASE Saved(q)
  BY <1>0, <1>5 DEF Saved, SameBody
<1> QED
  BY <1>1, <1>2, <1>3, <1>4, <1>5 DEF Effect, Verdict

-----------------------------------------------------------------------------
(* The write right only goes                                               *)

\* A family that has begun keeps the decision it began under, and once it may
\* not write it never may again.
LEMMA RightGoes ==
    ASSUME TypeOK, Lineage, [Next]_vars
    PROVE  /\ Lineage'
           /\ \A f \in Families : family[f].era > 0 =>
                  /\ family'[f].era > 0
                  /\ Writer(f)' => Writer(f)
<1> DEFINE Goal == /\ Lineage'
                   /\ \A f \in Families : family[f].era > 0 =>
                          /\ family'[f].era > 0
                          /\ Writer(f)' => Writer(f)
<1>t. /\ \A u \in Users : grant[u].era \in Nat
      /\ \A f \in Families : family[f].era \in Nat /\ Person[f] \in Users
  BY PersonAssumption, BoundsAssumption DEF TypeOK, Grant
<1>0. ASSUME UNCHANGED <<grant, family>> PROVE Goal
  BY <1>0 DEF Lineage, Writer, MayWrite
<1>1. ASSUME NEW u \in Users, GrantWrite(u) PROVE Goal
  <2>1. /\ grant'[u].era = grant[u].era + 1
        /\ \A v \in Users : v # u => grant'[v] = grant[v]
        /\ family' = family
    BY <1>1 DEF GrantWrite, TypeOK
  <2>2. Lineage'
    BY <1>t, <2>1 DEF Lineage
  <2>3. \A f \in Families : Writer(f)' => Writer(f)
    <3> TAKE f \in Families
    <3>1. CASE Person[f] = u
      BY <1>t, <2>1, <3>1 DEF Lineage, Writer
    <3>2. CASE Person[f] # u
      BY <1>t, <2>1, <3>2 DEF Writer, MayWrite
    <3> QED
      BY <3>1, <3>2
  <2> QED
    BY <2>1, <2>2, <2>3
<1>2. ASSUME NEW u \in Users, RevokeWrite(u) \/ RevokeGrant(u) PROVE Goal
  <2>0. grant[u] \in Grant
    BY DEF TypeOK
  <2>1. /\ \A v \in Users : v # u => grant'[v] = grant[v]
        /\ \/ grant'[u] = [grant[u] EXCEPT !.write = FALSE]
           \/ grant'[u] = [grant[u] EXCEPT !.active = FALSE]
    BY <1>2 DEF RevokeWrite, RevokeGrant, TypeOK
  <2>2. grant'[u].era = grant[u].era /\ ~MayWrite(u)'
    BY <2>0, <2>1 DEF Grant, MayWrite
  <2>3. grant'[u].write = grant[u].write \/ grant'[u].write = FALSE
    BY <2>0, <2>1 DEF Grant
  <2>4. \A f \in Families : \/ family'[f] = family[f]
                             \/ family'[f] = [family[f] EXCEPT !.live = FALSE]
    BY <1>2 DEF RevokeWrite, RevokeGrant, TypeOK
  <2>5. \A f \in Families : /\ family'[f].era = family[f].era
                             /\ \/ family'[f].live = family[f].live
                                \/ family'[f].live = FALSE
    BY <2>4 DEF TypeOK
  <2>6. Lineage'
    BY <1>t, <2>1, <2>2, <2>3, <2>5 DEF Lineage
  <2>7. \A f \in Families : Writer(f)' => Writer(f)
    BY <1>t, <2>1, <2>2, <2>5 DEF Writer, MayWrite
  <2> QED
    BY <2>5, <2>6, <2>7
<1>3. ASSUME NEW f \in Families, BeginFamily(f) PROVE Goal
  <2>1. /\ family'[f] = [live |-> TRUE, era |-> grant[Person[f]].era]
        /\ \A h \in Families : h # f => family'[h] = family[h]
        /\ grant' = grant
        /\ family[f].era = 0
        /\ MayWrite(Person[f])
    BY <1>3 DEF BeginFamily, TypeOK
  <2> QED
    BY <1>t, <2>1 DEF Lineage, Writer, MayWrite
<1>4. ASSUME NEW f \in Families, EndFamily(f) PROVE Goal
  <2>1. /\ \A h \in Families : h # f => family'[h] = family[h]
        /\ family'[f] = [family[f] EXCEPT !.live = FALSE]
        /\ grant' = grant
    BY <1>4 DEF EndFamily, TypeOK
  <2>2. family'[f].era = family[f].era /\ family'[f].live = FALSE
    BY <2>1 DEF TypeOK
  <2>3. Lineage'
    BY <1>t, <2>1, <2>2 DEF Lineage
  <2>4. \A h \in Families : Writer(h)' => Writer(h)
    BY <1>t, <2>1, <2>2 DEF Writer, MayWrite
  <2> QED
    BY <2>1, <2>2, <2>3, <2>4
<1>5. ASSUME NEW g \in Threads, ThreadStep(g) PROVE Goal
  BY <1>5, <1>0 DEF ThreadStep, Preview, Prepare, Call, Begin, Ask, LockTarget, Execute,
     ExecuteRefused, Abort, access
<1>6. ASSUME NEW t \in Tabs, TabStep(t) PROVE Goal
  BY <1>6, <1>0 DEF TabStep, Post, Decline, Withdraw, CloseFrom, Check, UseRecent, RefuseCode,
     ConfirmCode, Approve, Forget, TabUnchanged, access
<1>7. ASSUME \/ EditMatter
             \/ \E p \in Proposals : Lapse(p) \/ Overrun(p) \/ EditRow(p)
             \/ \E u \in Users, p \in Proposals : ExpireAtPage(u, p)
             \/ UNCHANGED vars
      PROVE  Goal
  BY <1>7, <1>0 DEF EditMatter, Lapse, Overrun, EditRow, ExpireAtPage, TabUnchanged, access, vars
<1> QED
  BY <1>1, <1>2, <1>3, <1>4, <1>5, <1>6, <1>7 DEF Next, Around

-----------------------------------------------------------------------------
(* What one step may do to one gateway thread                              *)

\* A thread takes up a call: to prepare, or to commit a stored proposal.
Entered(g) ==
    /\ thread'[g].pc \in {"preview", "called"}
    /\ thread'[g].family \in Families /\ Writer(thread'[g].family)
    /\ thread'[g].pc = "called" =>
           /\ thread'[g].proposal \in Proposals
           /\ proposal[thread'[g].proposal].status # "NONE"

SameJob(g) ==
    thread'[g].proposal = thread[g].proposal /\ thread'[g].family = thread[g].family

\* It gets the row lock, its write right is confirmed, it gets the Matter.
Began(g) ==
    LET p == thread[g].proposal IN
    /\ thread[g].pc = "called" /\ thread'[g].pc = "ask" /\ SameJob(g)
    /\ RowFree(p)
    /\ proposal[p].status = "APPROVED" /\ proposal[p].family = thread[g].family
    /\ Writer(thread[g].family) => thread'[g].standing

Asked(g) ==
    /\ thread[g].pc = "ask" /\ thread'[g].pc = "lock" /\ SameJob(g)
    /\ Writer(thread[g].family)
    /\ thread'[g].standing = thread[g].standing

Locked(g) ==
    /\ thread[g].pc = "lock" /\ thread'[g].pc = "execute" /\ SameJob(g)
    /\ MatterFree
    /\ matter = proposal[thread[g].proposal].state
    /\ thread'[g].standing = thread[g].standing

Advances(g) ==
    /\ Entered(g) \/ Began(g) \/ Asked(g) \/ Locked(g)
    /\ UNCHANGED <<proposal, matter, grant, family>>

\* One thread at most moves in a step, and no other thread than an idle one is
\* left executing on a Matter that changed.
Moves ==
    \/ \E g \in Threads :
          /\ thread'[g] = IdleThread \/ Advances(g)
          /\ \A h \in Threads \ {g} : thread'[h] = thread[h]
          /\ matter' # matter => thread[g].pc = "execute"
    \/ /\ thread' = thread
       /\ matter' # matter => MatterFree

\* Whatever step is taken, at most one gateway thread moves: it ends, or it
\* advances with what the statement that let it advance has seen.
LEMMA ThreadsMove ==
    ASSUME TypeOK, Protocol, [Next]_vars
    PROVE  Moves
<1> USE DEF rows, clocks, access, TabUnchanged, AccessUnchanged
<1>1. ASSUME NEW g \in Threads, ThreadStep(g) PROVE Moves
  <2> DEFINE p == thread[g].proposal
             f == thread[g].family
  <2>a. \A th : thread' = [thread EXCEPT ![g] = th] =>
            thread'[g] = th /\ \A h \in Threads \ {g} : thread'[h] = thread[h]
    BY DEF TypeOK
  <2>0. ASSUME thread' = [thread EXCEPT ![g] = IdleThread],
               matter' # matter => thread[g].pc = "execute"
        PROVE  Moves
    <3>1. thread'[g] = IdleThread /\ \A h \in Threads \ {g} : thread'[h] = thread[h]
      BY <2>0, <2>a
    <3> QED
      BY <2>0, <3>1 DEF Moves
  <2>00. ASSUME NEW th, thread' = [thread EXCEPT ![g] = th], Advances(g) PROVE Moves
    <3>1. \A h \in Threads \ {g} : thread'[h] = thread[h]
      BY <2>00, <2>a
    <3>2. matter' = matter
      BY <2>00 DEF Advances
    <3> QED
      BY <2>00, <3>1, <3>2 DEF Moves
  <2>1. ASSUME NEW h \in Families, Preview(g, h) PROVE Moves
    <3>1. thread' = [thread EXCEPT ![g] = Doing("preview", None, h, matter, FALSE)]
      BY <2>1 DEF Preview
    <3>2. thread'[g] = Doing("preview", None, h, matter, FALSE)
      BY <3>1, <2>a
    <3>3. Advances(g)
      BY <2>1, <3>2 DEF Preview, Doing, Advances, Entered
    <3> QED
      BY <3>1, <3>3, <2>00
  <2>2. ASSUME NEW q \in Proposals, NEW h \in Families, Call(g, q, h) PROVE Moves
    <3>1. thread' = [thread EXCEPT ![g] = Doing("called", q, h, None, FALSE)]
      BY <2>2 DEF Call
    <3>2. thread'[g] = Doing("called", q, h, None, FALSE)
      BY <3>1, <2>a
    <3>3. Advances(g)
      BY <2>2, <3>2 DEF Call, Doing, Advances, Entered
    <3> QED
      BY <3>1, <3>3, <2>00
  <2>3. ASSUME Begin(g) PROVE Moves
    <3>1. CASE BeginChecks(p, f) # "go on"
      <4>1. thread' = [thread EXCEPT ![g] = IdleThread] /\ matter' = matter
        BY <2>3, <3>1 DEF Begin
      <4> QED
        BY <4>1, <2>0
    <3>2. CASE BeginChecks(p, f) = "go on"
      <4> DEFINE b == Writer(f) /\ p \notin edited \cup overdue
      <4>1. /\ thread' = [thread EXCEPT ![g] = Doing("ask", p, f, None, b)]
            /\ UNCHANGED <<proposal, matter, grant, family>>
            /\ thread[g].pc = "called" /\ RowFree(p)
        BY <2>3, <3>2 DEF Begin
      <4>2. /\ proposal[p].status = "APPROVED" /\ proposal[p].family = f
            /\ p \notin edited \cup overdue
        BY <3>2 DEF BeginChecks
      <4>3. thread'[g] = Doing("ask", p, f, None, b)
        BY <4>1, <2>a
      <4>4. /\ thread'[g].pc = "ask" /\ thread'[g].proposal = p /\ thread'[g].family = f
            /\ thread'[g].standing = b
        BY <4>3 DEF Doing
      <4>5. Advances(g)
        BY <4>1, <4>2, <4>4 DEF Advances, Began, SameJob
      <4> QED
        BY <4>1, <4>5, <2>00
    <3> QED
      BY <3>1, <3>2
  <2>4. ASSUME Ask(g) PROVE Moves
    <3>1. CASE ~Writer(f)
      <4>1. thread' = [thread EXCEPT ![g] = IdleThread] /\ matter' = matter
        BY <2>4, <3>1 DEF Ask
      <4> QED
        BY <4>1, <2>0
    <3>2. CASE Writer(f)
      <4>1. thread' = [thread EXCEPT ![g] = Onward(thread[g], "lock")]
        BY <2>4, <3>2 DEF Ask
      <4>2. thread'[g] = Onward(thread[g], "lock")
        BY <4>1, <2>a
      <4>3. Advances(g)
        BY <2>4, <3>2, <4>2 DEF Ask, Onward, Doing, Advances, Asked, SameJob
      <4> QED
        BY <4>1, <4>3, <2>00
    <3> QED
      BY <3>1, <3>2
  <2>5. ASSUME LockTarget(g) PROVE Moves
    <3>1. CASE matter # proposal[p].state
      <4>1. thread' = [thread EXCEPT ![g] = IdleThread] /\ matter' = matter
        BY <2>5, <3>1 DEF LockTarget
      <4> QED
        BY <4>1, <2>0
    <3>2. CASE matter = proposal[p].state
      <4>1. thread' = [thread EXCEPT ![g] = Onward(thread[g], "execute")]
        BY <2>5, <3>2 DEF LockTarget
      <4>2. thread'[g] = Onward(thread[g], "execute")
        BY <4>1, <2>a
      <4>3. Advances(g)
        BY <2>5, <3>2, <4>2 DEF LockTarget, Onward, Doing, Advances, Locked, SameJob
      <4> QED
        BY <4>1, <4>3, <2>00
    <3> QED
      BY <3>1, <3>2
  <2>6. ASSUME (\E q \in Proposals : Prepare(g, q)) \/ Execute(g) \/ ExecuteRefused(g) \/ Abort(g)
        PROVE  Moves
    BY <2>6, <2>0 DEF Prepare, Execute, ExecuteRefused, Abort
  <2> QED
    BY <1>1, <2>1, <2>2, <2>3, <2>4, <2>5, <2>6 DEF ThreadStep
<1>2. ASSUME NEW t \in Tabs, TabStep(t) PROVE Moves
  BY <1>2 DEF TabStep, Post, Decline, Withdraw, CloseFrom, Check, UseRecent, RefuseCode,
     ConfirmCode, Approve, Forget, Moves
<1>3. ASSUME Around PROVE Moves
  BY <1>3 DEF Around, EditMatter, GrantWrite, RevokeWrite, RevokeGrant, BeginFamily, EndFamily,
     Lapse, Overrun, EditRow, ExpireAtPage, Moves
<1>4. CASE UNCHANGED vars
  BY <1>4 DEF vars, Moves
<1> QED
  BY <1>1, <1>2, <1>3, <1>4 DEF Next

\* A commit that is left alone keeps what it may rely on: the row under its
\* lock, the Matter under its lock, and a write right that can only go.
LEMMA ThreadRests ==
    ASSUME TypeOK, NEW g \in Threads, ThreadOK(g), thread'[g] = thread[g],
           \A q \in Proposals : Effect(q),
           \A f \in Families : family[f].era > 0 =>
               family'[f].era > 0 /\ (Writer(f)' => Writer(f)),
           matter' # matter => thread[g].pc # "execute"
    PROVE  ThreadOK(g)'
<1> DEFINE p == thread[g].proposal
           f == thread[g].family
<1>1. thread[g].pc # "idle" => f \in Families /\ family'[f].era > 0
  BY DEF ThreadOK
<1>2. thread[g].pc \in Holding \cup {"called"} => p \in Proposals /\ proposal'[p].status # "NONE"
  BY StoredStays DEF ThreadOK
<1>3. thread[g].pc \in Holding => /\ proposal'[p].status = "APPROVED"
                                  /\ SameBody(p)
                                  /\ proposal[p].family = f
  <2> SUFFICES ASSUME thread[g].pc \in Holding
               PROVE  /\ proposal'[p].status = "APPROVED" /\ SameBody(p)
                      /\ proposal[p].family = f
    OBVIOUS
  <2>1. p \in Proposals /\ proposal[p].status = "APPROVED" /\ proposal[p].family = f
    BY DEF ThreadOK
  <2>2. ~Released(p)
    BY DEF Released, Holding, IdleThread, Doing
  <2>3. Untouched(p)
    BY <2>1, <2>2 DEF Effect, Verdict, Stored, Closed, Agreed, Saved
  <2> QED
    BY <2>1, <2>3 DEF Untouched, SameBody
<1>4. thread[g].pc = "ask" /\ Writer(f)' => thread[g].standing
  BY DEF ThreadOK
<1>5. thread[g].pc = "execute" => matter' = proposal'[p].state
  BY <1>3 DEF ThreadOK, SameBody, Holding
<1>6. thread[g].pc \in {"lock", "execute"} => thread[g].standing
  BY DEF ThreadOK
<1> QED
  BY <1>1, <1>2, <1>3, <1>4, <1>5, <1>6 DEF ThreadOK, SameBody, Writer

\* A commit that advances earns what it may rely on from then on.
LEMMA ThreadAdvances ==
    ASSUME TypeOK, Lineage, NEW g \in Threads, ThreadOK(g), Advances(g)
    PROVE  ThreadOK(g)'
<1>0. UNCHANGED <<proposal, matter, grant, family>>
  BY DEF Advances
<1>1. \A f \in Families : Writer(f) => family'[f].era > 0
  BY <1>0 DEF Writer, Lineage
<1>2. CASE Entered(g)
  <2>1. thread'[g].family \in Families /\ family'[thread'[g].family].era > 0
    BY <1>1, <1>2 DEF Entered
  <2>2. thread'[g].pc \in {"preview", "called"}
    BY <1>2 DEF Entered
  <2>3. thread'[g].pc = "called" => /\ thread'[g].proposal \in Proposals
                                    /\ proposal'[thread'[g].proposal].status # "NONE"
    BY <1>0, <1>2 DEF Entered
  <2> QED
    BY <2>1, <2>2, <2>3 DEF ThreadOK, Holding
<1>3. CASE Began(g)
  BY <1>0, <1>1, <1>3 DEF Began, SameJob, ThreadOK, Holding, Writer, MayWrite
<1>4. CASE Asked(g)
  BY <1>0, <1>1, <1>4 DEF Asked, SameJob, ThreadOK, Holding
<1>5. CASE Locked(g)
  BY <1>0, <1>1, <1>5 DEF Locked, SameJob, ThreadOK, Holding
<1> QED
  BY <1>2, <1>3, <1>4, <1>5 DEF Advances

\* The row lock and the Matter lock each keep one holder.
LEMMA HoldersStep ==
    ASSUME TypeOK, Protocol, Moves
    PROVE  OneHolder'
<1>1. CASE thread' = thread
  BY <1>1 DEF Protocol, OneHolder
<1>2. ASSUME NEW g \in Threads, thread'[g] = IdleThread \/ Advances(g),
             \A h \in Threads \ {g} : thread'[h] = thread[h]
      PROVE  OneHolder'
  <2> DEFINE Apart(x, y) ==
                /\ thread[x].pc \in Holding /\ thread[y].pc \in Holding
                       => thread[x].proposal # thread[y].proposal
                /\ ~(thread[x].pc = "execute" /\ thread[y].pc = "execute")
  <2>1. \A h \in Threads : h # g => Apart(g, h)'
    <3> TAKE h \in Threads
    <3> SUFFICES ASSUME h # g PROVE Apart(g, h)'
      OBVIOUS
    <3>1. thread'[h] = thread[h] /\ Apart(g, h)
      BY <1>2 DEF Protocol, OneHolder
    <3>2. CASE thread'[g] = IdleThread \/ Entered(g)
      BY <3>2 DEF IdleThread, Doing, Entered, Holding
    <3>3. CASE Began(g)
      BY <3>1, <3>3 DEF Began, SameJob, RowFree, LockedBy, Holding
    <3>4. CASE Asked(g)
      BY <3>1, <3>4 DEF Asked, SameJob, Holding
    <3>5. CASE Locked(g)
      BY <3>1, <3>5 DEF Locked, SameJob, MatterFree, Holding
    <3> QED
      BY <1>2, <3>2, <3>3, <3>4, <3>5 DEF Advances
  <2>2. \A x, y \in Threads : x # y /\ x # g /\ y # g => Apart(x, y)'
    BY <1>2 DEF Protocol, OneHolder
  <2>3. \A x, y \in Threads : Apart(x, y)' => Apart(y, x)'
    OBVIOUS
  <2>4. \A x, y \in Threads : x # y => Apart(x, y)'
    BY <2>1, <2>2, <2>3
  <2> QED
    BY <2>4 DEF OneHolder
<1> QED
  BY <1>1, <1>2 DEF Moves

\* What every gateway thread may rely on survives every step.
LEMMA ThreadsStep ==
    ASSUME TypeOK, Protocol, [Next]_vars, Moves, \A q \in Proposals : Effect(q)
    PROVE  ThreadsOK'
<1>1. \A f \in Families : family[f].era > 0 => family'[f].era > 0 /\ (Writer(f)' => Writer(f))
  BY RightGoes DEF Protocol
<1>2. ASSUME NEW h \in Threads, thread'[h] = thread[h],
             matter' # matter => thread[h].pc # "execute"
      PROVE  ThreadOK(h)'
  BY <1>1, <1>2, ThreadRests DEF Protocol, ThreadsOK
<1>3. CASE thread' = thread /\ (matter' # matter => MatterFree)
  BY <1>2, <1>3 DEF ThreadsOK, MatterFree
<1>4. ASSUME NEW g \in Threads, thread'[g] = IdleThread \/ Advances(g),
             \A h \in Threads \ {g} : thread'[h] = thread[h],
             matter' # matter => thread[g].pc = "execute"
      PROVE  ThreadsOK'
  <2>1. \A h \in Threads \ {g} : ThreadOK(h)'
    <3> TAKE h \in Threads \ {g}
    <3>1. matter' # matter => thread[h].pc # "execute"
      BY <1>4 DEF Protocol, OneHolder
    <3> QED
      BY <1>2, <1>4, <3>1
  <2>2. ThreadOK(g)'
    <3>1. CASE thread'[g] = IdleThread
      BY <3>1 DEF ThreadOK, IdleThread, Doing, Holding
    <3>2. CASE Advances(g)
      BY <3>2, ThreadAdvances DEF Protocol, ThreadsOK
    <3> QED
      BY <1>4, <3>1, <3>2
  <2> QED
    BY <2>1, <2>2 DEF ThreadsOK
<1> QED
  BY <1>3, <1>4 DEF Moves

\* A tab stays with the proposal of the persona it serves.
LEMMA TabsStep ==
    ASSUME TypeOK, Protocol, [Next]_vars, \A q \in Proposals : Effect(q)
    PROVE  TabsOK'
<1> DEFINE TabOK(t) == tab[t].pc # "idle" =>
               /\ tab[t].proposal \in Proposals
               /\ proposal[tab[t].proposal].status # "NONE"
               /\ tab[t].user = Person[proposal[tab[t].proposal].family]
<1>1. \A t \in Tabs : TabOK(t)
  BY DEF Protocol, TabsOK
<1>2. \A t \in Tabs : tab'[t] = tab[t] => TabOK(t)'
  BY <1>1, StoredStays DEF SameBody
<1>3. ASSUME NEW t \in Tabs, TabStep(t) PROVE \A s \in Tabs : TabOK(s)'
  <2>1. ASSUME NEW tb, tab' = [tab EXCEPT ![t] = tb],
               \/ tb = IdleTab
               \/ /\ tb.proposal \in Proposals
                  /\ proposal[tb.proposal].status # "NONE"
                  /\ tb.user = Person[proposal[tb.proposal].family]
        PROVE  \A s \in Tabs : TabOK(s)'
    <3>1. tab'[t] = tb /\ \A s \in Tabs \ {t} : tab'[s] = tab[s]
      BY <2>1 DEF TypeOK
    <3>2. TabOK(t)'
      BY <2>1, <3>1, StoredStays DEF SameBody, IdleTab, Handling
    <3> QED
      BY <1>2, <3>1, <3>2
  <2> DEFINE p == tab[t].proposal
             u == tab[t].user
  <2>2. \A pc, c : tab[t].pc # "idle" =>
            /\ Handling(pc, p, u, c).proposal \in Proposals
            /\ proposal[Handling(pc, p, u, c).proposal].status # "NONE"
            /\ Handling(pc, p, u, c).user = Person[proposal[Handling(pc, p, u, c).proposal].family]
    BY <1>1 DEF Handling
  <2>3. ASSUME NEW v \in Users, NEW q \in Proposals, NEW pc, Post(t, v, q, pc)
        PROVE  \A s \in Tabs : TabOK(s)'
    <3>1. tab' = [tab EXCEPT ![t] = Handling(pc, q, v, Remembered)] /\ Owned(v, q)
      BY <2>3 DEF Post
    <3> QED
      BY <3>1, <2>1 DEF Owned, Handling
  <2>4. ASSUME \/ Decline(t) \/ Withdraw(t) \/ RefuseCode(t) \/ Approve(t)
        PROVE  \A s \in Tabs : TabOK(s)'
    BY <2>4, <2>1 DEF Decline, Withdraw, CloseFrom, RefuseCode, Approve
  <2>5. ASSUME Check(t) \/ UseRecent(t) \/ (\E c \in Codes : ConfirmCode(t, c))
        PROVE  \A s \in Tabs : TabOK(s)'
    <3>1. /\ tab[t].pc # "idle"
          /\ \/ tab' = [tab EXCEPT ![t] = IdleTab]
             \/ \E pc, c : tab' = [tab EXCEPT ![t] = Handling(pc, p, u, c)]
      BY <2>5 DEF Check, UseRecent, ConfirmCode
    <3>2. CASE tab' = [tab EXCEPT ![t] = IdleTab]
      BY <3>2, <2>1
    <3>3. ASSUME NEW pc, NEW c, tab' = [tab EXCEPT ![t] = Handling(pc, p, u, c)]
          PROVE  \A s \in Tabs : TabOK(s)'
      <4> DEFINE tb == Handling(pc, p, u, c)
      <4>1. /\ tb.proposal \in Proposals
            /\ proposal[tb.proposal].status # "NONE"
            /\ tb.user = Person[proposal[tb.proposal].family]
        BY <3>1, <2>2
      <4> HIDE DEF tb
      <4> QED
        BY <3>3, <4>1, <2>1 DEF tb
    <3> QED
      BY <3>1, <3>2, <3>3
  <2>6. ASSUME Forget(t) PROVE \A s \in Tabs : TabOK(s)'
    BY <2>6, <1>2 DEF Forget
  <2> QED
    BY <1>3, <2>3, <2>4, <2>5, <2>6 DEF TabStep
<1>4. ASSUME NEW g \in Threads, ThreadStep(g) PROVE tab' = tab
  BY <1>4 DEF ThreadStep, Preview, Prepare, Call, Begin, Ask, LockTarget, Execute,
     ExecuteRefused, Abort
<1>5. ASSUME Around \/ UNCHANGED vars PROVE tab' = tab
  BY <1>5 DEF Around, EditMatter, GrantWrite, RevokeWrite, RevokeGrant, BeginFamily, EndFamily,
     Lapse, Overrun, EditRow, ExpireAtPage, AccessUnchanged, vars
<1>6. \A t \in Tabs : TabOK(t)'
  BY <1>2, <1>3, <1>4, <1>5 DEF Next
<1> QED
  BY <1>6 DEF TabsOK

-----------------------------------------------------------------------------
(* The theorems                                                            *)

\* The locks, the rows, the tabs and the commits keep the protocol they rely on.
THEOREM ProtocolHolds == Spec => []Protocol
<1>1. Init => Protocol
  BY BoundsAssumption, PersonAssumption DEF Init, Protocol, Lineage, RowsOK, TabsOK,
     ThreadsOK, ThreadOK, OneHolder,
     SavedOnce, SavedAsApproved, NoProposal, NoApproval, NoChange, IdleThread, Doing,
     IdleTab, Handling, Holding
<1>2. TypeOK /\ Protocol /\ [Next]_vars => Protocol'
  <2> SUFFICES ASSUME TypeOK, Protocol, [Next]_vars PROVE Protocol'
    OBVIOUS
  <2>1. \A q \in Proposals : Effect(q)
    BY Effects DEF OneVerdict, Effect
  <2>2. Lineage'
    BY RightGoes DEF Protocol
  <2>3. RowsOK' /\ SavedOnce' /\ SavedAsApproved'
    BY <2>1, RowsStep DEF RowsOK, SavedOnce, SavedAsApproved
  <2>4. Moves
    BY ThreadsMove
  <2>5. ThreadsOK' /\ OneHolder' /\ TabsOK'
    BY <2>1, <2>4, ThreadsStep, HoldersStep, TabsStep
  <2> QED
    BY <2>2, <2>3, <2>5 DEF Protocol
<1> QED
  BY <1>1, <1>2, TypeCorrect, PTL DEF Spec

\* SavedOnce: a change is saved exactly once if its proposal says EXECUTED and
\* never otherwise, however calls repeat, overlap and break off.
THEOREM SavesOnce == Spec => []SavedOnce
<1>1. Protocol => SavedOnce
  BY DEF Protocol
<1> QED
  BY <1>1, ProtocolHolds, PTL

\* SavedAsApproved: what is saved ran over the stored snapshot, for its own
\* family and with its own person's approval, all of it standing under the lock.
THEOREM SavesAsApproved == Spec => []SavedAsApproved
<1>1. Protocol => SavedAsApproved
  BY DEF Protocol
<1> QED
  BY <1>1, ProtocolHolds, PTL

\* VerdictsAreFinal: the first verdict on a proposal stays, and so does its approval.
THEOREM VerdictsStay == Spec => VerdictsAreFinal
<1> DEFINE Kept(p) ==
        /\ proposal[p].status \in Final => proposal'[p] = proposal[p]
        /\ proposal[p].status = "APPROVED" => proposal'[p].status \in Final \cup {"APPROVED"}
        /\ approval[p] # NoApproval => approval'[p] = approval[p]
<1>1. ASSUME TypeOK, Protocol, [Next]_vars PROVE \A p \in Proposals : Kept(p)
  <2> TAKE p \in Proposals
  <2>1. Effect(p)
    BY <1>1, Effects DEF OneVerdict, Effect
  <2>2. proposal[p].status \in {"NONE", "PENDING"} => approval[p] = NoApproval
    BY <1>1 DEF Protocol, RowsOK
  <2> QED
    BY <2>1, <2>2 DEF Effect, Verdict, Untouched, SameRest, Stored, Closed, Agreed, Saved, Final
<1>2. TypeOK /\ Protocol /\ [Next]_vars => [\A p \in Proposals : Kept(p)]_vars
  BY <1>1
<1> QED
  BY <1>2, TypeCorrect, ProtocolHolds, PTL DEF Spec, VerdictsAreFinal

-----------------------------------------------------------------------------
(* The codes                                                               *)

Typed(t) == tab[t].pc = "approve" /\ tab[t].step # Remembered

\* A step that approves nothing and spends no code leaves the codes as they are.
LEMMA CodesRest ==
    ASSUME CodesOK, OneCodeOneApproval, UNCHANGED <<approval, lastStep>>,
           \A t \in Tabs : tab'[t] = tab[t] \/ ~Typed(t)'
    PROVE  CodesOK' /\ OneCodeOneApproval'
<1>1. OneCodeOneApproval'
  BY DEF OneCodeOneApproval
<1>2. \A t \in Tabs : Typed(t)' => tab'[t] = tab[t]
  OBVIOUS
<1>3. CodesOK'
  BY <1>2 DEF CodesOK, Typed
<1> QED
  BY <1>1, <1>3

\* No step lets one code stand for two approvals, nor a spent code come back.
LEMMA CodesStep ==
    ASSUME TypeOK, Protocol, CodesOK, OneCodeOneApproval, [Next]_vars
    PROVE  CodesOK' /\ OneCodeOneApproval'
<1> USE DEF rows, clocks, access, TabUnchanged, AccessUnchanged
<1>a. /\ \A t \in Tabs : tab[t].step \in Nat
      /\ \A u \in Users : lastStep[u] \in Nat
      /\ \A p \in Proposals : approval[p].step \in Nat
      /\ Codes \subseteq Nat
  BY BoundsAssumption DEF TypeOK, Tab, Approval, Codes, Remembered
<1>b. \A t \in Tabs : tab[t].pc # "idle" => /\ tab[t].proposal \in Proposals
                                            /\ tab[t].user \in Users
  BY PersonAssumption DEF Protocol, TabsOK, RowsOK
<1>0. ASSUME NEW t \in Tabs, NEW tb, tab' = [tab EXCEPT ![t] = tb],
             ~(tb.pc = "approve" /\ tb.step # Remembered), UNCHANGED <<approval, lastStep>>
      PROVE  CodesOK' /\ OneCodeOneApproval'
  <2>1. tab'[t] = tb /\ \A s \in Tabs : s # t => tab'[s] = tab[s]
    BY <1>0 DEF TypeOK
  <2>2. ~Typed(t)'
    BY <1>0, <2>1 DEF Typed
  <2> QED
    BY <1>0, <2>1, <2>2, CodesRest
<1>1. ASSUME NEW t \in Tabs, NEW c \in Codes, ConfirmCode(t, c)
      PROVE  CodesOK' /\ OneCodeOneApproval'
  <2> DEFINE u == tab[t].user
             tb == tab'[t]
  <2>1. /\ u \in Users /\ c > lastStep[u] /\ c \in Nat
        /\ lastStep' = [lastStep EXCEPT ![u] = c] /\ approval' = approval
    BY <1>1, <1>a, <1>b DEF ConfirmCode, Matches
  <2>2. lastStep'[u] = c /\ \A v \in Users : v # u => lastStep'[v] = lastStep[v]
    BY <2>1 DEF TypeOK
  <2>3. \A v \in Users : lastStep[v] <= lastStep'[v] /\ lastStep'[v] \in Nat
    BY <2>1, <2>2, <1>a
  <2>4. /\ \A s \in Tabs : s # t => tab'[s] = tab[s]
        /\ Typed(t)' => tab'[t].user = u /\ tab'[t].step = c
    BY <1>1 DEF ConfirmCode, TypeOK, Typed, Handling, IdleTab
  <2>5. OneCodeOneApproval'
    BY <2>1 DEF OneCodeOneApproval
  <2>6. \A p \in Proposals : approval'[p].user \in Users =>
            approval'[p].step <= lastStep'[approval'[p].user]
    BY <2>1, <2>3, <1>a DEF CodesOK
  <2>7. \A s \in Tabs : s # t /\ Typed(s)' =>
            /\ Typed(s) /\ tab'[s] = tab[s] /\ tab[s].user \in Users
            /\ tab[s].step <= lastStep[tab[s].user]
    BY <2>4, <1>b DEF CodesOK, Typed
  <2>8. \A s \in Tabs : Typed(s)' =>
            /\ tab'[s].step <= lastStep'[tab'[s].user]
            /\ \A p \in Proposals : approval'[p].user = tab'[s].user =>
                   approval'[p].step # tab'[s].step
    <3> TAKE s \in Tabs
    <3>1. CASE s = t
      <4>1. \A p \in Proposals : approval[p].user = u => approval[p].step < c
        BY <2>1, <1>a DEF CodesOK
      <4> QED
        BY <3>1, <2>1, <2>2, <2>4, <4>1, <1>a
    <3>2. CASE s # t
      BY <3>2, <2>1, <2>3, <2>7, <1>a DEF CodesOK, Typed
    <3> QED
      BY <3>1, <3>2
  <2>9. \A s, r \in Tabs : /\ s # r /\ Typed(s)' /\ tab'[r].pc = "approve"
                           /\ tab'[r].user = tab'[s].user
                           => tab'[r].step # tab'[s].step
    <3> TAKE s, r \in Tabs
    <3> SUFFICES ASSUME s # r, Typed(s)', tab'[r].pc = "approve", tab'[r].user = tab'[s].user
                 PROVE  tab'[r].step # tab'[s].step
      OBVIOUS
    <3>1. CASE s # t /\ r # t
      BY <3>1, <2>4 DEF CodesOK, Typed
    <3>2. CASE s # t /\ r = t
      <4>1. tab'[r].step \in {c, Remembered} /\ tab'[r].user = u
        BY <3>2, <1>1 DEF ConfirmCode, TypeOK, Handling, IdleTab
      <4>2. tab[s].step <= lastStep[u] /\ tab'[s].step = tab[s].step /\ tab[s].step # Remembered
        BY <3>2, <2>7, <4>1 DEF Typed
      <4> QED
        BY <4>1, <4>2, <2>1, <1>a
    <3>3. CASE s = t /\ r # t
      <4>1. tab'[s].step = c /\ tab'[s].user = u /\ tab'[r] = tab[r]
        BY <3>3, <2>4
      <4>2. Typed(r) => tab[r].step <= lastStep[u]
        BY <3>3, <4>1 DEF CodesOK, Typed
      <4>3. Remembered < c
        BY <2>1, <1>a DEF Remembered
      <4> QED
        BY <4>1, <4>2, <4>3, <2>1, <1>a DEF Typed, Remembered
    <3> QED
      BY <3>1, <3>2, <3>3
  <2> QED
    BY <2>5, <2>6, <2>8, <2>9 DEF CodesOK, Typed
<1>2. ASSUME NEW t \in Tabs, Approve(t)
      PROVE  CodesOK' /\ OneCodeOneApproval'
  <2> DEFINE p == tab[t].proposal
             u == tab[t].user
             n == tab[t].step
  <2>1. CASE UNCHANGED approval
    BY <1>2, <2>1, <1>0 DEF Approve, IdleTab, Handling
  <2>2. CASE approval' = [approval EXCEPT ![p] = [user |-> u, step |-> n]]
    <3>1. /\ lastStep' = lastStep /\ tab[t].pc = "approve"
          /\ p \in Proposals /\ u \in Users
      BY <1>2, <1>b DEF Approve
    <3>2. /\ approval'[p] = [user |-> u, step |-> n]
          /\ \A q \in Proposals : q # p => approval'[q] = approval[q]
      BY <2>2, <3>1 DEF TypeOK
    <3>3. /\ ~Typed(t)' /\ tab'[t].pc = "idle"
          /\ \A s \in Tabs : s # t => tab'[s] = tab[s]
      BY <1>2 DEF Approve, TypeOK, Typed, IdleTab, Handling
    <3>4. n <= lastStep[u]
      <4>1. CASE n = Remembered
        BY <4>1, <3>1, <1>a DEF Remembered
      <4>2. CASE n # Remembered
        BY <4>2, <3>1 DEF CodesOK
      <4> QED
        BY <4>1, <4>2
    <3>5. \A q \in Proposals : approval'[q].user \in Users =>
              approval'[q].step <= lastStep'[approval'[q].user]
      BY <3>1, <3>2, <3>4 DEF CodesOK
    <3>6. n # Remembered => \A q \in Proposals : approval[q].user = u => approval[q].step # n
      BY <3>1 DEF CodesOK
    <3>7. OneCodeOneApproval'
      BY <3>2, <3>6 DEF OneCodeOneApproval
    <3>8. \A s \in Tabs : Typed(s)' => s # t /\ Typed(s) /\ tab'[s] = tab[s]
      BY <3>3 DEF Typed
    <3>9. \A s \in Tabs : Typed(s)' /\ u = tab[s].user => n # tab[s].step
      BY <3>1, <3>8 DEF CodesOK, Typed
    <3>10. \A s \in Tabs : Typed(s)' =>
               /\ tab'[s].step <= lastStep'[tab'[s].user]
               /\ \A q \in Proposals : approval'[q].user = tab'[s].user =>
                      approval'[q].step # tab'[s].step
      BY <3>1, <3>2, <3>8, <3>9 DEF CodesOK, Typed
    <3>11. \A s, r \in Tabs : /\ s # r /\ Typed(s)' /\ tab'[r].pc = "approve"
                              /\ tab'[r].user = tab'[s].user
                              => tab'[r].step # tab'[s].step
      BY <3>3, <3>8 DEF CodesOK, Typed
    <3> QED
      BY <3>5, <3>7, <3>10, <3>11 DEF CodesOK, Typed
  <2> QED
    BY <1>2, <2>1, <2>2 DEF Approve
<1>3. ASSUME NEW t \in Tabs, TabStep(t) PROVE CodesOK' /\ OneCodeOneApproval'
  <2>1. ASSUME \/ \E v \in Users, q \in Proposals, pc \in {"decline", "withdraw", "check"} :
                      Post(t, v, q, pc)
               \/ Decline(t) \/ Withdraw(t) \/ Check(t) \/ UseRecent(t) \/ RefuseCode(t)
        PROVE  CodesOK' /\ OneCodeOneApproval'
    BY <2>1, <1>0 DEF Post, Decline, Withdraw, CloseFrom, Check, UseRecent, RefuseCode,
       IdleTab, Handling
  <2>2. ASSUME Forget(t) PROVE CodesOK' /\ OneCodeOneApproval'
    BY <2>2, CodesRest DEF Forget
  <2> QED
    BY <1>1, <1>2, <1>3, <2>1, <2>2 DEF TabStep
<1>4. ASSUME NEW g \in Threads, ThreadStep(g) PROVE UNCHANGED <<approval, lastStep, tab>>
  BY <1>4 DEF ThreadStep, Preview, Prepare, Call, Begin, Ask, LockTarget, Execute,
     ExecuteRefused, Abort
<1>5. ASSUME Around \/ UNCHANGED vars PROVE UNCHANGED <<approval, lastStep, tab>>
  BY <1>5 DEF Around, EditMatter, GrantWrite, RevokeWrite, RevokeGrant, BeginFamily, EndFamily,
     Lapse, Overrun, EditRow, ExpireAtPage, vars
<1> QED
  BY <1>3, <1>4, <1>5, CodesRest DEF Next

\* OneCodeOneApproval, however many tabs type the same six digits at once.
THEOREM OneCodeEach == Spec => []OneCodeOneApproval
<1>1. Init => CodesOK /\ OneCodeOneApproval
  BY NoneAssumption DEF Init, CodesOK, OneCodeOneApproval, NoApproval, IdleTab, Handling
<1>2. /\ TypeOK /\ Protocol /\ CodesOK /\ OneCodeOneApproval /\ [Next]_vars
      => CodesOK' /\ OneCodeOneApproval'
  BY CodesStep
<1> QED
  BY <1>1, <1>2, TypeCorrect, ProtocolHolds, PTL DEF Spec

-----------------------------------------------------------------------------
(* The abstract change                                                     *)

\* Every step of the protocol is a step of ApprovedChange or changes nothing there.
LEMMA StepsRefine ==
    ASSUME TypeOK, TypeOK', Protocol, [Next]_vars
    PROVE  [Approved!Next]_(Approved!vars)
<1>1. ASSUME \A q \in Proposals : Untouched(q)
      PROVE  Approved!Next
  <2>1. Life' = Life /\ Basis' = Basis
    BY <1>1 DEF Untouched, Life, Basis
  <2>2. matter' \in MatterStates
    BY DEF TypeOK
  <2> QED
    BY <2>1, <2>2 DEF Approved!Next, Approved!Edit
<1>2. ASSUME NEW p \in Proposals, Verdict(p), \A q \in Proposals : q # p => Untouched(q)
      PROVE  Approved!Next
  <2>1. \A q \in Proposals : q # p => Life'[q] = Life[q] /\ Basis'[q] = Basis[q]
    BY <1>2 DEF Untouched, Life, Basis
  <2>2. Life' = [Life EXCEPT ![p] = Life'[p]] /\ Basis' = [Basis EXCEPT ![p] = Basis'[p]]
    <3>1. ASSUME NEW F, NEW G,
                 F = [q \in Proposals |-> F[q]], G = [q \in Proposals |-> G[q]],
                 \A q \in Proposals : q # p => G[q] = F[q]
          PROVE  G = [F EXCEPT ![p] = G[p]]
      <4> DEFINE H == [q \in Proposals |-> IF q = p THEN G[p] ELSE F[q]]
      <4>1. DOMAIN F = Proposals
        BY <3>1
      <4>2. [F EXCEPT ![p] = G[p]] = H
        BY <3>1, <4>1
      <4>3. H = [q \in Proposals |-> G[q]]
        BY <3>1
      <4> QED
        BY <3>1, <4>2, <4>3
    <3>2. /\ Life = [q \in Proposals |-> Life[q]] /\ Life' = [q \in Proposals |-> Life'[q]]
          /\ Basis = [q \in Proposals |-> Basis[q]] /\ Basis' = [q \in Proposals |-> Basis'[q]]
      BY DEF Life, Basis
    <3> QED
      BY <2>1, <3>1, <3>2
  <2>3. SameBody(p) => Basis' = Basis
    BY <2>1 DEF Basis, SameBody
  <2>4. CASE Stored(p)
    <3>1. Life[p] = "none" /\ Life'[p] = "offered" /\ Basis'[p] = matter /\ matter' = matter
      BY <2>4 DEF Stored, Life, Basis
    <3> QED
      BY <2>2, <3>1 DEF Approved!Next, Approved!Offer
  <2>5. CASE Closed(p)
    <3>1. Life[p] \in {"offered", "agreed"} /\ Life'[p] = "closed" /\ matter' = matter
      BY <2>5 DEF Closed, Life, Final
    <3>2. Basis' = Basis
      BY <2>3, <2>5 DEF Closed
    <3> QED
      BY <2>2, <3>1, <3>2 DEF Approved!Next, Approved!Close
  <2>6. CASE Agreed(p)
    <3>1. Life[p] = "offered" /\ Life'[p] = "agreed" /\ matter' = matter
      BY <2>6 DEF Agreed, Life
    <3>2. Basis' = Basis
      BY <2>3, <2>6 DEF Agreed
    <3> QED
      BY <2>2, <3>1, <3>2 DEF Approved!Next, Approved!Agree
  <2>7. CASE Saved(p)
    <3>1. /\ Life[p] = "agreed" /\ Life'[p] = "saved" /\ matter = Basis[p]
          /\ matter' \in MatterStates
      BY <2>7 DEF Saved, Life, Basis, TypeOK
    <3>2. Basis' = Basis
      BY <2>3, <2>7 DEF Saved
    <3> QED
      BY <2>2, <3>1, <3>2 DEF Approved!Next, Approved!Save
  <2> QED
    BY <1>2, <2>4, <2>5, <2>6, <2>7 DEF Verdict
<1> QED
  BY <1>1, <1>2, Effects DEF OneVerdict

\* The protocol implements ApprovedChange: what is saved was agreed to and ran
\* over the Matter it was offered against, in one step, once.
THEOREM ProtocolSavesOnlyApproved == Spec => ImplementsApprovedChange
<1>1. Init => Approved!Init
  BY DEF Init, Approved!Init, Life, Basis, NoProposal
<1>2. TypeOK /\ TypeOK' /\ Protocol /\ [Next]_vars => [Approved!Next]_(Approved!vars)
  BY StepsRefine
<1> QED
  BY <1>1, <1>2, TypeCorrect, ProtocolHolds, PTL DEF Spec, ImplementsApprovedChange, Approved!Spec

=============================================================================
