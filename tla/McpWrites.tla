------------------------------ MODULE McpWrites ------------------------------
(***************************************************************************)
(* Changes an AI client prepares and its person approves: app/mcp_writes   *)
(* (proposals.py, approval_views.py, commit.py) with the questions it asks *)
(* app/mcp_access (writer_for, may_write, confirm_write_code).             *)
(*                                                                         *)
(* A gateway thread prepares a proposal; a browser tab of its person takes *)
(* it through the approval page; a gateway thread commits it.  The commit  *)
(* is one transaction holding the proposal's row lock, split here where    *)
(* another actor can act between two of its statements.  The page reads    *)
(* the proposal without a lock and acts on it afterwards under one, and    *)
(* confirms the code in a transaction of its own in between.               *)
(*                                                                         *)
(* One Matter is modelled: changes to different Matters share no lock.     *)
(* Its state is one value, the snapshot op.state answers.  Digests are     *)
(* reduced to whether the stored arguments were edited after the prepare.  *)
(* Calls answered with a refusal that changes no row are stutters.         *)
(***************************************************************************)
EXTENDS Naturals, FiniteSets

CONSTANTS
    Proposals,    \* ids of the proposals
    Users,
    Families,     \* token families: one consent and its rotations
    Person,       \* whose account each family was issued for
    Threads,      \* worker threads of the write gateway
    Tabs,         \* browser tabs behind the gate
    MatterStates, \* the snapshots op.state tells apart
    MaxCode,      \* bound: authenticator time steps
    MaxEra,       \* bound: write decisions an operator makes for one grant
    MaxMishaps,   \* bound: lapses, overruns and edits of the proposals, all together
    RecentWindow, \* MCP_WRITE_REVERIFY_SECONDS > 0 (production sets 0)
    None

ASSUME PersonAssumption == Person \in [Families -> Users]
ASSUME NoneAssumption ==
    None \notin Proposals \cup Users \cup Families \cup MatterStates
ASSUME BoundsAssumption ==
    {MaxCode, MaxEra, MaxMishaps} \subseteq Nat /\ RecentWindow \in BOOLEAN

VARIABLES
    proposal,  \* McpWriteProposal rows
    approval,  \* McpWriteApproval rows, one to one with a proposal
    lapsed,    \* proposals past expires_at
    overdue,   \* proposals whose approval is past its own expires_at
    edited,    \* proposals whose stored arguments no longer match the digest
    matter,    \* the Matter's snapshot
    grant,     \* McpAccessGrant: status, write decision, and which one it is
    family,    \* whether a family's access token passes, and the decision it began under
    lastStep,  \* McpAuthenticator.last_used_step
    thread,    \* what each gateway thread is doing
    tab,       \* what each tab's request is doing
    recent,    \* the remembered verification in each tab's session
    made,      \* how often each proposal's change was saved
    change     \* what the saved change ran over, for which family

rows == <<proposal, approval>>
clocks == <<lapsed, overdue, edited>>
access == <<grant, family>>
vars == <<rows, clocks, matter, access, lastStep, thread, tab, recent, made, change>>

Final == {"EXECUTED", "DECLINED", "EXPIRED", "FAILED", "STALE"}
Statuses == Final \cup {"NONE", "PENDING", "APPROVED"}
Codes == 1..MaxCode
Remembered == 0

Proposal == [status : Statuses, family : Families \cup {None},
             shown : MatterStates \cup {None}, state : MatterStates \cup {None}]
NoProposal == [status |-> "NONE", family |-> None, shown |-> None, state |-> None]

Approval == [user : Users \cup {None}, step : Codes \cup {Remembered}]
NoApproval == [user |-> None, step |-> Remembered]

Grant == [active : BOOLEAN, write : BOOLEAN, era : 0..MaxEra]

Thread == [pc : {"idle", "preview", "called", "ask", "lock", "execute"},
           proposal : Proposals \cup {None}, family : Families \cup {None},
           shown : MatterStates \cup {None}, standing : BOOLEAN]
Doing(pc, p, f, shown, standing) ==
    [pc |-> pc, proposal |-> p, family |-> f, shown |-> shown, standing |-> standing]
Onward(th, pc) == Doing(pc, th.proposal, th.family, th.shown, th.standing)
IdleThread == Doing("idle", None, None, None, FALSE)

Tab == [pc : {"idle", "decline", "withdraw", "check", "code", "approve"},
        proposal : Proposals \cup {None}, user : Users \cup {None},
        step : Codes \cup {Remembered}]
Handling(pc, p, u, step) == [pc |-> pc, proposal |-> p, user |-> u, step |-> step]
IdleTab == Handling("idle", None, None, Remembered)

Change == [over : MatterStates \cup {None}, family : Families \cup {None}, standing : BOOLEAN]
NoChange == [over |-> None, family |-> None, standing |-> FALSE]

Init ==
    /\ proposal = [p \in Proposals |-> NoProposal]
    /\ approval = [p \in Proposals |-> NoApproval]
    /\ lapsed = {}
    /\ overdue = {}
    /\ edited = {}
    /\ matter \in MatterStates
    /\ grant = [u \in Users |-> [active |-> TRUE, write |-> FALSE, era |-> 0]]
    /\ family = [f \in Families |-> [live |-> FALSE, era |-> 0]]
    /\ lastStep = [u \in Users |-> 0]
    /\ thread = [g \in Threads |-> IdleThread]
    /\ tab = [t \in Tabs |-> IdleTab]
    /\ recent = [t \in Tabs |-> None]
    /\ made = [p \in Proposals |-> 0]
    /\ change = [p \in Proposals |-> NoChange]

-----------------------------------------------------------------------------
(* Locks and rights                                                        *)

\* The transactions that span several actions are commits past their first
\* statement; every other transaction is one action.
LockedBy(g) == IF thread[g].pc \in {"ask", "lock", "execute"}
               THEN {thread[g].proposal} ELSE {}
RowFree(p) == \A g \in Threads : p \notin LockedBy(g)
MatterFree == \A g \in Threads : thread[g].pc # "execute"

\* services.may_write: the grant is ACTIVE and its write decision stands.
\* The account's own role and activity are folded into the decision.
MayWrite(u) == grant[u].active /\ grant[u].write

\* verification.writer_for: the token passes, and its family began under the
\* decision that stands now (eras only grow, so at or after is equal).
Writer(f) ==
    /\ family[f].live
    /\ MayWrite(Person[f])
    /\ family[f].era = grant[Person[f]].era

\* commit._finish, approval_views._settle: only the status moves.
Move(p, status) == proposal' = [proposal EXCEPT ![p].status = status]

-----------------------------------------------------------------------------
(* The write gateway: prepare                                              *)

\* op.prepare resolves the target and composes the preview from it ...
Preview(g, f) ==
    /\ thread[g].pc = "idle"
    /\ Writer(f)
    /\ thread' = [thread EXCEPT ![g] = Doing("preview", None, f, matter, FALSE)]
    /\ UNCHANGED <<rows, clocks, matter, access, lastStep, tab, recent, made, change>>

\* ... and op.state reads the target again, in a later statement.
Prepare(g, p) ==
    /\ thread[g].pc = "preview"
    /\ proposal[p].status = "NONE"
    /\ proposal' = [proposal EXCEPT ![p] =
           [status |-> "PENDING", family |-> thread[g].family,
            shown |-> thread[g].shown, state |-> matter]]
    /\ thread' = [thread EXCEPT ![g] = IdleThread]
    /\ UNCHANGED <<approval, clocks, matter, access, lastStep, tab, recent, made, change>>

-----------------------------------------------------------------------------
(* The write gateway: commit                                               *)

\* The gateway verifies the token and asks writer_for before the call.
Call(g, p, f) ==
    /\ thread[g].pc = "idle"
    /\ proposal[p].status # "NONE"
    /\ Writer(f)
    /\ thread' = [thread EXCEPT ![g] = Doing("called", p, f, None, FALSE)]
    /\ UNCHANGED <<rows, clocks, matter, access, lastStep, tab, recent, made, change>>

\* Mutant of BeginChecks: a repeated commit is not answered from the receipt.
BeginChecksAgain(p, f) ==
    IF f # proposal[p].family THEN "answered"
    ELSE IF proposal[p].status = "PENDING"
    THEN IF p \in lapsed THEN "EXPIRED" ELSE "answered"
    ELSE IF proposal[p].status \notin {"APPROVED", "EXECUTED"} THEN "answered"
    ELSE IF p \in edited THEN "FAILED"
    ELSE IF p \in overdue THEN "EXPIRED"
    ELSE "go on"

\* The first statement: the row lock, and all that is decided on the row and
\* its approval.  Somebody else's token, the replay of an executed proposal,
\* a final status and a pending one inside its time change nothing.
BeginChecks(p, f) ==
    IF f # proposal[p].family THEN "answered"
    ELSE IF proposal[p].status = "PENDING"
    THEN IF p \in lapsed THEN "EXPIRED" ELSE "answered"
    ELSE IF proposal[p].status # "APPROVED" THEN "answered"
    ELSE IF p \in edited THEN "FAILED"
    ELSE IF p \in overdue THEN "EXPIRED"
    ELSE "go on"

\* Mutant of Begin: the answer to a caller is stored as the status.
BeginStoring(g) ==
    LET p == thread[g].proposal
        f == thread[g].family
        verdict == BeginChecks(p, f) IN
    /\ thread[g].pc = "called"
    /\ RowFree(p)
    /\ IF verdict = "go on"
       THEN /\ thread' = [thread EXCEPT ![g] = Doing("ask", p, f, None, Writer(f))]
            /\ UNCHANGED proposal
       ELSE /\ thread' = [thread EXCEPT ![g] = IdleThread]
            /\ Move(p, verdict)
    /\ UNCHANGED <<approval, clocks, matter, access, lastStep, tab, recent, made, change>>

\* standing: what the commit must honour held when it had the row.
Begin(g) ==
    LET p == thread[g].proposal
        f == thread[g].family
        verdict == BeginChecks(p, f) IN
    /\ thread[g].pc = "called"
    /\ RowFree(p)
    /\ CASE verdict = "go on" ->
                /\ thread' = [thread EXCEPT ![g] = Doing("ask", p, f, None,
                       Writer(f) /\ p \notin edited \cup overdue)]
                /\ UNCHANGED proposal
         [] verdict = "answered" ->
                /\ thread' = [thread EXCEPT ![g] = IdleThread]
                /\ UNCHANGED proposal
         [] OTHER ->
                /\ thread' = [thread EXCEPT ![g] = IdleThread]
                /\ Move(p, verdict)
    /\ UNCHANGED <<approval, clocks, matter, access, lastStep, tab, recent, made, change>>

\* Mutants of Ask: the gateway's own answer is trusted; a refusal does not
\* end the transaction.
AskNobody(g) ==
    /\ thread[g].pc = "ask"
    /\ thread' = [thread EXCEPT ![g] = Onward(@, "lock")]
    /\ UNCHANGED <<rows, clocks, matter, access, lastStep, tab, recent, made, change>>

AskHolding(g) ==
    /\ thread[g].pc = "ask"
    /\ Writer(thread[g].family)
    /\ thread' = [thread EXCEPT ![g] = Onward(@, "lock")]
    /\ UNCHANGED <<rows, clocks, matter, access, lastStep, tab, recent, made, change>>

\* writer_for again, inside the transaction.
Ask(g) ==
    /\ thread[g].pc = "ask"
    /\ thread' = [thread EXCEPT ![g] = IF Writer(@.family) THEN Onward(@, "lock")
                                                          ELSE IdleThread]
    /\ UNCHANGED <<rows, clocks, matter, access, lastStep, tab, recent, made, change>>

\* Mutant of LockTarget: the lock is taken and the snapshot is not compared.
LockTargetOnly(g) ==
    /\ thread[g].pc = "lock"
    /\ MatterFree
    /\ thread' = [thread EXCEPT ![g] = Onward(@, "execute")]
    /\ UNCHANGED <<rows, clocks, matter, access, lastStep, tab, recent, made, change>>

\* op.lock, then op.state under it; a refusal of either reads as a difference.
LockTarget(g) ==
    LET p == thread[g].proposal IN
    /\ thread[g].pc = "lock"
    /\ MatterFree
    /\ IF matter = proposal[p].state
       THEN /\ thread' = [thread EXCEPT ![g] = Onward(@, "execute")]
            /\ UNCHANGED proposal
       ELSE /\ thread' = [thread EXCEPT ![g] = IdleThread]
            /\ Move(p, "STALE")
    /\ UNCHANGED <<approval, clocks, matter, access, lastStep, tab, recent, made, change>>

\* op.execute saves the change, EXECUTED goes with it in the same transaction.
Execute(g) ==
    LET p == thread[g].proposal IN
    /\ thread[g].pc = "execute"
    /\ Move(p, "EXECUTED")
    /\ matter' \in MatterStates
    /\ made' = [made EXCEPT ![p] = @ + 1]
    /\ change' = [change EXCEPT ![p] = [over |-> matter, family |-> thread[g].family,
                                        standing |-> thread[g].standing]]
    /\ thread' = [thread EXCEPT ![g] = IdleThread]
    /\ UNCHANGED <<approval, clocks, access, lastStep, tab, recent>>

\* A domain refusal: the savepoint is rolled back, the verdict is not.
ExecuteRefused(g) ==
    /\ thread[g].pc = "execute"
    /\ Move(thread[g].proposal, "FAILED")
    /\ thread' = [thread EXCEPT ![g] = IdleThread]
    /\ UNCHANGED <<approval, clocks, matter, access, lastStep, tab, recent, made, change>>

\* An unexpected error, a lost connection or a killed process: everything
\* rolls back and the proposal may be committed again.
Abort(g) ==
    /\ thread[g].pc # "idle"
    /\ thread' = [thread EXCEPT ![g] = IdleThread]
    /\ UNCHANGED <<rows, clocks, matter, access, lastStep, tab, recent, made, change>>

-----------------------------------------------------------------------------
(* The approval page                                                       *)

TabUnchanged == UNCHANGED <<clocks, matter, access, thread, made, change>>

\* Mutant of Owned: the write right is asked, whose proposal it is is not.
OwnedByAny(u, p) == proposal[p].status # "NONE" /\ MayWrite(u)

\* The persona's own proposal, through a grant that may still write.
Owned(u, p) ==
    /\ proposal[p].status # "NONE"
    /\ Person[proposal[p].family] = u
    /\ MayWrite(u)

\* Opening or posting to a pending proposal past its time expires it first.
ExpireAtPage(u, p) ==
    /\ Owned(u, p)
    /\ proposal[p].status = "PENDING" /\ p \in lapsed
    /\ RowFree(p)
    /\ Move(p, "EXPIRED")
    /\ UNCHANGED <<approval, lastStep, tab, recent>>
    /\ TabUnchanged

\* The view reads the row without a lock and dispatches on what it read:
\* a withdrawal whatever the status, a decline of a pending proposal, and an
\* approval of a pending one that is not stale.
Post(t, u, p, pc) ==
    /\ tab[t].pc = "idle"
    /\ Owned(u, p)
    /\ ~(proposal[p].status = "PENDING" /\ p \in lapsed)
    /\ pc \in {"decline", "check"} => proposal[p].status = "PENDING"
    /\ pc = "check" => matter = proposal[p].state
    /\ tab' = [tab EXCEPT ![t] = Handling(pc, p, u, Remembered)]
    /\ UNCHANGED <<rows, lastStep, recent>>
    /\ TabUnchanged

\* Mutant of CloseFrom: the status read before the lock is trusted.
CloseFromRead(t, status) ==
    LET p == tab[t].proposal IN
    /\ RowFree(p)
    /\ Move(p, "DECLINED")
    /\ tab' = [tab EXCEPT ![t] = IdleTab]
    /\ UNCHANGED <<approval, lastStep, recent>>
    /\ TabUnchanged

\* _decline and _withdraw ask only for the status they end, under the lock.
CloseFrom(t, status) ==
    LET p == tab[t].proposal IN
    /\ RowFree(p)
    /\ IF proposal[p].status = status THEN Move(p, "DECLINED") ELSE UNCHANGED proposal
    /\ tab' = [tab EXCEPT ![t] = IdleTab]
    /\ UNCHANGED <<approval, lastStep, recent>>
    /\ TabUnchanged

Decline(t) == tab[t].pc = "decline" /\ CloseFrom(t, "PENDING")

Withdraw(t) == tab[t].pc = "withdraw" /\ CloseFrom(t, "APPROVED")

\* _problem: why this proposal may not be approved now.
Problem(p, u) ==
    IF proposal[p].status # "PENDING" THEN "not_pending"
    ELSE IF p \in lapsed THEN "expired"
    ELSE IF p \in edited THEN "digest"
    ELSE IF ~MayWrite(u) THEN "no_write_right"
    ELSE IF matter # proposal[p].state THEN "stale"
    ELSE ""

Settled == [expired |-> "EXPIRED", digest |-> "FAILED", stale |-> "STALE"]

Settle(p, problem) ==
    IF problem \in DOMAIN Settled THEN Move(p, Settled[problem]) ELSE UNCHANGED proposal

\* _approve, before the code: a proposal that cannot be approved spends none.
Check(t) ==
    LET p == tab[t].proposal
        problem == Problem(p, tab[t].user) IN
    /\ tab[t].pc = "check"
    /\ RowFree(p)
    /\ Settle(p, problem)
    /\ tab' = [tab EXCEPT ![t] = IF problem = "" THEN Handling("code", p, tab[t].user, Remembered)
                                       ELSE IdleTab]
    /\ UNCHANGED <<approval, lastStep, recent>>
    /\ TabUnchanged

\* The remembered verification of this session, for this account's grant.
UseRecent(t) ==
    /\ tab[t].pc = "code"
    /\ recent[t] = tab[t].user
    /\ tab' = [tab EXCEPT ![t] = Handling("approve", tab[t].proposal, tab[t].user, Remembered)]
    /\ UNCHANGED <<rows, lastStep, recent>>
    /\ TabUnchanged

\* A wrong code, a throttled session, or no right to write: nothing is spent.
RefuseCode(t) ==
    /\ tab[t].pc = "code"
    /\ tab' = [tab EXCEPT ![t] = IdleTab]
    /\ UNCHANGED <<rows, lastStep, recent>>
    /\ TabUnchanged

\* Mutant of Matches: the step last spent still counts.
MatchesAgain(u, c) == c >= lastStep[u]

\* credentials.matching_step: a step later than the last one spent.
Matches(u, c) == c > lastStep[u]

\* confirm_write_code, its own transaction: the step is spent, and a grant
\* that is locked or suspended still answers no.
ConfirmCode(t, c) ==
    LET u == tab[t].user IN
    /\ tab[t].pc = "code"
    /\ MayWrite(u)
    /\ Matches(u, c)
    /\ lastStep' = [lastStep EXCEPT ![u] = c]
    /\ \/ /\ recent[t] # u
          /\ tab' = [tab EXCEPT ![t] = Handling("approve", tab[t].proposal, u, c)]
       \/ tab' = [tab EXCEPT ![t] = IdleTab]
    /\ UNCHANGED <<rows, recent>>
    /\ TabUnchanged

\* Everything again under the lock, then the approval row and the status.
Approve(t) ==
    LET p == tab[t].proposal
        u == tab[t].user
        typed == tab[t].step # Remembered
        problem == Problem(p, u) IN
    /\ tab[t].pc = "approve"
    /\ RowFree(p)
    /\ IF problem = ""
       THEN /\ Move(p, "APPROVED")
            /\ approval' = [approval EXCEPT ![p] = [user |-> u, step |-> tab[t].step]]
            /\ recent' = IF typed THEN [recent EXCEPT ![t] = IF RecentWindow THEN u ELSE None]
                                  ELSE recent
       ELSE Settle(p, problem) /\ UNCHANGED <<approval, recent>>
    /\ tab' = [tab EXCEPT ![t] = IdleTab]
    /\ UNCHANGED lastStep
    /\ TabUnchanged

-----------------------------------------------------------------------------
(* Colleagues, operators and time                                          *)

\* A colleague's business write, under the Matter's row lock.
EditMatter ==
    /\ MatterFree
    /\ matter' \in MatterStates \ {matter}
    /\ UNCHANGED <<rows, clocks, access, lastStep, thread, tab, recent, made, change>>

AccessUnchanged ==
    UNCHANGED <<rows, clocks, matter, lastStep, thread, tab, recent, made, change>>

GrantWrite(u) ==
    /\ grant[u].active /\ ~grant[u].write
    /\ grant[u].era < MaxEra
    /\ grant' = [grant EXCEPT ![u] = [active |-> TRUE, write |-> TRUE, era |-> @.era + 1]]
    /\ UNCHANGED family
    /\ AccessUnchanged

RevokeWrite(u) ==
    /\ grant[u].active /\ grant[u].write
    /\ grant' = [grant EXCEPT ![u].write = FALSE]
    /\ UNCHANGED family
    /\ AccessUnchanged

\* revoke_grant ends the grant and every token it has.
RevokeGrant(u) ==
    /\ grant[u].active
    /\ grant' = [grant EXCEPT ![u].active = FALSE]
    /\ family' = [f \in Families |-> IF Person[f] = u THEN [family[f] EXCEPT !.live = FALSE]
                                                     ELSE family[f]]
    /\ AccessUnchanged

\* A consent with the write scope begins a family; its token lapses, is
\* rotated away without the scope, or is revoked.
BeginFamily(f) ==
    /\ family[f].era = 0
    /\ MayWrite(Person[f])
    /\ family' = [family EXCEPT ![f] = [live |-> TRUE, era |-> grant[Person[f]].era]]
    /\ UNCHANGED grant
    /\ AccessUnchanged

EndFamily(f) ==
    /\ family[f].live
    /\ family' = [family EXCEPT ![f].live = FALSE]
    /\ UNCHANGED grant
    /\ AccessUnchanged

Mishaps == Cardinality(lapsed) + Cardinality(overdue) + Cardinality(edited)

\* expires_at passes, of a proposal or of its approval; a row is edited by
\* something other than this code; a session's remembered code grows old.
Lapse(p) ==
    /\ Mishaps < MaxMishaps
    /\ proposal[p].status = "PENDING" /\ p \notin lapsed
    /\ lapsed' = lapsed \cup {p}
    /\ UNCHANGED <<rows, overdue, edited, matter, access, lastStep, thread, tab, recent,
                   made, change>>

Overrun(p) ==
    /\ Mishaps < MaxMishaps
    /\ proposal[p].status = "APPROVED" /\ p \notin overdue
    /\ overdue' = overdue \cup {p}
    /\ UNCHANGED <<rows, lapsed, edited, matter, access, lastStep, thread, tab, recent,
                   made, change>>

EditRow(p) ==
    /\ Mishaps < MaxMishaps
    /\ proposal[p].status \in {"PENDING", "APPROVED"} /\ p \notin edited
    /\ RowFree(p)
    /\ edited' = edited \cup {p}
    /\ UNCHANGED <<rows, lapsed, overdue, matter, access, lastStep, thread, tab, recent,
                   made, change>>

Forget(t) ==
    /\ recent[t] # None
    /\ recent' = [recent EXCEPT ![t] = None]
    /\ UNCHANGED <<rows, lastStep, tab>>
    /\ TabUnchanged

-----------------------------------------------------------------------------
ThreadStep(g) ==
    \/ \E f \in Families : Preview(g, f)
    \/ \E p \in Proposals : Prepare(g, p)
    \/ \E p \in Proposals, f \in Families : Call(g, p, f)
    \/ Begin(g) \/ Ask(g) \/ LockTarget(g)
    \/ Execute(g) \/ ExecuteRefused(g) \/ Abort(g)

TabStep(t) ==
    \/ \E u \in Users, p \in Proposals, pc \in {"decline", "withdraw", "check"} :
           Post(t, u, p, pc)
    \/ Decline(t) \/ Withdraw(t) \/ Check(t) \/ UseRecent(t) \/ RefuseCode(t)
    \/ \E c \in Codes : ConfirmCode(t, c)
    \/ Approve(t) \/ Forget(t)

Around ==
    \/ EditMatter
    \/ \E u \in Users : GrantWrite(u) \/ RevokeWrite(u) \/ RevokeGrant(u)
    \/ \E f \in Families : BeginFamily(f) \/ EndFamily(f)
    \/ \E p \in Proposals : Lapse(p) \/ Overrun(p) \/ EditRow(p)
    \/ \E u \in Users, p \in Proposals : ExpireAtPage(u, p)

Next ==
    \/ \E g \in Threads : ThreadStep(g)
    \/ \E t \in Tabs : TabStep(t)
    \/ Around

Spec == Init /\ [][Next]_vars

\* A thread runs its call to the end.  Two steps wait for a row lock, which
\* PostgreSQL hands to its waiters in turn.
Fairness ==
    \A g \in Threads :
        /\ WF_vars(Ask(g))
        /\ WF_vars(Execute(g) \/ ExecuteRefused(g))
        /\ SF_vars(Begin(g))
        /\ SF_vars(LockTarget(g))

FairSpec == Spec /\ Fairness

-----------------------------------------------------------------------------
(* Properties                                                              *)

\* Every variable has its type.
TypeOK ==
    /\ proposal \in [Proposals -> Proposal]
    /\ approval \in [Proposals -> Approval]
    /\ lapsed \subseteq Proposals
    /\ overdue \subseteq Proposals
    /\ edited \subseteq Proposals
    /\ matter \in MatterStates
    /\ grant \in [Users -> Grant]
    /\ family \in [Families -> [live : BOOLEAN, era : 0..MaxEra]]
    /\ lastStep \in [Users -> 0..MaxCode]
    /\ thread \in [Threads -> Thread]
    /\ tab \in [Tabs -> Tab]
    /\ recent \in [Tabs -> Users \cup {None}]
    /\ made \in [Proposals -> Nat]
    /\ change \in [Proposals -> Change]

\* A proposal's change is saved exactly once if the proposal says EXECUTED and
\* never otherwise, whatever the client repeats, abandons or calls in parallel
\* (commit.py: "the commit is idempotent and the change ran once").
SavedOnce ==
    \A p \in Proposals : made[p] = IF proposal[p].status = "EXECUTED" THEN 1 ELSE 0

\* What was saved ran over the very snapshot the proposal stored, for the
\* family that prepared it, with its own person's approval; and the approval
\* was in time, the arguments unedited and the write right standing when the
\* commit had the row, however late the revocation, the edit or the colleague.
SavedAsApproved ==
    \A p \in Proposals : made[p] > 0 =>
        /\ change[p].over = proposal[p].state
        /\ change[p].family = proposal[p].family
        /\ approval[p].user = Person[proposal[p].family]
        /\ change[p].standing

\* One code of the authenticator approves at most one change of its person
\* (approval_views.py: "every approval asks for its own fresh code").
OneCodeOneApproval ==
    \A p, q \in Proposals :
        /\ p # q
        /\ approval[p] # NoApproval
        /\ approval[p] = approval[q]
        => approval[p].step = Remembered

\* A proposal never leaves a final status, goes back to waiting, or changes
\* what was prepared, and an approval row is never rewritten: a withdrawal, an
\* expiry and a commit that meet leave one verdict, the first.
VerdictsAreFinal ==
    [][\A p \in Proposals :
        /\ proposal[p].status \in Final => proposal'[p] = proposal[p]
        /\ proposal[p].status = "APPROVED" => proposal'[p].status \in Final \cup {"APPROVED"}
        /\ approval[p] # NoApproval => approval'[p] = approval[p]]_vars

\* Every commit that holds a proposal's row lets go of it, even with another
\* commit waiting for the same row or holding the Matter.
CommitsEnd ==
    \A g \in Threads : thread[g].pc = "called" ~> thread[g].pc = "idle"

\* The protocol, with its locks, tabs, retries and rolled-back calls, is an
\* approval followed by one compare-and-set of the Matter (ApprovedChange).
Life == [p \in Proposals |->
    CASE proposal[p].status = "NONE" -> "none"
      [] proposal[p].status = "PENDING" -> "offered"
      [] proposal[p].status = "APPROVED" -> "agreed"
      [] proposal[p].status = "EXECUTED" -> "saved"
      [] OTHER -> "closed"]
Basis == [p \in Proposals |-> proposal[p].state]

Approved == INSTANCE ApprovedChange WITH life <- Life, basis <- Basis

ImplementsApprovedChange == Approved!Spec

\* The preview the person approved shows the values the change replaced:
\* base.py has prepare answer "the state the change was judged against, and
\* the Preview the person will approve".
SavedOverPreview ==
    \A p \in Proposals : made[p] > 0 => change[p].over = proposal[p].shown

=============================================================================
