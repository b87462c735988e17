---------------------------- MODULE EvidenceLocks ----------------------------
(***************************************************************************)
(* The same calls as they run: transactions that take the rows they need   *)
(* in the order Matter, Submission, Document (app/matters/locks.py), ask   *)
(* their questions under those locks, wait for the gate of the search      *)
(* index (app/search/indexing.py) when they save, and commit; beside them, *)
(* a rebuild of the index that holds the gate and refers to every row.     *)
(***************************************************************************)
EXTENDS SentEvidence, SequencesExt

CONSTANTS
    Writers,   \* concurrent transactions
    Rebuild,   \* the batch of the index rebuild
    Nobody,    \* no holder
    MaxActs    \* bound on the transactions a run begins

Matter == "matter"
Gate == "gate"
Rows == {Matter} \cup Submissions \cup Documents

ASSUME WritersAssumption ==
    /\ Rebuild \notin Writers /\ Nobody \notin Writers \cup {Rebuild}
    /\ {Matter, Gate} \cap (Submissions \cup Documents) = {}
    /\ Submissions \cap Documents = {} /\ IsFiniteSet(Documents)
    /\ MaxActs \in Nat

VARIABLES
    lock,   \* who holds each row
    shared, \* the transactions that hold the gate's shared side
    job,    \* the step and the call of each transaction
    batch,  \* "idle", "waiting" for the gate's exclusive side, "filling" behind it
    acts    \* transactions begun

lockVars == <<lock, shared, job, batch, acts>>
vars == <<fileVars, lockVars>>

AtMostOne(S) == {T \in SUBSET S : Cardinality(T) <= 1}

Calls ==
    [op : {"file"}, d : Documents, own : BOOLEAN]
    \cup [op : {"version", "remove"}, d : Documents]
    \cup [op : {"draft"}, s : Submissions, own : BOOLEAN]
    \cup [op : {"attach"}, s : Submissions, d : Documents]
    \cup [op : {"select"}, s : Submissions, v : Version]
    \cup [op : {"send", "withdraw", "supersede"}, s : Submissions]
    \cup [op : {"register"}, s : Submissions, v : Version, more : AtMostOne(Version)]
    \cup [op : {"compose"}, s : Submissions, d : Documents,
         more : AtMostOne(Documents), working : AtMostOne(Documents)]
    \cup [op : {"visibility", "toggle"}, value : BOOLEAN]

NoCall == [op |-> "none"]

Can(c) ==
    \/ c.op = "file" /\ CanFile(c.d)
    \/ c.op = "version" /\ CanAddVersion(c.d)
    \/ c.op = "remove" /\ CanRemove(c.d)
    \/ c.op = "draft" /\ CanDraft(c.s)
    \/ c.op = "attach" /\ CanAttach(c.s, c.d)
    \/ c.op = "select" /\ CanSelect(c.s, c.v)
    \/ c.op = "send" /\ CanSend(c.s)
    \/ c.op = "withdraw" /\ CanWithdraw(c.s)
    \/ c.op = "supersede" /\ CanSupersede(c.s)
    \/ c.op = "register" /\ CanRegister(c.s, c.v, c.more)
    \/ c.op = "compose" /\ CanCompose(c.s, c.d, c.more, c.working)
    \/ c.op = "visibility" /\ CanSetVisibility(c.value)
    \/ c.op = "toggle" /\ CanToggle(c.value)

Do(c) ==
    \/ c.op = "file" /\ DoFile(c.d, c.own)
    \/ c.op = "version" /\ DoAddVersion(c.d)
    \/ c.op = "remove" /\ DoRemove(c.d)
    \/ c.op = "draft" /\ DoDraft(c.s, c.own)
    \/ c.op = "attach" /\ DoAttach(c.s, c.d)
    \/ c.op = "select" /\ DoSelect(c.s, c.v)
    \/ c.op = "send" /\ DoSend(c.s)
    \/ c.op = "withdraw" /\ DoWithdraw(c.s)
    \/ c.op = "supersede" /\ DoSupersede(c.s)
    \/ c.op = "register" /\ DoRegister(c.s, c.v, c.more)
    \/ c.op = "compose" /\ DoCompose(c.s, c.d, c.more, c.working)
    \/ c.op = "visibility" /\ DoSetVisibility(c.value)
    \/ c.op = "toggle" /\ DoToggle(c.value)

-----------------------------------------------------------------------------
(* What a call takes, in order.  The first row it saves takes the gate      *)
(* (post_save refreshes the search index), before or after its last lock.   *)

DocumentsOf(S) == {v[1] : v \in S \ {NoVersion}}

\* The letter's Document, then those of the other files.
InTurn(letter, more) ==
    SetToSeq(DocumentsOf({letter})) \o SetToSeq(DocumentsOf(more) \ DocumentsOf({letter}))

Order(c) ==
    CASE c.op \in {"file", "compose", "visibility", "toggle"} -> <<Matter, Gate>>
      [] c.op = "draft" -> <<Gate>>
      [] c.op \in {"version", "remove"} -> <<Matter, c.d, Gate>>
      [] c.op \in {"attach", "withdraw", "supersede"} -> <<Matter, c.s, Gate>>
      [] c.op = "select" -> <<Matter, c.s, c.v[1], Gate>>
      [] c.op = "send" ->
             <<Matter, c.s>> \o InTurn(sub[c.s].final, sub[c.s].further) \o <<Gate>>
      [] c.op = "register" -> <<Matter, Gate>> \o InTurn(c.v, c.more)

\* Mutant of Takes: the visibility of a Matter is judged before it is locked.
TakesVisibilityLate(c) == IF c.op = "visibility" THEN <<Gate>> ELSE Order(c)

\* Mutant of Takes: a removal locks the Document, then the Matter.
TakesDocumentFirst(c) == IF c.op = "remove" THEN <<c.d, Matter, Gate>> ELSE Order(c)

Takes(c) == Order(c)

\* Mutant of Strength: plain FOR UPDATE.
FullStrength == "update"

Strength == "no key update"

Has(w, x) == IF x = Gate THEN w \in shared ELSE lock[x] = w

\* What a transaction has still to take.
Missing(w) == {x \in Range(Takes(job[w].call)) : ~Has(w, x)}
RowsMissing(w) == Missing(w) \ {Gate}

\* It takes x next: it has all that comes before.
TakesNext(w, x) ==
    LET takes == Takes(job[w].call) IN
    \E i \in DOMAIN takes :
        /\ takes[i] = x /\ ~Has(w, x)
        /\ \A k \in 1..(i - 1) : Has(w, takes[k])

\* A row that is created has a key of its own.
Creates(c) ==
    CASE c.op \in {"file"} -> {c.d}
      [] c.op = "attach" -> {c.d}
      [] c.op \in {"draft", "register"} -> {c.s}
      [] c.op = "compose" -> {c.s, c.d} \cup c.more \cup c.working
      [] OTHER -> {}

Exists(x) == IF x \in Documents THEN doc[x].versions > 0 ELSE sub[x].status # "none"

Names(c) ==
    CASE c.op \in {"version", "remove"} -> {c.d}
      [] c.op \in {"attach", "send", "withdraw", "supersede"} -> {c.s}
      [] c.op = "select" -> {c.s, c.v[1]}
      [] c.op = "register" -> {v[1] : v \in c.more \cup {c.v}}
      [] OTHER -> {}

-----------------------------------------------------------------------------
Idle == [step |-> "idle", call |-> NoCall]

Init ==
    /\ FileInit
    /\ lock = [r \in Rows |-> Nobody]
    /\ shared = {}
    /\ job = [w \in Writers |-> Idle]
    /\ batch = "idle"
    /\ acts = 0

\* A person saves what the page showed: rows that exist, or new ones.
Begin(w) ==
    /\ job[w].step = "idle" /\ acts < MaxActs
    /\ \E c \in Calls :
         /\ \A x \in Names(c) : Exists(x)
         /\ \A x \in Creates(c) : /\ ~Exists(x)
                                  /\ \A u \in Writers : x \notin Creates(job[u].call)
         /\ job' = [job EXCEPT ![w] = [step |-> "locking", call |-> c]]
    /\ acts' = acts + 1
    /\ UNCHANGED <<fileVars, lock, shared, batch>>

TakeRow(w) ==
    /\ job[w].step \in {"locking", "saving"}
    /\ \E r \in Rows :
         /\ TakesNext(w, r) /\ lock[r] = Nobody
         /\ lock' = [lock EXCEPT ![r] = w]
    /\ UNCHANGED <<fileVars, shared, job, batch, acts>>

\* _hold_off_a_rebuild: the shared side, behind a batch that has asked.
TakeGate(w) ==
    /\ job[w].step \in {"locking", "saving"} /\ TakesNext(w, Gate)
    /\ job[w].step = "saving" \/ RowsMissing(w) # {}
    /\ batch = "idle"
    /\ shared' = shared \cup {w}
    /\ UNCHANGED <<fileVars, lock, job, batch, acts>>

Release(w) ==
    /\ lock' = [r \in Rows |-> IF lock[r] = w THEN Nobody ELSE lock[r]]
    /\ shared' = shared \ {w}
    /\ job' = [job EXCEPT ![w] = Idle]

\* The questions, under the locks; a refusal rolls back.
Decide(w) ==
    /\ job[w].step = "locking" /\ RowsMissing(w) = {}
    /\ IF Can(job[w].call)
       THEN job' = [job EXCEPT ![w].step = "saving"] /\ UNCHANGED <<lock, shared>>
       ELSE Release(w)
    /\ UNCHANGED <<fileVars, batch, acts>>

Commit(w) ==
    /\ job[w].step = "saving" /\ Missing(w) = {}
    /\ Do(job[w].call)
    /\ Release(w)
    /\ UNCHANGED <<batch, acts>>

\* A rebuild's batch asks for the gate alone, fills rows that refer to every
\* Matter, Submission and Document, and commits; it gives up when it waits too
\* long.
AskGate ==
    /\ batch = "idle"
    /\ batch' = "waiting"
    /\ UNCHANGED <<fileVars, lock, shared, job, acts>>

EnterGate ==
    /\ batch = "waiting" /\ shared = {}
    /\ batch' = "filling"
    /\ UNCHANGED <<fileVars, lock, shared, job, acts>>

\* The rows whose lock stands in the way of the FOR KEY SHARE of a reference.
Blocking == {r \in Rows : Strength = "update" /\ lock[r] # Nobody}

LeaveGate ==
    /\ batch = "filling" /\ Blocking = {}
    /\ batch' = "idle"
    /\ UNCHANGED <<fileVars, lock, shared, job, acts>>

GiveUp ==
    /\ batch \in {"waiting", "filling"}
    /\ batch' = "idle"
    /\ UNCHANGED <<fileVars, lock, shared, job, acts>>

Next ==
    \/ \E w \in Writers : Begin(w) \/ TakeRow(w) \/ TakeGate(w) \/ Decide(w) \/ Commit(w)
    \/ AskGate \/ EnterGate \/ LeaveGate \/ GiveUp

Spec == Init /\ [][Next]_vars

-----------------------------------------------------------------------------
(* Properties                                                               *)

Waits(p) ==
    IF p = Rebuild
    THEN CASE batch = "waiting" -> shared
           [] batch = "filling" -> {lock[r] : r \in Blocking}
           [] OTHER -> {}
    ELSE {q \in Writers \cup {Rebuild} :
            /\ job[p].step # "idle"
            /\ \/ q = Rebuild /\ batch # "idle" /\ TakesNext(p, Gate)
               \/ \E r \in Rows : lock[r] = q /\ TakesNext(p, r)}

\* No transaction and no batch of a rebuild wait for one another in a ring:
\* the order of the rows and the strength of their locks see to it, without a
\* victim for PostgreSQL to choose.
NoWaitCycle ==
    LET waits == [p \in Writers \cup {Rebuild} |-> Waits(p)] IN
    \A S \in SUBSET (Writers \cup {Rebuild}) :
        S # {} => \E p \in S : waits[p] \cap S = {}

\* Every commit is a call that could have been made at that moment alone: what
\* it asked before it waited for the gate is still so when it writes.
ImplementsSentEvidence == FileSpec
=============================================================================
