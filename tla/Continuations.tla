---------------------------- MODULE Continuations ----------------------------
(***************************************************************************)
(* Several Matters and the live pointers between them: a closure that      *)
(* names the Matter the work continues under (Jarglane), a relation, the   *)
(* citation of another Matter's opinion, and the deletion that refuses     *)
(* while anything points at its Matter (app/matters/services.py,           *)
(* app/matters/deletion.py, app/related_materials/services.py, with the    *)
(* lock order of app/matters/locks.py).                                    *)
(*                                                                         *)
(* Each write is one transaction.  What it reads before it has its locks   *)
(* may be stale when it has them, what it decides under them must still    *)
(* hold when it commits, and the rows it locks are taken in the order of   *)
(* their keys, which are the elements of Matters here.                     *)
(***************************************************************************)
EXTENDS Naturals, FiniteSets

CONSTANTS
    Matters,   \* the Matters, numbered in the order of their primary keys
    Writers,   \* concurrent transactions
    NoWriter,  \* a row nobody has locked
    Starts,    \* the continuations a run may start from
    MaxHops,   \* CYCLE_CHECK_HOPS: steps the cycle check follows
    MaxRows,   \* bound on the relation and citation rows kept at one time
    MaxActs    \* bound on the transactions a run begins

None == 0

ASSUME MattersAssumption ==
    Matters \subseteq Nat \ {0} /\ IsFiniteSet(Matters)
ASSUME WritersAssumption == NoWriter \notin Writers

\* Some Matters whose continuations go round among themselves.
HasRing(next) == \E S \in (SUBSET Matters) \ {{}} : \A m \in S : next[m] \in S

ASSUME StartsAssumption ==
    /\ Starts \subseteq [Matters -> Matters \cup {None}]
    /\ \A next \in Starts : ~HasRing(next)
ASSUME BoundsAssumption == MaxHops \in Nat /\ MaxRows \in Nat /\ MaxActs \in Nat

VARIABLES
    open,        \* Matter.is_open
    successor,   \* Matter.superseded_by
    deleted,     \* the tombstones: deleted_at is set
    related,     \* MatterRelation rows, the smaller key first
    cited,       \* MatterBackgroundMaterial rows: <<citing, cited opinion's Matter>>
    lock,        \* who holds each Matter row FOR NO KEY UPDATE
    job,         \* what each transaction is doing
    acts         \* transactions begun

vars == <<open, successor, deleted, related, cited, lock, job, acts>>
rows == <<open, successor, deleted, related, cited>>

Pairs == Matters \X Matters
Ops == {"close", "reopen", "delete", "link", "unlink", "cite", "uncite"}

\* A transaction: what it does, to which Matter and which other one, the rows
\* it still has to lock, where a walk along the chain has come to, what that
\* walk has met, and the rows a deletion collected before it deletes them.
Job == [op : Ops \cup {"none"},
        step : {"idle", "reading", "locking", "walking", "writing"},
        matter : Matters \cup {None}, other : Matters \cup {None},
        want : SUBSET Matters, at : Matters \cup {None},
        seen : SUBSET Matters, owned : SUBSET Pairs]
Idle == [op |-> "none", step |-> "idle", matter |-> None, other |-> None,
         want |-> {}, at |-> None, seen |-> {}, owned |-> {}]

TypeOK ==
    /\ open \in [Matters -> BOOLEAN]
    /\ successor \in [Matters -> Matters \cup {None}]
    /\ deleted \subseteq Matters
    /\ related \subseteq Pairs
    /\ cited \subseteq Pairs
    /\ lock \in [Matters -> Writers \cup {NoWriter}]
    /\ job \in [Writers -> Job]
    /\ acts \in Nat

Held(w) == {m \in Matters : lock[m] = w}

\* The row lock_matters_in_order takes next: ascending primary key.
NextRow(want) == CHOOSE m \in want : \A n \in want : m <= n

CanonicalPair(m, n) == IF m < n THEN <<m, n>> ELSE <<n, m>>

Init ==
    /\ successor \in Starts
    /\ open = [m \in Matters |-> successor[m] = None]
    /\ deleted = {} /\ related = {} /\ cited = {}
    /\ lock = [m \in Matters |-> NoWriter]
    /\ job = [w \in Writers |-> Idle]
    /\ acts = 0

-----------------------------------------------------------------------------
(* A transaction begins, locks and ends                                     *)

Start(w, op, m, other, step, want) ==
    /\ job[w] = Idle
    /\ acts < MaxActs
    /\ {m, other} \cap deleted = {}
    /\ job' = [job EXCEPT ![w] =
         [Idle EXCEPT !.op = op, !.step = step, !.matter = m, !.other = other,
                      !.want = want, !.at = other]]
    /\ acts' = acts + 1
    /\ UNCHANGED <<rows, lock>>

\* close_matter with no successor locks its one row; with a successor it first
\* reads the successor's chain, without locks.
BeginClose(w, m) == Start(w, "close", m, None, "locking", {m})
BeginContinue(w, m, n) ==
    m # n /\ Start(w, "close", m, n, "reading", {m, n})

BeginReopen(w, m) == Start(w, "reopen", m, None, "locking", {m})
BeginDelete(w, m) == Start(w, "delete", m, None, "locking", {m})

\* Mutant of PairRows: only the Matter the row is written on is locked.
OwnRow(m, n) == {m}

\* _lock_pair: both Matters, because the row being written points at both.
PairRows(m, n) == {m, n}

BeginLink(w, m, n) ==
    m # n /\ Start(w, "link", m, n, "locking", PairRows(m, n))
BeginCite(w, m, n) ==
    m # n /\ Start(w, "cite", m, n, "locking", PairRows(m, n))
BeginUnlink(w, m, n) ==
    CanonicalPair(m, n) \in related /\ Start(w, "unlink", m, n, "locking", {m})
BeginUncite(w, m, n) ==
    <<m, n>> \in cited /\ Start(w, "uncite", m, n, "locking", {m})

\* _forward_chain_ids, one unlocked read a step: it ends at the last Matter of
\* the chain, at the Matter being closed and at a row met twice.
ReadChain(w) ==
    LET j == job[w]
        following == successor[j.at] IN
    /\ j.step = "reading"
    /\ job' = [job EXCEPT ![w] =
         IF following \in j.want \cup {None}
         THEN [j EXCEPT !.step = "locking", !.at = None]
         ELSE [j EXCEPT !.want = @ \cup {following}, !.at = following]]
    /\ UNCHANGED <<rows, lock, acts>>

\* Mutant of LockNext: the rows are locked in whatever order comes first.
LockAny(w) ==
    LET j == job[w] IN
    /\ j.step = "locking"
    /\ \E m \in j.want :
        /\ lock[m] = NoWriter
        /\ lock' = [lock EXCEPT ![m] = w]
        /\ job' = [job EXCEPT ![w].want = @ \ {m}]
    /\ UNCHANGED <<rows, acts>>

\* lock_matters_in_order and lock_matter_for_write: one row at a time.
LockNext(w) ==
    LET j == job[w]
        m == NextRow(j.want) IN
    /\ j.step = "locking" /\ j.want # {}
    /\ lock[m] = NoWriter
    /\ lock' = [lock EXCEPT ![m] = w]
    /\ job' = [job EXCEPT ![w].want = @ \ {m}]
    /\ UNCHANGED <<rows, acts>>

Released(w) == [m \in Matters |-> IF lock[m] = w THEN NoWriter ELSE lock[m]]

\* The transaction ends; its locks go with it.
End(w) == lock' = Released(w) /\ job' = [job EXCEPT ![w] = Idle]

\* A refusal, a lost connection or a crash rolls the transaction back.
RollBack(w) ==
    /\ job[w] # Idle
    /\ End(w)
    /\ UNCHANGED <<rows, acts>>

-----------------------------------------------------------------------------
(* What each one asks of the rows once it has them                          *)

Live(m) == m \notin deleted

\* plan_matter_deletion: refused while a live Matter continues as this one or
\* another Matter cites an opinion of this one.
DeletionBlocked(m) ==
    \/ \E p \in Matters \ {m} : Live(p) /\ successor[p] = m
    \/ \E p \in Matters : <<p, m>> \in cited

Permitted(w) ==
    LET j == job[w]
        m == j.matter IN
    CASE j.op = "close"  -> Live(m) /\ open[m] /\ (j.other # None => Live(j.other))
      [] j.op = "reopen" -> Live(m) /\ ~open[m]
      [] j.op = "delete" -> Live(m) /\ ~DeletionBlocked(m)
      [] j.op = "link"   -> /\ Live(m) /\ open[m] /\ Live(j.other)
                            /\ CanonicalPair(m, j.other) \notin related
      [] j.op = "cite"   -> /\ Live(m) /\ open[m] /\ Live(j.other)
                            /\ <<m, j.other>> \notin cited
      [] j.op = "unlink" -> /\ Live(m) /\ open[m]
                            /\ CanonicalPair(m, j.other) \in related
      [] j.op = "uncite" -> Live(m) /\ open[m] /\ <<m, j.other>> \in cited
      [] OTHER -> FALSE

\* The rows that name this Matter, and go with it.
OwnedRows(m) ==
    {r \in related : m \in {r[1], r[2]}} \cup {r \in cited : r[1] = m}

\* Mutant of Decide: the chain read before the locks is believed, not walked.
DecideUnwalked(w) ==
    LET j == job[w] IN
    /\ j.step = "locking" /\ j.want = {}
    /\ Permitted(w)
    /\ job' = [job EXCEPT ![w] =
         [j EXCEPT !.step = "writing",
                   !.owned = IF j.op = "delete" THEN OwnedRows(j.matter) ELSE {}]]
    /\ UNCHANGED <<rows, lock, acts>>

\* The answer under the locks.  A continuation goes on to the cycle check; a
\* deletion collects what it is about to delete; the rest is written as it is.
Decide(w) ==
    LET j == job[w] IN
    /\ j.step = "locking" /\ j.want = {}
    /\ Permitted(w)
    /\ job' = [job EXCEPT ![w] =
         IF j.op = "close" /\ j.other # None
         THEN [j EXCEPT !.step = "walking", !.at = j.other, !.seen = {j.other}]
         ELSE [j EXCEPT !.step = "writing",
                        !.owned = IF j.op = "delete" THEN OwnedRows(j.matter) ELSE {}]]
    /\ UNCHANGED <<rows, lock, acts>>

\* _refuse_continuation_cycle: one step along the rows held.  A row that was
\* not in the chain when it was read is locked now, if nobody holds it; a row
\* somebody holds, the Matter being closed and a chain that is too long leave
\* only RollBack.
Walk(w) ==
    LET j == job[w]
        following == successor[j.at] IN
    /\ j.step = "walking"
    /\ following # j.matter
    /\ Cardinality(j.seen) <= MaxHops
    /\ IF following \in j.seen \cup {None}
       THEN /\ job' = [job EXCEPT ![w] =
                 [j EXCEPT !.step = "writing", !.at = None, !.seen = {}]]
            /\ UNCHANGED lock
       ELSE /\ lock[following] \in {w, NoWriter}
            /\ lock' = [lock EXCEPT ![following] = w]
            /\ job' = [job EXCEPT ![w] =
                 [j EXCEPT !.at = following, !.seen = @ \cup {following}]]
    /\ UNCHANGED <<rows, acts>>

-----------------------------------------------------------------------------
(* What each one writes                                                     *)

Writing(w, op) == job[w].step = "writing" /\ job[w].op = op

WriteClose(w) ==
    /\ Writing(w, "close")
    /\ open' = [open EXCEPT ![job[w].matter] = FALSE]
    /\ successor' = [successor EXCEPT ![job[w].matter] = job[w].other]
    /\ End(w)
    /\ UNCHANGED <<deleted, related, cited, acts>>

\* reopen_matter: the successor goes with the closure that asserted it.
WriteReopen(w) ==
    /\ Writing(w, "reopen")
    /\ open' = [open EXCEPT ![job[w].matter] = TRUE]
    /\ successor' = [successor EXCEPT ![job[w].matter] = None]
    /\ End(w)
    /\ UNCHANGED <<deleted, related, cited, acts>>

\* delete_matter: a tombstone, which keeps its own successor.
WriteDelete(w) ==
    /\ Writing(w, "delete")
    /\ deleted' = deleted \cup {job[w].matter}
    /\ related' = related \ job[w].owned
    /\ cited' = cited \ job[w].owned
    /\ End(w)
    /\ UNCHANGED <<open, successor, acts>>

RoomForRow == Cardinality(related) + Cardinality(cited) < MaxRows

WriteRelation(w) ==
    LET pair == CanonicalPair(job[w].matter, job[w].other) IN
    /\ \/ Writing(w, "link") /\ RoomForRow /\ related' = related \cup {pair}
       \/ Writing(w, "unlink") /\ related' = related \ {pair}
    /\ End(w)
    /\ UNCHANGED <<open, successor, deleted, cited, acts>>

WriteCitation(w) ==
    LET row == <<job[w].matter, job[w].other>> IN
    /\ \/ Writing(w, "cite") /\ RoomForRow /\ cited' = cited \cup {row}
       \/ Writing(w, "uncite") /\ cited' = cited \ {row}
    /\ End(w)
    /\ UNCHANGED <<open, successor, deleted, related, acts>>

Begin(w) ==
    \E m \in Matters :
        \/ BeginClose(w, m) \/ BeginReopen(w, m) \/ BeginDelete(w, m)
        \/ \E n \in Matters :
            \/ BeginContinue(w, m, n)
            \/ BeginLink(w, m, n) \/ BeginUnlink(w, m, n)
            \/ BeginCite(w, m, n) \/ BeginUncite(w, m, n)

Act(w) ==
    \/ ReadChain(w) \/ LockNext(w) \/ Decide(w) \/ Walk(w)
    \/ WriteClose(w) \/ WriteReopen(w) \/ WriteDelete(w)
    \/ WriteRelation(w) \/ WriteCitation(w)

Next == \E w \in Writers : Begin(w) \/ Act(w) \/ RollBack(w)

Spec == Init /\ [][Next]_vars

-----------------------------------------------------------------------------
(* What the locks are for                                                   *)

\* However closures and reopenings meet, no Matter continues, directly or
\* through later stages, as itself (QA-03): two closures that each lock only
\* what they know of must not close a ring between them.
NoContinuationCycle == ~HasRing(successor)

\* No live Matter points at a tombstone: a continuation, a relation or a
\* citation written while its other Matter is being deleted is lost to one of
\* the two (ENG-073, ENG-042).
NoPointerToTombstone ==
    /\ \A m \in Matters : Live(m) /\ successor[m] # None => Live(successor[m])
    /\ \A r \in related \cup cited : Live(r[1]) /\ Live(r[2])

Waits(w, v) ==
    /\ job[w].step = "locking" /\ job[w].want # {}
    /\ lock[NextRow(job[w].want)] = v

\* No transactions wait for one another's rows in a ring, a late row of the
\* cycle check included: PostgreSQL never has to abort one of these writes.
NoWaitCycle ==
    \A S \in (SUBSET Writers) \ {{}} : \E w \in S : \A v \in S : ~Waits(w, v)
=============================================================================
