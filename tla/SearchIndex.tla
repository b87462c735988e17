----------------------------- MODULE SearchIndex -----------------------------
(***************************************************************************)
(* The search projection: app/search/indexing.py, generations.py,          *)
(* freshness.py and signals.py.                                            *)
(*                                                                         *)
(* A record's row is refreshed in the transaction that saves it, in every  *)
(* live generation.  A renamed organisation or person reaches the rows of  *)
(* the whole corpus through a debt row that a full rebuild pays: it fills  *)
(* a new generation batch by batch and swaps it in.  The refresh gate is   *)
(* shared by refreshes and taken exclusively by each step of a rebuild.    *)
(*                                                                         *)
(* What a row says is its record's own text and the names of others, each  *)
(* a version number that the transactions changing it count up.  An        *)
(* extracted file has rows from the publish of its text, until its         *)
(* document is removed; it is read once.  Other deletions are left out.    *)
(***************************************************************************)
EXTENDS Naturals, FiniteSets

CONSTANTS
    Matters,     \* refresh_matters reads them before it takes the gate
    Children,    \* entries, submissions, ...: read under the gate
    Files,       \* versions of documents, whose text a worker extracts
    Writers,     \* transactions of the web process and the extraction worker
    Rebuilders,  \* the refresh worker and operators' rebuild commands
    Worker,      \* the rebuilder that runs only when a rebuild is owed
    MaxText,     \* bound: saves of one record, or renames of a file's document
    MaxNames,    \* bound: renames
    MaxMerges,   \* bound: tag merges
    MaxGen,      \* bound: generations
    MaxFailures, \* bound: rebuilds that fail or are killed
    None

ASSUME SourcesAssumption ==
    Matters \cap Children = {} /\ Files \cap (Matters \cup Children) = {}
ASSUME BoundsAssumption ==
    /\ MaxText \in Nat /\ MaxNames \in Nat /\ MaxMerges \in Nat
    /\ MaxGen \in Nat \ {0} /\ MaxFailures \in Nat
ASSUME NoneAssumption == None \notin Rebuilders

VARIABLES
    text,      \* the committed text of each record
    merges,    \* tag merges committed
    names,     \* renames committed
    published, \* the files with an ACTIVE derivative
    removed,   \* the files whose document is off its Matter
    debt,      \* SearchRebuildDebt: the renames that still owe a rebuild
    state,     \* SearchGeneration: the state of each generation
    rows,      \* SearchDocument: what each generation says of each record
    owner,     \* who holds the rebuild lock
    job,       \* what each rebuilder is doing
    txn,       \* what each writer's transaction is doing
    failures   \* rebuilds that failed or were killed

canonical == <<text, merges, names, published, removed>>
projection == <<state, rows>>
vars == <<text, merges, names, published, removed, debt, state, rows, owner, job, txn, failures>>

Records == Matters \cup Children
Sources == Records \cup Files
Generations == 1..MaxGen
INITIAL_GENERATION == 1

Row == [text : 0..MaxText, names : 0..MaxNames]
NoRow == [text |-> 0, names |-> 0, gone |-> TRUE]

Txn == [pc : {"idle", "read", "gate", "gated", "write", "commit"},
        kind : {"save", "merge", "remove", "publish"}, saves : SUBSET Sources,
        live : SUBSET Generations, view : [Sources -> Row \cup {NoRow}]]
FirstView == [s \in Sources |-> [text |-> 0, names |-> 0]]
IdleTxn == [pc |-> "idle", kind |-> "save", saves |-> {}, live |-> {}, view |-> FirstView]

Job == [pc : {"idle", "claimed", "unfinished", "clear", "begin", "fill", "retired", "pay"},
        claimed : SUBSET (1..MaxNames), number : 0..MaxGen, todo : SUBSET Sources]
IdleJob == [pc |-> "idle", claimed |-> {}, number |-> 0, todo |-> {}]

Init ==
    /\ text = [s \in Sources |-> 0]
    /\ merges = 0
    /\ names = 0
    /\ published = {}
    /\ removed = {}
    /\ debt = {}
    /\ state = [g \in Generations |-> "NONE"]
    /\ rows = [g \in Generations |-> [s \in Sources |->
                  IF g = INITIAL_GENERATION /\ s \in Records THEN FirstView[s] ELSE NoRow]]
    /\ owner = None
    /\ job = [r \in Rebuilders |-> IdleJob]
    /\ txn = [w \in Writers |-> IdleTxn]
    /\ failures = 0

-----------------------------------------------------------------------------
(* Generations and the gate                                                *)

InState(st) == {g \in Generations : state[g] = st}

\* generations.active_generation: without a record, the initial one.
Active == IF InState("ACTIVE") = {} THEN INITIAL_GENERATION
          ELSE CHOOSE g \in InState("ACTIVE") : TRUE

\* Mutant of LiveGenerations: a refresh writes what readers read.
ActiveOnly == {Active}

\* generations.live_generations.
LiveGenerations == {Active} \cup InState("BUILDING")

\* The shared side of the gate is held from the gate to the end of a refresh.
Gated == {w \in Writers : txn[w].pc \in {"gated", "write", "commit"}}

\* Mutant of GateFree: a rebuild's step does not wait for refreshes in flight.
GateIgnored == TRUE

\* The exclusive side: no refresh is between its gate and its commit.
GateFree == Gated = {}

\* What a statement of this transaction sees: its own writes and what is committed.
Saves(w, s) == s \in txn[w].saves /\ txn[w].kind = "save"
Publishes(w, s) == s \in txn[w].saves /\ txn[w].kind = "publish"
Removes(w, s) == s \in txn[w].saves /\ txn[w].kind = "remove"

\* indexable_fragments, fragment_values: the live text of a document on its Matter, under
\* the document's title.
FileRow(title, hasText, gone) ==
    IF hasText /\ ~gone THEN [text |-> title, names |-> 0] ELSE NoRow

Reads(w, s) ==
    LET t == IF Saves(w, s) THEN text[s] + 1 ELSE text[s] IN
    IF s \in Files
    THEN FileRow(t, s \in published \/ Publishes(w, s), s \in removed \/ Removes(w, s))
    ELSE [text |-> t, names |-> names]

-----------------------------------------------------------------------------
(* Business writes                                                         *)

Locked(s) == \E w \in Writers : Saves(w, s) \/ Removes(w, s)
Merging == \E w \in Writers : txn[w].kind = "merge"

Go(w, pc) == txn' = [txn EXCEPT ![w].pc = pc]

\* A save holds its record's row; every save of a Matter holds the Matter. A file is saved
\* by a rename of its document, which a removed one refuses.
Save(w, s) ==
    /\ txn[w].pc = "idle"
    /\ ~Locked(s) /\ s \notin removed
    /\ text[s] < MaxText
    /\ txn' = [txn EXCEPT ![w].pc = IF s \in Matters THEN "read" ELSE "gate",
                          ![w].saves = {s}]
    /\ UNCHANGED <<canonical, debt, projection, owner, job, failures>>

\* merge_tag holds the vocabulary and the tags, and no Matter:
\* refresh_on_tag_merge reprojects the Matters that carry the tag.
MergeTag(w) ==
    /\ txn[w].pc = "idle"
    /\ ~Merging
    /\ merges < MaxMerges
    /\ txn' = [txn EXCEPT ![w].pc = "read", ![w].saves = Matters, ![w].kind = "merge"]
    /\ UNCHANGED <<canonical, debt, projection, owner, job, failures>>

\* remove_document, under the document's lock: its save refreshes its files too.
Remove(w, f) ==
    /\ txn[w].pc = "idle"
    /\ ~Locked(f) /\ f \notin removed
    /\ txn' = [txn EXCEPT ![w].pc = "gate", ![w].saves = {f}, ![w].kind = "remove"]
    /\ UNCHANGED <<canonical, debt, projection, owner, job, failures>>

\* _publish holds the version's row, not its document's.
Publish(w, f) ==
    /\ txn[w].pc = "idle"
    /\ f \notin published /\ \A q \in Writers : ~Publishes(q, f)
    /\ txn' = [txn EXCEPT ![w].pc = "gate", ![w].saves = {f}, ![w].kind = "publish"]
    /\ UNCHANGED <<canonical, debt, projection, owner, job, failures>>

\* A rename commits with its debt, and refreshes nothing.
Rename ==
    /\ names < MaxNames
    /\ names' = names + 1
    /\ debt' = debt \cup {names + 1}
    /\ UNCHANGED <<text, merges, published, removed, projection, owner, job, txn, failures>>

\* refresh_matters reads its Matters and then asks for the gate; the refreshes
\* of the other kinds read once they have it. A save of a document refreshes a file only
\* if it sees text of it (refresh_on_document_change).
Refreshes(w, s) == s \in Files => s \in published \/ Publishes(w, s)

ReadRecords(w) ==
    /\ txn[w].pc \in {"read", "gated"}
    /\ txn' = [txn EXCEPT
           ![w].pc = IF @ = "read" THEN "gate" ELSE "write",
           ![w].live = IF \A s \in txn[w].saves : Refreshes(w, s) THEN @ ELSE {},
           ![w].view = [s \in Sources |-> IF s \in txn[w].saves THEN Reads(w, s) ELSE @[s]]]
    /\ UNCHANGED <<canonical, debt, projection, owner, job, failures>>

\* _hold_off_a_rebuild, and then the live set.
TakeGate(w) ==
    /\ txn[w].pc = "gate"
    /\ txn' = [txn EXCEPT ![w].pc = IF txn[w].saves \subseteq Matters THEN "write" ELSE "gated",
                          ![w].live = LiveGenerations]
    /\ UNCHANGED <<canonical, debt, projection, owner, job, failures>>

Overlap(w, q) ==
    /\ w # q /\ txn[q].pc = "commit" /\ txn[q].saves \cap txn[w].saves # {}
    /\ txn[w].live \cap txn[q].live # {}

\* Delete, then insert, in every live generation.
WriteRows(w) ==
    /\ txn[w].pc = "write"
    /\ \A q \in Writers : ~Overlap(w, q)
    /\ Go(w, "commit")
    /\ UNCHANGED <<canonical, debt, projection, owner, job, failures>>

\* The rows to delete were replaced by a transaction that has not committed:
\* once it has, the insert meets its rows and one-row-per-source, and this
\* business write is rolled back.
Collide(w) ==
    /\ txn[w].pc = "write"
    /\ \E q \in Writers : Overlap(w, q)
    /\ txn' = [txn EXCEPT ![w] = IdleTxn]
    /\ UNCHANGED <<canonical, debt, projection, owner, job, failures>>

Commit(w) ==
    /\ txn[w].pc = "commit"
    /\ merges' = IF txn[w].kind = "merge" THEN merges + 1 ELSE merges
    /\ text' = [s \in Sources |-> IF Saves(w, s) THEN text[s] + 1 ELSE text[s]]
    /\ published' = published \cup {f \in Files : Publishes(w, f)}
    /\ removed' = removed \cup {f \in Files : Removes(w, f)}
    /\ rows' = [g \in Generations |-> [s \in Sources |->
           IF g \in txn[w].live /\ s \in txn[w].saves THEN txn[w].view[s] ELSE rows[g][s]]]
    /\ txn' = [txn EXCEPT ![w] = IdleTxn]
    /\ UNCHANGED <<names, debt, state, owner, job, failures>>

-----------------------------------------------------------------------------
(* A full rebuild                                                          *)

\* The generations that still have a row.
Present == {g \in Generations : \E s \in Sources : rows[g][s] # NoRow}

\* rebuild_and_discharge claims what is owed before anything else.
Claim(r) ==
    /\ job[r].pc = "idle"
    /\ r = Worker => debt # {}
    /\ job' = [job EXCEPT ![r].pc = "claimed", ![r].claimed = debt]
    /\ UNCHANGED <<canonical, debt, projection, owner, txn, failures>>

\* _sole_rebuild: one rebuild at a time; another refuses.
TakeRebuild(r) ==
    /\ job[r].pc = "claimed"
    /\ IF owner = None
       THEN owner' = r /\ job' = [job EXCEPT ![r].pc = "unfinished"]
       ELSE job' = [job EXCEPT ![r] = IdleJob] /\ UNCHANGED owner
    /\ UNCHANGED <<canonical, debt, projection, txn, failures>>

\* Mutant of FailUnfinished: a killed rebuild's generation stays as it is.
LeaveUnfinished(r) ==
    /\ job[r].pc = "unfinished"
    /\ job' = [job EXCEPT ![r].pc = "clear"]
    /\ UNCHANGED <<canonical, debt, projection, owner, txn, failures>>

\* _discard_unfinished: nobody fills the generation a killed rebuild left.
FailUnfinished(r) ==
    /\ job[r].pc = "unfinished"
    /\ state' = [g \in Generations |-> IF state[g] = "BUILDING" THEN "FAILED" ELSE state[g]]
    /\ job' = [job EXCEPT ![r].pc = "clear"]
    /\ UNCHANGED <<canonical, debt, rows, owner, txn, failures>>

\* Mutant of Kept: what readers read is not kept apart.
KeptBuilding(r) == InState("BUILDING") \cup {job[r].number}

Kept(r) == LiveGenerations \cup {job[r].number}

\* _discard_generations: without the gate, and before and after the build.
DiscardGenerations(r) ==
    /\ job[r].pc \in {"clear", "retired"}
    /\ rows' = [g \in Generations |-> IF g \in Kept(r) THEN rows[g]
                                      ELSE [s \in Sources |-> NoRow]]
    /\ job' = [job EXCEPT ![r].pc = IF @ = "clear" THEN "begin" ELSE "pay"]
    /\ owner' = IF job[r].pc = "clear" THEN owner ELSE None
    /\ UNCHANGED <<canonical, debt, state, txn, failures>>

\* _begin_generation: one past the highest number in use.
BeginGeneration(r) ==
    /\ job[r].pc = "begin"
    /\ GateFree
    /\ \E n \in Generations :
           /\ \A g \in Generations :
                  g >= n <=> /\ state[g] = "NONE" /\ g \notin Present
                             /\ g # INITIAL_GENERATION
           /\ state' = [state EXCEPT ![n] = "BUILDING"]
           /\ job' = [job EXCEPT ![r].pc = "fill", ![r].number = n, ![r].todo = Sources]
    /\ UNCHANGED <<canonical, debt, rows, owner, txn, failures>>

\* _fill_batch reads committed records under the exclusive side of the gate;
\* _fill takes the Matters first.
FillBatch(r, s) ==
    /\ job[r].pc = "fill"
    /\ s \in job[r].todo
    /\ s \notin Matters => job[r].todo \cap Matters = {}
    /\ GateFree
    /\ rows' = [rows EXCEPT ![job[r].number][s] =
           IF s \in Files THEN FileRow(text[s], s \in published, s \in removed)
           ELSE [text |-> text[s], names |-> names]]
    /\ job' = [job EXCEPT ![r].todo = @ \ {s}]
    /\ UNCHANGED <<canonical, debt, state, owner, txn, failures>>

\* _activate: the swap, under the gate.
Activate(r) ==
    /\ job[r].pc = "fill"
    /\ job[r].todo = {}
    /\ GateFree
    /\ state' = [g \in Generations |->
           IF g = job[r].number THEN "ACTIVE"
           ELSE IF state[g] = "ACTIVE" THEN "RETIRED" ELSE state[g]]
    /\ job' = [job EXCEPT ![r].pc = "retired"]
    /\ UNCHANGED <<canonical, debt, rows, owner, txn, failures>>

\* Mutant of Paid: everything owed is cleared, not what was claimed.
PaidAll(r) == debt

Paid(r) == job[r].claimed

\* Once the rebuild has committed, the debt it claimed is deleted.
Discharge(r) ==
    /\ job[r].pc = "pay"
    /\ debt' = debt \ Paid(r)
    /\ job' = [job EXCEPT ![r] = IdleJob]
    /\ UNCHANGED <<canonical, projection, owner, txn, failures>>

\* A batch that gives up: the generation is FAILED, and the debt stays.
FailRebuild(r) ==
    /\ job[r].pc = "fill"
    /\ failures < MaxFailures
    /\ failures' = failures + 1
    /\ state' = [state EXCEPT ![job[r].number] = "FAILED"]
    /\ job' = [job EXCEPT ![r] = IdleJob]
    /\ owner' = None
    /\ UNCHANGED <<canonical, debt, rows, txn>>

\* Mutant of KillRebuild: the rebuild lock outlives its session.
KillHolding(r) ==
    /\ job[r].pc # "idle"
    /\ failures < MaxFailures
    /\ failures' = failures + 1
    /\ job' = [job EXCEPT ![r] = IdleJob]
    /\ UNCHANGED <<canonical, debt, projection, owner, txn>>

\* The process is killed: its session's lock goes, its generation stays.
KillRebuild(r) ==
    /\ job[r].pc # "idle"
    /\ failures < MaxFailures
    /\ failures' = failures + 1
    /\ job' = [job EXCEPT ![r] = IdleJob]
    /\ owner' = IF owner = r THEN None ELSE owner
    /\ UNCHANGED <<canonical, debt, projection, txn>>

-----------------------------------------------------------------------------
WriterStep(w) ==
    \/ \E s \in Sources : Save(w, s)
    \/ MergeTag(w)
    \/ \E f \in Files : Remove(w, f) \/ Publish(w, f)
    \/ ReadRecords(w) \/ TakeGate(w) \/ WriteRows(w) \/ Collide(w) \/ Commit(w)

RebuildStep(r) ==
    \/ Claim(r) \/ TakeRebuild(r) \/ FailUnfinished(r) \/ DiscardGenerations(r)
    \/ BeginGeneration(r) \/ \E s \in Sources : FillBatch(r, s)
    \/ Activate(r) \/ Discharge(r)

Next ==
    \/ \E w \in Writers : WriterStep(w)
    \/ Rename
    \/ \E r \in Rebuilders : RebuildStep(r) \/ FailRebuild(r) \/ KillRebuild(r)

Spec == Init /\ [][Next]_vars

\* The worker polls, a rebuild runs on, and a transaction ends.  A request for
\* the gate waits in line: PostgreSQL lets no later refresh past a waiting batch.
Fairness ==
    /\ \A w \in Writers :
           WF_vars(ReadRecords(w) \/ TakeGate(w) \/ WriteRows(w) \/ Collide(w) \/ Commit(w))
    /\ \A r \in Rebuilders :
           /\ WF_vars(TakeRebuild(r) \/ FailUnfinished(r) \/ DiscardGenerations(r) \/ Discharge(r))
           /\ SF_vars(BeginGeneration(r))
           /\ SF_vars(\E s \in Sources : FillBatch(r, s))
           /\ SF_vars(Activate(r))
    /\ WF_vars(Worker \in Rebuilders /\ Claim(Worker))

FairSpec == Spec /\ Fairness

-----------------------------------------------------------------------------
(* Properties                                                              *)

\* What a reader finds of a record: generations.projection.
Found(s) == rows[Active][s]

\* Every variable has its type; one generation is read and one is built.
TypeOK ==
    /\ text \in [Sources -> 0..MaxText]
    /\ merges \in 0..MaxMerges
    /\ names \in 0..MaxNames
    /\ published \subseteq Files
    /\ removed \subseteq Files
    /\ debt \subseteq 1..MaxNames
    /\ state \in [Generations -> {"NONE", "BUILDING", "ACTIVE", "RETIRED", "FAILED"}]
    /\ Cardinality(InState("ACTIVE")) <= 1
    /\ Cardinality(InState("BUILDING")) <= 1
    /\ rows \in [Generations -> [Sources -> Row \cup {NoRow}]]
    /\ owner \in Rebuilders \cup {None}
    /\ job \in [Rebuilders -> Job]
    /\ txn \in [Writers -> Txn]
    /\ failures \in 0..MaxFailures

\* "Readers see one complete generation at every moment" (rebuild_all), through
\* fills, swaps, discards, failures and kills.
ReadersComplete == \A s \in Records : Found(s) # NoRow

Finds(S) == \A s \in S : Found(s) # NoRow => Found(s).text = text[s]

\* "bounded: the index converges with the business transaction" (signals.py):
\* whatever rebuild is under way, a committed save is found as it was saved.
\* A tag merge, which reprojects its Matters while they are saved
\* (refresh_on_tag_merge), may undo that for a Matter.
SavedIsFound == Finds(Children) /\ (merges = 0 => Finds(Matters))

\* A document taken off its Matter is not found by its text: "the search rows are
\* withdrawn by the save's own signal" (remove_document). The signal asks for text it
\* can see; a publish that has not committed asks for a document still on its Matter.
RemovedIsWithdrawn == \A f \in removed : Found(f) = NoRow

\* "high: within one consumer pass, the debt row is in it" (signals.py): a row
\* with an old name is still owed a rebuild.  Not so for a Matter's row:
\* refresh_matters reads the names before it has the gate, and a save that
\* waits there can write them after a rebuild has claimed and paid the debt.
ChildNamesOwed == \A s \in Children : Found(s) # NoRow /\ Found(s).names # names => debt # {}

\* Whatever is owed is paid, by a rebuild that saw it (freshness.py), though
\* rebuilds fail or are killed.
DebtIsPaid == \A d \in 1..MaxNames : d \in debt ~> d \notin debt

=============================================================================
