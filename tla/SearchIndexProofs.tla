-------------------------- MODULE SearchIndexProofs --------------------------
(***************************************************************************)
(* Proofs about the search projection (SearchIndex), for any records,      *)
(* files, writers and rebuilders, and any bounds.                          *)
(*                                                                         *)
(* The argument follows the rows a reader may find, now or after a swap:   *)
(* those of the active generation, and those a rebuild has filled already  *)
(* in the generation it builds.  Each says its record's committed text,    *)
(* and names that are current or still owed a rebuild; and no name is owed *)
(* to a rebuild that has paid for it.  A refresh under way will write such *)
(* a row too, because nothing is filled or swapped while it has the gate.  *)
(***************************************************************************)
EXTENDS SearchIndex, FiniteSetTheorems, TLAPS

-----------------------------------------------------------------------------
(* The inductive invariant                                                 *)

\* The types, apart from how many generations are read and built.
Typed ==
    /\ text \in [Sources -> 0..MaxText]
    /\ merges \in 0..MaxMerges
    /\ names \in 0..MaxNames
    /\ published \subseteq Files
    /\ removed \subseteq Files
    /\ debt \subseteq 1..names
    /\ state \in [Generations -> {"NONE", "BUILDING", "ACTIVE", "RETIRED", "FAILED"}]
    /\ rows \in [Generations -> [Sources -> Row \cup {NoRow}]]
    /\ owner \in Rebuilders \cup {None}
    /\ job \in [Rebuilders -> Job]
    /\ txn \in [Writers -> Txn]
    /\ failures \in 0..MaxFailures

\* One generation at most is read, and one at most is built.
OneOf(st) == \A g, h \in Generations : state[g] = st /\ state[h] = st => g = h

Working == {"unfinished", "clear", "begin", "fill", "retired"}

\* Only the owner of the rebuild lock is at work on a generation, and the one it
\* fills is the only one being built.
JobInOrder(r) ==
    /\ job[r].pc \in Working => owner = r
    /\ job[r].claimed \subseteq 1..names
    /\ job[r].pc \in {"clear", "begin", "retired"} => InState("BUILDING") = {}
    /\ job[r].pc = "fill" =>
        /\ job[r].number \in Generations
        /\ InState("BUILDING") = {job[r].number}

\* What the kind of a transaction says of the rows it saves.
KindInOrder(w) ==
    /\ txn[w].pc = "idle" => txn[w].saves = {} /\ txn[w].kind = "save"
    /\ txn[w].kind = "save" => \A s, u \in txn[w].saves : s = u
    /\ txn[w].kind = "merge" => txn[w].saves = Matters /\ merges < MaxMerges
    /\ txn[w].kind \in {"remove", "publish"} => txn[w].saves \subseteq Files

\* A save has its record to itself; there is one tag merge at a time.
SavesApart ==
    \A w, q \in Writers : w # q =>
        /\ \A s \in Sources : ~(Saves(w, s) /\ Saves(q, s))
        /\ ~(txn[w].kind = "merge" /\ txn[q].kind = "merge")

\* A refresh has read record s.
HasRead(w, s) ==
    /\ s \in txn[w].saves
    /\ txn[w].pc \in {"write", "commit"} \/ (s \in Matters /\ txn[w].pc = "gate")

\* A save reads the text it is about to commit, and its refresh writes every
\* generation that is read or built when it commits.
TxnInOrder(w) ==
    /\ \A s \in Sources : Saves(w, s) => text[s] < MaxText
    /\ \A s \in Records : txn[w].view[s] \in Row
    /\ \A s \in Records : Saves(w, s) /\ HasRead(w, s) => txn[w].view[s].text = text[s] + 1
    /\ txn[w].saves \subseteq Records /\ w \in Gated => LiveGenerations \subseteq txn[w].live

\* Names as of version n are current, or the rebuild for the newest is owed.
Current(n) == n <= names /\ (n # names => names \in debt)

\* A rebuild that claimed its debt read names at least as new.
Since(r, n) == \A d \in job[r].claimed : d <= n

Paying(r) == job[r].pc \in {"retired", "pay"}
Filled(r, s) == job[r].pc = "fill" /\ s \notin job[r].todo

\* The row of record s in generation g is there and says its committed text.
Says(g, s) ==
    /\ rows[g][s] \in Row
    /\ s \in Children \/ merges = 0 => rows[g][s].text = text[s]

\* What readers find of record s.
ActiveInOrder(s) ==
    /\ Says(Active, s)
    /\ s \in Children =>
        /\ Current(rows[Active][s].names)
        /\ \A r \in Rebuilders : Paying(r) => Since(r, rows[Active][s].names)

\* What readers will find of record s once rebuild q has swapped.
FilledInOrder(q, s) ==
    Filled(q, s) =>
        /\ Says(job[q].number, s)
        /\ s \in Children =>
            /\ Current(rows[job[q].number][s].names)
            /\ \A r \in Rebuilders :
                   Paying(r) \/ r = q => Since(r, rows[job[q].number][s].names)

\* What a refresh is about to write of record s of its own.
ViewInOrder(w, s) ==
    s \in txn[w].saves /\ txn[w].pc \in {"write", "commit"} =>
        /\ Current(txn[w].view[s].names)
        /\ \A r \in Rebuilders : Paying(r) \/ Filled(r, s) => Since(r, txn[w].view[s].names)

Inv ==
    /\ Typed
    /\ OneOf("ACTIVE") /\ OneOf("BUILDING")
    /\ \A r \in Rebuilders : JobInOrder(r)
    /\ \A w \in Writers : KindInOrder(w) /\ TxnInOrder(w)
    /\ SavesApart
    /\ \A s \in Records : ActiveInOrder(s)
    /\ \A q \in Rebuilders, s \in Records : FilledInOrder(q, s)
    /\ \A w \in Writers, s \in Children : ViewInOrder(w, s)

-----------------------------------------------------------------------------
(* Generations, rows and views                                             *)

\* A row that is there is not the absence of one.
LEMMA RowsAreThere == NoRow \notin Row
<1>1. "gone" \in DOMAIN NoRow
  BY DEF NoRow
<1>2. \A x \in Row : "gone" \notin DOMAIN x
  BY DEF Row
<1> QED BY <1>1, <1>2

\* The one active generation is the one readers use.
LEMMA ActiveIs ==
    /\ \A g \in Generations : InState("ACTIVE") = {g} => Active = g
    /\ InState("ACTIVE") = {} => Active = INITIAL_GENERATION
    /\ INITIAL_GENERATION \in Generations
    /\ Active \in Generations
    /\ LiveGenerations \subseteq Generations
<1>1. INITIAL_GENERATION \in Generations
  BY BoundsAssumption DEF INITIAL_GENERATION, Generations
<1>2. \A g \in Generations : InState("ACTIVE") = {g} => Active = g
  <2>1. ASSUME NEW g \in Generations, InState("ACTIVE") = {g} PROVE Active = g
    <3>1. InState("ACTIVE") # {} /\ \A h \in InState("ACTIVE") : h = g
      BY <2>1
    <3>2. (CHOOSE h \in InState("ACTIVE") : TRUE) \in InState("ACTIVE")
      BY <3>1
    <3> QED BY <3>1, <3>2 DEF Active
  <2> QED BY <2>1
<1>3. Active \in Generations
  <2>1. InState("ACTIVE") # {} =>
            (CHOOSE h \in InState("ACTIVE") : TRUE) \in InState("ACTIVE")
    OBVIOUS
  <2>2. InState("ACTIVE") \subseteq Generations
    BY DEF InState
  <2> QED BY <1>1, <2>1, <2>2 DEF Active
<1>4. LiveGenerations \subseteq Generations
  BY <1>3 DEF LiveGenerations, InState
<1> QED BY <1>1, <1>2, <1>3, <1>4 DEF Active

Chosen(S) == CHOOSE g \in S : TRUE

\* Nothing but a swap changes what readers use.
LEMMA SameActive ==
    ASSUME InState("ACTIVE")' = InState("ACTIVE")
    PROVE  Active' = Active
<1> DEFINE A == InState("ACTIVE")
<1>1. Active = IF A = {} THEN INITIAL_GENERATION ELSE Chosen(A)
  BY DEF Active, Chosen
<1>2. Active' = IF A' = {} THEN INITIAL_GENERATION ELSE Chosen(A')
  BY DEF Active, Chosen, INITIAL_GENERATION
<1>3. A = A'
  OBVIOUS
<1> HIDE DEF A
<1> QED BY <1>1, <1>2, <1>3 DEF INITIAL_GENERATION

\* Types of what a transaction reads.
LEMMA ReadsTyped ==
    ASSUME Typed, NEW w \in Writers, NEW s \in Sources,
           Saves(w, s) => text[s] < MaxText
    PROVE  /\ Reads(w, s) \in Row \cup {NoRow}
           /\ s \in Records => /\ Reads(w, s) \in Row
                               /\ Reads(w, s).names = names
                               /\ Saves(w, s) => Reads(w, s).text = text[s] + 1
<1> DEFINE t == IF Saves(w, s) THEN text[s] + 1 ELSE text[s]
<1>1. t \in 0..MaxText
  <2>1. text[s] \in 0..MaxText /\ text[s] \in Nat
    BY BoundsAssumption DEF Typed
  <2>2. text[s] < MaxText => text[s] + 1 \in 0..MaxText
    BY <2>1, BoundsAssumption
  <2> QED BY <2>1, <2>2
<1>2. names \in 0..MaxNames /\ 0 \in 0..MaxNames
  BY BoundsAssumption DEF Typed
<1>3. CASE s \in Files
  <2>1. s \notin Records
    BY <1>3, SourcesAssumption DEF Records
  <2>2. [text |-> t, names |-> 0] \in Row
    BY <1>1, <1>2 DEF Row
  <2> QED BY <1>3, <2>1, <2>2 DEF Reads, FileRow
<1>4. CASE s \notin Files
  <2>1. Reads(w, s) = [text |-> t, names |-> names]
    BY <1>4 DEF Reads
  <2>2. Reads(w, s) \in Row /\ Reads(w, s).names = names /\ Reads(w, s).text = t
    BY <1>1, <1>2, <2>1 DEF Row
  <2> QED BY <2>2
<1> QED BY <1>3, <1>4

-----------------------------------------------------------------------------
(* Transactions before their commit                                        *)

Apart(w, q) ==
    /\ \A s \in Sources : ~(Saves(w, s) /\ Saves(q, s))
    /\ ~(txn[w].kind = "merge" /\ txn[q].kind = "merge")

\* A step of writer w that commits nothing.
LEMMA QuietWriter ==
    ASSUME Inv, NEW w \in Writers, NEW t \in Txn, txn' = [txn EXCEPT ![w] = t],
           UNCHANGED <<canonical, debt, projection, owner, job, failures>>,
           KindInOrder(w)', TxnInOrder(w)', \A s \in Children : ViewInOrder(w, s)',
           \A q \in Writers \ {w} : Apart(w, q)'
    PROVE  Inv'
<1>1. txn \in [Writers -> Txn]
  BY DEF Inv, Typed
<1>2. txn' \in [Writers -> Txn] /\ txn'[w] = t /\ \A q \in Writers \ {w} : txn'[q] = txn[q]
  BY <1>1
<1>3. /\ text' = text /\ merges' = merges /\ names' = names /\ published' = published
      /\ removed' = removed /\ debt' = debt /\ state' = state /\ rows' = rows
      /\ owner' = owner /\ job' = job /\ failures' = failures
  BY DEF canonical, projection
<1>4. (\A st : InState(st)' = InState(st)) /\ Active' = Active
  <2>1. \A st : InState(st)' = InState(st)
    BY <1>3 DEF InState
  <2> QED BY <2>1, SameActive
<1>5. LiveGenerations' = LiveGenerations
  BY <1>4 DEF LiveGenerations
<1>6. Typed'
  BY <1>2, <1>3 DEF Inv, Typed
<1>7. OneOf("ACTIVE")' /\ OneOf("BUILDING")'
  BY <1>3 DEF Inv, OneOf
<1>8. \A r \in Rebuilders : JobInOrder(r)'
  BY <1>3, <1>4 DEF Inv, JobInOrder
<1>9. ASSUME NEW q \in Writers \ {w}
      PROVE  KindInOrder(q)' /\ TxnInOrder(q)' /\ \A s \in Children : ViewInOrder(q, s)'
  <2>1. KindInOrder(q) /\ TxnInOrder(q) /\ (\A s \in Children : ViewInOrder(q, s))
        /\ txn'[q] = txn[q]
    BY <1>2 DEF Inv
  <2>2. KindInOrder(q)'
    BY <1>3, <2>1 DEF KindInOrder
  <2>3. TxnInOrder(q)'
    BY <1>3, <1>5, <2>1 DEF TxnInOrder, Saves, HasRead, Gated
  <2>4. \A s \in Children : ViewInOrder(q, s)'
    BY <1>3, <2>1 DEF ViewInOrder, Current, Since, Paying, Filled
  <2> QED BY <2>2, <2>3, <2>4
<1>10. SavesApart'
  BY <1>2 DEF Inv, SavesApart, Apart, Saves
<1>11. \A s \in Records : ActiveInOrder(s)'
  BY <1>3, <1>4 DEF Inv, ActiveInOrder, Says, Current, Since, Paying
<1>12. \A q \in Rebuilders, s \in Records : FilledInOrder(q, s)'
  BY <1>3 DEF Inv, FilledInOrder, Filled, Says, Current, Since, Paying
<1> QED BY <1>6, <1>7, <1>8, <1>9, <1>10, <1>11, <1>12 DEF Inv

\* An idle transaction has nothing.
LEMMA IdleIsTxn == IdleTxn \in Txn /\ \A s \in Sources : IdleTxn.view[s] \in Row
<1>1. 0 \in 0..MaxText /\ 0 \in 0..MaxNames
  BY BoundsAssumption
<1>2. FirstView \in [Sources -> Row]
  BY <1>1 DEF FirstView, Row
<1> QED BY <1>2 DEF IdleTxn, Txn

LEMMA CollideKeeps ==
    ASSUME Inv, NEW w \in Writers, Collide(w)
    PROVE  Inv'
<1>1. /\ txn' = [txn EXCEPT ![w] = IdleTxn]
      /\ UNCHANGED <<canonical, debt, projection, owner, job, failures>>
  BY DEF Collide
<1>2. PICK t \in Txn : t = IdleTxn
  BY IdleIsTxn
<1>3. txn' = [txn EXCEPT ![w] = t]
  BY <1>1, <1>2
<1>4. txn'[w] = IdleTxn
  BY <1>1 DEF Inv, Typed
<1>5. /\ txn'[w].pc = "idle" /\ txn'[w].kind = "save" /\ txn'[w].saves = {}
      /\ \A s \in Sources : txn'[w].view[s] \in Row
  BY <1>4, IdleIsTxn DEF IdleTxn
<1>6. KindInOrder(w)'
  BY <1>5 DEF KindInOrder
<1>7. TxnInOrder(w)'
  BY <1>5 DEF TxnInOrder, Saves, HasRead, Gated, Records, Sources
<1>8. \A s \in Children : ViewInOrder(w, s)'
  BY <1>5 DEF ViewInOrder
<1>9. \A q \in Writers \ {w} : Apart(w, q)'
  BY <1>5 DEF Apart, Saves
<1> QED BY <1>1, <1>3, <1>6, <1>7, <1>8, <1>9, QuietWriter

\* A transaction begins with rows nobody else saves, and has read nothing.
LEMMA BeginsKeeps ==
    ASSUME Inv, NEW w \in Writers, NEW t \in Txn, txn' = [txn EXCEPT ![w] = t],
           UNCHANGED <<canonical, debt, projection, owner, job, failures>>,
           t.pc \in {"read", "gate"}, t.view = txn[w].view,
           t.kind = "save" =>
               /\ \A s, u \in t.saves : s = u
               /\ \A s \in t.saves : /\ text[s] < MaxText
                                     /\ \A q \in Writers : ~Saves(q, s)
                                     /\ s \in Matters => t.pc = "read",
           t.kind = "merge" => t.saves = Matters /\ merges < MaxMerges /\ ~Merging,
           t.kind \in {"remove", "publish"} => t.saves \subseteq Files
    PROVE  Inv'
<1>1. txn'[w] = t /\ \A q \in Writers \ {w} : txn'[q] = txn[q]
  BY DEF Inv, Typed
<1>2. text' = text /\ merges' = merges
  BY DEF canonical
<1>3. t.saves \subseteq Sources /\ t.kind \in {"save", "merge", "remove", "publish"}
  BY DEF Txn
<1>4. KindInOrder(w)'
  BY <1>1, <1>2, <1>3 DEF KindInOrder
<1>5. TxnInOrder(w)'
  <2>1. \A s \in Sources : Saves(w, s)' => text'[s] < MaxText
    BY <1>1, <1>2 DEF Saves
  <2>2. \A s \in Records : txn'[w].view[s] \in Row
    BY <1>1 DEF Inv, TxnInOrder
  <2>3. \A s \in Records : ~(Saves(w, s)' /\ HasRead(w, s)')
    BY <1>1 DEF Saves, HasRead
  <2>4. w \notin Gated'
    BY <1>1 DEF Gated
  <2> QED BY <2>1, <2>2, <2>3, <2>4 DEF TxnInOrder
<1>6. \A s \in Children : ViewInOrder(w, s)'
  BY <1>1 DEF ViewInOrder
<1>7. \A q \in Writers \ {w} : Apart(w, q)'
  BY <1>1 DEF Apart, Saves, Merging
<1> QED BY <1>4, <1>5, <1>6, <1>7, QuietWriter

LEMMA SaveKeeps ==
    ASSUME Inv, NEW w \in Writers, NEW s \in Sources, Save(w, s)
    PROVE  Inv'
<1> DEFINE t == [txn[w] EXCEPT !.pc = IF s \in Matters THEN "read" ELSE "gate",
                               !.saves = {s}]
<1>1. /\ txn[w].pc = "idle" /\ ~Locked(s) /\ text[s] < MaxText
      /\ txn' = [txn EXCEPT ![w] = t]
      /\ UNCHANGED <<canonical, debt, projection, owner, job, failures>>
  BY DEF Save
<1>2. txn[w] \in Txn /\ txn[w].kind = "save"
  BY <1>1 DEF Inv, Typed, KindInOrder
<1>3. /\ t \in Txn /\ t.pc = (IF s \in Matters THEN "read" ELSE "gate") /\ t.kind = "save"
      /\ t.saves = {s} /\ t.view = txn[w].view
  BY <1>2 DEF Txn
<1>4. \A q \in Writers : ~Saves(q, s)
  BY <1>1 DEF Locked
<1> HIDE DEF t
<1>5. PICK u \in Txn : u = t
  BY <1>3
<1> QED BY <1>1, <1>3, <1>4, <1>5, BeginsKeeps

LEMMA MergeTagKeeps ==
    ASSUME Inv, NEW w \in Writers, MergeTag(w)
    PROVE  Inv'
<1> DEFINE t == [txn[w] EXCEPT !.pc = "read", !.saves = Matters, !.kind = "merge"]
<1>1. /\ ~Merging /\ merges < MaxMerges
      /\ txn' = [txn EXCEPT ![w] = t]
      /\ UNCHANGED <<canonical, debt, projection, owner, job, failures>>
  BY DEF MergeTag
<1>2. txn[w] \in Txn /\ Matters \subseteq Sources
  BY DEF Inv, Typed, Sources, Records
<1>3. /\ t \in Txn /\ t.pc = "read" /\ t.kind = "merge"
      /\ t.saves = Matters /\ t.view = txn[w].view
  BY <1>2 DEF Txn
<1> HIDE DEF t
<1>4. PICK u \in Txn : u = t
  BY <1>3
<1> QED BY <1>1, <1>3, <1>4, BeginsKeeps

LEMMA RemoveOrPublishKeeps ==
    ASSUME Inv, NEW w \in Writers, NEW f \in Files, Remove(w, f) \/ Publish(w, f)
    PROVE  Inv'
<1>1. PICK k \in {"remove", "publish"} :
          /\ txn' = [txn EXCEPT ![w].pc = "gate", ![w].saves = {f}, ![w].kind = k]
          /\ UNCHANGED <<canonical, debt, projection, owner, job, failures>>
  BY DEF Remove, Publish
<1> DEFINE t == [txn[w] EXCEPT !.pc = "gate", !.saves = {f}, !.kind = k]
<1>2. txn' = [txn EXCEPT ![w] = t]
  BY <1>1
<1>3. txn[w] \in Txn /\ {f} \subseteq Sources
  BY DEF Inv, Typed, Sources
<1>4. /\ t \in Txn /\ t.pc = "gate" /\ t.kind = k
      /\ t.saves = {f} /\ t.view = txn[w].view
  BY <1>3 DEF Txn
<1> HIDE DEF t
<1>5. PICK u \in Txn : u = t
  BY <1>4
<1> QED BY <1>1, <1>2, <1>4, <1>5, BeginsKeeps

\* A transaction goes on with the rows it began with.
LEMMA ContinuesKeeps ==
    ASSUME Inv, NEW w \in Writers, NEW t \in Txn, txn' = [txn EXCEPT ![w] = t],
           UNCHANGED <<canonical, debt, projection, owner, job, failures>>,
           t.pc # "idle", t.saves = txn[w].saves, t.kind = txn[w].kind,
           TxnInOrder(w)', \A s \in Children : ViewInOrder(w, s)'
    PROVE  Inv'
<1>1. txn'[w] = t /\ \A q \in Writers \ {w} : txn'[q] = txn[q]
  BY DEF Inv, Typed
<1>2. merges' = merges
  BY DEF canonical
<1>3. KindInOrder(w)'
  BY <1>1, <1>2 DEF Inv, KindInOrder
<1>4. \A q \in Writers \ {w} : Apart(w, q)'
  BY <1>1 DEF Inv, SavesApart, Apart, Saves
<1> QED BY <1>3, <1>4, QuietWriter

LEMMA ReadRecordsKeeps ==
    ASSUME Inv, NEW w \in Writers, ReadRecords(w)
    PROVE  Inv'
<1> DEFINE pc == IF txn[w].pc = "read" THEN "gate" ELSE "write"
           live == IF \A s \in txn[w].saves : Refreshes(w, s) THEN txn[w].live ELSE {}
           view == [s \in Sources |-> IF s \in txn[w].saves THEN Reads(w, s)
                                                            ELSE txn[w].view[s]]
           t == [txn[w] EXCEPT !.pc = pc, !.live = live, !.view = view]
<1>1. /\ txn[w].pc \in {"read", "gated"} /\ txn' = [txn EXCEPT ![w] = t]
      /\ UNCHANGED <<canonical, debt, projection, owner, job, failures>>
  BY DEF ReadRecords
<1>2. /\ txn[w] \in Txn /\ Typed /\ TxnInOrder(w)
      /\ \A s \in Sources : Saves(w, s) => text[s] < MaxText
  BY DEF Inv, Typed, TxnInOrder
<1>3. \A s \in Sources :
          /\ Reads(w, s) \in Row \cup {NoRow}
          /\ s \in Records => /\ Reads(w, s) \in Row
                              /\ Reads(w, s).names = names
                              /\ Saves(w, s) => Reads(w, s).text = text[s] + 1
  BY <1>2, ReadsTyped
<1>4. /\ view \in [Sources -> Row \cup {NoRow}]
      /\ \A s \in Sources : view[s] = IF s \in txn[w].saves THEN Reads(w, s)
                                                            ELSE txn[w].view[s]
  BY <1>2, <1>3 DEF Txn
<1>5. pc \in {"gate", "write"} /\ live \in SUBSET Generations /\ (pc = "write" => txn[w].pc = "gated")
  BY <1>1, <1>2 DEF Txn
<1>6. txn[w].saves \subseteq Records => live = txn[w].live
  BY SourcesAssumption DEF Refreshes, Records
<1> HIDE DEF pc, live, view
<1>7. /\ t \in Txn /\ t.pc = pc /\ t.live = live /\ t.view = view
      /\ t.saves = txn[w].saves /\ t.kind = txn[w].kind
  BY <1>2, <1>4, <1>5 DEF Txn
<1> HIDE DEF t
<1>8. txn'[w] = t
  BY <1>1 DEF Inv, Typed
<1>9. /\ text' = text /\ names' = names /\ debt' = debt /\ state' = state /\ job' = job
  BY <1>1 DEF canonical, projection
<1>10. LiveGenerations' = LiveGenerations
  <2>1. \A st : InState(st)' = InState(st)
    BY <1>9 DEF InState
  <2> QED BY <2>1, SameActive DEF LiveGenerations
<1>11. TxnInOrder(w)'
  <2>1. \A s \in Sources : Saves(w, s)' => text'[s] < MaxText
    BY <1>2, <1>7, <1>8, <1>9 DEF Saves
  <2>2. \A s \in Records : txn'[w].view[s] \in Row
    BY <1>2, <1>3, <1>4, <1>7, <1>8 DEF TxnInOrder, Sources
  <2>3. \A s \in Records : Saves(w, s)' /\ HasRead(w, s)' => txn'[w].view[s].text = text'[s] + 1
    BY <1>3, <1>4, <1>7, <1>8, <1>9 DEF Saves, HasRead, Sources
  <2>4. txn'[w].saves \subseteq Records /\ w \in Gated' => LiveGenerations' \subseteq txn'[w].live
    BY <1>2, <1>5, <1>6, <1>7, <1>8, <1>10 DEF TxnInOrder, Gated
  <2> QED BY <2>1, <2>2, <2>3, <2>4 DEF TxnInOrder
<1>12. ASSUME NEW s \in Children PROVE ViewInOrder(w, s)'
  <2> SUFFICES ASSUME s \in txn[w].saves
               PROVE  /\ Current(txn[w].view[s].names)'
                      /\ \A r \in Rebuilders : Since(r, txn[w].view[s].names)'
    BY <1>7, <1>8 DEF ViewInOrder
  <2>1. txn'[w].view[s].names = names
    BY <1>3, <1>4, <1>7, <1>8 DEF Sources, Records
  <2>2. names \in Nat
    BY <1>2, BoundsAssumption DEF Typed
  <2>3. Current(txn[w].view[s].names)'
    BY <1>9, <2>1, <2>2 DEF Current
  <2>4. \A r \in Rebuilders : \A d \in job[r].claimed : d <= names
    BY <2>2 DEF Inv, JobInOrder
  <2> QED BY <1>9, <2>1, <2>3, <2>4 DEF Since
<1>13. PICK u \in Txn : u = t
  BY <1>7
<1> QED BY <1>1, <1>5, <1>7, <1>11, <1>12, <1>13, ContinuesKeeps

LEMMA TakeGateKeeps ==
    ASSUME Inv, NEW w \in Writers, TakeGate(w)
    PROVE  Inv'
<1> DEFINE pc == IF txn[w].saves \subseteq Matters THEN "write" ELSE "gated"
           t == [txn[w] EXCEPT !.pc = pc, !.live = LiveGenerations]
<1>1. /\ txn[w].pc = "gate" /\ txn' = [txn EXCEPT ![w] = t]
      /\ UNCHANGED <<canonical, debt, projection, owner, job, failures>>
  BY DEF TakeGate
<1>2. txn[w] \in Txn /\ TxnInOrder(w) /\ LiveGenerations \subseteq Generations
  BY ActiveIs DEF Inv, Typed
<1>3. pc \in {"write", "gated"} /\ (pc = "write" <=> txn[w].saves \subseteq Matters)
  OBVIOUS
<1> HIDE DEF pc
<1>4. /\ t \in Txn /\ t.pc = pc /\ t.live = LiveGenerations /\ t.view = txn[w].view
      /\ t.saves = txn[w].saves /\ t.kind = txn[w].kind
  BY <1>2, <1>3 DEF Txn
<1> HIDE DEF t
<1>5. txn'[w] = t
  BY <1>1 DEF Inv, Typed
<1>6. text' = text /\ state' = state
  BY <1>1 DEF canonical, projection
<1>7. LiveGenerations' = LiveGenerations
  <2>1. \A st : InState(st)' = InState(st)
    BY <1>6 DEF InState
  <2> QED BY <2>1, SameActive DEF LiveGenerations
<1>8. TxnInOrder(w)'
  <2>1. \A s : HasRead(w, s)' => HasRead(w, s)
    BY <1>1, <1>3, <1>4, <1>5 DEF HasRead
  <2> QED BY <1>2, <1>4, <1>5, <1>6, <1>7, <2>1 DEF TxnInOrder, Saves
<1>9. \A s \in Children : ViewInOrder(w, s)'
  BY <1>3, <1>4, <1>5, SourcesAssumption DEF ViewInOrder
<1>10. PICK u \in Txn : u = t
  BY <1>4
<1> QED BY <1>1, <1>3, <1>4, <1>8, <1>9, <1>10, ContinuesKeeps

LEMMA WriteRowsKeeps ==
    ASSUME Inv, NEW w \in Writers, WriteRows(w)
    PROVE  Inv'
<1> DEFINE t == [txn[w] EXCEPT !.pc = "commit"]
<1>1. /\ txn[w].pc = "write" /\ txn' = [txn EXCEPT ![w] = t]
      /\ UNCHANGED <<canonical, debt, projection, owner, job, failures>>
  BY DEF WriteRows, Go
<1>2. txn[w] \in Txn /\ TxnInOrder(w) /\ \A s \in Children : ViewInOrder(w, s)
  BY DEF Inv, Typed
<1>3. /\ t \in Txn /\ t.pc = "commit" /\ t.live = txn[w].live /\ t.view = txn[w].view
      /\ t.saves = txn[w].saves /\ t.kind = txn[w].kind
  BY <1>2 DEF Txn
<1> HIDE DEF t
<1>4. txn'[w] = t
  BY <1>1 DEF Inv, Typed
<1>5. /\ text' = text /\ names' = names /\ debt' = debt /\ state' = state /\ job' = job
  BY <1>1 DEF canonical, projection
<1>6. LiveGenerations' = LiveGenerations
  <2>1. \A st : InState(st)' = InState(st)
    BY <1>5 DEF InState
  <2> QED BY <2>1, SameActive DEF LiveGenerations
<1>7. TxnInOrder(w)'
  <2>1. (\A s : HasRead(w, s)' => HasRead(w, s)) /\ (w \in Gated' => w \in Gated)
    BY <1>1, <1>3, <1>4 DEF HasRead, Gated
  <2> QED BY <1>2, <1>3, <1>4, <1>5, <1>6, <2>1 DEF TxnInOrder, Saves
<1>8. ASSUME NEW s \in Children PROVE ViewInOrder(w, s)'
  <2>1. /\ Current(txn[w].view[s].names)' <=> Current(txn[w].view[s].names)
        /\ \A r \in Rebuilders :
               /\ Since(r, txn[w].view[s].names)' <=> Since(r, txn[w].view[s].names)
               /\ Paying(r)' = Paying(r) /\ Filled(r, s)' = Filled(r, s)
    BY <1>3, <1>4, <1>5 DEF Current, Since, Paying, Filled
  <2>2. ViewInOrder(w, s)
    BY <1>2
  <2> QED BY <1>1, <1>3, <1>4, <2>1, <2>2 DEF ViewInOrder
<1>9. PICK u \in Txn : u = t
  BY <1>3
<1> QED BY <1>1, <1>3, <1>7, <1>8, <1>9, ContinuesKeeps

-----------------------------------------------------------------------------
(* A commit                                                                *)

\* A refresh of records writes every generation that is read or built.
LEMMA WritesLive ==
    ASSUME Inv, NEW w \in Writers, txn[w].pc = "commit",
           NEW s \in Records, s \in txn[w].saves
    PROVE  /\ LiveGenerations \subseteq txn[w].live
           /\ txn[w].kind \in {"save", "merge"}
           /\ txn[w].kind = "merge" => s \in Matters
<1>1. KindInOrder(w) /\ TxnInOrder(w) /\ txn[w] \in Txn
  BY DEF Inv, Typed
<1>2. w \in Gated
  BY DEF Gated
<1>3. s \notin Files
  BY SourcesAssumption DEF Records
<1>4. txn[w].kind \in {"save", "merge"}
  BY <1>1, <1>3 DEF KindInOrder, Txn
<1>5. txn[w].saves \subseteq Records
  BY <1>1, <1>4 DEF KindInOrder, Records
<1> QED BY <1>1, <1>2, <1>4, <1>5 DEF TxnInOrder, KindInOrder

LEMMA CommitTyped ==
    ASSUME Inv, NEW w \in Writers, Commit(w)
    PROVE  Typed'
<1>1. /\ txn[w] \in Txn /\ KindInOrder(w) /\ Typed
      /\ \A s \in Sources : Saves(w, s) => text[s] < MaxText
  BY DEF Inv, Typed, TxnInOrder
<1>2. text' \in [Sources -> 0..MaxText]
  <2>1. ASSUME NEW s \in Sources
        PROVE  (IF Saves(w, s) THEN text[s] + 1 ELSE text[s]) \in 0..MaxText
    <3>1. text[s] \in 0..MaxText /\ (Saves(w, s) => text[s] < MaxText)
      BY <1>1 DEF Typed
    <3> QED BY <3>1, BoundsAssumption
  <2>2. text' = [s \in Sources |-> IF Saves(w, s) THEN text[s] + 1 ELSE text[s]]
    BY DEF Commit
  <2> QED BY <2>1, <2>2
<1>3. merges' \in 0..MaxMerges
  BY <1>1, BoundsAssumption DEF Commit, KindInOrder, Typed
<1>4. published' \subseteq Files /\ removed' \subseteq Files
  BY <1>1 DEF Commit, Typed
<1>5. rows' \in [Generations -> [Sources -> Row \cup {NoRow}]]
  <2>1. ASSUME NEW g \in Generations, NEW s \in Sources
        PROVE  (IF g \in txn[w].live /\ s \in txn[w].saves THEN txn[w].view[s] ELSE rows[g][s])
                   \in Row \cup {NoRow}
    <3>1. txn[w].view[s] \in Row \cup {NoRow}
      BY <1>1 DEF Txn
    <3>2. rows[g][s] \in Row \cup {NoRow}
      BY <1>1 DEF Typed
    <3> QED BY <3>1, <3>2
  <2>2. rows' = [g \in Generations |-> [s \in Sources |->
            IF g \in txn[w].live /\ s \in txn[w].saves THEN txn[w].view[s] ELSE rows[g][s]]]
    BY DEF Commit
  <2> QED BY <2>1, <2>2
<1>6. txn' \in [Writers -> Txn]
  BY <1>1, IdleIsTxn DEF Commit, Typed
<1>7. UNCHANGED <<names, debt, state, owner, job, failures>>
  BY DEF Commit
<1> QED BY <1>1, <1>2, <1>3, <1>4, <1>5, <1>6, <1>7 DEF Typed

LEMMA CommitKeeps ==
    ASSUME Inv, NEW w \in Writers, Commit(w)
    PROVE  Inv'
<1>1. /\ txn[w].pc = "commit" /\ txn[w] \in Txn /\ KindInOrder(w) /\ TxnInOrder(w) /\ Typed
      /\ merges' = IF txn[w].kind = "merge" THEN merges + 1 ELSE merges
      /\ merges \in Nat
  BY BoundsAssumption DEF Commit, Inv, Typed
<1>2. names' = names /\ debt' = debt /\ state' = state /\ owner' = owner /\ job' = job
  BY DEF Commit
<1>3. \A s \in Sources : text'[s] = IF Saves(w, s) THEN text[s] + 1 ELSE text[s]
  BY DEF Commit
<1>4. \A g \in Generations, s \in Sources :
          rows'[g][s] = IF g \in txn[w].live /\ s \in txn[w].saves THEN txn[w].view[s]
                                                                   ELSE rows[g][s]
  BY DEF Commit
<1>5. /\ txn'[w].pc = "idle" /\ txn'[w].kind = "save" /\ txn'[w].saves = {}
      /\ \A s \in Sources : txn'[w].view[s] \in Row
      /\ \A q \in Writers \ {w} : txn'[q] = txn[q]
  <2>1. txn' = [txn EXCEPT ![w] = IdleTxn]
    BY DEF Commit
  <2>2. txn'[w] = IdleTxn /\ \A q \in Writers \ {w} : txn'[q] = txn[q]
    BY <1>1, <2>1 DEF Typed
  <2> QED BY <2>2, IdleIsTxn DEF IdleTxn
<1>6. (\A st : InState(st)' = InState(st)) /\ Active' = Active
  <2>1. \A st : InState(st)' = InState(st)
    BY <1>2 DEF InState
  <2> QED BY <2>1, SameActive
<1>7. /\ LiveGenerations' = LiveGenerations /\ Active \in LiveGenerations
      /\ LiveGenerations \subseteq Generations
  BY <1>6, ActiveIs DEF LiveGenerations
<1>8. OneOf("ACTIVE")' /\ OneOf("BUILDING")' /\ \A r \in Rebuilders : JobInOrder(r)'
  BY <1>2, <1>6 DEF Inv, OneOf, JobInOrder
<1>9. ASSUME NEW q \in Writers PROVE KindInOrder(q)'
  <2>1. CASE q = w
    BY <1>5, <2>1 DEF KindInOrder
  <2>2. CASE q # w
    <3>1. txn'[q] = txn[q] /\ KindInOrder(q) /\ ~(txn[w].kind = "merge" /\ txn[q].kind = "merge")
      BY <1>5, <2>2 DEF Inv, SavesApart
    <3> QED BY <1>1, <3>1 DEF KindInOrder
  <2> QED BY <2>1, <2>2
<1>10. ASSUME NEW q \in Writers PROVE TxnInOrder(q)'
  <2>1. CASE q = w
    BY <1>5, <2>1 DEF TxnInOrder, Saves, HasRead, Gated, Records, Sources
  <2>2. CASE q # w
    <3>1. txn'[q] = txn[q] /\ TxnInOrder(q) /\ \A s \in Sources : ~(Saves(w, s) /\ Saves(q, s))
      BY <1>5, <2>2 DEF Inv, SavesApart
    <3>2. \A s \in Sources : Saves(q, s) => text'[s] = text[s]
      BY <1>3, <3>1
    <3>3. \A s : /\ Saves(q, s)' = Saves(q, s) /\ HasRead(q, s)' = HasRead(q, s)
                 /\ (q \in Gated') = (q \in Gated)
      BY <3>1 DEF Saves, HasRead, Gated
    <3> QED BY <1>7, <3>1, <3>2, <3>3 DEF TxnInOrder, Records, Sources
  <2> QED BY <2>1, <2>2
<1>11. SavesApart'
  BY <1>5 DEF Inv, SavesApart, Saves
<1>12. ASSUME NEW q \in Writers, NEW s \in Children PROVE ViewInOrder(q, s)'
  <2>1. CASE q = w
    BY <1>5, <2>1 DEF ViewInOrder
  <2>2. CASE q # w
    BY <1>2, <1>5, <2>2 DEF Inv, ViewInOrder, Current, Since, Paying, Filled
  <2> QED BY <2>1, <2>2
<1>13. ASSUME NEW s \in Records, NEW g \in LiveGenerations, Says(g, s)
       PROVE  /\ Says(g, s)'
              /\ s \in Children =>
                    \/ rows'[g][s] = rows[g][s]
                    \/ rows'[g][s] = txn[w].view[s] /\ ViewInOrder(w, s) /\ s \in txn[w].saves
  <2>1. g \in Generations /\ s \in Sources
    BY <1>7 DEF Sources
  <2>2. CASE s \in txn[w].saves
    <3>1. /\ g \in txn[w].live /\ txn[w].kind \in {"save", "merge"}
          /\ txn[w].kind = "merge" => s \in Matters
      BY <1>1, <2>2, WritesLive
    <3>2. rows'[g][s] = txn[w].view[s] /\ txn[w].view[s] \in Row
      BY <1>1, <1>4, <2>1, <2>2, <3>1 DEF TxnInOrder
    <3>3. ASSUME s \in Children \/ merges' = 0 PROVE txn[w].view[s].text = text'[s]
      <4>1. txn[w].kind = "save"
        BY <1>1, <3>1, <3>3, SourcesAssumption
      <4>2. Saves(w, s) /\ HasRead(w, s)
        BY <1>1, <2>2, <4>1 DEF Saves, HasRead
      <4> QED BY <1>1, <1>3, <2>1, <4>2 DEF TxnInOrder
    <3> QED BY <2>2, <3>2, <3>3 DEF Says, Inv
  <2>3. CASE s \notin txn[w].saves
    <3>1. rows'[g][s] = rows[g][s] /\ text'[s] = text[s]
      BY <1>3, <1>4, <2>1, <2>3 DEF Saves
    <3>2. merges' = 0 => merges = 0
      BY <1>1
    <3> QED BY <1>13, <3>1, <3>2 DEF Says
  <2> QED BY <2>2, <2>3
<1>14. ASSUME NEW s \in Records PROVE ActiveInOrder(s)'
  <2>1. ActiveInOrder(s)
    BY DEF Inv
  <2>2. /\ Says(Active, s)'
        /\ s \in Children =>
              \/ rows'[Active][s] = rows[Active][s]
              \/ rows'[Active][s] = txn[w].view[s] /\ ViewInOrder(w, s) /\ s \in txn[w].saves
    <3>1. PICK g : g = Active
      OBVIOUS
    <3> QED BY <1>6, <1>7, <1>13, <2>1, <3>1 DEF ActiveInOrder, Says
  <2>3. ASSUME s \in Children
        PROVE  /\ Current(rows[Active][s].names)'
               /\ \A r \in Rebuilders : Paying(r)' => Since(r, rows[Active][s].names)'
    <3>1. CASE rows'[Active][s] = rows[Active][s]
      BY <1>2, <1>6, <2>1, <2>3, <3>1 DEF ActiveInOrder, Current, Since, Paying
    <3>2. CASE rows'[Active][s] = txn[w].view[s] /\ ViewInOrder(w, s) /\ s \in txn[w].saves
      BY <1>1, <1>2, <1>6, <3>2 DEF ViewInOrder, Current, Since, Paying
    <3> QED BY <2>2, <2>3, <3>1, <3>2
  <2> QED BY <2>2, <2>3 DEF ActiveInOrder
<1>15. ASSUME NEW q \in Rebuilders, NEW s \in Records PROVE FilledInOrder(q, s)'
  <2> SUFFICES ASSUME Filled(q, s) PROVE FilledInOrder(q, s)'
    BY <1>2 DEF FilledInOrder, Filled
  <2>1. FilledInOrder(q, s)
    BY DEF Inv
  <2>2. PICK g : g = job[q].number
    OBVIOUS
  <2>3. g \in LiveGenerations
    BY <2>2 DEF Inv, JobInOrder, Filled, LiveGenerations
  <2>4. /\ Says(g, s)'
        /\ s \in Children =>
              \/ rows'[g][s] = rows[g][s]
              \/ rows'[g][s] = txn[w].view[s] /\ ViewInOrder(w, s) /\ s \in txn[w].saves
    BY <1>13, <2>1, <2>2, <2>3 DEF FilledInOrder
  <2>5. ASSUME s \in Children
        PROVE  /\ Current(rows[g][s].names)'
               /\ \A r \in Rebuilders :
                      Paying(r)' \/ r = q => Since(r, rows[g][s].names)'
    <3>1. CASE rows'[g][s] = rows[g][s]
      BY <1>2, <2>1, <2>2, <2>5, <3>1 DEF FilledInOrder, Current, Since, Paying
    <3>2. CASE rows'[g][s] = txn[w].view[s] /\ ViewInOrder(w, s) /\ s \in txn[w].saves
      BY <1>1, <1>2, <3>2 DEF ViewInOrder, Current, Since, Paying
    <3> QED BY <2>4, <2>5, <3>1, <3>2
  <2> QED BY <1>2, <2>2, <2>4, <2>5 DEF FilledInOrder, Says, Current, Since
<1>16. Typed'
  BY CommitTyped
<1> QED BY <1>8, <1>9, <1>10, <1>11, <1>12, <1>14, <1>15, <1>16 DEF Inv

-----------------------------------------------------------------------------
(* A rename                                                                *)

LEMMA RenameKeeps ==
    ASSUME Inv, Rename
    PROVE  Inv'
<1>1. /\ names < MaxNames /\ names' = names + 1 /\ debt' = debt \cup {names + 1}
      /\ text' = text /\ merges' = merges /\ published' = published /\ removed' = removed
      /\ state' = state /\ rows' = rows /\ owner' = owner /\ job' = job /\ txn' = txn
      /\ failures' = failures
  BY DEF Rename, projection
<1>2. names \in Nat /\ names' \in 0..MaxNames /\ Typed
  BY <1>1, BoundsAssumption DEF Inv, Typed
<1>3. (\A st : InState(st)' = InState(st)) /\ Active' = Active
  <2>1. \A st : InState(st)' = InState(st)
    BY <1>1 DEF InState
  <2> QED BY <2>1, SameActive
<1>4. ASSUME NEW n \in Nat, Current(n) PROVE n <= names' /\ (n # names' => names' \in debt')
  BY <1>1, <1>2, <1>4 DEF Current
<1>5. ASSUME NEW D, D \subseteq 1..names PROVE D \subseteq 1..(names')
  BY <1>1, <1>2, <1>5
<1>6. Typed'
  <2>1. debt' \subseteq 1..(names')
    BY <1>1, <1>2 DEF Typed
  <2> QED BY <1>1, <1>2, <2>1 DEF Typed
<1>7. OneOf("ACTIVE")' /\ OneOf("BUILDING")'
  BY <1>1 DEF Inv, OneOf
<1>8. ASSUME NEW r \in Rebuilders PROVE JobInOrder(r)'
  <2>1. JobInOrder(r)
    BY DEF Inv
  <2>2. job'[r].claimed \subseteq 1..(names')
    BY <1>1, <1>5, <2>1 DEF JobInOrder
  <2> QED BY <1>1, <1>3, <2>1, <2>2 DEF JobInOrder
<1>9. LiveGenerations' = LiveGenerations
  BY <1>3 DEF LiveGenerations
<1>10. ASSUME NEW w \in Writers PROVE KindInOrder(w)' /\ TxnInOrder(w)'
  <2>1. KindInOrder(w) /\ TxnInOrder(w)
    BY DEF Inv
  <2>2. KindInOrder(w)'
    BY <1>1, <2>1 DEF KindInOrder
  <2>3. TxnInOrder(w)'
    BY <1>1, <1>9, <2>1 DEF TxnInOrder, Saves, HasRead, Gated
  <2> QED BY <2>2, <2>3
<1>11. SavesApart'
  BY <1>1 DEF Inv, SavesApart, Saves
<1>12. \A x \in Row : x.names \in Nat
  BY BoundsAssumption DEF Row
<1>13. ASSUME NEW s \in Records PROVE ActiveInOrder(s)'
  <2>1. ActiveInOrder(s)
    BY DEF Inv
  <2>2. Says(Active, s)'
    BY <1>1, <1>3, <2>1 DEF ActiveInOrder, Says
  <2>3. ASSUME s \in Children
        PROVE  /\ Current(rows[Active][s].names)'
               /\ \A r \in Rebuilders : Paying(r)' => Since(r, rows[Active][s].names)'
    <3>1. Current(rows[Active][s].names)'
      BY <1>1, <1>3, <1>4, <1>12, <2>1, <2>3 DEF ActiveInOrder, Says, Current
    <3>2. \A r \in Rebuilders : Paying(r)' => Since(r, rows[Active][s].names)'
      BY <1>1, <1>3, <2>1, <2>3 DEF ActiveInOrder, Since, Paying
    <3> QED BY <3>1, <3>2
  <2> QED BY <2>2, <2>3 DEF ActiveInOrder
<1>14. ASSUME NEW q \in Rebuilders, NEW s \in Records PROVE FilledInOrder(q, s)'
  <2> SUFFICES ASSUME Filled(q, s) PROVE FilledInOrder(q, s)'
    BY <1>1 DEF FilledInOrder, Filled
  <2>1. FilledInOrder(q, s)
    BY DEF Inv
  <2>2. Says(job[q].number, s)'
    BY <1>1, <2>1 DEF FilledInOrder, Says
  <2>3. ASSUME s \in Children
        PROVE  /\ Current(rows[job[q].number][s].names)'
               /\ \A r \in Rebuilders :
                      Paying(r)' \/ r = q => Since(r, rows[job[q].number][s].names)'
    <3>1. Current(rows[job[q].number][s].names)'
      BY <1>1, <1>4, <1>12, <2>1, <2>3 DEF FilledInOrder, Says, Current
    <3>2. \A r \in Rebuilders :
              Paying(r)' \/ r = q => Since(r, rows[job[q].number][s].names)'
      BY <1>1, <2>1, <2>3 DEF FilledInOrder, Since, Paying
    <3> QED BY <3>1, <3>2
  <2> QED BY <2>2, <2>3 DEF FilledInOrder
<1>15. ASSUME NEW w \in Writers, NEW s \in Children PROVE ViewInOrder(w, s)'
  <2> SUFFICES ASSUME s \in txn[w].saves, txn[w].pc \in {"write", "commit"}
               PROVE  /\ Current(txn[w].view[s].names)'
                      /\ \A r \in Rebuilders :
                             Paying(r)' \/ Filled(r, s)' => Since(r, txn[w].view[s].names)'
    BY <1>1 DEF ViewInOrder
  <2>1. ViewInOrder(w, s) /\ txn[w].view[s] \in Row
    BY DEF Inv, TxnInOrder, Records
  <2>2. Current(txn[w].view[s].names)'
    BY <1>1, <1>4, <1>12, <2>1 DEF ViewInOrder, Current
  <2>3. \A r \in Rebuilders :
            Paying(r)' \/ Filled(r, s)' => Since(r, txn[w].view[s].names)'
    BY <1>1, <2>1 DEF ViewInOrder, Since, Paying, Filled
  <2> QED BY <2>2, <2>3
<1> QED BY <1>6, <1>7, <1>8, <1>10, <1>11, <1>13, <1>14, <1>15 DEF Inv

-----------------------------------------------------------------------------
(* Rebuilds                                                                *)

\* What rebuilder r is held to about names, if anything, it was held to before.
Held(r, s) == Paying(r) \/ Filled(r, s)
NoNewer(r) ==
    \A s \in Children : Held(r, s)' => Held(r, s) /\ job'[r].claimed = job[r].claimed

\* A step of rebuilder r, for what it does not touch.
LEMMA JobStep ==
    ASSUME Inv, NEW r \in Rebuilders, UNCHANGED <<canonical, debt, txn>>,
           \A q \in Rebuilders \ {r} : job'[q] = job[q],
           Typed', OneOf("ACTIVE")', OneOf("BUILDING")', JobInOrder(r)',
           \/ job[r].pc \in Working
           \/ /\ UNCHANGED projection
              /\ owner \in {None, r} \/ owner' = owner
              /\ Paying(r)' => Paying(r) /\ job'[r].claimed = job[r].claimed,
           LiveGenerations' \subseteq LiveGenerations \/ GateFree,
           NoNewer(r) \/ GateFree,
           \A s \in Records : ActiveInOrder(s)' /\ FilledInOrder(r, s)'
    PROVE  Inv'
<1>1. text' = text /\ merges' = merges /\ names' = names /\ debt' = debt /\ txn' = txn
  BY DEF canonical
<1>2. ASSUME NEW q \in Rebuilders PROVE JobInOrder(q)'
  <2>1. CASE q = r
    BY <2>1
  <2>2. CASE q # r /\ job[r].pc \in Working
    <3>1. job[q].pc \notin Working /\ job'[q] = job[q] /\ JobInOrder(q)
      BY <2>2 DEF Inv, JobInOrder
    <3> QED BY <1>1, <3>1 DEF JobInOrder, Working
  <2>3. CASE q # r /\ job[r].pc \notin Working
    <3>1. job'[q] = job[q] /\ JobInOrder(q) /\ state' = state
      BY <2>3 DEF Inv, projection
    <3>2. job[q].pc \in Working => owner' = q
      BY <2>3, <3>1, NoneAssumption DEF JobInOrder
    <3>3. InState("BUILDING")' = InState("BUILDING")
      BY <3>1 DEF InState
    <3> QED BY <1>1, <3>1, <3>2, <3>3 DEF JobInOrder
  <2> QED BY <2>1, <2>2, <2>3
<1>3. ASSUME NEW w \in Writers PROVE KindInOrder(w)' /\ TxnInOrder(w)'
  <2>1. KindInOrder(w) /\ TxnInOrder(w)
    BY DEF Inv
  <2>2. w \in Gated => LiveGenerations' \subseteq LiveGenerations
    BY DEF GateFree
  <2>3. (\A s : Saves(w, s)' = Saves(w, s) /\ HasRead(w, s)' = HasRead(w, s))
        /\ Gated' = Gated
    BY <1>1 DEF Saves, HasRead, Gated
  <2>4. KindInOrder(w)'
    BY <1>1, <2>1 DEF KindInOrder
  <2>5. TxnInOrder(w)'
    BY <1>1, <2>1, <2>2, <2>3 DEF TxnInOrder
  <2> QED BY <2>4, <2>5
<1>4. SavesApart'
  BY <1>1 DEF Inv, SavesApart, Saves
<1>5. ASSUME NEW w \in Writers, NEW s \in Children PROVE ViewInOrder(w, s)'
  <2> SUFFICES ASSUME s \in txn[w].saves, txn[w].pc \in {"write", "commit"}
               PROVE  ViewInOrder(w, s)'
    BY <1>1 DEF ViewInOrder
  <2>1. ~GateFree
    BY DEF GateFree, Gated
  <2>2. NoNewer(r) /\ ViewInOrder(w, s)
    BY <2>1 DEF Inv
  <2>3. ASSUME NEW q \in Rebuilders, Held(q, s)'
        PROVE  Held(q, s) /\ job'[q].claimed = job[q].claimed
    <3>1. CASE q = r
      BY <2>2, <2>3, <3>1 DEF NoNewer
    <3>2. CASE q # r
      BY <2>3, <3>2 DEF Held, Paying, Filled
    <3> QED BY <3>1, <3>2
  <2> QED BY <1>1, <2>2, <2>3 DEF ViewInOrder, Current, Since, Held
<1>6. ASSUME NEW q \in Rebuilders, NEW s \in Records PROVE FilledInOrder(q, s)'
  <2>1. CASE q = r
    BY <2>1
  <2>2. CASE q # r
    <3> SUFFICES ASSUME Filled(q, s) PROVE FilledInOrder(q, s)'
      BY <2>2 DEF FilledInOrder, Filled
    <3>1. FilledInOrder(q, s) /\ job'[q] = job[q]
      BY <2>2 DEF Inv
    <3>2. job[r].pc \notin Working
      BY <2>2 DEF Inv, JobInOrder, Filled, Working
    <3>3. rows' = rows
      BY <3>2 DEF projection
    <3>4. ASSUME NEW p \in Rebuilders, Paying(p)' \/ p = q
          PROVE  (Paying(p) \/ p = q) /\ job'[p].claimed = job[p].claimed
      BY <2>2, <3>2, <3>4 DEF Paying
    <3>5. Says(job[q].number, s)'
      BY <1>1, <3>1, <3>3 DEF FilledInOrder, Says
    <3> QED BY <1>1, <3>1, <3>3, <3>4, <3>5 DEF FilledInOrder, Current, Since
  <2> QED BY <2>1, <2>2
<1> QED BY <1>2, <1>3, <1>4, <1>5, <1>6 DEF Inv

\* Readers find what they found, unless they have a new generation or row.
LEMMA ActiveStands ==
    ASSUME Inv, NEW r \in Rebuilders, UNCHANGED <<canonical, debt>>,
           \A q \in Rebuilders \ {r} : job'[q] = job[q],
           Paying(r)' => Paying(r) /\ job'[r].claimed = job[r].claimed,
           Active' = Active, rows'[Active] = rows[Active]
    PROVE  \A s \in Records : ActiveInOrder(s)'
<1>1. text' = text /\ merges' = merges /\ names' = names /\ debt' = debt
  BY DEF canonical
<1>2. ASSUME NEW s \in Records PROVE ActiveInOrder(s)'
  <2>1. ActiveInOrder(s)
    BY DEF Inv
  <2>2. Says(Active, s)'
    BY <1>1, <2>1 DEF ActiveInOrder, Says
  <2>3. ASSUME NEW q \in Rebuilders, Paying(q)'
        PROVE  Paying(q) /\ job'[q].claimed = job[q].claimed
    BY <2>3 DEF Paying
  <2> QED BY <1>1, <2>1, <2>2, <2>3 DEF ActiveInOrder, Current, Since
<1> QED BY <1>2

\* A rebuilder that claims, takes the lock or goes away, with the projection as
\* it is.
LEMMA QuietJob ==
    ASSUME Inv, NEW r \in Rebuilders, NEW j \in Job, job' = [job EXCEPT ![r] = j],
           UNCHANGED <<canonical, debt, projection, txn>>,
           j.pc \in {"idle", "claimed", "unfinished"}, j.claimed \subseteq 1..names,
           owner' \in Rebuilders \cup {None}, failures' \in 0..MaxFailures,
           owner \in {None, r} \/ owner' = owner,
           j.pc = "unfinished" => owner' = r
    PROVE  Inv'
<1>1. /\ text' = text /\ merges' = merges /\ names' = names /\ debt' = debt /\ txn' = txn
      /\ state' = state /\ rows' = rows /\ published' = published /\ removed' = removed
  BY DEF canonical, projection
<1>2. job' \in [Rebuilders -> Job] /\ job'[r] = j /\ \A q \in Rebuilders \ {r} : job'[q] = job[q]
  BY DEF Inv, Typed
<1>3. Typed'
  BY <1>1, <1>2 DEF Inv, Typed
<1>4. OneOf("ACTIVE")' /\ OneOf("BUILDING")'
  BY <1>1 DEF Inv, OneOf
<1>5. JobInOrder(r)'
  BY <1>1, <1>2 DEF JobInOrder, Working
<1>6. Active' = Active /\ LiveGenerations' = LiveGenerations
  <2>1. \A st : InState(st)' = InState(st)
    BY <1>1 DEF InState
  <2> QED BY <2>1, SameActive DEF LiveGenerations
<1>7. ~Paying(r)' /\ \A s : ~Filled(r, s)'
  BY <1>2 DEF Paying, Filled
<1>8. \A s \in Records : ActiveInOrder(s)' /\ FilledInOrder(r, s)'
  BY <1>1, <1>2, <1>6, <1>7, ActiveStands DEF FilledInOrder
<1>9. NoNewer(r)
  BY <1>7 DEF NoNewer, Held
<1> QED BY <1>2, <1>3, <1>4, <1>5, <1>6, <1>7, <1>8, <1>9, JobStep

LEMMA IdleIsJob == IdleJob \in Job
BY BoundsAssumption DEF IdleJob, Job

LEMMA ClaimKeeps ==
    ASSUME Inv, NEW r \in Rebuilders, Claim(r)
    PROVE  Inv'
<1> DEFINE j == [job[r] EXCEPT !.pc = "claimed", !.claimed = debt]
<1>1. /\ job' = [job EXCEPT ![r] = j] /\ owner' = owner /\ failures' = failures
      /\ UNCHANGED <<canonical, debt, projection, txn>>
  BY DEF Claim
<1>2. job[r] \in Job /\ debt \subseteq 1..names /\ debt \subseteq 1..MaxNames
  <2>1. names \in 0..MaxNames /\ debt \subseteq 1..names
    BY DEF Inv, Typed
  <2> QED BY <2>1, BoundsAssumption DEF Inv, Typed
<1>3. j \in Job /\ j.pc = "claimed" /\ j.claimed = debt
  BY <1>2 DEF Job
<1> HIDE DEF j
<1>4. PICK k \in Job : k = j
  BY <1>3
<1>5. owner' \in Rebuilders \cup {None} /\ failures' \in 0..MaxFailures
  BY <1>1 DEF Inv, Typed
<1> QED BY <1>1, <1>2, <1>3, <1>4, <1>5, QuietJob

LEMMA TakeRebuildKeeps ==
    ASSUME Inv, NEW r \in Rebuilders, TakeRebuild(r)
    PROVE  Inv'
<1>1. /\ UNCHANGED <<canonical, debt, projection, txn>> /\ failures' = failures
      /\ job[r] \in Job /\ failures' \in 0..MaxFailures /\ owner \in Rebuilders \cup {None}
  BY DEF TakeRebuild, Inv, Typed
<1>2. CASE owner = None
  <2> DEFINE j == [job[r] EXCEPT !.pc = "unfinished"]
  <2>1. job' = [job EXCEPT ![r] = j] /\ owner' = r
    BY <1>2 DEF TakeRebuild
  <2>2. j \in Job /\ j.pc = "unfinished" /\ j.claimed = job[r].claimed
    BY <1>1 DEF Job
  <2> HIDE DEF j
  <2>3. PICK k \in Job : k = j
    BY <2>2
  <2>4. k.claimed \subseteq 1..names
    BY <2>2, <2>3 DEF Inv, JobInOrder
  <2> QED BY <1>1, <1>2, <2>1, <2>2, <2>3, <2>4, QuietJob
<1>3. CASE owner # None
  <2>1. job' = [job EXCEPT ![r] = IdleJob] /\ owner' = owner
    BY <1>3 DEF TakeRebuild
  <2>2. PICK k \in Job : k = IdleJob
    BY IdleIsJob
  <2>3. k.pc = "idle" /\ k.claimed = {}
    BY <2>2 DEF IdleJob
  <2> QED BY <1>1, <2>1, <2>2, <2>3, QuietJob
<1> QED BY <1>2, <1>3

LEMMA KillRebuildKeeps ==
    ASSUME Inv, NEW r \in Rebuilders, KillRebuild(r)
    PROVE  Inv'
<1>1. /\ UNCHANGED <<canonical, debt, projection, txn>>
      /\ job' = [job EXCEPT ![r] = IdleJob]
      /\ owner' = IF owner = r THEN None ELSE owner
      /\ failures < MaxFailures /\ failures' = failures + 1
  BY DEF KillRebuild
<1>2. failures' \in 0..MaxFailures /\ owner' \in Rebuilders \cup {None}
  BY <1>1, BoundsAssumption DEF Inv, Typed
<1>3. PICK k \in Job : k = IdleJob
  BY IdleIsJob
<1>4. k.pc = "idle" /\ k.claimed = {}
  BY <1>3 DEF IdleJob
<1> QED BY <1>1, <1>2, <1>3, <1>4, QuietJob

\* The owner of the rebuild lock gives up a generation that is built.
LEMMA GivesUp ==
    ASSUME Inv, NEW r \in Rebuilders, NEW j \in Job, job' = [job EXCEPT ![r] = j],
           UNCHANGED <<canonical, debt, rows, txn>>,
           job[r].pc \in Working, j.pc \in {"idle", "clear"}, j.claimed \subseteq 1..names,
           state' \in [Generations -> {"NONE", "BUILDING", "ACTIVE", "RETIRED", "FAILED"}],
           \A g \in Generations :
               /\ state[g] = "ACTIVE" <=> state'[g] = "ACTIVE"
               /\ state'[g] # "BUILDING",
           owner' \in Rebuilders \cup {None}, failures' \in 0..MaxFailures,
           j.pc = "clear" => owner' = r
    PROVE  Inv'
<1>1. /\ text' = text /\ merges' = merges /\ names' = names /\ debt' = debt /\ txn' = txn
      /\ published' = published /\ removed' = removed
  BY DEF canonical
<1>2. job' \in [Rebuilders -> Job] /\ job'[r] = j /\ \A q \in Rebuilders \ {r} : job'[q] = job[q]
  BY DEF Inv, Typed
<1>3. Typed'
  BY <1>1, <1>2 DEF Inv, Typed
<1>4. OneOf("ACTIVE")' /\ OneOf("BUILDING")'
  BY DEF Inv, OneOf
<1>5. InState("ACTIVE")' = InState("ACTIVE") /\ InState("BUILDING")' = {}
  BY DEF InState
<1>6. JobInOrder(r)'
  BY <1>1, <1>2, <1>5 DEF JobInOrder, Working
<1>7. Active' = Active /\ LiveGenerations' \subseteq LiveGenerations
  BY <1>5, SameActive DEF LiveGenerations
<1>8. ~Paying(r)' /\ \A s : ~Filled(r, s)'
  BY <1>2 DEF Paying, Filled
<1>9. \A s \in Records : ActiveInOrder(s)' /\ FilledInOrder(r, s)'
  BY <1>2, <1>7, <1>8, ActiveStands DEF FilledInOrder
<1>10. NoNewer(r)
  BY <1>8 DEF NoNewer, Held
<1> QED BY <1>2, <1>3, <1>4, <1>6, <1>7, <1>9, <1>10, JobStep

LEMMA FailUnfinishedKeeps ==
    ASSUME Inv, NEW r \in Rebuilders, FailUnfinished(r)
    PROVE  Inv'
<1> DEFINE j == [job[r] EXCEPT !.pc = "clear"]
<1>1. /\ job[r].pc = "unfinished" /\ job' = [job EXCEPT ![r] = j]
      /\ state' = [g \in Generations |-> IF state[g] = "BUILDING" THEN "FAILED" ELSE state[g]]
      /\ owner' = owner /\ failures' = failures
      /\ UNCHANGED <<canonical, debt, rows, txn>>
  BY DEF FailUnfinished
<1>2. /\ job[r] \in Job /\ owner = r /\ failures' \in 0..MaxFailures
      /\ state \in [Generations -> {"NONE", "BUILDING", "ACTIVE", "RETIRED", "FAILED"}]
      /\ job[r].claimed \subseteq 1..names
  BY <1>1 DEF Inv, Typed, JobInOrder, Working
<1>3. j \in Job /\ j.pc = "clear" /\ j.claimed = job[r].claimed
  BY <1>2 DEF Job
<1> HIDE DEF j
<1>4. PICK k \in Job : k = j
  BY <1>3
<1>5. /\ state' \in [Generations -> {"NONE", "BUILDING", "ACTIVE", "RETIRED", "FAILED"}]
      /\ \A g \in Generations :
             /\ state[g] = "ACTIVE" <=> state'[g] = "ACTIVE"
             /\ state'[g] # "BUILDING"
  BY <1>1, <1>2
<1>6. job[r].pc \in Working
  BY <1>1 DEF Working
<1> QED BY <1>1, <1>2, <1>3, <1>4, <1>5, <1>6, GivesUp

LEMMA FailRebuildKeeps ==
    ASSUME Inv, NEW r \in Rebuilders, FailRebuild(r)
    PROVE  Inv'
<1>1. /\ job[r].pc = "fill" /\ job' = [job EXCEPT ![r] = IdleJob]
      /\ state' = [state EXCEPT ![job[r].number] = "FAILED"]
      /\ owner' = None /\ failures < MaxFailures /\ failures' = failures + 1
      /\ UNCHANGED <<canonical, debt, rows, txn>>
  BY DEF FailRebuild
<1>2. /\ failures' \in 0..MaxFailures
      /\ state \in [Generations -> {"NONE", "BUILDING", "ACTIVE", "RETIRED", "FAILED"}]
  BY <1>1, BoundsAssumption DEF Inv, Typed
<1>3. /\ job[r].number \in Generations /\ state[job[r].number] = "BUILDING"
      /\ \A g \in Generations : state[g] = "BUILDING" => g = job[r].number
  BY <1>1 DEF Inv, JobInOrder, InState
<1>4. PICK k \in Job : k = IdleJob
  BY IdleIsJob
<1>5. k.pc = "idle" /\ k.claimed = {}
  BY <1>4 DEF IdleJob
<1>6. /\ state' \in [Generations -> {"NONE", "BUILDING", "ACTIVE", "RETIRED", "FAILED"}]
      /\ \A g \in Generations :
             /\ state[g] = "ACTIVE" <=> state'[g] = "ACTIVE"
             /\ state'[g] # "BUILDING"
  BY <1>1, <1>2, <1>3
<1>7. job[r].pc \in Working
  BY <1>1 DEF Working
<1> QED BY <1>1, <1>2, <1>4, <1>5, <1>6, <1>7, GivesUp

\* What is discarded is nothing a reader may find.
LEMMA DiscardGenerationsKeeps ==
    ASSUME Inv, NEW r \in Rebuilders, DiscardGenerations(r)
    PROVE  Inv'
<1> DEFINE pc == IF job[r].pc = "clear" THEN "begin" ELSE "pay"
           j == [job[r] EXCEPT !.pc = pc]
<1>1. /\ job[r].pc \in {"clear", "retired"} /\ job' = [job EXCEPT ![r] = j]
      /\ rows' = [g \in Generations |-> IF g \in Kept(r) THEN rows[g]
                                        ELSE [s \in Sources |-> NoRow]]
      /\ owner' = IF job[r].pc = "clear" THEN owner ELSE None
      /\ UNCHANGED <<canonical, debt, state, txn, failures>>
  BY DEF DiscardGenerations
<1>2. /\ job[r] \in Job /\ owner = r /\ job[r].claimed \subseteq 1..names
      /\ InState("BUILDING") = {} /\ job[r].pc \in Working
      /\ rows \in [Generations -> [Sources -> Row \cup {NoRow}]]
  BY <1>1 DEF Inv, Typed, JobInOrder, Working
<1>3. pc \in {"begin", "pay"} /\ (pc = "begin" <=> job[r].pc = "clear")
  BY <1>1
<1> HIDE DEF pc
<1>4. j \in Job /\ j.pc = pc /\ j.claimed = job[r].claimed
  BY <1>2, <1>3 DEF Job
<1> HIDE DEF j
<1>5. /\ text' = text /\ merges' = merges /\ names' = names /\ debt' = debt /\ txn' = txn
      /\ published' = published /\ removed' = removed /\ state' = state /\ failures' = failures
  BY <1>1 DEF canonical
<1>6. job' \in [Rebuilders -> Job] /\ job'[r] = j /\ \A q \in Rebuilders \ {r} : job'[q] = job[q]
  BY <1>1, <1>4 DEF Inv, Typed
<1>7. rows' \in [Generations -> [Sources -> Row \cup {NoRow}]]
  <2>1. [s \in Sources |-> NoRow] \in [Sources -> Row \cup {NoRow}]
    OBVIOUS
  <2> QED BY <1>1, <1>2, <2>1
<1>8. Typed'
  BY <1>1, <1>5, <1>6, <1>7 DEF Inv, Typed
<1>9. OneOf("ACTIVE")' /\ OneOf("BUILDING")'
  BY <1>5 DEF Inv, OneOf
<1>10. (\A st : InState(st)' = InState(st)) /\ Active' = Active
       /\ LiveGenerations' = LiveGenerations
  <2>1. \A st : InState(st)' = InState(st)
    BY <1>5 DEF InState
  <2> QED BY <2>1, SameActive DEF LiveGenerations
<1>11. JobInOrder(r)'
  BY <1>1, <1>2, <1>3, <1>4, <1>5, <1>6, <1>10 DEF JobInOrder, Working
<1>12. rows'[Active] = rows[Active]
  BY <1>1, ActiveIs DEF Kept, LiveGenerations
<1>13. /\ Paying(r)' => Paying(r) /\ job'[r].claimed = job[r].claimed
       /\ \A s : ~Filled(r, s)'
  BY <1>1, <1>3, <1>4, <1>6 DEF Paying, Filled
<1>14. \A s \in Records : ActiveInOrder(s)' /\ FilledInOrder(r, s)'
  BY <1>1, <1>6, <1>10, <1>12, <1>13, ActiveStands DEF FilledInOrder
<1>15. NoNewer(r)
  BY <1>13 DEF NoNewer, Held
<1> QED BY <1>1, <1>2, <1>6, <1>8, <1>9, <1>10, <1>11, <1>14, <1>15, JobStep

\* A generation begins with none of its rows filled.
LEMMA BeginGenerationKeeps ==
    ASSUME Inv, NEW r \in Rebuilders, BeginGeneration(r)
    PROVE  Inv'
<1>1. PICK n \in Generations :
          /\ \A g \in Generations :
                 g >= n <=> state[g] = "NONE" /\ g \notin Present /\ g # INITIAL_GENERATION
          /\ state' = [state EXCEPT ![n] = "BUILDING"]
          /\ job' = [job EXCEPT ![r].pc = "fill", ![r].number = n, ![r].todo = Sources]
  BY DEF BeginGeneration
<1> DEFINE j == [job[r] EXCEPT !.pc = "fill", !.number = n, !.todo = Sources]
<1>2. /\ job[r].pc = "begin" /\ GateFree /\ job' = [job EXCEPT ![r] = j]
      /\ UNCHANGED <<canonical, debt, rows, owner, txn, failures>>
  <2>1. job' = [job EXCEPT ![r] = j]
    BY <1>1
  <2>2. /\ job[r].pc = "begin" /\ GateFree
        /\ UNCHANGED <<canonical, debt, rows, owner, txn, failures>>
    BY DEF BeginGeneration
  <2> QED BY <2>1, <2>2
<1>3. /\ job[r] \in Job /\ owner = r /\ job[r].claimed \subseteq 1..names
      /\ InState("BUILDING") = {} /\ job[r].pc \in Working
      /\ state \in [Generations -> {"NONE", "BUILDING", "ACTIVE", "RETIRED", "FAILED"}]
  BY <1>2 DEF Inv, Typed, JobInOrder, Working
<1>4. n \in 0..MaxGen /\ n >= n
  BY BoundsAssumption DEF Generations
<1>5. /\ j \in Job /\ j.pc = "fill" /\ j.number = n /\ j.todo = Sources
      /\ j.claimed = job[r].claimed
  BY <1>3, <1>4 DEF Job
<1> HIDE DEF j
<1>6. /\ text' = text /\ merges' = merges /\ names' = names /\ debt' = debt /\ txn' = txn
      /\ published' = published /\ removed' = removed /\ rows' = rows
  BY <1>2 DEF canonical
<1>7. job' \in [Rebuilders -> Job] /\ job'[r] = j /\ \A q \in Rebuilders \ {r} : job'[q] = job[q]
  BY <1>2, <1>5 DEF Inv, Typed
<1>8. Typed'
  BY <1>1, <1>2, <1>3, <1>6, <1>7 DEF Inv, Typed
<1>9. /\ state[n] = "NONE" /\ state'[n] = "BUILDING"
      /\ \A g \in Generations \ {n} : state'[g] = state[g] /\ state[g] # "BUILDING"
  BY <1>1, <1>3, <1>4 DEF InState
<1>10. OneOf("ACTIVE")' /\ OneOf("BUILDING")'
  BY <1>9 DEF Inv, OneOf
<1>11. InState("ACTIVE")' = InState("ACTIVE") /\ InState("BUILDING")' = {n}
  BY <1>9 DEF InState
<1>12. Active' = Active
  BY <1>11, SameActive
<1>13. JobInOrder(r)'
  BY <1>2, <1>3, <1>5, <1>6, <1>7, <1>11 DEF JobInOrder, Working
<1>14. ~Paying(r)' /\ \A s \in Sources : ~Filled(r, s)'
  BY <1>5, <1>7 DEF Paying, Filled
<1>15. \A s \in Records : ActiveInOrder(s)' /\ FilledInOrder(r, s)'
  <2>1. \A s \in Records : ActiveInOrder(s)'
    BY <1>2, <1>6, <1>7, <1>12, <1>14, ActiveStands
  <2> QED BY <1>14, <2>1 DEF FilledInOrder, Sources
<1> QED BY <1>2, <1>3, <1>7, <1>8, <1>10, <1>13, <1>15, JobStep

\* A filled row says what is committed, under the names that stand.
LEMMA FillBatchKeeps ==
    ASSUME Inv, NEW r \in Rebuilders, NEW s \in Sources, FillBatch(r, s)
    PROVE  Inv'
<1>0. PICK n \in Generations : n = job[r].number
  BY DEF FillBatch, Inv, JobInOrder
<1> DEFINE j == [job[r] EXCEPT !.todo = @ \ {s}]
           row == IF s \in Files THEN FileRow(text[s], s \in published, s \in removed)
                                 ELSE [text |-> text[s], names |-> names]
<1>1. /\ job[r].pc = "fill" /\ GateFree /\ job' = [job EXCEPT ![r] = j]
      /\ rows' = [rows EXCEPT ![n][s] = row]
      /\ UNCHANGED <<canonical, debt, state, owner, txn, failures>>
  BY <1>0 DEF FillBatch
<1>2. /\ job[r] \in Job /\ JobInOrder(r) /\ Typed /\ job[r].pc \in Working
      /\ names \in 0..MaxNames /\ text[s] \in 0..MaxText /\ 0 \in 0..MaxNames /\ names \in Nat
  BY <1>1, BoundsAssumption DEF Inv, Typed, Working
<1>3. row \in Row \cup {NoRow}
  BY <1>2 DEF FileRow, Row
<1>4. s \in Records => row \in Row /\ row.text = text[s] /\ row.names = names
  BY <1>2, SourcesAssumption DEF Records, Row
<1> HIDE DEF row
<1>5. /\ j \in Job /\ j.pc = "fill" /\ j.number = n /\ j.todo = job[r].todo \ {s}
      /\ j.claimed = job[r].claimed
  BY <1>0, <1>1, <1>2 DEF Job
<1> HIDE DEF j
<1>6. /\ text' = text /\ merges' = merges /\ names' = names /\ debt' = debt /\ txn' = txn
      /\ published' = published /\ removed' = removed /\ state' = state
      /\ owner' = owner /\ failures' = failures
  BY <1>1 DEF canonical
<1>7. job' \in [Rebuilders -> Job] /\ job'[r] = j /\ \A q \in Rebuilders \ {r} : job'[q] = job[q]
  BY <1>1, <1>5 DEF Inv, Typed
<1>8. /\ rows' \in [Generations -> [Sources -> Row \cup {NoRow}]]
      /\ rows'[n][s] = row
      /\ \A g \in Generations, u \in Sources : g # n \/ u # s => rows'[g][u] = rows[g][u]
  <2>1. rows \in [Generations -> [Sources -> Row \cup {NoRow}]]
    BY <1>2 DEF Typed
  <2>2. [rows[n] EXCEPT ![s] = row] \in [Sources -> Row \cup {NoRow}]
    BY <1>3, <2>1
  <2>3. rows' = [rows EXCEPT ![n] = [rows[n] EXCEPT ![s] = row]]
    BY <1>1
  <2> QED BY <2>1, <2>2, <2>3
<1>9. Typed'
  BY <1>2, <1>6, <1>7, <1>8 DEF Typed
<1>10. (\A st : InState(st)' = InState(st)) /\ Active' = Active
  <2>1. \A st : InState(st)' = InState(st)
    BY <1>6 DEF InState
  <2> QED BY <2>1, SameActive
<1>11. OneOf("ACTIVE")' /\ OneOf("BUILDING")' /\ LiveGenerations' = LiveGenerations
  BY <1>6, <1>10 DEF Inv, OneOf, LiveGenerations
<1>12. JobInOrder(r)'
  BY <1>0, <1>1, <1>2, <1>5, <1>6, <1>7, <1>10 DEF JobInOrder, Working
<1>13. ~Paying(r)' /\ \A u : Filled(r, u)' => Filled(r, u) \/ u = s
  BY <1>1, <1>5, <1>7 DEF Paying, Filled
<1>14. \A q \in Rebuilders : job'[q].claimed = job[q].claimed /\ (Paying(q)' => Paying(q))
  BY <1>5, <1>7, <1>13 DEF Paying
<1>15. ASSUME s \in Records
       PROVE  /\ Says(n, s)'
              /\ Current(rows[n][s].names)'
              /\ \A q \in Rebuilders : Since(q, rows[n][s].names)'
  <2>1. rows'[n][s] \in Row /\ rows'[n][s].text = text'[s] /\ rows'[n][s].names = names'
    BY <1>4, <1>6, <1>8, <1>15
  <2>2. \A q \in Rebuilders : \A d \in job[q].claimed : d <= names
    BY <1>2 DEF Inv, JobInOrder
  <2>3. Says(n, s)'
    BY <2>1 DEF Says
  <2>4. Current(rows[n][s].names)'
    BY <1>2, <1>6, <2>1 DEF Current
  <2>5. \A q \in Rebuilders : Since(q, rows[n][s].names)'
    BY <1>6, <1>14, <2>1, <2>2 DEF Since
  <2> QED BY <2>3, <2>4, <2>5
<1>16. ASSUME NEW u \in Records PROVE ActiveInOrder(u)'
  <2>1. PICK g \in Generations : g = Active
    BY ActiveIs
  <2>2. CASE g = n /\ u = s
    BY <1>10, <1>15, <2>1, <2>2 DEF ActiveInOrder
  <2>3. CASE ~(g = n /\ u = s)
    <3>1. rows'[g][u] = rows[g][u] /\ ActiveInOrder(u)
      BY <1>8, <2>3 DEF Inv, Sources
    <3> QED BY <1>6, <1>10, <1>14, <2>1, <3>1
              DEF ActiveInOrder, Says, Current, Since
  <2> QED BY <2>2, <2>3
<1>17. ASSUME NEW u \in Records PROVE FilledInOrder(r, u)'
  <2> SUFFICES ASSUME Filled(r, u)' PROVE FilledInOrder(r, u)'
    BY DEF FilledInOrder
  <2>1. job'[r].number = n
    BY <1>5, <1>7
  <2>2. CASE u = s
    BY <1>15, <2>1, <2>2 DEF FilledInOrder
  <2>3. CASE u # s
    <3>1. rows'[n][u] = rows[n][u] /\ FilledInOrder(r, u) /\ Filled(r, u)
      BY <1>8, <1>13, <2>3 DEF Inv, Sources
    <3> QED BY <1>0, <1>6, <1>14, <2>1, <3>1
              DEF FilledInOrder, Says, Current, Since
  <2> QED BY <2>2, <2>3
<1> QED BY <1>1, <1>2, <1>7, <1>9, <1>11, <1>12, <1>16, <1>17, JobStep

\* The swap: what was filled is what readers find.
LEMMA ActivateKeeps ==
    ASSUME Inv, NEW r \in Rebuilders, Activate(r)
    PROVE  Inv'
<1>0. PICK n \in Generations : n = job[r].number
  BY DEF Activate, Inv, JobInOrder
<1> DEFINE j == [job[r] EXCEPT !.pc = "retired"]
<1>1. /\ job[r].pc = "fill" /\ job[r].todo = {} /\ GateFree /\ job' = [job EXCEPT ![r] = j]
      /\ state' = [g \in Generations |->
             IF g = n THEN "ACTIVE"
             ELSE IF state[g] = "ACTIVE" THEN "RETIRED" ELSE state[g]]
      /\ UNCHANGED <<canonical, debt, rows, owner, txn, failures>>
  BY <1>0 DEF Activate
<1>2. /\ job[r] \in Job /\ JobInOrder(r) /\ Typed /\ job[r].pc \in Working
      /\ state \in [Generations -> {"NONE", "BUILDING", "ACTIVE", "RETIRED", "FAILED"}]
  BY <1>1 DEF Inv, Typed, Working
<1>3. j \in Job /\ j.pc = "retired" /\ j.claimed = job[r].claimed
  BY <1>2 DEF Job
<1> HIDE DEF j
<1>4. /\ text' = text /\ merges' = merges /\ names' = names /\ debt' = debt /\ txn' = txn
      /\ published' = published /\ removed' = removed /\ rows' = rows
      /\ owner' = owner /\ failures' = failures
  BY <1>1 DEF canonical
<1>5. job' \in [Rebuilders -> Job] /\ job'[r] = j /\ \A q \in Rebuilders \ {r} : job'[q] = job[q]
  BY <1>1, <1>3 DEF Inv, Typed
<1>6. state' \in [Generations -> {"NONE", "BUILDING", "ACTIVE", "RETIRED", "FAILED"}]
  BY <1>1, <1>2
<1>7. Typed'
  BY <1>2, <1>4, <1>5, <1>6 DEF Typed
<1>8. \A g \in Generations : state[g] = "BUILDING" => g = n
  BY <1>0, <1>1, <1>2 DEF JobInOrder, InState
<1>9. /\ \A g \in Generations : state'[g] = "ACTIVE" <=> g = n
      /\ \A g \in Generations : state'[g] # "BUILDING"
  BY <1>1, <1>2, <1>8
<1>10. OneOf("ACTIVE")' /\ OneOf("BUILDING")'
  BY <1>9 DEF OneOf
<1>11. InState("ACTIVE")' = {n} /\ InState("BUILDING")' = {}
  BY <1>9 DEF InState
<1>12. Active' = n
  <2>1. (CHOOSE h \in InState("ACTIVE")' : TRUE) \in InState("ACTIVE")'
    BY <1>11
  <2>2. Active' = IF InState("ACTIVE")' = {} THEN INITIAL_GENERATION
                  ELSE CHOOSE h \in InState("ACTIVE")' : TRUE
    BY DEF Active, INITIAL_GENERATION
  <2> QED BY <1>11, <2>1, <2>2
<1>13. JobInOrder(r)'
  BY <1>2, <1>3, <1>4, <1>5, <1>11, <1>1 DEF JobInOrder, Working
<1>14. \A q \in Rebuilders : /\ job'[q].claimed = job[q].claimed
                             /\ Paying(q)' => Paying(q) \/ q = r
  BY <1>3, <1>5 DEF Paying
<1>15. ASSUME NEW s \in Records PROVE ActiveInOrder(s)'
  <2>1. FilledInOrder(r, s) /\ Filled(r, s)
    BY <1>1 DEF Inv, Filled
  <2>2. Says(n, s)' /\ n' = n
    BY <1>0, <1>4, <2>1 DEF FilledInOrder, Says
  <2>3. Says(Active, s)'
    BY <1>12, <2>2 DEF Says
  <2> QED BY <1>0, <1>4, <1>12, <1>14, <2>1, <2>3
            DEF FilledInOrder, ActiveInOrder, Current, Since
<1>16. \A s \in Records : FilledInOrder(r, s)'
  BY <1>3, <1>5 DEF FilledInOrder, Filled
<1> QED BY <1>1, <1>2, <1>5, <1>7, <1>10, <1>13, <1>15, <1>16, JobStep

\* Nothing a reader finds, or will find, has a name older than what is paid.
LEMMA DischargeKeeps ==
    ASSUME Inv, NEW r \in Rebuilders, Discharge(r)
    PROVE  Inv'
<1>1. /\ job[r].pc = "pay" /\ debt' = debt \ job[r].claimed
      /\ job' = [job EXCEPT ![r] = IdleJob]
      /\ UNCHANGED <<canonical, projection, owner, txn, failures>>
  BY DEF Discharge, Paid
<1>2. /\ text' = text /\ merges' = merges /\ names' = names /\ txn' = txn
      /\ published' = published /\ removed' = removed /\ state' = state /\ rows' = rows
      /\ owner' = owner /\ failures' = failures
  BY <1>1 DEF canonical, projection
<1>3. /\ job' \in [Rebuilders -> Job]
      /\ job'[r].pc = "idle" /\ job'[r].claimed = {}
      /\ \A q \in Rebuilders \ {r} : job'[q] = job[q]
  <2>1. job \in [Rebuilders -> Job]
    BY DEF Inv, Typed
  <2>2. job'[r] = IdleJob /\ job' \in [Rebuilders -> Job]
    BY <1>1, <2>1, IdleIsJob
  <2> QED BY <1>1, <2>1, <2>2 DEF IdleJob
<1>4. Typed'
  BY <1>1, <1>2, <1>3 DEF Inv, Typed
<1>5. (\A st : InState(st)' = InState(st)) /\ Active' = Active
      /\ LiveGenerations' = LiveGenerations
  <2>1. \A st : InState(st)' = InState(st)
    BY <1>2 DEF InState
  <2> QED BY <2>1, SameActive DEF LiveGenerations
<1>6. OneOf("ACTIVE")' /\ OneOf("BUILDING")'
  BY <1>2 DEF Inv, OneOf
<1>7. ASSUME NEW q \in Rebuilders PROVE JobInOrder(q)'
  <2>1. CASE q = r
    BY <1>3, <2>1 DEF JobInOrder, Working
  <2>2. CASE q # r
    BY <1>2, <1>3, <1>5, <2>2 DEF Inv, JobInOrder
  <2> QED BY <2>1, <2>2
<1>8. ASSUME NEW w \in Writers PROVE KindInOrder(w)' /\ TxnInOrder(w)'
  BY <1>2, <1>5 DEF Inv, KindInOrder, TxnInOrder, Saves, HasRead, Gated
<1>9. SavesApart'
  BY <1>2 DEF Inv, SavesApart, Saves
<1>10. Paying(r) /\ names \in Nat
  BY <1>1, BoundsAssumption DEF Paying, Inv, Typed
<1>11. ASSUME NEW n \in Nat, Current(n), Since(r, n)
       PROVE  n <= names' /\ (n # names' => names' \in debt')
  <2>1. names \in job[r].claimed => names <= n
    BY <1>11 DEF Since
  <2> QED BY <1>1, <1>2, <1>10, <1>11, <2>1 DEF Current
<1>12. ASSUME NEW q \in Rebuilders
       PROVE  /\ Paying(q)' => Paying(q) /\ job'[q].claimed = job[q].claimed
              /\ \A s : Filled(q, s)' => Filled(q, s) /\ q # r /\ job'[q] = job[q]
  <2>1. CASE q = r
    BY <1>3, <2>1 DEF Paying, Filled
  <2>2. CASE q # r
    BY <1>3, <2>2 DEF Paying, Filled
  <2> QED BY <2>1, <2>2
<1>13. \A x \in Row : x.names \in Nat
  BY BoundsAssumption DEF Row
<1>14. ASSUME NEW s \in Records PROVE ActiveInOrder(s)'
  <2>1. ActiveInOrder(s)
    BY DEF Inv
  <2>2. Says(Active, s)'
    BY <1>2, <1>5, <2>1 DEF ActiveInOrder, Says
  <2>3. ASSUME s \in Children PROVE Current(rows[Active][s].names)'
    <3>1. /\ rows[Active][s].names \in Nat /\ Current(rows[Active][s].names)
          /\ Since(r, rows[Active][s].names)
      BY <1>10, <1>13, <2>1, <2>3 DEF ActiveInOrder, Says
    <3> QED BY <1>2, <1>5, <1>11, <3>1 DEF Current
  <2>4. ASSUME s \in Children, NEW q \in Rebuilders, Paying(q)'
        PROVE  Since(q, rows[Active][s].names)'
    <3>1. Since(q, rows[Active][s].names) /\ job'[q].claimed = job[q].claimed
      BY <1>12, <2>1, <2>4 DEF ActiveInOrder
    <3> QED BY <1>2, <1>5, <3>1 DEF Since
  <2> QED BY <2>2, <2>3, <2>4 DEF ActiveInOrder
<1>15. ASSUME NEW q \in Rebuilders, NEW s \in Records PROVE FilledInOrder(q, s)'
  <2> SUFFICES ASSUME Filled(q, s)' PROVE FilledInOrder(q, s)'
    BY DEF FilledInOrder
  <2>0. PICK g : g = job[q].number
    OBVIOUS
  <2>1. FilledInOrder(q, s) /\ Filled(q, s) /\ job'[q] = job[q] /\ g = job'[q].number
    BY <1>12, <2>0 DEF Inv
  <2>2. Says(g, s)'
    BY <1>2, <2>0, <2>1 DEF FilledInOrder, Says
  <2>3. ASSUME s \in Children PROVE Current(rows[g][s].names)'
    <3>1. rows[g][s].names \in Nat /\ Current(rows[g][s].names) /\ Since(r, rows[g][s].names)
      BY <1>10, <1>13, <2>0, <2>1, <2>3 DEF FilledInOrder, Says
    <3> QED BY <1>2, <1>11, <3>1 DEF Current
  <2>4. ASSUME s \in Children, NEW p \in Rebuilders, Paying(p)' \/ p = q
        PROVE  Since(p, rows[g][s].names)'
    <3>1. (Paying(p) \/ p = q) /\ job'[p].claimed = job[p].claimed
      BY <1>12, <2>1, <2>4
    <3>2. Since(p, rows[g][s].names)
      BY <2>0, <2>1, <2>4, <3>1 DEF FilledInOrder
    <3> QED BY <1>2, <3>1, <3>2 DEF Since
  <2> QED BY <2>1, <2>2, <2>3, <2>4 DEF FilledInOrder
<1>16. ASSUME NEW w \in Writers, NEW s \in Children PROVE ViewInOrder(w, s)'
  <2> SUFFICES ASSUME s \in txn[w].saves, txn[w].pc \in {"write", "commit"}
               PROVE  /\ Current(txn[w].view[s].names)'
                      /\ \A q \in Rebuilders :
                             Paying(q)' \/ Filled(q, s)' => Since(q, txn[w].view[s].names)'
    BY <1>2 DEF ViewInOrder
  <2>1. ViewInOrder(w, s) /\ txn[w].view[s] \in Row
    BY DEF Inv, TxnInOrder, Records
  <2>2. Current(txn[w].view[s].names)'
    <3>1. /\ txn[w].view[s].names \in Nat /\ Current(txn[w].view[s].names)
          /\ Since(r, txn[w].view[s].names)
      BY <1>10, <1>13, <2>1 DEF ViewInOrder
    <3> QED BY <1>2, <1>11, <3>1 DEF Current
  <2>3. ASSUME NEW q \in Rebuilders, Paying(q)' \/ Filled(q, s)'
        PROVE  Since(q, txn[w].view[s].names)'
    <3>1. (Paying(q) \/ Filled(q, s)) /\ job'[q].claimed = job[q].claimed
      BY <1>12, <2>3
    <3> QED BY <1>2, <2>1, <3>1 DEF ViewInOrder, Since
  <2> QED BY <2>2, <2>3
<1> QED BY <1>4, <1>6, <1>7, <1>8, <1>9, <1>14, <1>15, <1>16 DEF Inv

-----------------------------------------------------------------------------
(* The invariant                                                           *)

LEMMA InvInit == Init => Inv
<1> SUFFICES ASSUME Init PROVE Inv
  OBVIOUS
<1>1. /\ text = [s \in Sources |-> 0] /\ merges = 0 /\ names = 0
      /\ published = {} /\ removed = {} /\ debt = {} /\ owner = None /\ failures = 0
      /\ state = [g \in Generations |-> "NONE"]
      /\ job = [r \in Rebuilders |-> IdleJob]
      /\ txn = [w \in Writers |-> IdleTxn]
      /\ rows = [g \in Generations |-> [s \in Sources |->
                    IF g = INITIAL_GENERATION /\ s \in Records THEN FirstView[s] ELSE NoRow]]
  BY DEF Init
<1>2. 0 \in 0..MaxText /\ 0 \in 0..MaxMerges /\ 0 \in 0..MaxNames /\ 0 \in 0..MaxFailures
  BY BoundsAssumption
<1>3. \A s \in Sources : FirstView[s] \in Row /\ FirstView[s].text = 0 /\ FirstView[s].names = 0
  BY <1>2 DEF FirstView, Row
<1>4. rows \in [Generations -> [Sources -> Row \cup {NoRow}]]
  BY <1>1, <1>3
<1>5. Typed
  BY <1>1, <1>2, <1>4, IdleIsJob, IdleIsTxn DEF Typed
<1>6. OneOf("ACTIVE") /\ OneOf("BUILDING") /\ InState("ACTIVE") = {} /\ InState("BUILDING") = {}
  BY <1>1 DEF OneOf, InState
<1>7. \A r \in Rebuilders : job[r].pc = "idle" /\ job[r].claimed = {}
  BY <1>1 DEF IdleJob
<1>8. \A r \in Rebuilders : JobInOrder(r)
  BY <1>7 DEF JobInOrder, Working
<1>9. \A w \in Writers : /\ txn[w].pc = "idle" /\ txn[w].kind = "save" /\ txn[w].saves = {}
                         /\ \A s \in Sources : txn[w].view[s] \in Row
  BY <1>1, IdleIsTxn DEF IdleTxn
<1>10. \A w \in Writers : KindInOrder(w)
  BY <1>9 DEF KindInOrder
<1>11. \A w \in Writers : TxnInOrder(w)
  BY <1>9 DEF TxnInOrder, Saves, HasRead, Gated, Records, Sources
<1>12. SavesApart /\ \A w \in Writers, s \in Children : ViewInOrder(w, s)
  BY <1>9 DEF SavesApart, Saves, ViewInOrder
<1>13. Active = INITIAL_GENERATION /\ INITIAL_GENERATION \in Generations
  BY <1>6, ActiveIs
<1>14. ASSUME NEW s \in Records PROVE ActiveInOrder(s)
  <2>1. s \in Sources
    BY DEF Sources
  <2>2. rows[Active][s] = FirstView[s] /\ text[s] = 0
    BY <1>1, <1>13, <2>1
  <2> QED BY <1>1, <1>3, <1>7, <2>1, <2>2
            DEF ActiveInOrder, Says, Current, Since, Paying
<1>15. \A q \in Rebuilders, s \in Records : FilledInOrder(q, s)
  BY <1>7 DEF FilledInOrder, Filled
<1> QED BY <1>5, <1>6, <1>8, <1>10, <1>11, <1>12, <1>14, <1>15 DEF Inv

LEMMA WriterKeeps ==
    ASSUME Inv, NEW w \in Writers, WriterStep(w)
    PROVE  Inv'
<1>1. CASE \E s \in Sources : Save(w, s)
  BY <1>1, SaveKeeps
<1>2. CASE MergeTag(w)
  BY <1>2, MergeTagKeeps
<1>3. CASE \E f \in Files : Remove(w, f) \/ Publish(w, f)
  BY <1>3, RemoveOrPublishKeeps
<1>4. CASE ReadRecords(w) \/ TakeGate(w)
  BY <1>4, ReadRecordsKeeps, TakeGateKeeps
<1>5. CASE WriteRows(w) \/ Collide(w) \/ Commit(w)
  BY <1>5, WriteRowsKeeps, CollideKeeps, CommitKeeps
<1> QED BY <1>1, <1>2, <1>3, <1>4, <1>5 DEF WriterStep

LEMMA RebuilderKeeps ==
    ASSUME Inv, NEW r \in Rebuilders, RebuildStep(r) \/ FailRebuild(r) \/ KillRebuild(r)
    PROVE  Inv'
<1>1. CASE Claim(r) \/ TakeRebuild(r) \/ FailUnfinished(r)
  BY <1>1, ClaimKeeps, TakeRebuildKeeps, FailUnfinishedKeeps
<1>2. CASE DiscardGenerations(r) \/ BeginGeneration(r)
  BY <1>2, DiscardGenerationsKeeps, BeginGenerationKeeps
<1>3. CASE \E s \in Sources : FillBatch(r, s)
  BY <1>3, FillBatchKeeps
<1>4. CASE Activate(r) \/ Discharge(r)
  BY <1>4, ActivateKeeps, DischargeKeeps
<1>5. CASE FailRebuild(r) \/ KillRebuild(r)
  BY <1>5, FailRebuildKeeps, KillRebuildKeeps
<1> QED BY <1>1, <1>2, <1>3, <1>4, <1>5 DEF RebuildStep

LEMMA StutterKeeps ==
    ASSUME Inv, UNCHANGED vars
    PROVE  Inv'
<1>1. /\ text' = text /\ merges' = merges /\ names' = names /\ published' = published
      /\ removed' = removed /\ debt' = debt /\ state' = state /\ rows' = rows
      /\ owner' = owner /\ job' = job /\ txn' = txn /\ failures' = failures
  BY DEF vars
<1>2. (\A st : InState(st)' = InState(st)) /\ Active' = Active
      /\ LiveGenerations' = LiveGenerations
  <2>1. \A st : InState(st)' = InState(st)
    BY <1>1 DEF InState
  <2> QED BY <2>1, SameActive DEF LiveGenerations
<1>3. Typed' /\ OneOf("ACTIVE")' /\ OneOf("BUILDING")'
  BY <1>1 DEF Inv, Typed, OneOf
<1>4. \A r \in Rebuilders : JobInOrder(r)'
  BY <1>1, <1>2 DEF Inv, JobInOrder
<1>5. (\A w \in Writers : KindInOrder(w)' /\ TxnInOrder(w)') /\ SavesApart'
  BY <1>1, <1>2 DEF Inv, KindInOrder, TxnInOrder, SavesApart, Saves, HasRead, Gated
<1>6. \A w \in Writers, s \in Children : ViewInOrder(w, s)'
  BY <1>1 DEF Inv, ViewInOrder, Current, Since, Paying, Filled
<1>7. \A s \in Records : ActiveInOrder(s)'
  BY <1>1, <1>2 DEF Inv, ActiveInOrder, Says, Current, Since, Paying
<1>8. \A q \in Rebuilders, s \in Records : FilledInOrder(q, s)'
  BY <1>1 DEF Inv, FilledInOrder, Filled, Says, Current, Since, Paying
<1> QED BY <1>3, <1>4, <1>5, <1>6, <1>7, <1>8 DEF Inv

LEMMA InvNext == Inv /\ [Next]_vars => Inv'
<1> SUFFICES ASSUME Inv, [Next]_vars PROVE Inv'
  OBVIOUS
<1>1. CASE \E w \in Writers : WriterStep(w)
  BY <1>1, WriterKeeps
<1>2. CASE Rename
  BY <1>2, RenameKeeps
<1>3. CASE \E r \in Rebuilders : RebuildStep(r) \/ FailRebuild(r) \/ KillRebuild(r)
  BY <1>3, RebuilderKeeps
<1>4. CASE UNCHANGED vars
  BY <1>4, StutterKeeps
<1> QED BY <1>1, <1>2, <1>3, <1>4 DEF Next

-----------------------------------------------------------------------------
(* What follows from it                                                    *)

\* A set with at most one member has at most one.
LEMMA AtMostOne ==
    ASSUME NEW S, \A x, y \in S : x = y
    PROVE  Cardinality(S) <= 1
<1>1. CASE S = {}
  BY <1>1, FS_EmptySet
<1>2. CASE S # {}
  <2>1. PICK x : S = {x}
    BY <1>2
  <2> QED BY <2>1, FS_Singleton
<1> QED BY <1>1, <1>2

LEMMA TypeFollows == Inv => TypeOK
<1> SUFFICES ASSUME Inv PROVE TypeOK
  OBVIOUS
<1>1. names \in 0..MaxNames /\ debt \subseteq 1..names
  BY DEF Inv, Typed
<1>2. debt \subseteq 1..MaxNames
  BY <1>1, BoundsAssumption
<1>3. Cardinality(InState("ACTIVE")) <= 1 /\ Cardinality(InState("BUILDING")) <= 1
  BY AtMostOne DEF Inv, OneOf, InState
<1> QED BY <1>2, <1>3 DEF Inv, Typed, TypeOK

LEMMA ReadersFollow == Inv => ReadersComplete
BY RowsAreThere DEF Inv, ActiveInOrder, Says, ReadersComplete, Found

LEMMA SavedFollows == Inv => SavedIsFound
BY DEF Inv, ActiveInOrder, Says, SavedIsFound, Finds, Found, Records

LEMMA NamesFollow == Inv => ChildNamesOwed
BY DEF Inv, ActiveInOrder, Current, ChildNamesOwed, Found, Records

\* Whatever the transactions and rebuilds and their interleaving, what readers
\* find and what a rebuild has filled says the committed text and names that are
\* current or owed, and a refresh in flight will keep it so.
THEOREM ProjectionInOrder == Spec => []Inv
<1> QED BY InvInit, InvNext, PTL DEF Spec

\* Every variable keeps its type; one generation at most is read and one built.
THEOREM SearchTyped == Spec => []TypeOK
<1> QED BY TypeFollows, ProjectionInOrder, PTL

\* Readers find every record, at every moment.
THEOREM ReadersCompleteHolds == Spec => []ReadersComplete
<1> QED BY ReadersFollow, ProjectionInOrder, PTL

\* A committed save is found as it was saved, whatever rebuild is under way.
THEOREM SavedIsFoundHolds == Spec => []SavedIsFound
<1> QED BY SavedFollows, ProjectionInOrder, PTL

\* A child's row with an old name is owed a rebuild.
THEOREM ChildNamesOwedHolds == Spec => []ChildNamesOwed
<1> QED BY NamesFollow, ProjectionInOrder, PTL
=============================================================================
