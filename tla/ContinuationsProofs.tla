------------------------- MODULE ContinuationsProofs -------------------------
(***************************************************************************)
(* Proofs about the pointers between Matters, for any number of Matters    *)
(* and of concurrent transactions.                                         *)
(***************************************************************************)
EXTENDS Continuations, FiniteSetTheorems, TLAPS

\* The Matters a transaction must hold before it asks its questions.
Needs(j) ==
    {j.matter} \cup (IF j.op \in {"close", "link", "cite"} THEN {j.other} \ {None} ELSE {})

\* A deletion that has decided has collected all that names its Matter, and no
\* live Matter continues as it.
Collected(j) ==
    j.op = "delete" /\ j.step = "writing" =>
        /\ \A r \in related : j.matter \in {r[1], r[2]} => r \in j.owned
        /\ \A r \in cited : r[2] # j.matter /\ (r[1] = j.matter => r \in j.owned)
        /\ \A m \in Matters \ {j.matter} : Live(m) => successor[m] # j.matter

Decided(j) == j.step \in {"walking", "writing"}

\* What the locks of a transaction are good for at each of its steps.
Locked(w) ==
    LET j == job[w] IN
    /\ j.step \in {"idle", "reading"} => Held(w) = {}
    /\ j.step # "idle" => j.op \in Ops /\ j.matter \in Matters
    /\ j.op \in {"link", "cite"} => j.other \in Matters /\ j.other # j.matter
    /\ j.step \in {"reading", "locking"} => Needs(j) \subseteq j.want \cup Held(w)
    /\ j.step = "locking" => \A h \in Held(w), m \in j.want : h < m
    /\ j.step \in {"reading", "walking"} => j.op = "close" /\ j.at \in Matters
    /\ Decided(j) => /\ Needs(j) \subseteq Held(w)
                     /\ \A m \in Needs(j) : Live(m)
    /\ Collected(j)

PointInv ==
    /\ TypeOK
    /\ \A w \in Writers : Locked(w)
    /\ NoPointerToTombstone

-----------------------------------------------------------------------------
(* Keys, rows and their holders                                             *)

LEMMA NoneIsNoMatter == None \notin Matters /\ Matters \subseteq Nat
BY MattersAssumption DEF None

LEMMA NextRowIsNext ==
    ASSUME NEW want \in SUBSET Matters, want # {}
    PROVE  NextRow(want) \in want /\ \A m \in want : NextRow(want) <= m
<1> DEFINE Below(n) == {m \in Matters : m < n}
           Sets == {Below(m) : m \in want}
<1>1. Sets \subseteq FiniteSubsetsOf(Matters) /\ Sets # {}
  <2>1. \A n : Below(n) \in SUBSET Matters /\ IsFiniteSet(Below(n))
    BY MattersAssumption, FS_Subset
  <2> QED
    BY <2>1 DEF FiniteSubsetsOf
<1>2. \E x \in Sets : \A y \in Sets : <<y, x>> \notin StrictSubsetOrdering(Matters)
  <2> HIDE DEF Sets
  <2> QED
    BY <1>1, FS_StrictSubsetOrderingWellFounded, MattersAssumption, WFMin
<1>3. PICK m \in want : \A n \in want :
        <<Below(n), Below(m)>> \notin StrictSubsetOrdering(Matters)
  BY <1>2
<1>4. ASSUME NEW n \in want, ~(m <= n) PROVE FALSE
  <2>1. m \in Nat /\ n \in Nat /\ n \in Matters
    BY NoneIsNoMatter
  <2>2. Below(n) \subseteq Below(m)
    <3> SUFFICES ASSUME NEW k \in Matters, k < n PROVE k < m
      OBVIOUS
    <3>1. k \in Nat
      BY NoneIsNoMatter
    <3> QED
      BY <1>4, <2>1, <3>1
  <2>3. n \in Below(m) /\ n \notin Below(n)
    BY <1>4, <2>1
  <2>4. <<Below(n), Below(m)>> \in StrictSubsetOrdering(Matters)
    BY <2>2, <2>3 DEF StrictSubsetOrdering
  <2> QED
    BY <1>3, <2>4
<1> QED
  BY <1>4 DEF NextRow

LEMMA HeldApart ==
    ASSUME NEW w, NEW v, v # w
    PROVE  Held(w) \cap Held(v) = {}
BY DEF Held

LEMMA JobParts ==
    ASSUME TypeOK, NEW w \in Writers
    PROVE  /\ job[w] \in Job
           /\ job[w].op \in Ops \cup {"none"}
           /\ job[w].step \in {"idle", "reading", "locking", "walking", "writing"}
           /\ job[w].matter \in Matters \cup {None} /\ job[w].other \in Matters \cup {None}
           /\ job[w].want \in SUBSET Matters /\ job[w].at \in Matters \cup {None}
           /\ job[w].seen \in SUBSET Matters /\ job[w].owned \in SUBSET Pairs
BY DEF TypeOK, Job

LEMMA IdleIsJob == Idle \in Job /\ Idle.step = "idle" /\ Idle.op = "none"
BY DEF Idle, Job

-----------------------------------------------------------------------------
(* What one transaction does leaves the others what their locks promised    *)

\* Every write of w is to rows it holds, or takes something away.
WritesOwnRows(w) ==
    /\ deleted \subseteq deleted' /\ deleted' \ deleted \subseteq Held(w)
    /\ \A r \in related' \ related : r[1] \in Held(w) /\ r[2] \in Held(w)
    /\ \A r \in cited' \ cited : r[1] \in Held(w) /\ r[2] \in Held(w)
    /\ \A m \in Matters : \/ successor'[m] = successor[m]
                          \/ successor'[m] \in {None} \cup Held(w)

LEMMA UnchangedRowsAreOwn ==
    ASSUME UNCHANGED rows, NEW w PROVE WritesOwnRows(w)
BY DEF rows, WritesOwnRows

LEMMA OthersStay ==
    ASSUME PointInv, NEW w \in Writers, NEW v \in Writers, v # w, WritesOwnRows(w),
           job'[v] = job[v], Held(v)' = Held(v)
    PROVE  Locked(v)'
<1> DEFINE j == job[v]
<1>1. Locked(v) /\ Held(w) \cap Held(v) = {} /\ j.matter \in Matters \cup {None}
  BY HeldApart, JobParts DEF PointInv
<1>2. Decided(j) => \A m \in Needs(j) : Live(m)'
  BY <1>1 DEF Locked, Live, WritesOwnRows
<1>3. Collected(j)'
  <2>1. SUFFICES ASSUME j.op = "delete", j.step = "writing" PROVE Collected(j)'
    BY DEF Collected
  <2>2. j.matter \in Held(v) /\ j.matter \in Matters /\ j.matter # None /\ Collected(j)
    BY <1>1, <2>1, NoneIsNoMatter DEF Locked, Decided, Needs
  <2>3. j.matter \notin Held(w)
    BY <1>1, <2>2
  <2> HIDE DEF j
  <2>4. \A r \in related' : j.matter \in {r[1], r[2]} => r \in j.owned
    BY <2>1, <2>2, <2>3 DEF Collected, WritesOwnRows
  <2>5. \A r \in cited' : r[2] # j.matter /\ (r[1] = j.matter => r \in j.owned)
    BY <2>1, <2>2, <2>3 DEF Collected, WritesOwnRows
  <2>6. \A m \in Matters \ {j.matter} : Live(m)' => successor'[m] # j.matter
    BY <2>1, <2>2, <2>3 DEF Collected, WritesOwnRows, Live
  <2> QED
    BY <2>4, <2>5, <2>6 DEF Collected, j
<1> QED
  BY <1>1, <1>2, <1>3 DEF Locked, j

\* A step of w that changes no row of the record.
LEMMA Prepares ==
    ASSUME PointInv, NEW w \in Writers, UNCHANGED rows, acts' \in Nat,
           NEW j \in Job, job' = [job EXCEPT ![w] = j],
           lock' \in [Matters -> Writers \cup {NoWriter}],
           \A m \in Matters : lock'[m] # lock[m] => lock[m] \in {w, NoWriter}
                                                      /\ lock'[m] \in {w, NoWriter},
           Locked(w)'
    PROVE  PointInv'
<1>1. TypeOK'
  BY DEF PointInv, TypeOK, rows
<1>2. ASSUME NEW v \in Writers PROVE Locked(v)'
  <2>1. CASE v # w
    <3>1. job'[v] = job[v]
      BY <2>1 DEF PointInv, TypeOK
    <3>2. Held(v)' = Held(v)
      BY <2>1, WritersAssumption DEF Held
    <3> QED
      BY <2>1, <3>1, <3>2, UnchangedRowsAreOwn, OthersStay
  <2> QED
    BY <2>1
<1>3. NoPointerToTombstone'
  BY DEF PointInv, NoPointerToTombstone, rows, Live
<1> QED
  BY <1>1, <1>2, <1>3 DEF PointInv

\* A transaction that ends keeps nothing.
LEMMA Ends ==
    ASSUME PointInv, NEW w \in Writers, End(w)
    PROVE  /\ lock' \in [Matters -> Writers \cup {NoWriter}]
           /\ job' \in [Writers -> Job]
           /\ Locked(w)'
           /\ \A v \in Writers \ {w} : job'[v] = job[v] /\ Held(v)' = Held(v)
<1>1. /\ lock' \in [Matters -> Writers \cup {NoWriter}]
      /\ \A m \in Matters : lock'[m] = IF lock[m] = w THEN NoWriter ELSE lock[m]
  BY DEF PointInv, TypeOK, End, Released
<1>2. job' \in [Writers -> Job] /\ job'[w] = Idle /\ \A v \in Writers \ {w} : job'[v] = job[v]
  BY IdleIsJob DEF PointInv, TypeOK, End
<1>3. Held(w)' = {} /\ \A v \in Writers \ {w} : Held(v)' = Held(v)
  BY <1>1, WritersAssumption DEF Held
<1>4. Locked(w)'
  BY <1>2, <1>3, IdleIsJob DEF Locked, Decided, Collected
<1> QED
  BY <1>1, <1>2, <1>3, <1>4

LEMMA WritesKeep ==
    ASSUME PointInv, NEW w \in Writers, End(w), WritesOwnRows(w), acts' \in Nat,
           open' \in [Matters -> BOOLEAN], successor' \in [Matters -> Matters \cup {None}],
           deleted' \subseteq Matters, related' \subseteq Pairs, cited' \subseteq Pairs,
           NoPointerToTombstone'
    PROVE  PointInv'
<1>1. TypeOK'
  BY Ends DEF TypeOK
<1>2. ASSUME NEW v \in Writers PROVE Locked(v)'
  <2>1. CASE v # w
    BY <2>1, Ends, OthersStay
  <2> QED
    BY <2>1, Ends
<1> QED
  BY <1>1, <1>2 DEF PointInv

-----------------------------------------------------------------------------
(* Each action                                                              *)

LEMMA BeginKeeps ==
    ASSUME PointInv, NEW w \in Writers, Begin(w) PROVE PointInv'
<1>1. ASSUME NEW op \in Ops, NEW m \in Matters, NEW other \in Matters \cup {None},
             NEW step \in {"reading", "locking"}, NEW want \in SUBSET Matters,
             Start(w, op, m, other, step, want), m \in want,
             op \in {"close", "link", "cite"} => other \in want \cup {None},
             op \in {"link", "cite"} => other \in Matters /\ other # m,
             step = "reading" => op = "close" /\ other \in Matters
      PROVE  PointInv'
  <2> DEFINE j == [Idle EXCEPT !.op = op, !.step = step, !.matter = m, !.other = other,
                              !.want = want, !.at = other]
  <2>1. /\ j \in Job /\ j.op = op /\ j.step = step /\ j.matter = m /\ j.other = other
        /\ j.want = want /\ j.at = other
    BY DEF Idle, Job
  <2> HIDE DEF j
  <2>2. /\ job' = [job EXCEPT ![w] = j] /\ acts' = acts + 1 /\ UNCHANGED <<rows, lock>>
        /\ job[w] = Idle
    BY <1>1 DEF Start, j
  <2>3. job'[w] = j /\ Held(w)' = {} /\ acts' \in Nat
        /\ lock' \in [Matters -> Writers \cup {NoWriter}]
    BY <2>2, IdleIsJob DEF PointInv, TypeOK, Locked, Held
  <2>4. Locked(w)'
    BY <1>1, <2>1, <2>3 DEF Locked, Decided, Collected, Needs
  <2> QED
    BY <2>1, <2>2, <2>3, <2>4, Prepares
<1>2. "close" \in Ops /\ "reopen" \in Ops /\ "delete" \in Ops /\ "link" \in Ops
      /\ "unlink" \in Ops /\ "cite" \in Ops /\ "uncite" \in Ops
  BY DEF Ops
<1>3. ASSUME NEW m \in Matters, BeginClose(w, m) \/ BeginReopen(w, m) \/ BeginDelete(w, m)
      PROVE  PointInv'
  BY <1>1, <1>2, <1>3 DEF BeginClose, BeginReopen, BeginDelete
<1>4. ASSUME NEW m \in Matters, NEW n \in Matters,
             BeginContinue(w, m, n) \/ BeginLink(w, m, n) \/ BeginCite(w, m, n)
      PROVE  PointInv'
  BY <1>1, <1>2, <1>4 DEF BeginContinue, BeginLink, BeginCite, PairRows
<1>5. ASSUME NEW m \in Matters, NEW n \in Matters, BeginUnlink(w, m, n) \/ BeginUncite(w, m, n)
      PROVE  PointInv'
  BY <1>1, <1>2, <1>5 DEF BeginUnlink, BeginUncite
<1> QED
  BY <1>3, <1>4, <1>5 DEF Begin

LEMMA ReadChainKeeps ==
    ASSUME PointInv, NEW w \in Writers, ReadChain(w) PROVE PointInv'
<1> DEFINE j == job[w]
           following == successor[j.at]
<1>1. /\ j \in Job /\ j.step = "reading" /\ j.at \in Matters /\ Held(w) = {} /\ Locked(w)
      /\ following \in Matters \cup {None}
  BY JobParts DEF ReadChain, PointInv, Locked, TypeOK
<1>2. PICK t \in Job : /\ job' = [job EXCEPT ![w] = t]
                       /\ t.step \in {"reading", "locking"} /\ t.op = j.op
                       /\ t.matter = j.matter /\ t.other = j.other
                       /\ j.want \subseteq t.want /\ (t.step = "reading" => t.at \in Matters)
  <2>1. CASE following \in j.want \cup {None}
    <3> DEFINE t == [j EXCEPT !.step = "locking", !.at = None]
    <3>1. t \in Job /\ t.step = "locking" /\ t.op = j.op
          /\ t.matter = j.matter /\ t.other = j.other /\ t.want = j.want
      BY <1>1 DEF Job
    <3>2. job' = [job EXCEPT ![w] = t]
      BY <2>1 DEF ReadChain
    <3> QED
      BY <3>1, <3>2
  <2>2. CASE following \notin j.want \cup {None}
    <3> DEFINE t == [j EXCEPT !.want = @ \cup {following}, !.at = following]
    <3>1. t \in Job /\ t.step = "reading" /\ t.op = j.op /\ t.at \in Matters
          /\ t.matter = j.matter /\ t.other = j.other /\ t.want = j.want \cup {following}
      BY <1>1, <2>2 DEF Job
    <3>2. job' = [job EXCEPT ![w] = t]
      BY <2>2 DEF ReadChain
    <3> QED
      BY <3>1, <3>2
  <2> QED
    BY <2>1, <2>2
<1>3. UNCHANGED <<rows, lock, acts>> /\ acts' \in Nat
      /\ lock' \in [Matters -> Writers \cup {NoWriter}] /\ Held(w)' = {} /\ job'[w] = t
  BY <1>1, <1>2 DEF ReadChain, PointInv, TypeOK, Held
<1>4. Locked(w)'
  <2>1. /\ j.op = "close" /\ j.matter \in Matters /\ Needs(j) \subseteq j.want
    BY <1>1 DEF Locked
  <2> QED
    BY <1>2, <1>3, <2>1 DEF Locked, Decided, Collected, Needs, Ops
<1> QED
  BY <1>2, <1>3, <1>4, Prepares

LEMMA LockNextKeeps ==
    ASSUME PointInv, NEW w \in Writers, LockNext(w) PROVE PointInv'
<1> DEFINE j == job[w]
           m == NextRow(j.want)
           t == [j EXCEPT !.want = @ \ {m}]
<1>1. /\ j \in Job /\ j.step = "locking" /\ j.want \in SUBSET Matters /\ Locked(w)
      /\ lock[m] = NoWriter
  BY JobParts DEF LockNext, PointInv
<1>2. m \in j.want /\ m \in Matters /\ \A n \in j.want : m <= n
  BY <1>1, NextRowIsNext DEF LockNext
<1>3. /\ t \in Job /\ t.step = "locking" /\ t.op = j.op /\ t.matter = j.matter
      /\ t.other = j.other /\ t.want = j.want \ {m}
  BY <1>1 DEF Job
<1>4. /\ job' = [job EXCEPT ![w] = t] /\ lock' = [lock EXCEPT ![m] = w]
      /\ UNCHANGED <<rows, acts>>
  BY DEF LockNext
<1> HIDE DEF m, t
<1>5. job'[w] = t /\ acts' \in Nat /\ lock' \in [Matters -> Writers \cup {NoWriter}]
      /\ \A n \in Matters : lock'[n] = IF n = m THEN w ELSE lock[n]
  BY <1>2, <1>3, <1>4 DEF PointInv, TypeOK
<1>6. Held(w)' = Held(w) \cup {m}
  BY <1>2, <1>5 DEF Held
<1>7. Locked(w)'
  <2>1. \A h \in Held(w)', n \in t.want : h < n
    <3>1. \A h \in Held(w), n \in j.want : h < n
      BY <1>1 DEF Locked
    <3>2. ASSUME NEW n \in j.want \ {m} PROVE m < n
      <4>1. m \in Nat /\ n \in Nat /\ m <= n /\ m # n
        BY <1>1, <1>2, NoneIsNoMatter
      <4> QED
        BY <4>1
    <3> QED
      BY <1>3, <1>6, <3>1, <3>2
  <2>2. Needs(t) = Needs(j) /\ Needs(j) \subseteq j.want \cup Held(w)
    BY <1>1, <1>3 DEF Needs, Locked
  <2>3. j.op \in Ops /\ j.matter \in Matters
        /\ (j.op \in {"link", "cite"} => j.other \in Matters /\ j.other # j.matter)
    BY <1>1 DEF Locked
  <2> QED
    BY <1>3, <1>5, <1>6, <2>1, <2>2, <2>3 DEF Locked, Decided, Collected
<1> QED
  BY <1>1, <1>3, <1>4, <1>5, <1>7, Prepares

LEMMA DecideKeeps ==
    ASSUME PointInv, NEW w \in Writers, Decide(w) PROVE PointInv'
<1> DEFINE j == job[w]
<1>1. /\ j \in Job /\ j.step = "locking" /\ j.want = {} /\ Locked(w) /\ Permitted(w)
      /\ related \subseteq Pairs /\ cited \subseteq Pairs
  BY JobParts DEF Decide, PointInv, TypeOK
<1>2. /\ j.op \in Ops /\ j.matter \in Matters /\ Needs(j) \subseteq Held(w)
      /\ j.other \in Matters \cup {None}
      /\ (j.op \in {"link", "cite"} => j.other \in Matters /\ j.other # j.matter)
  BY <1>1, JobParts DEF Locked, PointInv
<1>3. \A m \in Needs(j) : Live(m)
  BY <1>1, <1>2 DEF Permitted, Needs, Ops
<1>4. PICK t \in Job : /\ job' = [job EXCEPT ![w] = t] /\ t.step \in {"walking", "writing"}
                       /\ t.op = j.op /\ t.matter = j.matter /\ t.other = j.other
                       /\ (t.step = "walking" => t.op = "close" /\ t.at \in Matters)
                       /\ (t.op = "delete" => t.owned = OwnedRows(j.matter))
  <2>1. CASE j.op = "close" /\ j.other # None
    <3> DEFINE t == [j EXCEPT !.step = "walking", !.at = j.other, !.seen = {j.other}]
    <3>1. /\ t \in Job /\ t.step = "walking" /\ t.op = "close" /\ t.matter = j.matter
          /\ t.other = j.other /\ t.at \in Matters
      BY <1>1, <1>2, <2>1 DEF Job
    <3>2. job' = [job EXCEPT ![w] = t]
      BY <2>1 DEF Decide
    <3> QED
      BY <2>1, <3>1, <3>2
  <2>2. CASE ~(j.op = "close" /\ j.other # None)
    <3> DEFINE own == IF j.op = "delete" THEN OwnedRows(j.matter) ELSE {}
               t == [j EXCEPT !.step = "writing", !.owned = own]
    <3>1. own \in SUBSET Pairs
      BY <1>1 DEF OwnedRows
    <3>2. job' = [job EXCEPT ![w] = t]
      BY <2>2 DEF Decide
    <3> HIDE DEF own
    <3>3. /\ t \in Job /\ t.step = "writing" /\ t.op = j.op /\ t.matter = j.matter
          /\ t.other = j.other /\ t.owned = own
      BY <1>1, <3>1 DEF Job
    <3> QED
      BY <3>2, <3>3 DEF own
  <2> QED
    BY <2>1, <2>2
<1>5. UNCHANGED <<rows, lock, acts>> /\ acts' \in Nat
      /\ lock' \in [Matters -> Writers \cup {NoWriter}] /\ Held(w)' = Held(w) /\ job'[w] = t
  BY <1>4 DEF Decide, PointInv, TypeOK, Held
<1>6. Collected(t)
  <2>1. SUFFICES ASSUME t.op = "delete" PROVE Collected(t)
    BY DEF Collected
  <2>2. ~DeletionBlocked(j.matter) /\ t.owned = OwnedRows(j.matter)
    BY <1>1, <1>4, <2>1 DEF Permitted
  <2>3. \A r \in cited : r[1] \in Matters /\ r = <<r[1], r[2]>>
    BY <1>1 DEF Pairs
  <2>4. \A r \in cited : r[2] # j.matter
    BY <2>2, <2>3 DEF DeletionBlocked
  <2>5. \A m \in Matters \ {j.matter} : Live(m) => successor[m] # j.matter
    BY <2>2 DEF DeletionBlocked
  <2> QED
    BY <1>4, <2>2, <2>4, <2>5 DEF Collected, OwnedRows
<1>7. Locked(w)'
  <2>1. Collected(t)' /\ \A m \in Matters : Live(m)' = Live(m)
    BY <1>5, <1>6 DEF Collected, rows, Live
  <2>2. Needs(t) = Needs(j) /\ Needs(j) \subseteq Matters
    BY <1>2, <1>4 DEF Needs
  <2> QED
    BY <1>2, <1>3, <1>4, <1>5, <2>1, <2>2 DEF Locked
<1> QED
  BY <1>4, <1>5, <1>7, Prepares

LEMMA WalkKeeps ==
    ASSUME PointInv, NEW w \in Writers, Walk(w) PROVE PointInv'
<1> DEFINE j == job[w]
           following == successor[j.at]
<1>1. /\ j \in Job /\ j.step = "walking" /\ Locked(w) /\ j.op = "close" /\ j.at \in Matters
      /\ following \in Matters \cup {None}
  BY JobParts DEF Walk, PointInv, Locked, TypeOK
<1>2. PICK t \in Job : /\ job' = [job EXCEPT ![w] = t] /\ t.step \in {"walking", "writing"}
                       /\ t.op = j.op /\ t.matter = j.matter /\ t.other = j.other
                       /\ (t.step = "walking" => t.at \in Matters)
  <2>1. CASE following \in j.seen \cup {None}
    <3> DEFINE t == [j EXCEPT !.step = "writing", !.at = None, !.seen = {}]
    <3>1. /\ t \in Job /\ t.step = "writing" /\ t.op = j.op /\ t.matter = j.matter
          /\ t.other = j.other
      BY <1>1 DEF Job
    <3>2. job' = [job EXCEPT ![w] = t]
      BY <2>1 DEF Walk
    <3> QED
      BY <3>1, <3>2
  <2>2. CASE following \notin j.seen \cup {None}
    <3> DEFINE t == [j EXCEPT !.at = following, !.seen = @ \cup {following}]
    <3>1. /\ t \in Job /\ t.step = "walking" /\ t.op = j.op /\ t.matter = j.matter
          /\ t.other = j.other /\ t.at \in Matters
      BY <1>1, <2>2 DEF Job
    <3>2. job' = [job EXCEPT ![w] = t]
      BY <2>2 DEF Walk
    <3> QED
      BY <3>1, <3>2
  <2> QED
    BY <2>1, <2>2
<1>3. UNCHANGED <<rows, acts>> /\ acts' \in Nat /\ job'[w] = t
  BY <1>2 DEF Walk, PointInv, TypeOK
<1>4. /\ lock' \in [Matters -> Writers \cup {NoWriter}]
      /\ \A m \in Matters : lock'[m] # lock[m] => lock[m] \in {w, NoWriter} /\ lock'[m] = w
  BY DEF Walk, PointInv, TypeOK
<1>5. Held(w) \subseteq Held(w)'
  BY <1>4 DEF Held
<1>6. Locked(w)'
  <2>1. \A m \in Matters : Live(m)' = Live(m)
    BY <1>3 DEF rows, Live
  <2>2. /\ Needs(t) = Needs(j) /\ Needs(j) \subseteq Held(w) /\ j.matter \in Matters
        /\ \A m \in Needs(j) : Live(m) /\ m \in Matters
    BY <1>1, <1>2, JobParts DEF Needs, Locked, Decided, PointInv
  <2> QED
    BY <1>1, <1>2, <1>3, <1>5, <2>1, <2>2 DEF Locked, Decided, Collected, Ops
<1> QED
  BY <1>2, <1>3, <1>4, <1>6, Prepares

LEMMA RollBackKeeps ==
    ASSUME PointInv, NEW w \in Writers, RollBack(w) PROVE PointInv'
<1>1. End(w) /\ UNCHANGED rows /\ acts' \in Nat
  BY DEF RollBack, PointInv, TypeOK
<1>2. NoPointerToTombstone'
  BY <1>1 DEF PointInv, NoPointerToTombstone, rows, Live
<1> QED
  BY <1>1, <1>2, UnchangedRowsAreOwn, WritesKeep DEF rows, PointInv, TypeOK

\* What a transaction holds when it writes.
LEMMA AtWriting ==
    ASSUME PointInv, NEW w \in Writers, job[w].step = "writing"
    PROVE  LET j == job[w] IN
           /\ j.matter \in Matters /\ j.matter \in Held(w) /\ Live(j.matter)
           /\ j.other \in Matters \cup {None}
           /\ j.op \in {"close", "link", "cite"} /\ j.other # None
                => j.other \in Held(w) /\ Live(j.other)
           /\ j.op \in {"link", "cite"} => j.other \in Matters /\ j.other # j.matter
           /\ Collected(j)
<1> DEFINE j == job[w]
<1>1. Locked(w) /\ j.other \in Matters \cup {None}
  BY JobParts DEF PointInv
<1> QED
  BY <1>1 DEF Locked, Decided, Needs

LEMMA WriteKeeps ==
    ASSUME PointInv, NEW w \in Writers,
           \/ WriteClose(w) \/ WriteReopen(w) \/ WriteDelete(w)
           \/ WriteRelation(w) \/ WriteCitation(w)
    PROVE  PointInv'
<1> DEFINE j == job[w]
<1>1. End(w) /\ acts' \in Nat /\ j.step = "writing"
  BY DEF WriteClose, WriteReopen, WriteDelete, WriteRelation, WriteCitation, Writing,
         PointInv, TypeOK
<1>2. /\ j.matter \in Matters /\ j.matter \in Held(w) /\ Live(j.matter)
      /\ j.other \in Matters \cup {None}
      /\ (j.op \in {"close", "link", "cite"} /\ j.other # None
           => j.other \in Held(w) /\ Live(j.other))
      /\ (j.op \in {"link", "cite"} => j.other \in Matters /\ j.other # j.matter)
      /\ Collected(j)
  BY <1>1, AtWriting
<1>3. /\ open \in [Matters -> BOOLEAN] /\ successor \in [Matters -> Matters \cup {None}]
      /\ deleted \subseteq Matters /\ related \subseteq Pairs /\ cited \subseteq Pairs
      /\ NoPointerToTombstone
  BY DEF PointInv, TypeOK
<1>4. CASE WriteClose(w) \/ WriteReopen(w)
  <2>1. PICK s \in Matters \cup {None} :
          /\ successor' = [successor EXCEPT ![j.matter] = s]
          /\ s # None => s \in Held(w) /\ Live(s)
    BY <1>2, <1>4 DEF WriteClose, WriteReopen, Writing
  <2>2. UNCHANGED <<deleted, related, cited>> /\ open' \in [Matters -> BOOLEAN]
    BY <1>2, <1>3, <1>4 DEF WriteClose, WriteReopen
  <2>3. successor' \in [Matters -> Matters \cup {None}]
        /\ \A m \in Matters : successor'[m] = IF m = j.matter THEN s ELSE successor[m]
    BY <1>2, <1>3, <2>1
  <2> HIDE DEF j
  <2>4. WritesOwnRows(w)
    BY <2>1, <2>2, <2>3 DEF WritesOwnRows
  <2>5. NoPointerToTombstone'
    BY <1>3, <2>1, <2>2, <2>3 DEF NoPointerToTombstone, Live
  <2> QED
    BY <1>1, <1>3, <2>2, <2>3, <2>4, <2>5, WritesKeep
<1>5. CASE WriteDelete(w)
  <2>1. /\ deleted' = deleted \cup {j.matter} /\ related' = related \ j.owned
        /\ cited' = cited \ j.owned /\ UNCHANGED <<open, successor>> /\ j.op = "delete"
    BY <1>5 DEF WriteDelete, Writing
  <2> HIDE DEF j
  <2>2. WritesOwnRows(w)
    BY <1>2, <2>1 DEF WritesOwnRows
  <2>3. \A m \in Matters : Live(m)' <=> Live(m) /\ m # j.matter
    BY <2>1 DEF Live
  <2>4. NoPointerToTombstone'
    <3>1. \A r \in related' \cup cited' : j.matter \notin {r[1], r[2]}
      BY <1>1, <1>2, <2>1 DEF Collected, j
    <3>2. \A r \in related' \cup cited' : r[1] \in Matters /\ r[2] \in Matters
      BY <1>3, <2>1 DEF Pairs
    <3>3. \A m \in Matters : Live(m)' => successor'[m] # j.matter
      <4>1. \A m \in Matters \ {j.matter} : Live(m) => successor[m] # j.matter
        BY <1>1, <1>2, <2>1 DEF Collected, j
      <4> QED
        BY <2>1, <2>3, <4>1
    <3> QED
      BY <1>3, <2>1, <2>3, <3>1, <3>2, <3>3 DEF NoPointerToTombstone
  <2> QED
    BY <1>1, <1>2, <1>3, <2>1, <2>2, <2>4, WritesKeep
<1>6. CASE WriteRelation(w)
  <2> DEFINE pair == CanonicalPair(j.matter, j.other)
  <2>1. UNCHANGED <<open, successor, deleted, cited>>
    BY <1>6 DEF WriteRelation
  <2>2. j.op = "link" \/ related' \subseteq related
    BY <1>6 DEF WriteRelation, Writing
  <2>3. related' \subseteq related \cup {pair}
    BY <1>6 DEF WriteRelation
  <2>4. CASE j.op = "link"
    <3>1. /\ j.other \in Matters /\ j.other \in Held(w) /\ Live(j.other)
      BY <1>2, <2>4, NoneIsNoMatter
    <3>2. /\ pair \in Pairs /\ pair[1] \in Held(w) /\ pair[2] \in Held(w)
          /\ Live(pair[1]) /\ Live(pair[2])
      BY <1>2, <3>1 DEF CanonicalPair, Pairs
    <3> HIDE DEF pair, j
    <3>3. WritesOwnRows(w) /\ related' \subseteq Pairs
      BY <1>3, <2>1, <2>3, <3>2 DEF WritesOwnRows
    <3>4. NoPointerToTombstone'
      BY <1>3, <2>1, <2>3, <3>2 DEF NoPointerToTombstone, Live
    <3> QED
      BY <1>1, <1>3, <2>1, <3>3, <3>4, WritesKeep
  <2>5. CASE related' \subseteq related
    <3>1. WritesOwnRows(w) /\ NoPointerToTombstone'
      BY <1>3, <2>1, <2>5 DEF WritesOwnRows, NoPointerToTombstone, Live
    <3> QED
      BY <1>1, <1>3, <2>1, <2>5, <3>1, WritesKeep
  <2> QED
    BY <2>2, <2>4, <2>5
<1>7. CASE WriteCitation(w)
  <2> DEFINE row == <<j.matter, j.other>>
  <2>1. UNCHANGED <<open, successor, deleted, related>>
    BY <1>7 DEF WriteCitation
  <2>2. j.op = "cite" \/ cited' \subseteq cited
    BY <1>7 DEF WriteCitation, Writing
  <2>3. cited' \subseteq cited \cup {row}
    BY <1>7 DEF WriteCitation
  <2>4. CASE j.op = "cite"
    <3>1. /\ j.other \in Matters /\ j.other \in Held(w) /\ Live(j.other)
      BY <1>2, <2>4, NoneIsNoMatter
    <3>2. /\ row \in Pairs /\ row[1] \in Held(w) /\ row[2] \in Held(w)
          /\ Live(row[1]) /\ Live(row[2])
      BY <1>2, <3>1 DEF Pairs
    <3> HIDE DEF row, j
    <3>3. WritesOwnRows(w) /\ cited' \subseteq Pairs
      BY <1>3, <2>1, <2>3, <3>2 DEF WritesOwnRows
    <3>4. NoPointerToTombstone'
      BY <1>3, <2>1, <2>3, <3>2 DEF NoPointerToTombstone, Live
    <3> QED
      BY <1>1, <1>3, <2>1, <3>3, <3>4, WritesKeep
  <2>5. CASE cited' \subseteq cited
    <3>1. WritesOwnRows(w) /\ NoPointerToTombstone'
      BY <1>3, <2>1, <2>5 DEF WritesOwnRows, NoPointerToTombstone, Live
    <3> QED
      BY <1>1, <1>3, <2>1, <2>5, <3>1, WritesKeep
  <2> QED
    BY <2>2, <2>4, <2>5
<1> QED
  BY <1>4, <1>5, <1>6, <1>7

-----------------------------------------------------------------------------
(* The invariant holds                                                      *)

LEMMA PointersStart == Init => PointInv
<1> SUFFICES ASSUME Init PROVE PointInv
  OBVIOUS
<1>1. TypeOK
  BY IdleIsJob, StartsAssumption DEF Init, TypeOK
<1>2. ASSUME NEW w \in Writers PROVE Locked(w)
  <2>1. Held(w) = {} /\ job[w] = Idle
    BY WritersAssumption DEF Init, Held
  <2> QED
    BY <2>1, IdleIsJob DEF Locked, Decided, Collected
<1>3. NoPointerToTombstone
  BY DEF Init, NoPointerToTombstone, Live
<1> QED
  BY <1>1, <1>2, <1>3 DEF PointInv

LEMMA PointersKept == PointInv /\ [Next]_vars => PointInv'
<1> SUFFICES ASSUME PointInv, [Next]_vars PROVE PointInv'
  OBVIOUS
<1>1. CASE UNCHANGED vars
  <2>1. TypeOK' /\ NoPointerToTombstone'
    BY <1>1 DEF vars, PointInv, TypeOK, NoPointerToTombstone, Live
  <2>2. ASSUME NEW w \in Writers PROVE Locked(w)'
    BY <1>1 DEF vars, PointInv, Locked, Held, Collected, Live
  <2> QED
    BY <2>1, <2>2 DEF PointInv
<1>2. ASSUME NEW w \in Writers, Begin(w) \/ Act(w) \/ RollBack(w) PROVE PointInv'
  BY <1>2, BeginKeeps, ReadChainKeeps, LockNextKeeps, DecideKeeps, WalkKeeps, WriteKeeps,
     RollBackKeeps DEF Act
<1> QED
  BY <1>1, <1>2 DEF Next

LEMMA PointersHold == Spec => []PointInv
<1> QED
  BY PointersStart, PointersKept, PTL DEF Spec

\* The rows of the Matters and of the transactions keep their types.
THEOREM PointersTyped == Spec => []TypeOK
<1>1. PointInv => TypeOK
  BY DEF PointInv
<1> QED
  BY <1>1, PointersHold, PTL

\* No live Matter ever continues as, is related to or is cited by a deleted one,
\* for any number of closures, relations, citations and deletions in flight:
\* each locks both Matters it joins and asks again under the locks
\* (lock_matters_in_order, delete_matter).
THEOREM NothingPointsAtTombstones == Spec => []NoPointerToTombstone
<1>1. PointInv => NoPointerToTombstone
  BY DEF PointInv
<1> QED
  BY <1>1, PointersHold, PTL

-----------------------------------------------------------------------------
(* Waiting                                                                  *)

\* Of transactions that wait, one waits for a row with no awaited row above it.
LEMMA HighestAwaited ==
    ASSUME NEW S, S # {}, NEW row, \A w \in S : row[w] \in Matters
    PROVE  \E w \in S : \A v \in S : ~(row[w] < row[v])
<1> DEFINE Above(n) == {m \in Matters : n < m}
           Sets == {Above(row[w]) : w \in S}
<1>1. Sets \subseteq FiniteSubsetsOf(Matters) /\ Sets # {}
  <2>1. \A n : Above(n) \in SUBSET Matters /\ IsFiniteSet(Above(n))
    BY MattersAssumption, FS_Subset
  <2> QED
    BY <2>1 DEF FiniteSubsetsOf
<1>2. IsWellFoundedOn(StrictSubsetOrdering(Matters), FiniteSubsetsOf(Matters))
  BY FS_StrictSubsetOrderingWellFounded
<1>3. \E x \in Sets : \A y \in Sets : <<y, x>> \notin StrictSubsetOrdering(Matters)
  <2> HIDE DEF Sets
  <2> QED
    BY <1>1, <1>2, WFMin
<1>4. PICK w \in S : \A v \in S :
        <<Above(row[v]), Above(row[w])>> \notin StrictSubsetOrdering(Matters)
  BY <1>3
<1>5. ASSUME NEW v \in S, row[w] < row[v] PROVE FALSE
  <2>1. row[w] \in Nat /\ row[v] \in Nat /\ row[v] \in Matters
    BY NoneIsNoMatter
  <2>2. Above(row[v]) \subseteq Above(row[w])
    <3> SUFFICES ASSUME NEW m \in Matters, row[v] < m PROVE row[w] < m
      OBVIOUS
    <3>1. m \in Nat
      BY NoneIsNoMatter
    <3> QED
      BY <1>5, <2>1, <3>1
  <2>3. row[v] \in Above(row[w]) /\ row[v] \notin Above(row[v])
    BY <1>5, <2>1
  <2>4. <<Above(row[v]), Above(row[w])>> \in StrictSubsetOrdering(Matters)
    BY <2>2, <2>3 DEF StrictSubsetOrdering
  <2> QED
    BY <1>4, <2>4
<1> QED
  BY <1>5

\* A transaction that waits holds only rows below the one it waits for.
LEMMA NoRing == PointInv => NoWaitCycle
<1> SUFFICES ASSUME PointInv, NEW S \in SUBSET Writers, S # {},
                    \A w \in S : \E v \in S : Waits(w, v)
             PROVE  FALSE
  BY DEF NoWaitCycle
<1> DEFINE row == [w \in S |-> NextRow(job[w].want)]
<1>1. ASSUME NEW w \in S
      PROVE  /\ row[w] \in job[w].want /\ row[w] \in Matters
             /\ \A h \in Held(w) : h < row[w]
  <2>1. w \in Writers /\ job[w].step = "locking" /\ job[w].want # {}
    BY DEF Waits
  <2>2. job[w].want \in SUBSET Matters /\ Locked(w)
    BY <2>1, JobParts DEF PointInv
  <2>3. row[w] \in job[w].want
    BY <2>1, <2>2, NextRowIsNext
  <2> HIDE DEF row
  <2> QED
    BY <2>1, <2>2, <2>3 DEF Locked
<1>2. PICK w \in S : \A v \in S : ~(row[w] < row[v])
  <2>1. \A w \in S : row[w] \in Matters
    BY <1>1
  <2> HIDE DEF row
  <2> QED
    BY <2>1, HighestAwaited
<1>3. PICK v \in S : lock[row[w]] = v
  BY DEF Waits
<1>4. row[w] \in Held(v)
  BY <1>1, <1>3 DEF Held
<1>5. row[w] < row[v]
  BY <1>1, <1>4
<1> QED
  BY <1>2, <1>5

\* However many transactions lock however many Matters, they never wait for one
\* another in a ring (lock_matters_in_order takes the rows by primary key, and the
\* cycle check's late rows are taken only when nobody has them).
THEOREM WaitsAreNoRing == Spec => []NoWaitCycle
<1> QED
  BY NoRing, PointersHold, PTL
-----------------------------------------------------------------------------
(* Rings of continuations                                                   *)

\* A continuation in progress has held every Matter it has walked to, and the
\* chain it found from the other Matter does not lead to its own.
Chain(w) ==
    LET j == job[w] IN
    /\ j.op = "close" => j.other # j.matter
    /\ j.step = "walking" =>
        /\ j.other \in j.seen /\ j.at \in j.seen /\ j.matter \notin j.seen
        /\ j.seen \subseteq Held(w)
        /\ \A m \in j.seen \ {j.at} : successor[m] \in j.seen
    /\ j.step = "writing" /\ j.op = "close" /\ j.other # None =>
        \E chain \in SUBSET Held(w) :
            /\ j.other \in chain /\ j.matter \notin chain
            /\ \A m \in chain : successor[m] \in chain \cup {None}

ChainInv ==
    /\ \A w \in Writers : Chain(w)
    /\ NoContinuationCycle

\* Only closures and reopenings write continuations.
LEMMA WhoContinues ==
    ASSUME NEW w, Begin(w) \/ Act(w) \/ RollBack(w)
    PROVE  UNCHANGED successor \/ WriteClose(w) \/ WriteReopen(w)
<1>1. CASE Begin(w)
  <2>1. \A op, m, other, step, want : Start(w, op, m, other, step, want) => UNCHANGED successor
    BY DEF Start, rows
  <2> QED
    BY <1>1, <2>1 DEF Begin, BeginClose, BeginReopen, BeginDelete, BeginContinue, BeginLink,
                      BeginCite, BeginUnlink, BeginUncite
<1>2. CASE ReadChain(w) \/ LockNext(w) \/ Decide(w)
  BY <1>2 DEF ReadChain, LockNext, Decide, rows
<1>3. CASE Walk(w) \/ RollBack(w)
  BY <1>3 DEF Walk, RollBack, rows
<1>4. CASE WriteDelete(w) \/ WriteRelation(w) \/ WriteCitation(w)
  BY <1>4 DEF WriteDelete, WriteRelation, WriteCitation
<1> QED
  BY <1>1, <1>2, <1>3, <1>4 DEF Act

\* A step of w leaves the others what they are doing and what they hold.
LEMMA JobsApart ==
    ASSUME PointInv, NEW w \in Writers, Begin(w) \/ Act(w) \/ RollBack(w),
           NEW v \in Writers, v # w
    PROVE  job'[v] = job[v] /\ Held(v)' = Held(v)
<1>0. job \in [Writers -> Job] /\ lock \in [Matters -> Writers \cup {NoWriter}]
  BY DEF PointInv, TypeOK
<1>1. ASSUME NEW j, job' = [job EXCEPT ![w] = j],
             \/ UNCHANGED lock
             \/ \E m : (lock[m] = w \/ lock[m] = NoWriter) /\ lock' = [lock EXCEPT ![m] = w]
      PROVE  job'[v] = job[v] /\ Held(v)' = Held(v)
  BY <1>0, <1>1, WritersAssumption DEF Held
<1>2. CASE Begin(w)
  <2>1. ASSUME NEW op, NEW m, NEW other, NEW step, NEW want,
               Start(w, op, m, other, step, want)
        PROVE  job'[v] = job[v] /\ Held(v)' = Held(v)
    BY <1>1, <2>1 DEF Start
  <2> QED
    BY <1>2, <2>1 DEF Begin, BeginClose, BeginReopen, BeginDelete, BeginContinue, BeginLink,
                      BeginCite, BeginUnlink, BeginUncite
<1>3. CASE ReadChain(w)
  BY <1>1, <1>3 DEF ReadChain
<1>4. CASE LockNext(w)
  <2>1. \E m : lock[m] = NoWriter /\ lock' = [lock EXCEPT ![m] = w]
    <3>1. /\ lock[NextRow(job[w].want)] = NoWriter
          /\ lock' = [lock EXCEPT ![NextRow(job[w].want)] = w]
      BY <1>4 DEF LockNext
    <3> QED
      BY <3>1
  <2> DEFINE j == [job[w] EXCEPT !.want = @ \ {NextRow(job[w].want)}]
  <2>2. job' = [job EXCEPT ![w] = j]
    BY <1>0, <1>4 DEF LockNext
  <2> HIDE DEF j
  <2> QED
    BY <1>1, <2>1, <2>2
<1>5. CASE Decide(w)
  BY <1>1, <1>5 DEF Decide
<1>6. CASE Walk(w)
  <2>1. CASE successor[job[w].at] \in job[w].seen \cup {None}
    BY <1>1, <1>6, <2>1 DEF Walk
  <2>2. CASE successor[job[w].at] \notin job[w].seen \cup {None}
    BY <1>1, <1>6, <2>2 DEF Walk
  <2> QED
    BY <2>1, <2>2
<1>7. CASE WriteClose(w) \/ WriteReopen(w) \/ WriteDelete(w) \/ WriteRelation(w)
           \/ WriteCitation(w) \/ RollBack(w)
  <2>1. End(w)
    BY <1>7 DEF WriteClose, WriteReopen, WriteDelete, WriteRelation, WriteCitation, RollBack
  <2> QED
    BY <2>1, Ends
<1> QED
  BY <1>2, <1>3, <1>4, <1>5, <1>6, <1>7 DEF Act

\* A step of w writes no continuation of a Matter it does not hold.
LEMMA OwnContinuations ==
    ASSUME PointInv, NEW w \in Writers, Begin(w) \/ Act(w) \/ RollBack(w),
           NEW m \in Matters \ Held(w)
    PROVE  successor'[m] = successor[m]
<1>1. CASE WriteClose(w) \/ WriteReopen(w)
  <2>1. job[w].step = "writing"
    BY <1>1 DEF WriteClose, WriteReopen, Writing
  <2>2. job[w].matter \in Held(w)
    BY <2>1, AtWriting
  <2> QED
    BY <1>1, <2>2 DEF WriteClose, WriteReopen, PointInv, TypeOK
<1> QED
  BY <1>1, WhoContinues

LEMMA OthersChain ==
    ASSUME PointInv, NEW w \in Writers, Begin(w) \/ Act(w) \/ RollBack(w),
           NEW v \in Writers, v # w, Chain(v)
    PROVE  Chain(v)'
<1>1. /\ job'[v] = job[v] /\ Held(v)' = Held(v) /\ Held(v) \subseteq Matters \ Held(w)
      /\ \A m \in Matters \ Held(w) : successor'[m] = successor[m]
  <2>1. Held(v) \subseteq Matters /\ Held(v) \cap Held(w) = {}
    BY DEF Held
  <2> QED
    BY <2>1, JobsApart, OwnContinuations
<1>2. \A m \in Held(v) : successor'[m] = successor[m]
  BY <1>1
<1> QED
  BY <1>1, <1>2 DEF Chain

\* What a step of w makes of its own walk.
LEMMA OwnChain ==
    ASSUME PointInv, NEW w \in Writers, Begin(w) \/ Act(w) \/ RollBack(w), Chain(w)
    PROVE  Chain(w)'
<1> DEFINE j == job[w]
<1>0. job \in [Writers -> Job] /\ j \in Job
  BY JobParts DEF PointInv, TypeOK
<1>1. CASE Begin(w)
  <2>1. ASSUME NEW op, NEW m \in Matters, NEW other \in Matters \cup {None},
               NEW step \in {"reading", "locking"}, NEW want,
               Start(w, op, m, other, step, want), other # m
        PROVE  Chain(w)'
    <3>1. job'[w].step = step /\ job'[w].matter = m /\ job'[w].other = other
      BY <1>0, <2>1 DEF Start, Idle
    <3> QED
      BY <2>1, <3>1 DEF Chain
  <2>2. ASSUME NEW m \in Matters, BeginClose(w, m) \/ BeginReopen(w, m) \/ BeginDelete(w, m)
        PROVE  Chain(w)'
    BY <2>1, <2>2, NoneIsNoMatter DEF BeginClose, BeginReopen, BeginDelete
  <2>3. ASSUME NEW m \in Matters, NEW n \in Matters,
               \/ BeginContinue(w, m, n) \/ BeginLink(w, m, n) \/ BeginCite(w, m, n)
        PROVE  Chain(w)'
    BY <2>1, <2>3 DEF BeginContinue, BeginLink, BeginCite
  <2>4. ASSUME NEW m \in Matters, NEW n \in Matters,
               \/ BeginUnlink(w, m, n) \/ BeginUncite(w, m, n)
        PROVE  Chain(w)'
    <3>1. job'[w].step = "locking" /\ job'[w].op # "close"
      BY <1>0, <2>4 DEF BeginUnlink, BeginUncite, Start, Idle
    <3> QED
      BY <3>1 DEF Chain
  <2> QED
    BY <1>1, <2>2, <2>3, <2>4 DEF Begin
<1>2. CASE ReadChain(w) \/ LockNext(w)
  <2>1. CASE ReadChain(w)
    <3> DEFINE following == successor[j.at]
    <3>1. CASE following \in j.want \cup {None}
      <4>1. job' = [job EXCEPT ![w] = [j EXCEPT !.step = "locking", !.at = None]]
        BY <2>1, <3>1 DEF ReadChain
      <4> QED
        BY <1>0, <4>1 DEF Job, Chain
    <3>2. CASE following \notin j.want \cup {None}
      <4>1. job' = [job EXCEPT ![w] = [j EXCEPT !.want = j.want \cup {following},
                                                !.at = following]]
            /\ j.step = "reading"
        BY <2>1, <3>2 DEF ReadChain
      <4> QED
        BY <1>0, <4>1 DEF Job, Chain
    <3> QED
      BY <3>1, <3>2
  <2>2. CASE LockNext(w)
    <3>1. job' = [job EXCEPT ![w] = [j EXCEPT !.want = j.want \ {NextRow(j.want)}]]
          /\ j.step = "locking"
      BY <1>0, <2>2 DEF LockNext, Job
    <3>2. job'[w].step = "locking" /\ job'[w].op = j.op
          /\ job'[w].other = j.other /\ job'[w].matter = j.matter
      BY <1>0, <3>1 DEF Job
    <3> QED
      BY <3>2 DEF Chain
  <2> QED
    BY <1>2, <2>1, <2>2
<1>3. CASE Decide(w)
  <2>1. CASE j.op = "close" /\ j.other # None
    <3>1. j.step = "locking" /\ j.want = {}
          /\ job' = [job EXCEPT ![w] = [j EXCEPT !.step = "walking", !.at = j.other,
                                                 !.seen = {j.other}]]
          /\ UNCHANGED <<lock, successor>>
      BY <1>3, <2>1 DEF Decide, rows
    <3>2. j.other \in Held(w) /\ Held(w)' = Held(w)
      BY <1>0, <2>1, <3>1 DEF PointInv, Locked, Needs, Held
    <3>3. job'[w].step = "walking" /\ job'[w].op = j.op /\ job'[w].other = j.other
          /\ job'[w].matter = j.matter /\ job'[w].at = j.other /\ job'[w].seen = {j.other}
      BY <1>0, <3>1 DEF Job
    <3>4. j.other # j.matter
      BY <2>1 DEF Chain
    <3> QED
      BY <3>2, <3>3, <3>4 DEF Chain
  <2>2. CASE ~(j.op = "close" /\ j.other # None)
    <3>1. job'[w].step = "writing" /\ job'[w].op = j.op /\ job'[w].other = j.other
          /\ job'[w].matter = j.matter
      BY <1>0, <1>3, <2>2 DEF Decide, Job
    <3> QED
      BY <2>2, <3>1 DEF Chain
  <2> QED
    BY <2>1, <2>2
<1>4. CASE Walk(w)
  <2> DEFINE following == successor[j.at]
  <2>1. /\ j.step = "walking" /\ following # j.matter /\ UNCHANGED successor
        /\ j.other \in j.seen /\ j.at \in j.seen /\ j.matter \notin j.seen
        /\ j.seen \subseteq Held(w) /\ j.other # j.matter /\ j.op = "close"
        /\ \A m \in j.seen \ {j.at} : successor[m] \in j.seen
    BY <1>4 DEF Walk, Chain, rows, PointInv, Locked
  <2>2. CASE following \in j.seen \cup {None}
    <3>1. job' = [job EXCEPT ![w] = [j EXCEPT !.step = "writing", !.at = None, !.seen = {}]]
          /\ UNCHANGED lock
      BY <1>4, <2>2 DEF Walk
    <3>2. job'[w].step = "writing" /\ job'[w].op = j.op /\ job'[w].other = j.other
          /\ job'[w].matter = j.matter /\ Held(w)' = Held(w)
      BY <1>0, <3>1 DEF Job, Held
    <3>3. \A m \in j.seen : successor'[m] \in j.seen \cup {None}
      BY <2>1, <2>2
    <3> HIDE DEF following, j
    <3> QED
      BY <2>1, <3>2, <3>3 DEF Chain
  <2>3. CASE following \notin j.seen \cup {None}
    <3>1. job' = [job EXCEPT ![w] = [j EXCEPT !.at = following,
                                              !.seen = j.seen \cup {following}]]
          /\ lock' = [lock EXCEPT ![following] = w]
      BY <1>4, <2>3 DEF Walk
    <3>2. job'[w].step = "walking" /\ job'[w].op = j.op /\ job'[w].other = j.other
          /\ job'[w].matter = j.matter /\ job'[w].at = following
          /\ job'[w].seen = j.seen \cup {following}
      BY <1>0, <2>1, <3>1 DEF Job
    <3>3. following \in Matters
      BY <2>1, <2>3 DEF PointInv, TypeOK, Held
    <3>4. Held(w) \cup {following} \subseteq Held(w)'
      BY <3>1, <3>3 DEF PointInv, TypeOK, Held
    <3>5. \A m \in (j.seen \cup {following}) \ {following} :
              successor'[m] \in j.seen \cup {following}
      BY <2>1
    <3> HIDE DEF following
    <3> QED
      BY <2>1, <3>2, <3>4, <3>5 DEF Chain
  <2> QED
    BY <2>2, <2>3
<1>5. CASE RollBack(w) \/ WriteClose(w) \/ WriteReopen(w) \/ WriteDelete(w)
           \/ WriteRelation(w) \/ WriteCitation(w)
  <2>1. job'[w] = Idle
    BY <1>0, <1>5 DEF RollBack, WriteClose, WriteReopen, WriteDelete, WriteRelation,
                      WriteCitation, End
  <2> QED
    BY <2>1, IdleIsJob DEF Chain
<1> QED
  BY <1>1, <1>2, <1>3, <1>4, <1>5 DEF Act

\* A continuation written at the head of a chain that does not come back to it
\* closes no ring: a ring through the new pointer would have a smaller one in it.
LEMMA NoRingWritten ==
    ASSUME PointInv, NEW w \in Writers, Chain(w), NoContinuationCycle,
           WriteClose(w) \/ WriteReopen(w)
    PROVE  NoContinuationCycle'
<1> DEFINE j == job[w]
<1>1. PICK s \in Matters \cup {None} :
        /\ successor' = [successor EXCEPT ![j.matter] = s]
        /\ s # None => j.op = "close" /\ j.other = s /\ j.step = "writing"
  <2>1. CASE WriteClose(w)
    BY <2>1, JobParts DEF WriteClose, Writing, PointInv
  <2>2. CASE WriteReopen(w)
    BY <2>2 DEF WriteReopen
  <2> QED
    BY <2>1, <2>2
<1>2. /\ successor \in [Matters -> Matters \cup {None}]
      /\ \A m \in Matters : successor'[m] = IF m = j.matter THEN s ELSE successor[m]
  BY <1>1 DEF PointInv, TypeOK
<1> SUFFICES ASSUME NEW S \in (SUBSET Matters) \ {{}}, \A m \in S : successor'[m] \in S
             PROVE  FALSE
  BY DEF NoContinuationCycle, HasRing
<1>3. j.matter \in S
  BY <1>2 DEF NoContinuationCycle, HasRing
<1>4. s \in S /\ s # None
  BY <1>2, <1>3, NoneIsNoMatter
<1>5. PICK chain \in SUBSET Held(w) :
        /\ s \in chain /\ j.matter \notin chain
        /\ \A m \in chain : successor[m] \in chain \cup {None}
  BY <1>1, <1>4 DEF Chain
<1>6. ASSUME NEW m \in S \cap chain PROVE successor[m] \in S \cap chain
  <2>1. m # j.matter /\ successor[m] \in chain \cup {None}
    BY <1>5
  <2>2. successor'[m] = successor[m] /\ successor'[m] \in S
    BY <1>2, <2>1
  <2> QED
    BY <2>1, <2>2, NoneIsNoMatter
<1>7. S \cap chain \in (SUBSET Matters) \ {{}}
  BY <1>4, <1>5
<1> QED
  BY <1>6, <1>7 DEF NoContinuationCycle, HasRing

LEMMA ChainsStart == Init => ChainInv
<1> SUFFICES ASSUME Init PROVE ChainInv
  OBVIOUS
<1>1. \A w \in Writers : Chain(w)
  BY IdleIsJob DEF Init, Chain
<1> QED
  BY <1>1, StartsAssumption DEF Init, ChainInv, NoContinuationCycle

LEMMA ChainsKept == PointInv /\ ChainInv /\ [Next]_vars => ChainInv'
<1> SUFFICES ASSUME PointInv, ChainInv, [Next]_vars PROVE ChainInv'
  OBVIOUS
<1>1. CASE UNCHANGED vars
  BY <1>1 DEF vars, ChainInv, Chain, Held, NoContinuationCycle
<1>2. ASSUME NEW w \in Writers, Begin(w) \/ Act(w) \/ RollBack(w) PROVE ChainInv'
  <2>1. \A v \in Writers : Chain(v)'
    BY <1>2, OthersChain, OwnChain DEF ChainInv
  <2>2. NoContinuationCycle'
    <3>1. UNCHANGED successor \/ WriteClose(w) \/ WriteReopen(w)
      BY <1>2, WhoContinues
    <3>2. CASE UNCHANGED successor
      BY <3>2 DEF ChainInv, NoContinuationCycle
    <3> QED
      BY <3>1, <3>2, NoRingWritten DEF ChainInv
  <2> QED
    BY <2>1, <2>2 DEF ChainInv
<1> QED
  BY <1>1, <1>2 DEF Next

\* No Matter ever continues as itself through any number of later stages, however
\* many closures and reopenings run at once: a closure holds every Matter of the
\* chain it found when it writes, so the chain is still the one it found.
THEOREM ContinuationsEnd == Spec => []NoContinuationCycle
<1>1. ChainInv => NoContinuationCycle
  BY DEF ChainInv
<1> QED
  BY <1>1, ChainsStart, ChainsKept, PointersHold, PTL DEF Spec
=============================================================================
