-------------------------- MODULE ExtractionProofs --------------------------
(***************************************************************************)
(* Proofs about the extraction queue, for any number of workers, versions, *)
(* attempts and forced claims.                                             *)
(***************************************************************************)
EXTENDS Extraction, TLAPS

USE DEF Unclaimed

LEMMA IdleType == Idle \in Process
BY VersionsAssumption DEF Idle, Process, Step

\* Every variable of the queue keeps its type.
THEOREM TypeCorrect == Spec => []TypeOK
<1>1. Init => TypeOK
  <2> SUFFICES ASSUME Init PROVE TypeOK
    OBVIOUS
  <2>1. version \in [Versions -> VersionRow]
    <3> DEFINE New(s) == [state |-> s, claimedAt |-> Unclaimed, attempts |-> 0, aged |-> FALSE]
    <3>1. New("PENDING") \in VersionRow /\ New("INTAKE_READ") \in VersionRow
      BY LimitsAssumption DEF VersionRow, Queued, Terminal
    <3>2. {New(s) : s \in {"PENDING", "INTAKE_READ"}} \subseteq VersionRow
      BY <3>1
    <3> QED
      BY <3>2 DEF Init
  <2> QED
    BY <2>1, IdleType, LimitsAssumption DEF Init, TypeOK
<1>2. TypeOK /\ [Next]_vars => TypeOK'
  <2> SUFFICES ASSUME TypeOK, [Next]_vars PROVE TypeOK'
    OBVIOUS
  <2> USE IdleType, LimitsAssumption, VersionsAssumption, ParsersAssumption
  <2>0. claims' \in [Versions -> Nat]
    <3>1. \/ claims' = claims
          \/ \E v \in Versions : claims' = [claims EXCEPT ![v] = @ + 1]
          \/ \E v \in Versions : claims' = [claims EXCEPT ![v] = 1]
      BY DEF TypeOK, Process, Next, Pass, vars, ReadQueue, ClaimVersion, Sleep, RecordFailure,
             FinishWithoutDerivatives, LoseClaim, PublishBegin, RegisterEmailAttachments,
             PublishCommit, PublishRaises, DiscardInactiveDerivatives, LoadRaises, Crash,
             ForceClaim, ClaimAges
    <3>2. ASSUME NEW v \in Versions, claims' = [claims EXCEPT ![v] = @ + 1]
          PROVE  claims' \in [Versions -> Nat]
      BY <3>2 DEF TypeOK
    <3> QED
      BY <3>1, <3>2 DEF TypeOK
  <2> USE <2>0
  <2>1. ASSUME NEW w \in Workers, ReadQueue(w) PROVE TypeOK'
    <3>1. PICK v \in Versions :
            worker' = [worker EXCEPT ![w].step = "picked", ![w].version = v]
      BY <2>1 DEF ReadQueue, PendingVersions
    <3>2. [worker[w] EXCEPT !.step = "picked", !.version = v] \in Process
      BY DEF TypeOK, Process, Step
    <3>3. worker' \in [Workers -> Process]
      BY <3>1, <3>2 DEF TypeOK
    <3> QED
      BY <2>1, <3>3 DEF TypeOK, ReadQueue
  <2>2. ASSUME NEW v \in Versions, NEW n \in Nat, Stamp(v, n)
        PROVE version' \in [Versions -> VersionRow] /\ now' \in Nat
    BY <2>2 DEF TypeOK, Stamp, VersionRow, Queued
  <2>3. ASSUME NEW w \in Workers, NEW v \in Versions, NEW b \in BOOLEAN, Become(w, v, b)
        PROVE worker' \in [Workers -> Process]
    BY <2>3 DEF TypeOK, Become, Process, Step
  <2>4. ASSUME NEW w \in Workers, Stop(w) PROVE worker' \in [Workers -> Process]
    BY <2>4 DEF TypeOK, Stop
  <2>5. ASSUME NEW v \in Versions, NEW s \in Terminal, Settle(v, s)
        PROVE version' \in [Versions -> VersionRow]
    <3>1. [version[v] EXCEPT !.state = s, !.claimedAt = Unclaimed, !.aged = FALSE]
            \in VersionRow
      BY DEF TypeOK, VersionRow, Terminal
    <3>2. version' = [version EXCEPT ![v] = [@ EXCEPT !.state = s,
                                      !.claimedAt = Unclaimed, !.aged = FALSE]]
      BY <2>5 DEF Settle
    <3> QED
      BY <3>1, <3>2 DEF TypeOK
  <2>6. ASSUME NEW v \in Versions, NEW f \in Nat, RecordFailureOf(v, f)
        PROVE /\ version' \in [Versions -> VersionRow]
              /\ rows' \subseteq Derivative
              /\ links' \subseteq Link
    <3>1. FailedRow(v, f) \in Derivative
      BY DEF FailedRow, Derivative, Kinds, TextKinds
    <3>2. "FAILED" \in Terminal
      BY DEF Terminal
    <3> QED
      BY <2>5, <2>6, <3>1, <3>2 DEF TypeOK, RecordFailureOf
  <2>7. ASSUME NEW w \in Workers, ClaimVersion(w) PROVE TypeOK'
    <3> DEFINE v == worker[w].version
    <3>0. v \in Versions /\ version[v] \in VersionRow
      BY DEF TypeOK, Process
    <3>a. version[v].claimedAt \in Nat /\ version[v].attempts \in Nat
      BY <3>0 DEF VersionRow
    <3>1. CASE /\ Stop(w)
               /\ UNCHANGED <<version, rows, links, now, rowLock, forced>>
      BY <3>1, <2>4 DEF TypeOK
    <3>2. CASE /\ RecordFailureOf(v, version[v].claimedAt)
               /\ Stop(w)
               /\ UNCHANGED <<now, rowLock, forced>>
      BY <3>2, <3>0, <3>a, <2>4, <2>6 DEF TypeOK
    <3>3. CASE /\ ~Exhausted(v)
               /\ Stamp(v, Attempts(v))
               /\ Become(w, v, FALSE)
               /\ UNCHANGED <<rows, links, rowLock, forced>>
      <4>1. Attempts(v) \in Nat
        BY <3>a DEF Attempts
      <4> QED
        BY <4>1, <3>0, <3>3, <2>2, <2>3 DEF TypeOK
    <3> QED
      BY <2>7, <3>1, <3>2, <3>3 DEF ClaimVersion
  <2>8. ASSUME NEW w \in Workers, NEW v \in Versions, ForceClaim(w, v) PROVE TypeOK'
    <3>1. 1 \in Nat /\ forced' \in 0..MaxForce
      BY <2>8 DEF ForceClaim, TypeOK
    <3> QED
      BY <2>2, <2>3, <2>8, <3>1 DEF TypeOK, ForceClaim
  <2>9. ASSUME NEW w \in Workers, RecordFailure(w) PROVE TypeOK'
    <3>1. worker[w].version \in Versions /\ worker[w].fence \in Nat
      BY DEF TypeOK, Process
    <3> QED
      BY <2>4, <2>6, <2>9, <3>1 DEF RecordFailure, TypeOK
  <2>10. ASSUME NEW w \in Workers, FinishWithoutDerivatives(w) PROVE TypeOK'
    <3>1. worker[w].version \in Versions /\ "NOT_APPLICABLE" \in Terminal
      BY DEF TypeOK, Process, Terminal
    <3> QED
      BY <2>4, <2>5, <2>10, <3>1 DEF FinishWithoutDerivatives, TypeOK
  <2>11. ASSUME NEW w \in Workers, LoseClaim(w) PROVE TypeOK'
    BY <2>4, <2>11 DEF LoseClaim, TypeOK
  <2>12. ASSUME NEW w \in Workers, LoadRaises(w) PROVE TypeOK'
    BY <2>4, <2>12 DEF LoadRaises, TypeOK
  <2>13. ASSUME NEW w \in Workers, PublishBegin(w) PROVE TypeOK'
    <3>1. PICK K \in SUBSET Kinds :
            worker' = [worker EXCEPT ![w].step = "publishing", ![w].kinds = K]
      BY <2>13 DEF PublishBegin
    <3>2. [worker[w] EXCEPT !.step = "publishing", !.kinds = K] \in Process
      BY DEF TypeOK, Process, Step
    <3>3. worker' \in [Workers -> Process]
      BY <3>1, <3>2 DEF TypeOK
    <3> QED
      BY <2>13, <3>3 DEF PublishBegin, TypeOK
  <2>14. ASSUME NEW w \in Workers, RegisterEmailAttachments(w) PROVE TypeOK'
    <3>1. \A found \in SUBSET Ordinals :
            Unlinked(worker[w].version, found) \in SUBSET Ordinals
      BY DEF Unlinked
    <3>2. PICK A \in SUBSET Ordinals :
            worker' = [worker EXCEPT ![w].step = "linked", ![w].attached = A]
      BY <2>14, <3>1 DEF RegisterEmailAttachments
    <3>3. [worker[w] EXCEPT !.step = "linked", !.attached = A] \in Process
      BY DEF TypeOK, Process, Step
    <3>4. worker' \in [Workers -> Process]
      BY <3>2, <3>3 DEF TypeOK
    <3> QED
      BY <2>14, <3>4 DEF RegisterEmailAttachments, TypeOK
  <2>15. ASSUME NEW w \in Workers, PublishCommit(w) PROVE TypeOK'
    <3> DEFINE p == worker[w]
    <3>1. /\ p.version \in Versions /\ p.fence \in Nat
          /\ p.kinds \in SUBSET Kinds /\ p.attached \in SUBSET Ordinals
      BY DEF TypeOK, Process
    <3>2. rows' \subseteq Derivative
      BY <2>15, <3>1 DEF PublishCommit, WriteDerivatives, Derivative, TypeOK
    <3>3. links' \subseteq Link
      BY <2>15, <3>1 DEF PublishCommit, Link, TypeOK
    <3>4. version' \in [Versions -> VersionRow]
      BY <2>5, <2>15, <3>1 DEF PublishCommit, Terminal
    <3>5. worker' \in [Workers -> Process]
      BY <2>15, <3>1 DEF PublishCommit, TypeOK, Process, Step, Idle
    <3>6. rowLock' \in [Versions -> Workers \cup {NoWorker}] /\ now' = now /\ forced' = forced
      BY <2>15 DEF PublishCommit, TypeOK
    <3> QED
      BY <3>2, <3>3, <3>4, <3>5, <3>6 DEF TypeOK
  <2>16. ASSUME NEW w \in Workers, PublishRaises(w) PROVE TypeOK'
    <3>1. [worker[w] EXCEPT !.step = "publish_failed", !.kinds = {}, !.attached = {}]
            \in Process
      BY DEF TypeOK, Process, Step
    <3>2. worker' = [worker EXCEPT ![w] = [@ EXCEPT !.step = "publish_failed",
                                                    !.kinds = {}, !.attached = {}]]
      BY <2>16 DEF PublishRaises
    <3>3. worker' \in [Workers -> Process]
      BY <3>1, <3>2 DEF TypeOK
    <3> QED
      BY <2>16, <3>3 DEF PublishRaises, Unlocked, TypeOK
  <2>17. ASSUME NEW w \in Workers, DiscardInactiveDerivatives(w) PROVE TypeOK'
    BY <2>4, <2>17 DEF DiscardInactiveDerivatives, Kept, TypeOK
  <2>18. ASSUME NEW w \in Workers, Crash(w) PROVE TypeOK'
    BY <2>4, <2>18 DEF Crash, Unlocked, TypeOK
  <2>19. ASSUME NEW v \in Versions, ClaimAges(v) PROVE TypeOK'
    BY <2>19 DEF ClaimAges, TypeOK, VersionRow
  <2>20. CASE UNCHANGED vars
    BY <2>20 DEF vars, TypeOK
  <2> QED
    BY <2>1, <2>7, <2>8, <2>9, <2>10, <2>11, <2>12, <2>13, <2>14, <2>15, <2>16,
       <2>17, <2>18, <2>19, <2>20 DEF Next, Pass, Sleep
<1> QED
  BY <1>1, <1>2, PTL DEF Spec

-----------------------------------------------------------------------------
(* The fence.                                                              *)

\* What a step does to the derivatives: nothing, a failure
\* row, a publish or a discard.  A failure and a publish are written under the
\* stamp that is on the version at that moment.
LEMMA RowsStep ==
    ASSUME TypeOK, ClaimFence, [Next]_vars
    PROVE  \/ rows' = rows
           \/ \E v \in Versions :
                /\ version[v].claimedAt # Unclaimed
                /\ rows' = rows \cup {FailedRow(v, version[v].claimedAt)}
                /\ version' = [version EXCEPT ![v].state = "FAILED",
                                             ![v].claimedAt = Unclaimed,
                                             ![v].aged = FALSE]
                /\ now' = now
           \/ \E v \in Versions, K \in SUBSET Kinds :
                /\ version[v].claimedAt # Unclaimed
                /\ rows' = WriteDerivatives(v, K, version[v].claimedAt)
                /\ version' = [version EXCEPT ![v].state = "DONE",
                                             ![v].claimedAt = Unclaimed,
                                             ![v].aged = FALSE]
                /\ now' = now
           \/ \E v \in Versions : /\ rows' = Kept(v)
                                  /\ version' = version /\ now' = now
<1> USE DEF Settle
<1>1. ASSUME NEW w \in Workers, ClaimVersion(w),
             rows' # rows
      PROVE  \E v \in Versions :
                /\ version[v].claimedAt # Unclaimed
                /\ rows' = rows \cup {FailedRow(v, version[v].claimedAt)}
                /\ version' = [version EXCEPT ![v].state = "FAILED",
                                             ![v].claimedAt = Unclaimed,
                                             ![v].aged = FALSE]
                /\ now' = now
  <2> DEFINE v == worker[w].version
  <2>1. v \in Versions
    BY DEF TypeOK, Process
  <2>2. RecordFailureOf(v, version[v].claimedAt) /\ Exhausted(v) /\ now' = now
    BY <1>1 DEF ClaimVersion
  <2>3. version[v].claimedAt # Unclaimed
    BY <2>1, <2>2 DEF Exhausted, ClaimFence, StampsAreClaims
  <2> QED
    BY <2>1, <2>2, <2>3 DEF RecordFailureOf
<1>2. ASSUME NEW w \in Workers, RecordFailure(w)
      PROVE  \E v \in Versions :
                /\ version[v].claimedAt # Unclaimed
                /\ rows' = rows \cup {FailedRow(v, version[v].claimedAt)}
                /\ version' = [version EXCEPT ![v].state = "FAILED",
                                             ![v].claimedAt = Unclaimed,
                                             ![v].aged = FALSE]
                /\ now' = now
  <2> DEFINE v == worker[w].version
  <2>1. v \in Versions /\ now \in Nat
    BY DEF TypeOK, Process
  <2>2. worker[w].fence \in 1..now /\ version[v].claimedAt = worker[w].fence
    BY <1>2 DEF RecordFailure, CanWrite, HoldsClaim, ClaimFence, PassesHoldStamps, Passing
  <2>3. version[v].claimedAt # Unclaimed
    BY <2>1, <2>2
  <2>4. RecordFailureOf(v, version[v].claimedAt) /\ now' = now
    BY <1>2, <2>2 DEF RecordFailure
  <2> QED
    BY <2>1, <2>3, <2>4 DEF RecordFailureOf
<1>3. ASSUME NEW w \in Workers, PublishCommit(w)
      PROVE  \E v \in Versions, K \in SUBSET Kinds :
                /\ version[v].claimedAt # Unclaimed
                /\ rows' = WriteDerivatives(v, K, version[v].claimedAt)
                /\ version' = [version EXCEPT ![v].state = "DONE",
                                             ![v].claimedAt = Unclaimed,
                                             ![v].aged = FALSE]
                /\ now' = now
  <2> DEFINE p == worker[w]
  <2>1. p.version \in Versions /\ p.kinds \in SUBSET Kinds /\ now \in Nat
    BY DEF TypeOK, Process
  <2>2. p.fence \in 1..now /\ version[p.version].claimedAt = p.fence
    BY <1>3 DEF PublishCommit, ClaimFence, PassesHoldStamps, Passing, InTransaction
  <2>3. version[p.version].claimedAt # Unclaimed
    BY <2>1, <2>2
  <2>4. /\ rows' = WriteDerivatives(p.version, p.kinds, version[p.version].claimedAt)
        /\ Settle(p.version, "DONE")
        /\ now' = now
    BY <1>3, <2>2 DEF PublishCommit
  <2> QED
    BY <2>1, <2>3, <2>4
<1>4. ASSUME NEW w \in Workers, DiscardInactiveDerivatives(w)
      PROVE  \E v \in Versions : /\ rows' = Kept(v)
                                 /\ version' = version /\ now' = now
  <2>1. worker[w].version \in Versions
    BY DEF TypeOK, Process
  <2> QED
    BY <1>4, <2>1 DEF DiscardInactiveDerivatives
<1>5. ASSUME NEW w \in Workers,
             \/ ReadQueue(w) \/ FinishWithoutDerivatives(w) \/ LoseClaim(w) \/ Sleep(w)
             \/ PublishBegin(w) \/ RegisterEmailAttachments(w) \/ PublishRaises(w)
             \/ LoadRaises(w) \/ Crash(w) \/ \E v \in Versions : ForceClaim(w, v)
      PROVE  rows' = rows
  BY <1>5 DEF ReadQueue, FinishWithoutDerivatives, LoseClaim, PublishBegin, Sleep, vars,
              RegisterEmailAttachments, PublishRaises, LoadRaises, Crash, ForceClaim
<1>6. ASSUME NEW v \in Versions, ClaimAges(v) PROVE rows' = rows
  BY <1>6 DEF ClaimAges
<1>7. CASE UNCHANGED vars
  BY <1>7 DEF vars
<1> QED
  BY <1>1, <1>2, <1>3, <1>4, <1>5, <1>6, <1>7 DEF Next, Pass

\* What a step does to the stamp of a version: nothing, clears it with a
\* verdict, or replaces it with a stamp newer than all before it.
LEMMA StampStep ==
    ASSUME TypeOK, ClaimFence, [Next]_vars
    PROVE  /\ now' \in Nat /\ now <= now'
           /\ \A v \in Versions :
                \/ /\ version'[v].claimedAt = version[v].claimedAt
                   /\ version'[v].state = version[v].state
                \/ /\ version'[v].claimedAt = Unclaimed
                   /\ version'[v].state \in Terminal
                \/ /\ version'[v].claimedAt = now + 1 /\ now' = now + 1
                   /\ version'[v].state = "PROCESSING"
<1> DEFINE Goal ==
      /\ now' \in Nat /\ now <= now'
      /\ \A v \in Versions :
           \/ /\ version'[v].claimedAt = version[v].claimedAt
              /\ version'[v].state = version[v].state
           \/ /\ version'[v].claimedAt = Unclaimed
              /\ version'[v].state \in Terminal
           \/ /\ version'[v].claimedAt = now + 1 /\ now' = now + 1
              /\ version'[v].state = "PROCESSING"
<1>0. /\ now \in Nat
      /\ \A v \in Versions : version[v] \in VersionRow
      /\ version \in [Versions -> VersionRow]
      /\ \A w \in Workers : worker[w].version \in Versions
  BY DEF TypeOK, Process
<1>1. ASSUME NEW u \in Versions, NEW n \in Nat, Stamp(u, n) PROVE Goal
  BY <1>0, <1>1 DEF Stamp
<1>2. ASSUME NEW u \in Versions, NEW s \in Terminal, Settle(u, s), now' = now PROVE Goal
  BY <1>0, <1>2 DEF Settle, VersionRow
<1>3. ASSUME version' = version, now' = now PROVE Goal
  BY <1>0, <1>3
<1>4. ASSUME NEW w \in Workers, ClaimVersion(w) PROVE Goal
  <2> DEFINE u == worker[w].version
  <2>1. u \in Versions /\ version[u].attempts \in Nat
    BY <1>0 DEF VersionRow
  <2>2. CASE version' = version /\ now' = now
    BY <2>2, <1>3
  <2>3. CASE Settle(u, "FAILED") /\ now' = now
    BY <2>1, <2>3, <1>2 DEF Terminal
  <2>4. CASE Stamp(u, Attempts(u))
    BY <2>1, <2>4, <1>1 DEF Attempts
  <2> QED
    BY <1>4, <2>2, <2>3, <2>4 DEF ClaimVersion, RecordFailureOf
<1>5. ASSUME NEW w \in Workers, NEW u \in Versions, ForceClaim(w, u) PROVE Goal
  BY <1>1, <1>5 DEF ForceClaim
<1>6. ASSUME NEW w \in Workers,
             RecordFailure(w) \/ FinishWithoutDerivatives(w) \/ PublishCommit(w)
      PROVE  Goal
  <2>1. worker[w].version \in Versions /\ now' = now
    BY <1>0, <1>6 DEF RecordFailure, FinishWithoutDerivatives, PublishCommit
  <2>2. \E s \in Terminal : Settle(worker[w].version, s)
    BY <1>6 DEF RecordFailure, RecordFailureOf, FinishWithoutDerivatives, PublishCommit, Terminal
  <2> QED
    BY <2>1, <2>2, <1>2
<1>7. ASSUME NEW w \in Workers,
             \/ ReadQueue(w) \/ LoseClaim(w) \/ Sleep(w) \/ DiscardInactiveDerivatives(w)
             \/ PublishBegin(w) \/ RegisterEmailAttachments(w) \/ PublishRaises(w)
             \/ LoadRaises(w) \/ Crash(w)
      PROVE  Goal
  <2>1. version' = version /\ now' = now
    BY <1>7 DEF ReadQueue, LoseClaim, PublishBegin, Sleep, vars, RegisterEmailAttachments,
                PublishRaises, LoadRaises, Crash, DiscardInactiveDerivatives
  <2> QED
    BY <2>1, <1>3
<1>8. ASSUME NEW u \in Versions, ClaimAges(u) PROVE Goal
  BY <1>0, <1>8 DEF ClaimAges, VersionRow
<1>9. CASE UNCHANGED vars
  BY <1>3, <1>9 DEF vars
<1> QED
  BY <1>4, <1>5, <1>6, <1>7, <1>8, <1>9 DEF Next, Pass

\* Rows stay older than the claim in progress: whatever is written is written
\* under that claim's stamp, in the step that clears it.
LEMMA RowsStayOlder ==
    ASSUME TypeOK, ClaimFence, [Next]_vars
    PROVE  RowsAreOlder'
<1>0. /\ rows \subseteq Derivative /\ now \in Nat
      /\ version \in [Versions -> VersionRow]
      /\ StampsAreClaims /\ RowsAreOlder
  BY DEF TypeOK, ClaimFence
<1>1. ASSUME NEW r \in rows
      PROVE  /\ r.version \in Versions /\ r.pass \in 1..now'
             /\ version'[r.version].claimedAt # Unclaimed
                   => r.pass < version'[r.version].claimedAt
  <2>1. r.version \in Versions /\ r.pass \in 1..now
    BY <1>0 DEF Derivative, RowsAreOlder
  <2> QED
    BY <1>0, <2>1, StampStep DEF RowsAreOlder
<1>2. CASE rows' = rows
  BY <1>1, <1>2 DEF RowsAreOlder
<1>3. ASSUME NEW v \in Versions,
             version[v].claimedAt # Unclaimed,
             version' = [version EXCEPT ![v].state = "FAILED",
                                        ![v].claimedAt = Unclaimed,
                                        ![v].aged = FALSE],
             rows' = rows \cup {FailedRow(v, version[v].claimedAt)}, now' = now
      PROVE  RowsAreOlder'
  <2>1. version[v].claimedAt \in 1..now /\ version'[v].claimedAt = Unclaimed
    BY <1>0, <1>3 DEF StampsAreClaims, VersionRow
  <2> DEFINE f == FailedRow(v, version[v].claimedAt)
  <2>2. f.version = v /\ f.pass = version[v].claimedAt
    BY DEF FailedRow
  <2>3. \A r \in rows' : r \in rows \/ r = f
    BY <1>3
  <2> QED
    BY <1>1, <1>3, <2>1, <2>2, <2>3 DEF RowsAreOlder
<1>4. ASSUME NEW v \in Versions, NEW K \in SUBSET Kinds,
             version[v].claimedAt # Unclaimed,
             version' = [version EXCEPT ![v].state = "DONE",
                                        ![v].claimedAt = Unclaimed,
                                        ![v].aged = FALSE],
             rows' = WriteDerivatives(v, K, version[v].claimedAt), now' = now
      PROVE  RowsAreOlder'
  <2>1. version[v].claimedAt \in 1..now /\ version'[v].claimedAt = Unclaimed
    BY <1>0, <1>4 DEF StampsAreClaims, VersionRow
  <2>2. ASSUME NEW r \in rows'
        PROVE  \/ r.version = v /\ r.pass = version[v].claimedAt
               \/ \E old \in rows : r.version = old.version /\ r.pass = old.pass
    <3>1. CASE \E old \in rows : r = old \/ r = [old EXCEPT !.status = "SUPERSEDED"]
      <4>1. PICK old \in rows : r = old \/ r = [old EXCEPT !.status = "SUPERSEDED"]
        BY <3>1
      <4>2. old \in Derivative
        BY <1>0
      <4>3. r.version = old.version /\ r.pass = old.pass
        BY <4>1, <4>2 DEF Derivative
      <4> QED
        BY <4>3
    <3>2. CASE \E k \in K : r = [version |-> v, kind |-> k, status |-> "ACTIVE",
                                 pass |-> version[v].claimedAt]
      BY <3>2
    <3> QED
      BY <1>4, <2>2, <3>1, <3>2 DEF WriteDerivatives
  <2> QED
    BY <1>1, <1>4, <2>1, <2>2 DEF RowsAreOlder
<1>5. ASSUME NEW v \in Versions, rows' = Kept(v) PROVE RowsAreOlder'
  BY <1>1, <1>5 DEF RowsAreOlder, Kept
<1> QED
  BY <1>2, <1>3, <1>4, <1>5, RowsStep

\* What concerns the passes themselves: the locks, the stamps they hold and
\* the attachments they are about to register.
Transactions == LocksAreHeld /\ PassesHoldStamps /\ LinksStillMissing

\* A step of w that neither enters nor is inside a transaction, and leaves the
\* locked versions and the links alone.
LEMMA OutsideTransaction ==
    ASSUME TypeOK, ClaimFence, NEW w \in Workers, now \in Nat, now' \in Nat, now <= now',
           rowLock' = rowLock, links' = links,
           worker[w].step \notin InTransaction,
           worker'[w].step \notin InTransaction,
           worker'[w].step \in Passing => worker'[w].fence \in 1..now',
           \A u \in Workers : u # w => worker'[u] = worker[u],
           \A v \in Versions : rowLock[v] # NoWorker
                                => version'[v].claimedAt = version[v].claimedAt
    PROVE  Transactions'
<1>0. /\ rowLock \in [Versions -> Workers \cup {NoWorker}]
      /\ \A u \in Workers : worker[u].version \in Versions
  BY DEF TypeOK, Process
<1>1. LocksAreHeld'
  BY <1>0 DEF ClaimFence, LocksAreHeld
<1>2. PassesHoldStamps'
  <2> SUFFICES ASSUME NEW u \in Workers
               PROVE  /\ worker'[u].step \in Passing => worker'[u].fence \in 1..now'
                      /\ worker'[u].step \in InTransaction =>
                          /\ rowLock'[worker'[u].version] = u
                          /\ version'[worker'[u].version].claimedAt = worker'[u].fence
    BY DEF PassesHoldStamps
  <2>1. CASE u = w
    BY <2>1
  <2>2. CASE u # w
    <3>1. worker'[u] = worker[u] /\ u # NoWorker
      BY <2>2, WorkersAssumption
    <3> QED
      BY <1>0, <3>1 DEF ClaimFence, PassesHoldStamps
  <2> QED
    BY <2>1, <2>2
<1>3. LinksStillMissing'
  BY DEF ClaimFence, LinksStillMissing, InTransaction
<1> QED
  BY <1>1, <1>2, <1>3 DEF Transactions

\* The steps of a publish keep its row lock, its stamp and its list of missing
\* attachments true, and those of every other publish.
LEMMA TransactionsHold ==
    ASSUME TypeOK, TypeOK', ClaimFence, [Next]_vars
    PROVE  Transactions'
<1>0. /\ rowLock \in [Versions -> Workers \cup {NoWorker}]
      /\ worker \in [Workers -> Process] /\ now \in Nat /\ now' \in Nat
      /\ version \in [Versions -> VersionRow]
      /\ \A u \in Workers : /\ worker[u].version \in Versions
                            /\ worker[u] \in Process /\ u # NoWorker
      /\ LocksAreHeld /\ PassesHoldStamps /\ LinksStillMissing /\ StampsAreClaims
  BY WorkersAssumption DEF TypeOK, Process, ClaimFence
<1>i. Idle.step = "idle"
  BY DEF Idle
<1>1. ASSUME NEW w \in Workers,
             ReadQueue(w) \/ LoseClaim(w) \/ LoadRaises(w) \/ DiscardInactiveDerivatives(w)
      PROVE  Transactions'
  <2>1. /\ rowLock' = rowLock /\ links' = links /\ now' = now /\ version' = version
        /\ worker[w].step \notin InTransaction
        /\ \A u \in Workers : u # w => worker'[u] = worker[u]
    BY <1>0, <1>1 DEF ReadQueue, LoseClaim, LoadRaises, DiscardInactiveDerivatives,
                     CanWrite, Stop, InTransaction
  <2>2. /\ worker'[w].step \notin InTransaction
        /\ worker'[w].step \in Passing => worker'[w].fence \in 1..now'
    <3>1. CASE ReadQueue(w)
      BY <3>1, <1>0 DEF ReadQueue, InTransaction, Passing, Process
    <3>2. CASE Stop(w)
      BY <3>2, <1>0, <1>i DEF Stop, InTransaction, Passing
    <3> QED
      BY <1>1, <3>1, <3>2 DEF LoseClaim, LoadRaises, DiscardInactiveDerivatives
  <2> QED
    BY <1>0, <2>1, <2>2, OutsideTransaction
<1>2. ASSUME NEW w \in Workers, NEW v \in Versions, rowLock[v] = NoWorker,
             worker[w].step \notin InTransaction, rowLock' = rowLock, links' = links,
             now' \in {now, now + 1},
             \A u \in Versions : u # v => version'[u] = version[u],
             Stop(w) \/ (now' = now + 1 /\ \E b \in BOOLEAN : Become(w, v, b))
      PROVE  Transactions'
  <2>1. \A u \in Workers : u # w => worker'[u] = worker[u]
    BY <1>0, <1>2 DEF Stop, Become
  <2>2. /\ worker'[w].step \notin InTransaction
        /\ worker'[w].step \in Passing => worker'[w].fence \in 1..now'
    BY <1>0, <1>2, <1>i DEF Stop, Become, InTransaction, Passing
  <2>3. now <= now'
    BY <1>0, <1>2
  <2>4. \A u \in Versions : rowLock[u] # NoWorker
                                => version'[u].claimedAt = version[u].claimedAt
    BY <1>2
  <2> QED
    BY <1>0, <1>2, <2>1, <2>2, <2>3, <2>4, OutsideTransaction
<1>3. ASSUME NEW w \in Workers, ClaimVersion(w) PROVE Transactions'
  <2> DEFINE v == worker[w].version
  <2>1. /\ v \in Versions /\ worker[w].step = "picked" /\ worker[w].step \notin InTransaction
        /\ rowLock' = rowLock /\ links' = links
    BY <1>0, <1>3 DEF ClaimVersion, InTransaction, RecordFailureOf
  <2>2. CASE Stop(w) /\ version' = version /\ now' = now
    <3>1. \A u \in Workers : u # w => worker'[u] = worker[u]
      BY <1>0, <2>2 DEF Stop
    <3>2. worker'[w].step \notin InTransaction /\ worker'[w].step \notin Passing
      BY <1>0, <1>i, <2>2 DEF Stop, InTransaction, Passing
    <3> QED
      BY <1>0, <2>1, <2>2, <3>1, <3>2, OutsideTransaction
  <2>3. CASE /\ rowLock[v] = NoWorker /\ Settle(v, "FAILED") /\ Stop(w) /\ now' = now
    <3>1. \A u \in Versions : u # v => version'[u] = version[u]
      BY <1>0, <2>3 DEF Settle
    <3> QED
      BY <1>2, <2>1, <2>3, <3>1
  <2>4. CASE /\ rowLock[v] = NoWorker /\ Become(w, v, FALSE)
             /\ \E n \in Nat : Stamp(v, n)
    <3>1. now' = now + 1 /\ \A u \in Versions : u # v => version'[u] = version[u]
      BY <1>0, <2>4 DEF Stamp
    <3> QED
      BY <1>2, <2>1, <2>4, <3>1
  <2>5. Attempts(v) \in Nat
    BY <1>0, <2>1 DEF VersionRow, Attempts
  <2>6. CASE /\ rowLock[v] = NoWorker /\ Stamp(v, Attempts(v)) /\ Become(w, v, FALSE)
    BY <2>4, <2>5, <2>6
  <2> QED
    BY <1>3, <2>2, <2>3, <2>6 DEF ClaimVersion, RecordFailureOf
<1>4. ASSUME NEW w \in Workers, NEW v \in Versions, ForceClaim(w, v) PROVE Transactions'
  <2>1. now' = now + 1 /\ \A u \in Versions : u # v => version'[u] = version[u]
    BY <1>0, <1>4 DEF ForceClaim, Stamp
  <2>2. /\ rowLock[v] = NoWorker /\ rowLock' = rowLock /\ links' = links
        /\ Become(w, v, TRUE) /\ worker[w].step \notin InTransaction
    BY <1>4 DEF ForceClaim, InTransaction
  <2> QED
    BY <1>2, <2>1, <2>2
<1>5. ASSUME NEW w \in Workers, RecordFailure(w) \/ FinishWithoutDerivatives(w)
      PROVE  Transactions'
  <2> DEFINE v == worker[w].version
  <2>1. /\ rowLock[v] = NoWorker /\ worker[w].step \notin InTransaction /\ Stop(w)
        /\ rowLock' = rowLock /\ links' = links /\ now' = now /\ v \in Versions
    BY <1>0, <1>5 DEF RecordFailure, RecordFailureOf, FinishWithoutDerivatives, CanWrite, InTransaction
  <2>2. \A u \in Versions : u # v => version'[u] = version[u]
    BY <1>0, <1>5 DEF RecordFailure, RecordFailureOf, FinishWithoutDerivatives, Settle
  <2> QED
    BY <1>2, <2>1, <2>2
<1>6. ASSUME NEW w \in Workers, PublishBegin(w) PROVE Transactions'
  <2> DEFINE v == worker[w].version
  <2>1. PICK K \in ParseKinds :
          worker' = [worker EXCEPT ![w].step = "publishing", ![w].kinds = K]
    BY <1>6 DEF PublishBegin
  <2>2. /\ \A u \in Workers : u # w => worker'[u] = worker[u]
        /\ worker'[w].step = "publishing" /\ worker'[w].version = v
        /\ worker'[w].fence = worker[w].fence
    BY <1>0, <2>1 DEF Process
  <2>3. /\ rowLock' = [rowLock EXCEPT ![v] = w] /\ rowLock[v] = NoWorker
        /\ worker[w].step = "parsing" /\ version[v].claimedAt = worker[w].fence
        /\ version' = version /\ now' = now /\ links' = links
    BY <1>6 DEF PublishBegin, CanWrite, HoldsClaim
  <2>4. LocksAreHeld'
    BY <1>0, <2>2, <2>3 DEF LocksAreHeld, InTransaction
  <2>5. PassesHoldStamps'
    BY <1>0, <2>2, <2>3 DEF PassesHoldStamps, Passing, InTransaction
  <2>6. LinksStillMissing'
    BY <2>2, <2>3, <1>0 DEF LinksStillMissing
  <2> QED
    BY <2>4, <2>5, <2>6 DEF Transactions
<1>7. ASSUME NEW w \in Workers, RegisterEmailAttachments(w) PROVE Transactions'
  <2> DEFINE v == worker[w].version
  <2>1. PICK found \in SUBSET Ordinals :
          worker' = [worker EXCEPT ![w].step = "linked", ![w].attached = Unlinked(v, found)]
    BY <1>7 DEF RegisterEmailAttachments
  <2>2. /\ \A u \in Workers : u # w => worker'[u] = worker[u]
        /\ worker'[w].step = "linked" /\ worker'[w].version = v
        /\ worker'[w].fence = worker[w].fence
        /\ worker'[w].attached = Unlinked(v, found)
    BY <1>0, <2>1 DEF Process
  <2>3. /\ worker[w].step = "publishing" /\ rowLock' = rowLock
        /\ version' = version /\ now' = now /\ links' = links
    BY <1>7 DEF RegisterEmailAttachments
  <2>4. LocksAreHeld'
    BY <1>0, <2>2, <2>3 DEF LocksAreHeld, InTransaction
  <2>5. PassesHoldStamps'
    BY <1>0, <2>2, <2>3 DEF PassesHoldStamps, Passing, InTransaction
  <2>6. LinksStillMissing'
    BY <2>2, <2>3, <1>0 DEF LinksStillMissing, Unlinked
  <2> QED
    BY <2>4, <2>5, <2>6 DEF Transactions
<1>8. ASSUME NEW w \in Workers, PublishCommit(w) PROVE Transactions'
  <2> DEFINE v == worker[w].version
  <2>1. /\ worker[w].step = "linked" /\ rowLock[v] = w /\ v \in Versions
        /\ rowLock' = [rowLock EXCEPT ![v] = NoWorker] /\ now' = now
        /\ links' = links \cup {[parent |-> v, ordinal |-> o, pass |-> worker[w].fence] :
                                   o \in worker[w].attached}
    BY <1>0, <1>8 DEF PublishCommit, PassesHoldStamps, InTransaction
  <2>2. \A u \in Versions : u # v => version'[u] = version[u]
    BY <1>0, <1>8 DEF PublishCommit, Settle
  <2>3. /\ \A u \in Workers : u # w => worker'[u] = worker[u]
        /\ worker'[w].step \notin Passing /\ worker'[w].step \notin InTransaction
        /\ worker'[w].step # "linked"
    BY <1>0, <1>8, <1>i DEF PublishCommit, Passing, InTransaction, Idle
  <2>4. \A u \in Workers : u # w /\ worker[u].step \in InTransaction => worker[u].version # v
    BY <1>0, <2>1 DEF PassesHoldStamps
  <2>5. LocksAreHeld'
    BY <1>0, <2>1, <2>3 DEF LocksAreHeld
  <2>6. PassesHoldStamps'
    BY <1>0, <2>1, <2>2, <2>3, <2>4 DEF PassesHoldStamps
  <2>7. LinksStillMissing'
    <3> SUFFICES ASSUME NEW u \in Workers, NEW l \in links',
                        worker'[u].step = "linked", l.parent = worker'[u].version
                 PROVE  l.ordinal \notin worker'[u].attached
      BY DEF LinksStillMissing
    <3>1. u # w /\ worker'[u] = worker[u] /\ worker[u].version # v
      BY <2>3, <2>4 DEF InTransaction
    <3>2. l \in links
      BY <2>1, <3>1
    <3> QED
      BY <1>0, <3>1, <3>2 DEF LinksStillMissing
  <2> QED
    BY <2>5, <2>6, <2>7 DEF Transactions
<1>9. ASSUME NEW w \in Workers, PublishRaises(w) \/ Crash(w) PROVE Transactions'
  <2>1. /\ rowLock' = Unlocked(w) /\ version' = version /\ now' = now /\ links' = links
    BY <1>9 DEF PublishRaises, Crash
  <2>2. \A u \in Workers : u # w => worker'[u] = worker[u]
    BY <1>0, <1>9 DEF PublishRaises, Crash, Stop
  <2>3. /\ worker'[w].step \notin InTransaction
        /\ worker'[w].step \in Passing => worker'[w].fence \in 1..now'
    <3>1. CASE PublishRaises(w)
      <4>1. worker[w].fence \in 1..now
        BY <1>0, <3>1 DEF PublishRaises, PassesHoldStamps, Passing
      <4>2. worker'[w].step = "publish_failed" /\ worker'[w].fence = worker[w].fence
        BY <1>0, <3>1 DEF PublishRaises, Process
      <4> QED
        BY <2>1, <4>1, <4>2 DEF InTransaction
    <3>2. CASE Crash(w)
      BY <1>0, <1>i, <3>2 DEF Crash, Stop, InTransaction, Passing
    <3> QED
      BY <1>9, <3>1, <3>2
  <2>4. LocksAreHeld'
    BY <1>0, <2>1, <2>2 DEF LocksAreHeld, Unlocked
  <2>5. PassesHoldStamps'
    BY <1>0, <2>1, <2>2, <2>3 DEF PassesHoldStamps, Unlocked
  <2>6. LinksStillMissing'
    BY <1>0, <2>1, <2>2, <2>3 DEF LinksStillMissing, InTransaction
  <2> QED
    BY <2>4, <2>5, <2>6 DEF Transactions
<1>10. ASSUME NEW v \in Versions, ClaimAges(v) PROVE Transactions'
  <2>1. \A u \in Versions : version'[u].claimedAt = version[u].claimedAt
    BY <1>0, <1>10 DEF ClaimAges, VersionRow
  <2>2. /\ rowLock' = rowLock /\ worker' = worker /\ links' = links /\ now' = now
    BY <1>10 DEF ClaimAges
  <2> QED
    BY <1>0, <2>1, <2>2
    DEF Transactions, LocksAreHeld, PassesHoldStamps, LinksStillMissing
<1>11. CASE UNCHANGED vars
  BY <1>0, <1>11 DEF vars, Transactions, LocksAreHeld, PassesHoldStamps, LinksStillMissing
<1> QED
  BY <1>1, <1>3, <1>4, <1>5, <1>6, <1>7, <1>8, <1>9, <1>10, <1>11 DEF Next, Pass, Sleep

\* The fence holds at every moment: only the pass that took the claim on a
\* version may be publishing it, and nothing on record is newer than that claim.
THEOREM FenceHolds == Spec => []ClaimFence
<1>1. Init => ClaimFence
  <2> SUFFICES ASSUME Init PROVE ClaimFence
    OBVIOUS
  <2>1. StampsAreClaims
    BY DEF Init, StampsAreClaims
  <2>2. \A w \in Workers : worker[w].step = "idle"
    BY DEF Init, Idle
  <2> QED
    BY <2>1, <2>2 DEF Init, ClaimFence, LocksAreHeld, PassesHoldStamps, LinksStillMissing,
                      RowsAreOlder, Passing, InTransaction
<1>2. TypeOK /\ TypeOK' /\ ClaimFence /\ [Next]_vars => ClaimFence'
  <2> SUFFICES ASSUME TypeOK, TypeOK', ClaimFence, [Next]_vars PROVE ClaimFence'
    OBVIOUS
  <2>1. StampsAreClaims'
    BY StampStep DEF TypeOK, ClaimFence, StampsAreClaims, Terminal, VersionRow
  <2> QED
    BY <2>1, RowsStayOlder, TransactionsHold DEF ClaimFence, Transactions
<1> QED
  BY <1>1, <1>2, TypeCorrect, PTL DEF Spec

-----------------------------------------------------------------------------
(* What follows from the fence.                                            *)

\* The rows after a publish: an old row, an old live row demoted, or a new one.
LEMMA PublishedRows ==
    ASSUME TypeOK, NEW v \in Versions, NEW K \in SUBSET Kinds, NEW f \in Nat,
           NEW r \in WriteDerivatives(v, K, f)
    PROVE  \/ r \in rows /\ ~(r.version = v /\ r.kind \in K /\ r.status = "ACTIVE")
           \/ /\ r.version = v /\ r.kind \in K /\ r.status = "SUPERSEDED"
              /\ \E old \in rows : /\ old.version = v /\ old.kind = r.kind
                                   /\ old.pass = r.pass /\ old.status = "ACTIVE"
           \/ /\ r = [version |-> v, kind |-> r.kind, status |-> "ACTIVE", pass |-> f]
              /\ r.kind \in K
<1>1. CASE \E old \in rows : r = IF old.version = v /\ old.kind \in K /\ old.status = "ACTIVE"
                               THEN [old EXCEPT !.status = "SUPERSEDED"] ELSE old
  <2>1. PICK old \in rows : r = IF old.version = v /\ old.kind \in K /\ old.status = "ACTIVE"
                                THEN [old EXCEPT !.status = "SUPERSEDED"] ELSE old
    BY <1>1
  <2>2. old \in Derivative
    BY DEF TypeOK
  <2>3. CASE old.version = v /\ old.kind \in K /\ old.status = "ACTIVE"
    <3>1. /\ r.version = v /\ r.kind = old.kind /\ r.pass = old.pass
          /\ r.status = "SUPERSEDED"
      BY <2>1, <2>2, <2>3 DEF Derivative
    <3> QED
      BY <2>3, <3>1
  <2>4. CASE ~(old.version = v /\ old.kind \in K /\ old.status = "ACTIVE")
    BY <2>1, <2>4
  <2> QED
    BY <2>3, <2>4
<1>2. CASE \E k \in K : r = [version |-> v, kind |-> k, status |-> "ACTIVE", pass |-> f]
  BY <1>2
<1> QED
  BY <1>1, <1>2 DEF WriteDerivatives

Ordered == OneActivePerKind /\ NewestServes /\ OneOutcomePerPass

\* Whatever passes overlap: one live derivative of a kind, nothing superseded
\* newer than it, and no pass both failed and published.
THEOREM ServingIsOrdered == Spec => [](OneActivePerKind /\ NewestServes /\ OneOutcomePerPass)
<1>1. Init => Ordered
  BY DEF Init, Ordered, OneActivePerKind, NewestServes, OneOutcomePerPass
<1>2. TypeOK /\ ClaimFence /\ Ordered /\ [Next]_vars => Ordered'
  <2> SUFFICES ASSUME TypeOK, ClaimFence, Ordered, [Next]_vars PROVE Ordered'
    OBVIOUS
  <2>0. /\ rows \subseteq Derivative /\ version \in [Versions -> VersionRow] /\ now \in Nat
        /\ \A r \in rows : r.pass \in 1..now
    BY DEF TypeOK, ClaimFence, RowsAreOlder
  <2>1. ASSUME rows' \subseteq rows PROVE Ordered'
    BY <2>1 DEF Ordered, OneActivePerKind, NewestServes, OneOutcomePerPass
  <2>2. ASSUME NEW v \in Versions, version[v].claimedAt # Unclaimed
        PROVE  /\ version[v].claimedAt \in Nat
               /\ \A r \in rows : r.version = v => r.pass < version[v].claimedAt
    BY <2>0, <2>2 DEF ClaimFence, RowsAreOlder, VersionRow
  <2>3. ASSUME NEW v \in Versions, version[v].claimedAt # Unclaimed,
               rows' = rows \cup {FailedRow(v, version[v].claimedAt)}
        PROVE  Ordered'
    <3> DEFINE f == FailedRow(v, version[v].claimedAt)
    <3>1. /\ f.version = v /\ f.status = "FAILED" /\ f.pass = version[v].claimedAt
      BY DEF FailedRow
    <3>2. \A r \in rows' : r \in rows \/ r = f
      BY <2>3
    <3>3. \A r \in rows : r.version = v => r.pass # f.pass
      BY <2>0, <2>2, <2>3, <3>1
    <3>4. OneActivePerKind' /\ NewestServes'
      BY <3>1, <3>2 DEF Ordered, OneActivePerKind, NewestServes
    <3>5. OneOutcomePerPass'
      BY <3>1, <3>2, <3>3 DEF Ordered, OneOutcomePerPass
    <3> QED
      BY <3>4, <3>5 DEF Ordered
  <2>4. ASSUME NEW v \in Versions, NEW K \in SUBSET Kinds, version[v].claimedAt # Unclaimed,
               rows' = WriteDerivatives(v, K, version[v].claimedAt)
        PROVE  Ordered'
    <3> DEFINE f == version[v].claimedAt
               Kept1(r) == r \in rows /\ ~(r.version = v /\ r.kind \in K /\ r.status = "ACTIVE")
               Demoted(r) == /\ r.version = v /\ r.kind \in K /\ r.status = "SUPERSEDED"
                             /\ \E old \in rows : /\ old.version = v /\ old.kind = r.kind
                                                  /\ old.pass = r.pass /\ old.status = "ACTIVE"
               Fresh(r) == /\ r = [version |-> v, kind |-> r.kind, status |-> "ACTIVE", pass |-> f]
                           /\ r.kind \in K
    <3>1. \A r \in rows' : Kept1(r) \/ Demoted(r) \/ Fresh(r)
      BY <2>2, <2>4, PublishedRows
    <3>2. /\ f \in Nat
          /\ \A r \in rows' : r.version = v /\ ~Fresh(r) => r.pass < f
      BY <2>2, <2>4, <3>1
    <3>3. \A r : Fresh(r) => r.version = v /\ r.status = "ACTIVE" /\ r.pass = f
      OBVIOUS
    <3>4. OneActivePerKind'
      BY <3>1, <3>3 DEF Ordered, OneActivePerKind
    <3>5. NewestServes'
      <4> SUFFICES ASSUME NEW r \in rows', NEW s \in rows',
                          r.version = s.version, r.kind = s.kind,
                          r.status = "ACTIVE", s.status = "SUPERSEDED"
                   PROVE  s.pass < r.pass
        BY DEF NewestServes
      <4>1. CASE Fresh(r)
        BY <3>2, <3>3, <4>1
      <4>2. CASE Kept1(r)
        <5>1. Kept1(s)
          BY <3>1, <3>3, <4>2
        <5> QED
          BY <4>2, <5>1 DEF Ordered, NewestServes
      <4> QED
        BY <3>1, <4>1, <4>2
    <3>6. OneOutcomePerPass'
      <4> SUFFICES ASSUME NEW r \in rows', NEW s \in rows',
                          r.version = s.version, r.pass = s.pass
                   PROVE  (r.status = "FAILED") = (s.status = "FAILED")
        BY DEF OneOutcomePerPass
      <4>1. CASE Fresh(r) \/ Fresh(s)
        BY <3>2, <3>3, <4>1
      <4>2. CASE ~Fresh(r) /\ ~Fresh(s)
        <5>1. \E a \in rows : /\ a.version = r.version /\ a.pass = r.pass
                              /\ (a.status = "FAILED") = (r.status = "FAILED")
          BY <3>1, <4>2
        <5>2. \E b \in rows : /\ b.version = s.version /\ b.pass = s.pass
                              /\ (b.status = "FAILED") = (s.status = "FAILED")
          BY <3>1, <4>2
        <5> QED
          BY <5>1, <5>2 DEF Ordered, OneOutcomePerPass
      <4> QED
        BY <4>1, <4>2
    <3> QED
      BY <3>4, <3>5, <3>6 DEF Ordered
  <2>5. \A v \in Versions : Kept(v) \subseteq rows
    BY DEF Kept
  <2> QED
    BY <2>1, <2>3, <2>4, <2>5, RowsStep
<1> QED
  BY <1>1, <1>2, TypeCorrect, FenceHolds, PTL DEF Spec, Ordered

\* A pass that outlived its claim never serves over the one that replaced it
\* (the fence on extraction_claimed_at in _publish).
THEOREM NewestPassServes == Spec => []NewestServes
BY ServingIsOrdered, PTL

\* No claim ends both as failed and as published, not even when the queue gave
\* it up for dead while it was still parsing (_publish, _record_failure).
THEOREM PassesEndOnce == Spec => []OneOutcomePerPass
BY ServingIsOrdered, PTL

\* No attachment of a message ever becomes two Documents.
THEOREM AttachmentsOnce == Spec => []NoAttachmentTwice
<1>1. Init => NoAttachmentTwice
  BY DEF Init, NoAttachmentTwice
<1>2. TypeOK /\ ClaimFence /\ NoAttachmentTwice /\ [Next]_vars => NoAttachmentTwice'
  <2> SUFFICES ASSUME TypeOK, ClaimFence, NoAttachmentTwice, [Next]_vars
               PROVE  NoAttachmentTwice'
    OBVIOUS
  <2>1. ASSUME NEW w \in Workers, PublishCommit(w) PROVE NoAttachmentTwice'
    <3> DEFINE p == worker[w]
               New == {[parent |-> p.version, ordinal |-> o, pass |-> p.fence] : o \in p.attached}
    <3>1. links' = links \cup New /\ p.step = "linked"
      BY <2>1 DEF PublishCommit
    <3>2. \A l \in links, n \in New : ~(l.parent = n.parent /\ l.ordinal = n.ordinal)
      BY <3>1 DEF ClaimFence, LinksStillMissing
    <3> QED
      BY <3>1, <3>2 DEF NoAttachmentTwice
  <2>2. CASE UNCHANGED links
    BY <2>2 DEF NoAttachmentTwice
  <2>3. UNCHANGED links \/ \E w \in Workers : PublishCommit(w)
    BY DEF Next, Pass, vars, ReadQueue, ClaimVersion, Sleep, RecordFailure, RecordFailureOf,
           FinishWithoutDerivatives, LoseClaim, PublishBegin, RegisterEmailAttachments,
           PublishRaises, DiscardInactiveDerivatives, LoadRaises, Crash, ForceClaim, ClaimAges
  <2> QED
    BY <2>1, <2>2, <2>3
<1> QED
  BY <1>1, <1>2, TypeCorrect, FenceHolds, PTL DEF Spec

\* A publish leaves alone what other versions serve, and the other kinds.
LEMMA PublishLeavesOthers ==
    ASSUME TypeOK, NEW v \in Versions, NEW K \in SUBSET Kinds, NEW f \in Nat,
           rows' = WriteDerivatives(v, K, f),
           NEW u \in Versions, NEW k \in Kinds, ~(u = v /\ k \in K)
    PROVE  Active(rows', u, k) = Active(rows, u, k)
<1>1. Active(rows, u, k) \subseteq Active(rows', u, k)
  BY DEF Active, WriteDerivatives
<1>2. \A r \in rows' : r.version = u /\ r.kind = k /\ r.status = "ACTIVE" => r \in rows
  BY PublishedRows
<1> QED
  BY <1>1, <1>2 DEF Active

\* A verdict, and what its file serves, is only ever replaced because an operator
\* forced another reading.
THEOREM VerdictsStand == Spec => VerdictStands
<1> DEFINE Stands == \A v \in Versions : version[v].state \in Terminal /\ forced' = forced
                       => /\ version'[v] = version[v]
                          /\ \A k \in Kinds : Active(rows', v, k) = Active(rows, v, k)
<1>1. TypeOK /\ ClaimFence /\ [Next]_vars => [Stands]_vars
  <2> SUFFICES ASSUME TypeOK, ClaimFence, [Next]_vars, NEW v \in Versions,
                      version[v].state \in Terminal, forced' = forced
               PROVE  /\ version'[v] = version[v]
                      /\ \A k \in Kinds : Active(rows', v, k) = Active(rows, v, k)
    OBVIOUS
  <2>0. /\ version \in [Versions -> VersionRow] /\ version[v].claimedAt = Unclaimed
        /\ version[v].state \notin Queued /\ now \in Nat /\ forced \in Nat
        /\ \A w \in Workers : worker[w].version \in Versions
    BY LimitsAssumption DEF TypeOK, Process, ClaimFence, StampsAreClaims, Terminal, Queued
  <2>1. ASSUME NEW u \in Versions, u # v, NEW s, Settle(u, s) \/ \E n \in Nat : Stamp(u, n)
        PROVE  version'[v] = version[v]
    BY <2>0, <2>1 DEF Settle, Stamp
  <2>2. ASSUME NEW w \in Workers, ClaimVersion(w) PROVE version'[v] = version[v]
    <3> DEFINE u == worker[w].version
    <3>1. CASE version' = version
      BY <3>1
    <3>2. CASE IsClaimable(version[u]) /\ (Settle(u, "FAILED") \/ Stamp(u, Attempts(u)))
      <4>1. u # v /\ u \in Versions /\ Attempts(u) \in Nat
        BY <2>0, <3>2 DEF IsClaimable, Queued, VersionRow, Attempts
      <4> QED
        BY <2>1, <3>2, <4>1
    <3> QED
      BY <2>2, <3>1, <3>2 DEF ClaimVersion, RecordFailureOf
  <2>3. ASSUME NEW w \in Workers,
               RecordFailure(w) \/ FinishWithoutDerivatives(w) \/ PublishCommit(w)
        PROVE  version'[v] = version[v]
    <3> DEFINE u == worker[w].version
    <3>1. version[u].claimedAt = worker[w].fence /\ worker[w].fence \in 1..now
      BY <2>3 DEF RecordFailure, FinishWithoutDerivatives, PublishCommit, CanWrite, HoldsClaim,
                  ClaimFence, PassesHoldStamps, Passing, InTransaction
    <3>2. u # v /\ u \in Versions
      BY <2>0, <3>1
    <3>3. \E s : Settle(u, s)
      BY <2>3 DEF RecordFailure, RecordFailureOf, FinishWithoutDerivatives, PublishCommit
    <3> QED
      BY <2>1, <3>2, <3>3
  <2>4. ASSUME NEW u \in Versions, ClaimAges(u) PROVE version'[v] = version[v]
    <3>1. u # v
      BY <2>0, <2>4 DEF ClaimAges, Queued
    <3> QED
      BY <2>0, <2>4, <3>1 DEF ClaimAges
  <2>5. ASSUME NEW w \in Workers, NEW u \in Versions, ForceClaim(w, u) PROVE FALSE
    BY <2>0, <2>5 DEF ForceClaim
  <2>6. version'[v] = version[v]
    BY <2>2, <2>3, <2>4, <2>5 DEF Next, Pass, vars, ReadQueue, Sleep, LoseClaim, PublishBegin,
       RegisterEmailAttachments, PublishRaises, DiscardInactiveDerivatives, LoadRaises, Crash
  <2>7. ASSUME NEW k \in Kinds PROVE Active(rows', v, k) = Active(rows, v, k)
    <3>1. ASSUME NEW u \in Versions, rows' = rows \cup {FailedRow(u, version[u].claimedAt)}
          PROVE  Active(rows', v, k) = Active(rows, v, k)
      <4>1. FailedRow(u, version[u].claimedAt).status = "FAILED"
        BY DEF FailedRow
      <4> QED
        BY <3>1, <4>1 DEF Active
    <3>2. ASSUME NEW u \in Versions, NEW K \in SUBSET Kinds, version[u].claimedAt # Unclaimed,
                 rows' = WriteDerivatives(u, K, version[u].claimedAt)
          PROVE  Active(rows', v, k) = Active(rows, v, k)
      <4>1. v # u /\ version[u].claimedAt \in Nat
        BY <2>0, <3>2 DEF VersionRow
      <4> QED
        BY <3>2, <4>1, PublishLeavesOthers
    <3>3. ASSUME NEW u \in Versions, rows' = Kept(u)
          PROVE  Active(rows', v, k) = Active(rows, v, k)
      BY <3>3 DEF Active, Kept
    <3>4. CASE rows' = rows
      BY <3>4
    <3> QED
      BY <3>1, <3>2, <3>3, <3>4, RowsStep
  <2> QED
    BY <2>6, <2>7
<1> QED
  BY <1>1, TypeCorrect, FenceHolds, PTL DEF Spec, VerdictStands

\* No step takes a served text away without another in its place.
THEOREM ServedStays == Spec => NothingServedIsLost
<1> DEFINE Stays == \A v \in Versions, k \in Kinds :
                      Active(rows, v, k) # {} => Active(rows', v, k) # {}
<1>1. TypeOK /\ ClaimFence /\ [Next]_vars => [Stays]_vars
  <2> SUFFICES ASSUME TypeOK, ClaimFence, [Next]_vars, NEW u \in Versions, NEW k \in Kinds,
                      NEW r \in Active(rows, u, k)
               PROVE  Active(rows', u, k) # {}
    OBVIOUS
  <2>0. r \in rows /\ r.version = u /\ r.kind = k /\ r.status = "ACTIVE"
    BY DEF Active
  <2>1. ASSUME r \in rows' PROVE Active(rows', u, k) # {}
    BY <2>0, <2>1 DEF Active
  <2>2. ASSUME NEW v \in Versions, NEW K \in SUBSET Kinds,
               rows' = WriteDerivatives(v, K, version[v].claimedAt)
        PROVE  Active(rows', u, k) # {}
    <3>1. CASE u = v /\ k \in K
      <4> DEFINE new == [version |-> v, kind |-> k, status |-> "ACTIVE",
                         pass |-> version[v].claimedAt]
      <4>1. new \in rows' /\ new.version = u /\ new.kind = k /\ new.status = "ACTIVE"
        BY <2>2, <3>1 DEF WriteDerivatives
      <4> QED
        BY <4>1 DEF Active
    <3>2. CASE ~(u = v /\ k \in K)
      BY <2>0, <2>1, <2>2, <3>2 DEF WriteDerivatives
    <3> QED
      BY <3>1, <3>2
  <2>3. ASSUME NEW v \in Versions, rows' = Kept(v) PROVE Active(rows', u, k) # {}
    BY <2>0, <2>1, <2>3 DEF Kept
  <2> QED
    BY <2>0, <2>1, <2>2, <2>3, RowsStep
<1> QED
  BY <1>1, TypeCorrect, FenceHolds, PTL DEF Spec, NothingServedIsLost

\* A file is claimed at most MaxAttempts times for one request: the column says how
\* often, and a claim that has died MaxAttempts times is not taken again.
THEOREM BudgetKept == Spec => []ClaimsPerRequest
<1> DEFINE Budget == ClaimsAreCounted /\ ClaimsPerRequest
<1>1. Init => Budget
  BY LimitsAssumption DEF Init, ClaimsAreCounted, ClaimsPerRequest
<1>2. TypeOK /\ Budget /\ [Next]_vars => Budget'
  <2> SUFFICES ASSUME TypeOK, Budget, [Next]_vars PROVE Budget'
    OBVIOUS
  <2> USE DEF ClaimsAreCounted, ClaimsPerRequest
  <2>0. /\ version \in [Versions -> VersionRow] /\ claims \in [Versions -> Nat]
        /\ MaxAttempts \in Nat \ {0}
        /\ \A w \in Workers : worker[w].version \in Versions
        /\ \A v \in Versions : version[v].attempts \in Nat
    BY LimitsAssumption DEF TypeOK, Process, VersionRow
  <2>1. ASSUME NEW u \in Versions, NEW n \in 0..MaxAttempts, Stamp(u, n),
               claims' = [claims EXCEPT ![u] = n]
        PROVE  Budget'
    BY <2>0, <2>1 DEF Stamp
  <2>2. ASSUME NEW u \in Versions, NEW s \in Terminal, Settle(u, s), claims' = claims
        PROVE  Budget'
    <3>1. s # "PENDING" /\ s # "PROCESSING"
      BY DEF Terminal
    <3>2. /\ version'[u].state = s
          /\ \A v \in Versions : v # u => version'[v] = version[v]
      BY <2>0, <2>2 DEF Settle, VersionRow
    <3> QED
      BY <2>2, <3>1, <3>2
  <2>3. ASSUME version' = version, claims' = claims PROVE Budget'
    BY <2>3
  <2>4. ASSUME NEW w \in Workers, ClaimVersion(w) PROVE Budget'
    <3> DEFINE u == worker[w].version
    <3>1. CASE version' = version /\ claims' = claims
      BY <2>3, <3>1
    <3>2. CASE Settle(u, "FAILED") /\ claims' = claims
      BY <2>0, <2>2, <3>2 DEF Terminal
    <3>3. CASE /\ IsClaimable(version[u]) /\ ~Exhausted(u)
               /\ Stamp(u, Attempts(u))
               /\ claims' = [claims EXCEPT ![u] = @ + 1]
      <4>1. Attempts(u) \in 0..MaxAttempts /\ Attempts(u) = claims[u] + 1
        BY <2>0, <3>3 DEF IsClaimable, Exhausted, Attempts
      <4> QED
        BY <2>0, <2>1, <3>3, <4>1
    <3> QED
      BY <2>4, <3>1, <3>2, <3>3 DEF ClaimVersion, RecordFailureOf
  <2>5. ASSUME NEW w \in Workers,
               RecordFailure(w) \/ FinishWithoutDerivatives(w) \/ PublishCommit(w)
        PROVE  Budget'
    <3>1. (\E s \in Terminal : Settle(worker[w].version, s)) /\ claims' = claims
      BY <2>5 DEF RecordFailure, RecordFailureOf, FinishWithoutDerivatives, PublishCommit, Terminal
    <3> QED
      BY <2>0, <2>2, <3>1
  <2>6. ASSUME NEW u \in Versions, ClaimAges(u) PROVE Budget'
    <3>1. /\ claims' = claims
          /\ \A v \in Versions : /\ version'[v].state = version[v].state
                                 /\ version'[v].attempts = version[v].attempts
      BY <2>0, <2>6 DEF ClaimAges, VersionRow
    <3> QED
      BY <3>1
  <2>7. ASSUME NEW w \in Workers, NEW u \in Versions, ForceClaim(w, u) PROVE Budget'
    <3>1. 1 \in 0..MaxAttempts /\ Stamp(u, 1) /\ claims' = [claims EXCEPT ![u] = 1]
      BY <2>0, <2>7 DEF ForceClaim
    <3> QED
      BY <2>1, <3>1
  <2> QED
    BY <2>3, <2>4, <2>5, <2>6, <2>7 DEF Next, Pass, vars, ReadQueue, Sleep, LoseClaim,
       PublishBegin, RegisterEmailAttachments, PublishRaises, DiscardInactiveDerivatives,
       LoadRaises, Crash
<1> QED
  BY <1>1, <1>2, TypeCorrect, PTL DEF Spec

-----------------------------------------------------------------------------
(* The queue implements the reader's view.                                 *)

Passes(rs, v, k) == {r.pass : r \in Active(rs, v, k)}

LEMMA ServedPasses == Served = [v \in Versions |-> [k \in Kinds |-> Passes(rows, v, k)]]
BY DEF Served, Passes

\* Every step is a publish of something newer in one piece, or leaves what
\* serves as it was.
THEOREM QueueServes == Spec => ImplementsServedText
<1>1. Init => Reader!Init
  <2> SUFFICES ASSUME Init PROVE Reader!Init
    OBVIOUS
  <2>1. \A v \in Versions, k \in Kinds : {r.pass : r \in Active(rows, v, k)} = {}
    BY DEF Init, Active
  <2> QED
    BY <2>1 DEF Served, Reader!Init
<1>2. TypeOK /\ ClaimFence /\ [Next]_vars => [Reader!Next]_Served
  <2> SUFFICES ASSUME TypeOK, ClaimFence, [Next]_vars
               PROVE  Reader!Next \/ Served' = Served
    OBVIOUS
  <2>1. ASSUME \A v \in Versions, k \in Kinds : Active(rows', v, k) = Active(rows, v, k)
        PROVE  Served' = Served
    BY <2>1 DEF Served
  <2>2. ASSUME NEW v \in Versions, rows' = rows \cup {FailedRow(v, version[v].claimedAt)}
        PROVE  Served' = Served
    <3>1. FailedRow(v, version[v].claimedAt).status = "FAILED"
      BY DEF FailedRow
    <3> QED
      BY <2>1, <2>2, <3>1 DEF Active
  <2>3. ASSUME NEW v \in Versions, rows' = Kept(v) PROVE Served' = Served
    BY <2>1, <2>3 DEF Active, Kept
  <2>4. ASSUME NEW v \in Versions, NEW K \in SUBSET Kinds, version[v].claimedAt # Unclaimed,
               rows' = WriteDerivatives(v, K, version[v].claimedAt)
        PROVE  Reader!Next \/ Served' = Served
    <3> DEFINE f == version[v].claimedAt
    <3>1. /\ f \in Nat
          /\ \A r \in rows : r.version = v => r.pass < f
      BY <2>4 DEF TypeOK, VersionRow, Derivative, ClaimFence, RowsAreOlder
    <3>2. \A u \in Versions, k \in Kinds :
            ~(u = v /\ k \in K) => Active(rows', u, k) = Active(rows, u, k)
      BY <2>4, <3>1, PublishLeavesOthers
    <3>3. \A k \in K : Passes(rows', v, k) = {f}
      <4> SUFFICES ASSUME NEW k \in K PROVE Passes(rows', v, k) = {f}
        OBVIOUS
      <4> DEFINE new == [version |-> v, kind |-> k, status |-> "ACTIVE", pass |-> f]
      <4>1. new \in Active(rows', v, k)
        BY <2>4 DEF Active, WriteDerivatives
      <4>2. \A r \in Active(rows', v, k) : r = new
        <5> SUFFICES ASSUME NEW r \in rows', r.version = v, r.kind = k, r.status = "ACTIVE"
                     PROVE  r = new
          BY DEF Active
        <5> QED
          BY <2>4, <3>1, PublishedRows
      <4>3. Active(rows', v, k) = {new}
        BY <4>1, <4>2
      <4> QED
        BY <4>3 DEF Passes
    <3>4. \A k \in Kinds : \A older \in Served[v][k] : older < f
      BY <3>1, ServedPasses DEF Passes, Active
    <3>5. Served' = [Served EXCEPT ![v] =
                       [k \in Kinds |-> IF k \in K THEN {f} ELSE Served[v][k]]]
      <4>1. Served' = [u \in Versions |-> [k \in Kinds |-> Passes(rows', u, k)]]
        BY DEF Served, Passes
      <4>2. \A u \in Versions, k \in Kinds :
              ~(u = v /\ k \in K) => Passes(rows', u, k) = Passes(rows, u, k)
        BY <3>2 DEF Passes
      <4>3. \A k \in Kinds : Passes(rows', v, k) = IF k \in K THEN {f} ELSE Served[v][k]
        BY <3>3, <4>2, ServedPasses
      <4>4. \A u \in Versions : u # v =>
              [k \in Kinds |-> Passes(rows', u, k)] = Served[u]
        BY <4>2, ServedPasses
      <4> DEFINE R == [k \in Kinds |-> IF k \in K THEN {f} ELSE Served[v][k]]
                 S(u) == [k \in Kinds |-> Passes(rows', u, k)]
      <4>5. S(v) = R
        BY <4>3
      <4>6. Served = [u \in Versions |-> Served[u]]
        BY ServedPasses
      <4>7. Served' = [u \in Versions |-> S(u)] /\ \A u \in Versions : u # v => S(u) = Served[u]
        BY <4>1, <4>4
      <4> HIDE DEF S, R
      <4>8. Served' = [Served EXCEPT ![v] = R]
        BY <4>5, <4>6, <4>7
      <4> QED
        BY <4>8 DEF R
    <3>6. CASE K = {}
      BY <2>1, <3>2, <3>6
    <3>7. CASE K # {}
      <4>1. PICK k \in K : f \in Served'[v][k]
        BY <3>5, <3>7, ServedPasses
      <4>2. f \in UNION {Served'[v][j] : j \in Kinds}
        BY <4>1
      <4>3. Reader!Publish(v, f, K)
        BY <3>4, <3>5 DEF Reader!Publish
      <4> QED
        BY <4>2, <4>3 DEF Reader!Next
    <3> QED
      BY <3>6, <3>7
  <2>5. CASE rows' = rows
    BY <2>1, <2>5
  <2> QED
    BY <2>2, <2>3, <2>4, <2>5, RowsStep
<1> QED
  BY <1>1, <1>2, TypeCorrect, FenceHolds, PTL DEF Spec, ImplementsServedText, Reader!Spec
=============================================================================
