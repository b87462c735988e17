------------------------- MODULE IntakeStagingProofs -------------------------
(***************************************************************************)
(* Proofs about the files staged before a Teema exists, for any number of  *)
(* forms, files, requests and readers.                                     *)
(***************************************************************************)
EXTENDS IntakeStaging, FiniteSetTheorems, TLAPS

Sessions == {"none", "open", "spent", "gone"}

-----------------------------------------------------------------------------
(* Types                                                                   *)

LEMMA Names ==
    /\ None \notin Forms /\ None \notin Requests
    /\ Sweeper \notin Requests /\ Sweeper # None
BY NamesAssumption

LEMMA Constants ==
    /\ Unsent \in Job /\ Over \in Job /\ NoRow \in Row /\ Idle \in Reading /\ Asleep \in Sweeping
<1>1. 1 \in Forms /\ 0 \in 0..MaxAttempts
  BY LimitsAssumption DEF Forms
<1>2. Unsent \in Job
  BY <1>1 DEF Unsent, Job
<1>3. Over \in Job
  BY <1>2 DEF Over, Unsent, Job
<1>4. NoRow \in Row /\ Idle \in Reading
  BY <1>1 DEF NoRow, Row, Idle, Reading
<1>5. Asleep \in Sweeping
  BY DEF Asleep, Sweeping
<1> QED
  BY <1>2, <1>3, <1>4, <1>5

LEMMA SettledRow ==
    ASSUME NEW q \in Row, NEW k \in {"DONE", "FAILED"}, NEW t \in BOOLEAN
    PROVE  [q EXCEPT !.state = k, !.text = t] \in Row
<1> DEFINE p == [q EXCEPT !.state = k]
<1>1. p \in Row
  BY DEF Row
<1>2. [q EXCEPT !.state = k, !.text = t] = [p EXCEPT !.text = t]
  BY DEF Row
<1> HIDE DEF p
<1>3. [p EXCEPT !.text = t] \in Row
  BY <1>1 DEF Row
<1> QED
  BY <1>2, <1>3

LEMMA ArrivesType ==
    ASSUME TypeOK, NEW r \in Requests, NEW op \in {"stage", "remove", "create"}, NEW s \in Forms,
           NEW files \in SUBSET Files, Arrives(r, op, s, files)
    PROVE  job' \in [Requests -> Job]
<1> DEFINE seen == IF Usable(s) THEN s ELSE None
           j == [Unsent EXCEPT !.step = "seen", !.op = op, !.form = s, !.seen = seen, !.files = files,
                    !.offered = IF op = "create" /\ seen # None THEN LiveRows(s) ELSE {}]
<1>1. seen \in Forms \cup {None} /\ LiveRows(s) \in SUBSET Files
  BY DEF LiveRows, RowsOf
<1>2. j \in Job
  <2> DEFINE offered == IF op = "create" /\ seen # None THEN LiveRows(s) ELSE {}
  <2>1. offered \in SUBSET Files
    BY <1>1
  <2>3. j = [Unsent EXCEPT !.step = "seen", !.op = op, !.form = s, !.seen = seen, !.files = files,
               !.offered = offered]
    OBVIOUS
  <2> HIDE DEF seen, offered, j
  <2>2. j = [step |-> "seen", op |-> op, form |-> s, seen |-> seen, files |-> files, offered |-> offered,
             guarded |-> FALSE, promoted |-> {}, attached |-> {}]
    BY <2>3 DEF Unsent
  <2> QED
    BY <1>1, <2>1, <2>2 DEF Job
<1>3. job' = [job EXCEPT ![r] = j]
  BY DEF Arrives
<1> HIDE DEF j
<1> QED
  BY <1>2, <1>3 DEF TypeOK

LEMMA TypeStep ==
    ASSUME TypeOK, [Next]_vars
    PROVE  TypeOK'
<1>0. CASE UNCHANGED vars
  BY <1>0 DEF vars, TypeOK
<1>1. ASSUME NEW s \in Forms, Draw(s)
      PROVE  TypeOK'
  BY <1>1 DEF Draw, TypeOK
<1>2. ASSUME NEW s \in Forms, Expire(s)
      PROVE  TypeOK'
  BY <1>2 DEF Expire, TypeOK
<1>3. ASSUME NEW s \in Forms, PastRetention(s)
      PROVE  TypeOK'
  BY <1>3 DEF PastRetention, TypeOK
<1>4. ASSUME NEW r \in Requests, NEW s \in Forms, NEW f \in Files, PostStage(r, s, f)
      PROVE  TypeOK'
  <2>1. job' \in [Requests -> Job]
    BY <1>4, ArrivesType, {f} \in SUBSET Files DEF PostStage
  <2>2. chosen' \in 0..MaxFiles /\ input' \in [Forms -> SUBSET Files]
    BY <1>4, LimitsAssumption DEF PostStage, TypeOK, Files
  <2> QED
    BY <1>4, <2>1, <2>2 DEF PostStage, TypeOK
<1>5. ASSUME NEW r \in Requests, NEW s \in Forms, NEW f \in Files, PostRemove(r, s, f)
      PROVE  TypeOK'
  <2>1. job' \in [Requests -> Job]
    BY <1>5, ArrivesType, {f} \in SUBSET Files DEF PostRemove
  <2> QED
    BY <1>5, <2>1 DEF PostRemove, TypeOK
<1>6. ASSUME NEW r \in Requests, NEW s \in Forms, PostCreate(r, s)
      PROVE  TypeOK'
  <2>1. input[s] \in SUBSET Files
    BY DEF TypeOK
  <2>2. job' \in [Requests -> Job]
    BY <1>6, <2>1, ArrivesType DEF PostCreate
  <2> QED
    BY <1>6, <2>2 DEF PostCreate, TypeOK
<1>7. ASSUME NEW r \in Requests, RequestStep(r)
      PROVE  TypeOK'
  <2> USE Constants
  <2>1. Ends(r) => job' \in [Requests -> Job]
    BY DEF Ends, TypeOK
  <2>2. Unlocked(r) \in [Forms -> Requests \cup {Sweeper, None}]
    BY DEF Unlocked, TypeOK
  <2>4. \A s : WithoutText(s) \in [Files -> Row] /\ WithoutBytes(s) \in [Files -> Forms \cup {None}]
    BY DEF WithoutText, WithoutBytes, TypeOK, Row
  <2>5. ASSUME NEW s \in Forms, StageRefused(r, s)
        PROVE  TypeOK'
    BY <2>1, <2>5 DEF StageRefused, TypeOK
  <2>6. ASSUME NEW s \in Forms, StageWrite(r, s)
        PROVE  TypeOK'
    <3>1. job' \in [Requests -> Job]
      <4>1. job' = [job EXCEPT ![r] = [job[r] EXCEPT !.step = "staging", !.seen = s]]
        BY <2>6 DEF StageWrite, TypeOK
      <4>2. [job[r] EXCEPT !.step = "staging", !.seen = s] \in Job
        BY DEF TypeOK, Job
      <4> QED
        BY <4>1, <4>2 DEF TypeOK
    <3>2. bytes' \in [Files -> Forms \cup {None}]
      BY <2>6 DEF StageWrite, TypeOK
    <3>3. lock' \in [Forms -> Requests \cup {Sweeper, None}]
      BY <2>6 DEF StageWrite, TypeOK
    <3> QED
      BY <2>6, <3>1, <3>2, <3>3 DEF StageWrite, TypeOK
  <2>7. CASE StageFails(r)
    <3>1. bytes' \in [Files -> Forms \cup {None}]
      BY <2>7 DEF StageFails, WithoutWritten, TypeOK
    <3> QED
      BY <2>1, <2>2, <2>7, <3>1 DEF StageFails, TypeOK
  <2>8. CASE StageCommit(r)
    <3>1. CASE session[job[r].seen] = "gone"
      BY <2>1, <2>2, <2>8, <3>1 DEF StageCommit, TypeOK
    <3>2. CASE session[job[r].seen] # "gone"
      <4>6. job' = [job EXCEPT ![r] = [job[r] EXCEPT !.step = "staged"]]
        BY <2>8, <3>2 DEF StageCommit
      <4>7. [job[r] EXCEPT !.step = "staged"] \in Job
        BY DEF TypeOK, Job
      <4>8. session' = [session EXCEPT ![job[r].seen] = IF @ = "none" THEN "open" ELSE @]
        BY <2>8, <3>2 DEF StageCommit
      <4>9. session' \in [Forms -> Sessions]
        BY <4>8 DEF TypeOK, Sessions
      <4>1. job' \in [Requests -> Job] /\ session' \in [Forms -> Sessions]
        BY <4>6, <4>7, <4>9 DEF TypeOK
      <4>2. job[r].seen \in Forms \cup {None}
        BY DEF TypeOK, Job
      <4>3. [NoRow EXCEPT !.form = job[r].seen] \in Row
        BY <4>2 DEF NoRow, Row
      <4>4. row' = [f \in Files |-> IF f \in job[r].files THEN [NoRow EXCEPT !.form = job[r].seen]
                                   ELSE row[f]]
        BY <2>8, <3>2 DEF StageCommit
      <4>5. row' \in [Files -> Row]
        BY <4>3, <4>4 DEF TypeOK
      <4> QED
        BY <2>2, <2>8, <4>1, <4>5 DEF StageCommit, TypeOK, Sessions
    <3> QED
      BY <3>1, <3>2
  <2>9. CASE StageAnswered(r)
    BY <2>1, <2>9 DEF StageAnswered, TypeOK
  <2>10. CASE RemoveFile(r)
    <3>1. row' \in [Files -> Row]
      BY <2>10 DEF RemoveFile, TypeOK, Row
    <3> QED
      BY <2>1, <2>10, <3>1 DEF RemoveFile, TypeOK
  <2>11. CASE Claim(r)
    <3>1. job' \in [Requests -> Job]
      <4>1. CASE Ends(r)
        BY <2>1, <4>1
      <4>2. CASE job' = [job EXCEPT ![r].step = "claimed", ![r].guarded = session[job[r].form] = "open"]
        <5> DEFINE open == session[job[r].form] = "open"
                   j == [job[r] EXCEPT !.step = "claimed", !.guarded = open]
        <5>1. job' = [job EXCEPT ![r] = j]
          BY <4>2 DEF TypeOK
        <5>2. open \in BOOLEAN /\ job[r] \in Job
          BY DEF TypeOK
        <5>3. j \in Job
          <6> HIDE DEF open
          <6> QED
            BY <5>2 DEF Job
        <5> HIDE DEF j
        <5> QED
          BY <5>1, <5>3 DEF TypeOK
      <4> QED
        BY <2>11, <4>1, <4>2 DEF Claim
    <3>2. lock' \in [Forms -> Requests \cup {Sweeper, None}]
      BY <2>11 DEF Claim, TypeOK
    <3> QED
      BY <2>11, <3>1, <3>2 DEF Claim, TypeOK
  <2>12. CASE Promote(r)
    <3> DEFINE live == IF job[r].seen = None THEN {} ELSE LiveRows(job[r].seen)
    <3>1. live \in SUBSET Files /\ job[r].files \in SUBSET Files
      BY DEF LiveRows, RowsOf, TypeOK, Job
    <3>2. WithoutStagedCopies(job[r].files, live) \in SUBSET Files
      BY <3>1 DEF WithoutStagedCopies
    <3>3. job' = [job EXCEPT ![r].step = "promoted", ![r].promoted = live,
                          ![r].attached = WithoutStagedCopies(job[r].files, live)]
      BY <2>12 DEF Promote
    <3>4. job' \in [Requests -> Job]
      <4> DEFINE attached == WithoutStagedCopies(job[r].files, live)
                 j == [job[r] EXCEPT !.step = "promoted", !.promoted = live, !.attached = attached]
      <4>1. attached \in SUBSET Files
        BY <3>2
      <4>2. job' = [job EXCEPT ![r] = j]
        BY <3>3 DEF TypeOK
      <4> HIDE DEF live, attached
      <4>3. j \in Job
        BY <3>1, <4>1 DEF TypeOK, Job
      <4> HIDE DEF j
      <4> QED
        BY <4>2, <4>3 DEF TypeOK
    <3> QED
      BY <2>12, <3>4 DEF Promote, TypeOK
  <2>13. CASE Commit(r)
    <3>1. [Unsent EXCEPT !.step = "saved", !.op = "create", !.seen = job[r].seen] \in Job
      BY DEF TypeOK, Job, Unsent
    <3>2. job' \in [Requests -> Job]
      BY <2>13, <3>1 DEF Commit, TypeOK
    <3>3. /\ session' \in [Forms -> Sessions] /\ expired' \subseteq Forms
          /\ saved' \in [Forms -> Nat] /\ bare' \subseteq Forms
      <4>1. job[r].form \in Forms
        BY DEF TypeOK, Job
      <4> QED
        BY <2>13, <4>1 DEF Commit, TypeOK, Sessions
    <3> QED
      BY <2>2, <2>13, <3>2, <3>3 DEF Commit, TypeOK, Sessions
  <2>14. CASE ClearText(r)
    <3>1. job' \in [Requests -> Job]
      <4>1. job' = [job EXCEPT ![r] = [job[r] EXCEPT !.step = "cleared"]]
        BY <2>14 DEF ClearText
      <4>2. [job[r] EXCEPT !.step = "cleared"] \in Job
        BY DEF TypeOK, Job
      <4> QED
        BY <4>1, <4>2 DEF TypeOK
    <3> QED
      BY <2>4, <2>14, <3>1 DEF ClearText, TypeOK
  <2>15. CASE DiscardObjects(r)
    BY <2>1, <2>4, <2>15 DEF DiscardObjects, TypeOK
  <2>16. CASE GiveUp(r)
    BY <2>1, <2>2, <2>16 DEF GiveUp, TypeOK
  <2> QED
    BY <1>7, <2>5, <2>6, <2>7, <2>8, <2>9, <2>10, <2>11, <2>12, <2>13, <2>14, <2>15, <2>16 DEF RequestStep
<1>8. ASSUME NEW d \in Readers, ReaderStep(d)
      PROVE  TypeOK'
  <2>1. ASSUME NEW f \in Files, ClaimFile(d, f)
        PROVE  TypeOK'
    <3> DEFINE n == IF row[f].state = "PENDING" THEN 1 ELSE row[f].attempts + 1
    <3>1. row[f].attempts \in 0..MaxAttempts
      BY DEF TypeOK, Row
    <3>2. n \in Nat /\ n >= 1
      BY <3>1, LimitsAssumption
    <3>3. CASE n > MaxAttempts
      <4>1. row' = [row EXCEPT ![f].state = "FAILED"] /\ UNCHANGED reader
        BY <2>1, <3>3 DEF ClaimFile
      <4>2. row' \in [Files -> Row]
        BY <4>1 DEF TypeOK, Row
      <4> QED
        BY <2>1, <4>1, <4>2 DEF ClaimFile, TypeOK
    <3>4. CASE ~(n > MaxAttempts)
      <4>1. /\ row' = [row EXCEPT ![f].state = "PROCESSING", ![f].attempts = n]
            /\ reader' = [reader EXCEPT ![d] = [file |-> f, fence |-> n]]
        BY <2>1, <3>4 DEF ClaimFile
      <4>2. n \in 0..MaxAttempts
        BY <3>2, <3>4, LimitsAssumption
      <4> HIDE DEF n
      <4>4. row' = [row EXCEPT ![f] = [row[f] EXCEPT !.state = "PROCESSING", !.attempts = n]]
        BY <4>1 DEF TypeOK
      <4>5. [row[f] EXCEPT !.state = "PROCESSING", !.attempts = n] \in Row
        <5>1. row[f] \in Row
          BY DEF TypeOK
        <5> DEFINE q == [row[f] EXCEPT !.state = "PROCESSING"]
        <5>2. q \in Row
          BY <5>1 DEF Row
        <5>3. [row[f] EXCEPT !.state = "PROCESSING", !.attempts = n] = [q EXCEPT !.attempts = n]
          BY <5>1 DEF Row
        <5> HIDE DEF q
        <5> QED
          BY <4>2, <5>2, <5>3 DEF Row
      <4>6. [file |-> f, fence |-> n] \in Reading
        BY <4>2 DEF Reading
      <4>3. row' \in [Files -> Row] /\ reader' \in [Readers -> Reading]
        BY <4>1, <4>4, <4>5, <4>6 DEF TypeOK
      <4> QED
        BY <2>1, <4>3 DEF ClaimFile, TypeOK
    <3> QED
      BY <3>3, <3>4
  <2>2. CASE Settle(d)
    <3> DEFINE f == reader[d].file
    <3>1. row' \in [Files -> Row]
      <4>1. ASSUME NEW text \in BOOLEAN,
                   row' = [row EXCEPT ![f].state = IF text THEN "DONE" ELSE "FAILED", ![f].text = text]
            PROVE  row' \in [Files -> Row]
        <5>1. CASE f \in Files
          <6>1. row' = [row EXCEPT ![f] = [row[f] EXCEPT !.state = IF text THEN "DONE" ELSE "FAILED",
                                                         !.text = text]]
            BY <4>1, <5>1 DEF TypeOK
          <6> DEFINE state == IF text THEN "DONE" ELSE "FAILED"
          <6>3. state \in {"DONE", "FAILED"}
            OBVIOUS
          <6>2. [row[f] EXCEPT !.state = state, !.text = text] \in Row
            <7> HIDE DEF state
            <7> QED
              BY <5>1, <6>3, SettledRow DEF TypeOK
          <6> QED
            BY <6>1, <6>2, <5>1 DEF TypeOK
        <5>2. CASE f \notin Files
          BY <4>1, <5>2 DEF TypeOK
        <5> QED
          BY <5>1, <5>2
      <4> QED
        BY <2>2, <4>1 DEF Settle, TypeOK
    <3> HIDE DEF f
    <3> QED
      BY <2>2, <3>1, Constants DEF Settle, TypeOK
  <2>3. CASE ReaderDies(d)
    BY <2>3, Constants DEF ReaderDies, TypeOK
  <2> QED
    BY <1>8, <2>1, <2>2, <2>3 DEF ReaderStep
<1>9. CASE ClearExpiredText
  <2> DEFINE over == {f \in Files : row[f].text /\ Finished(row[f].form)}
  <2>2. row' = [f \in Files |-> IF f \in over THEN [row[f] EXCEPT !.text = FALSE] ELSE row[f]]
    BY <1>9 DEF ClearExpiredText
  <2>3. ASSUME NEW f \in Files
        PROVE  row[f] \in Row /\ [row[f] EXCEPT !.text = FALSE] \in Row
    <3>1. row[f] \in Row
      BY DEF TypeOK
    <3> QED
      BY <3>1 DEF Row
  <2> HIDE DEF over
  <2>1. row' \in [Files -> Row]
    BY <2>2, <2>3
  <2> QED
    BY <1>9, <2>1 DEF ClearExpiredText, TypeOK
<1>10. CASE SweepStep
  <2>1. ASSUME NEW s \in Forms, SweepList(s)
        PROVE  TypeOK'
    BY <2>1 DEF SweepList, TypeOK, Sweeping
  <2>2. CASE SweepLock
    <3>1. Stale(sweep.form) \in BOOLEAN
      BY DEF Stale
    <3>2. sweep' \in Sweeping /\ lock' \in [Forms -> Requests \cup {Sweeper, None}]
      <4>1. CASE sweep' = Asleep /\ UNCHANGED lock
        BY <4>1, Constants DEF TypeOK
      <4>2. CASE ~(sweep' = Asleep /\ UNCHANGED lock)
        <5> DEFINE stale == Stale(sweep.form)
        <5>1. /\ lock' = [lock EXCEPT ![sweep.form] = Sweeper]
              /\ sweep' = [sweep EXCEPT !.step = "locked", !.whole = stale]
          BY <2>2, <4>2 DEF SweepLock
        <5> HIDE DEF stale
        <5>2. sweep' = [step |-> "locked", form |-> sweep.form, whole |-> stale]
          BY <5>1 DEF TypeOK, Sweeping
        <5>3. stale \in BOOLEAN /\ sweep.form \in Forms \cup {None}
          BY <3>1 DEF stale, TypeOK, Sweeping
        <5>4. sweep' \in Sweeping
          BY <5>2, <5>3 DEF Sweeping
        <5>5. lock' \in [Forms -> Requests \cup {Sweeper, None}]
          BY <5>1 DEF TypeOK
        <5> QED
          BY <5>4, <5>5
      <4> QED
        BY <4>1, <4>2
    <3> QED
      BY <2>2, <3>2 DEF SweepLock, TypeOK
  <2>3. CASE SweepBytes
    <3>1. bytes' \in [Files -> Forms \cup {None}]
      BY <2>3 DEF SweepBytes, WithoutBytes, TypeOK
    <3> QED
      BY <2>3, <3>1 DEF SweepBytes, TypeOK, Sweeping
  <2>4. CASE SweepCommit
    BY <2>4, Constants DEF SweepCommit, TypeOK
  <2>5. CASE SweepStops
    BY <2>5, Constants DEF SweepStops, TypeOK
  <2> QED
    BY <1>10, <2>1, <2>2, <2>3, <2>4, <2>5 DEF SweepStep
<1>11. CASE Done
  BY <1>11, <1>0 DEF Done
<1> QED
  BY <1>0, <1>1, <1>2, <1>3, <1>4, <1>5, <1>6, <1>7, <1>8, <1>9, <1>10, <1>11 DEF Next

\* Every variable keeps its type.
THEOREM Typed == Spec => []TypeOK
<1>1. Init => TypeOK
  BY Constants, LimitsAssumption DEF Init, TypeOK
<1> QED
  BY <1>1, TypeStep, PTL DEF Spec
-----------------------------------------------------------------------------
(* A form is saved once                                                    *)

\* What a session's row says of the Teemas filed from its form.
SavedRows ==
    \A s \in Forms :
        /\ saved[s] <= 1
        /\ session[s] \in {"none", "open"} => saved[s] = 0
        /\ session[s] = "gone" /\ saved[s] = 1 => s \in past
        /\ s \in bare => session[s] = "gone"

\* The sweeper holds the row it is deleting, as it found it under the lock.
SweepHolds ==
    /\ sweep.step # "idle" => sweep.form \in Forms
    /\ sweep.step \in {"locked", "emptied"} =>
         /\ lock[sweep.form] = Sweeper
         /\ session[sweep.form] \in {"open", "spent"}
         /\ session[sweep.form] = "spent" /\ sweep.whole => sweep.form \in past

Saving(r) == job[r].op = "create" /\ job[r].step \in {"claimed", "promoted"}

\* A save under a token holds its open row; one without was posted from a form whose row is gone.
SavesHold ==
    \A r \in Requests :
        /\ Saving(r) /\ job[r].guarded => lock[job[r].form] = r /\ session[job[r].form] = "open"
        /\ Saving(r) /\ ~job[r].guarded => session[job[r].form] = "gone"
        /\ At(r, "create", "seen") => session[job[r].form] # "none"

SaveInv == SavedRows /\ SweepHolds /\ SavesHold

\* A request that leaves the rows alone, and neither starts nor makes a save, keeps the rest.
LEMMA SaveLeaves ==
    ASSUME TypeOK, SaveInv, NEW r \in Requests, NEW j \in Job,
           job' = [job EXCEPT ![r] = j],
           ~(j.op = "create" /\ j.step \in {"seen", "claimed", "promoted"}),
           lock' \in {lock, Unlocked(r)}, UNCHANGED <<session, saved, bare, past, sweep>>
    PROVE  SaveInv'
<1>1. SavedRows'
  BY DEF SaveInv, SavedRows
<1>2. \A s \in Forms : lock[s] # r => lock'[s] = lock[s]
  BY DEF Unlocked
<1>3. SweepHolds'
  BY <1>2, Names DEF SaveInv, SweepHolds
<1>4. \A q \in Requests \ {r} : job'[q] = job[q] /\ job[q].form \in Forms
  BY DEF TypeOK, Job
<1>5. job'[r] = j
  BY DEF TypeOK
<1>6. SavesHold'
  BY <1>2, <1>4, <1>5 DEF SaveInv, SavesHold, Saving, At
<1> QED
  BY <1>1, <1>3, <1>6 DEF SaveInv

\* A request that arrives keeps it too: its form was drawn.
LEMMA SavePost ==
    ASSUME TypeOK, SaveInv, NEW r \in Requests, NEW op \in {"stage", "remove", "create"},
           NEW s \in Forms, NEW files, Arrives(r, op, s, files),
           UNCHANGED <<session, saved, bare, past, sweep, lock>>
    PROVE  SaveInv'
<1>1. SavedRows' /\ SweepHolds'
  BY DEF SaveInv, SavedRows, SweepHolds
<1>2. \A q \in Requests \ {r} : job'[q] = job[q]
  BY DEF Arrives, TypeOK
<1>3. job'[r].step = "seen" /\ job'[r].form = s /\ session[s] # "none"
  BY DEF Arrives, TypeOK, Unsent
<1>4. SavesHold'
  BY <1>2, <1>3 DEF SaveInv, SavesHold, Saving, At
<1> QED
  BY <1>1, <1>4 DEF SaveInv

LEMMA SaveStep ==
    ASSUME TypeOK, SaveInv, [Next]_vars
    PROVE  SaveInv'
<1> USE DEF SaveInv
<1>0. CASE UNCHANGED <<session, saved, bare, past, sweep, lock, job>>
  BY <1>0 DEF SavedRows, SweepHolds, SavesHold, Saving, At
<1>a. CASE UNCHANGED vars
  BY <1>0, <1>a DEF vars
<1>1. ASSUME NEW s \in Forms, Draw(s)
      PROVE  SaveInv'
  <2>1. session[s] = "none" /\ session' = [session EXCEPT ![s] = "open"]
    BY <1>1 DEF Draw, Fresh, Known
  <2>2. UNCHANGED <<saved, bare, past, sweep, lock, job>>
    BY <1>1 DEF Draw
  <2>3. SavedRows' /\ SweepHolds'
    BY <2>1, <2>2 DEF SavedRows, SweepHolds, TypeOK
  <2>4. SavesHold'
    BY <2>1, <2>2 DEF SavesHold, Saving, At, TypeOK
  <2> QED
    BY <2>3, <2>4
<1>2. ASSUME NEW s \in Forms, Expire(s)
      PROVE  SaveInv'
  BY <1>0, <1>2 DEF Expire
<1>3. ASSUME NEW s \in Forms, PastRetention(s)
      PROVE  SaveInv'
  BY <1>3 DEF PastRetention, SavedRows, SweepHolds, SavesHold, Saving, At
<1>4. ASSUME NEW r \in Requests, NEW s \in Forms, NEW f \in Files, PostStage(r, s, f)
      PROVE  SaveInv'
  BY <1>4, SavePost DEF PostStage
<1>5. ASSUME NEW r \in Requests, NEW s \in Forms, NEW f \in Files, PostRemove(r, s, f)
      PROVE  SaveInv'
  BY <1>5, SavePost DEF PostRemove
<1>6. ASSUME NEW r \in Requests, NEW s \in Forms, PostCreate(r, s)
      PROVE  SaveInv'
  BY <1>6, SavePost DEF PostCreate
<1>7. ASSUME NEW r \in Requests, RequestStep(r)
      PROVE  SaveInv'
  <2>0. Over.step = "over" /\ Over \in Job
    BY Constants DEF Over, Unsent
  <2>1. ASSUME Ends(r), lock' \in {lock, Unlocked(r)}, UNCHANGED <<session, saved, bare, past, sweep>>
        PROVE  SaveInv'
    BY <2>0, <2>1, SaveLeaves DEF Ends
  <2>2. job[r] \in Job /\ job[r].form \in Forms
    BY DEF TypeOK, Job
  <2>3. ASSUME NEW s \in Forms, StageRefused(r, s)
        PROVE  SaveInv'
    <3>1. session' = [session EXCEPT ![s] = IF @ = "none" THEN "open" ELSE @]
      BY <2>3 DEF StageRefused
    <3>2. job' = [job EXCEPT ![r] = Over] /\ UNCHANGED <<saved, bare, past, sweep, lock>>
      BY <2>3 DEF StageRefused, Ends
    <3>3. SavedRows' /\ SweepHolds'
      BY <3>1, <3>2 DEF SavedRows, SweepHolds, TypeOK
    <3>4. SavesHold'
      BY <2>0, <3>1, <3>2 DEF SavesHold, Saving, At, TypeOK
    <3> QED
      BY <3>3, <3>4
  <2>4. ASSUME NEW s \in Forms, StageWrite(r, s)
        PROVE  SaveInv'
    <3>1. session[s] \in {"open", "spent"} => lock[s] = None
      BY <2>4, Names DEF StageWrite, StagesInto, Fresh, Known, Free
    <3>2. /\ lock' = [lock EXCEPT ![s] = IF session[s] \in {"open", "spent"} THEN r ELSE @]
          /\ job' = [job EXCEPT ![r].step = "staging", ![r].seen = s]
          /\ UNCHANGED <<session, saved, bare, past, sweep>>
          /\ job[r].op = "stage"
      BY <2>4 DEF StageWrite, StagesInto, At
    <3>3. SavedRows'
      BY <3>2 DEF SavedRows
    <3>4. \A t \in Forms : lock[t] # None => lock'[t] = lock[t]
      BY <3>1, <3>2 DEF TypeOK
    <3>5. SweepHolds'
      BY <3>2, <3>4, Names DEF SweepHolds
    <3>6. \A q \in Requests \ {r} : job'[q] = job[q] /\ job[q].form \in Forms
      BY <3>2 DEF TypeOK, Job
    <3>7. job'[r].op = "stage"
      BY <2>2, <3>2 DEF TypeOK, Job
    <3>9. UNCHANGED session
      BY <3>2
    <3>10. ASSUME NEW q \in Requests \ {r}
           PROVE  /\ Saving(q)' /\ job'[q].guarded => lock'[job'[q].form] = q /\ session'[job'[q].form] = "open"
                  /\ Saving(q)' /\ ~job'[q].guarded => session'[job'[q].form] = "gone"
                  /\ At(q, "create", "seen")' => session'[job'[q].form] # "none"
      BY <3>4, <3>6, <3>9, Names DEF SavesHold, Saving, At
    <3>11. ~Saving(r)' /\ ~At(r, "create", "seen")'
      BY <3>7 DEF Saving, At
    <3>8. SavesHold'
      BY <3>10, <3>11 DEF SavesHold
    <3> QED
      BY <3>3, <3>5, <3>8
  <2>5. CASE StageFails(r)
    BY <2>1, <2>5 DEF StageFails
  <2>6. CASE StageCommit(r)
    <3>1. CASE session[job[r].seen] = "gone"
      BY <2>1, <2>6, <3>1 DEF StageCommit
    <3>2. CASE session[job[r].seen] # "gone"
      <4>1. /\ session' = [session EXCEPT ![job[r].seen] = IF @ = "none" THEN "open" ELSE @]
            /\ job' = [job EXCEPT ![r].step = "staged"] /\ lock' = Unlocked(r)
            /\ UNCHANGED <<saved, bare, past, sweep>>
            /\ job[r].op = "stage"
        BY <2>6, <3>2 DEF StageCommit, At
      <4>2. \A s \in Forms : session'[s] = session[s] \/ (session[s] = "none" /\ session'[s] = "open")
        BY <4>1 DEF TypeOK
      <4>3. SavedRows'
        BY <4>1, <4>2 DEF SavedRows
      <4>4. \A s \in Forms : lock[s] # r => lock'[s] = lock[s]
        BY <4>1 DEF Unlocked
      <4>5. SweepHolds'
        BY <4>1, <4>2, <4>4, Names DEF SweepHolds
      <4>6. \A q \in Requests \ {r} : job'[q] = job[q] /\ job[q].form \in Forms
        BY <4>1 DEF TypeOK, Job
      <4>7. job'[r].op = "stage"
        BY <2>2, <4>1 DEF TypeOK, Job
      <4>8. SavesHold'
        BY <4>2, <4>4, <4>6, <4>7 DEF SavesHold, Saving, At
      <4> QED
        BY <4>3, <4>5, <4>8
    <3> QED
      BY <3>1, <3>2
  <2>7. CASE StageAnswered(r)
    BY <2>1, <2>7 DEF StageAnswered
  <2>8. CASE RemoveFile(r)
    BY <2>1, <2>8 DEF RemoveFile
  <2>9. CASE Claim(r)
    <3> DEFINE s == job[r].form
    <3>1. CASE Ends(r) /\ UNCHANGED lock
      BY <2>1, <2>9, <3>1 DEF Claim
    <3>2. CASE ~(Ends(r) /\ UNCHANGED lock)
      <4>1. /\ job' = [job EXCEPT ![r].step = "claimed", ![r].guarded = session[s] = "open"]
            /\ lock' = [lock EXCEPT ![s] = IF session[s] = "open" THEN r ELSE @]
            /\ UNCHANGED <<session, saved, bare, past, sweep>>
            /\ session[s] # "spent" /\ session[s] # "none" /\ lock[s] = None
        BY <2>9, <3>2 DEF Claim, Free, SavesHold
      <4>2. SavedRows'
        BY <4>1 DEF SavedRows
      <4>3. \A t \in Forms : lock[t] # None => lock'[t] = lock[t]
        BY <4>1 DEF TypeOK
      <4>4. SweepHolds'
        BY <4>1, <4>3, Names DEF SweepHolds
      <4>5. \A q \in Requests \ {r} : job'[q] = job[q] /\ job[q].form \in Forms
        BY <4>1 DEF TypeOK, Job
      <4>6. job'[r].step = "claimed" /\ job'[r].form = s /\ (job'[r].guarded <=> session[s] = "open")
        BY <2>2, <4>1 DEF TypeOK, Job
      <4>7. session[s] \in {"open", "gone"} /\ (session[s] = "open" => lock'[s] = r)
        BY <2>2, <4>1 DEF TypeOK
      <4> HIDE DEF s
      <4>9. UNCHANGED session
        BY <4>1
      <4>10. ASSUME NEW q \in Requests \ {r}
             PROVE  /\ Saving(q)' /\ job'[q].guarded => lock'[job'[q].form] = q /\ session'[job'[q].form] = "open"
                    /\ Saving(q)' /\ ~job'[q].guarded => session'[job'[q].form] = "gone"
                    /\ At(q, "create", "seen")' => session'[job'[q].form] # "none"
        BY <4>3, <4>5, <4>9, Names DEF SavesHold, Saving, At
      <4>11. /\ Saving(r)' /\ job'[r].guarded => lock'[job'[r].form] = r /\ session'[job'[r].form] = "open"
             /\ Saving(r)' /\ ~job'[r].guarded => session'[job'[r].form] = "gone"
             /\ At(r, "create", "seen")' => session'[job'[r].form] # "none"
        BY <4>6, <4>7, <4>9 DEF At
      <4>8. SavesHold'
        BY <4>10, <4>11 DEF SavesHold
      <4> QED
        BY <4>2, <4>4, <4>8
    <3> QED
      BY <3>1, <3>2
  <2>10. CASE Promote(r)
    <3>1. UNCHANGED <<session, saved, bare, past, sweep, lock>>
      BY <2>10 DEF Promote
    <3>2. SavedRows' /\ SweepHolds'
      BY <3>1 DEF SavedRows, SweepHolds
    <3>3. \A q \in Requests \ {r} : job'[q] = job[q]
      BY <2>10 DEF Promote, TypeOK
    <3>4. /\ job'[r].step = "promoted" /\ job'[r].op = "create"
          /\ job'[r].form = job[r].form /\ job'[r].guarded = job[r].guarded
      BY <2>2, <2>10 DEF Promote, At, TypeOK, Job
    <3>5. Saving(r)
      BY <2>10 DEF Promote, Saving, At
    <3>6. SavesHold'
      BY <3>1, <3>3, <3>4, <3>5 DEF SavesHold, Saving, At
    <3> QED
      BY <3>2, <3>6
  <2>11. CASE Commit(r)
    <3> DEFINE s == job[r].form
               j == IF job[r].seen = None THEN Over
                    ELSE [Unsent EXCEPT !.step = "saved", !.op = "create", !.seen = job[r].seen]
    <3>1. Saving(r) /\ lock' = Unlocked(r) /\ UNCHANGED <<past, sweep>> /\ job' = [job EXCEPT ![r] = j]
      BY <2>11 DEF Commit, Saving, At
    <3>2. j.step \in {"saved", "over"}
      BY <2>0 DEF Unsent
    <3>3. \A q \in Requests \ {r} : job'[q] = job[q] /\ job[q].form \in Forms
      BY <3>1 DEF TypeOK, Job
    <3>4. job'[r].step \in {"saved", "over"}
      BY <3>1, <3>2 DEF TypeOK
    <3>5. \A t \in Forms : lock[t] # r => lock'[t] = lock[t]
      BY <3>1 DEF Unlocked
    <3> HIDE DEF j
    <3>6. CASE job[r].guarded
      <4>1. session' = [session EXCEPT ![s] = "spent"] /\ saved' = [saved EXCEPT ![s] = @ + 1] /\ bare' = bare
        BY <2>11, <3>6 DEF Commit
      <4>2. lock[s] = r /\ session[s] = "open" /\ s \in Forms /\ saved[s] = 0
        BY <2>2, <3>1, <3>6 DEF SavesHold, SavedRows
      <4> HIDE DEF s
      <4>3. SavedRows'
        BY <3>1, <4>1, <4>2 DEF SavedRows, TypeOK
      <4>4. \A t \in Forms : lock[t] # r => session'[t] = session[t]
        BY <4>1, <4>2 DEF TypeOK
      <4>5. SweepHolds'
        BY <3>1, <3>5, <4>4, Names DEF SweepHolds
      <4>6. \A t \in Forms : session[t] = "gone" => session'[t] = "gone"
        BY <4>1, <4>2 DEF TypeOK
      <4>7. \A t \in Forms : session[t] # "none" => session'[t] # "none"
        BY <4>1, <4>2 DEF TypeOK
      <4>9. ASSUME NEW q \in Requests \ {r}
            PROVE  /\ Saving(q)' /\ job'[q].guarded => lock'[job'[q].form] = q /\ session'[job'[q].form] = "open"
                   /\ Saving(q)' /\ ~job'[q].guarded => session'[job'[q].form] = "gone"
                   /\ At(q, "create", "seen")' => session'[job'[q].form] # "none"
        BY <3>3, <3>5, <4>4, <4>6, <4>7 DEF SavesHold, Saving, At
      <4>10. ~Saving(r)' /\ ~At(r, "create", "seen")'
        BY <3>4 DEF Saving, At
      <4>8. SavesHold'
        BY <4>9, <4>10 DEF SavesHold
      <4> QED
        BY <4>3, <4>5, <4>8
    <3>7. CASE ~job[r].guarded
      <4>1. bare' = bare \cup {s} /\ UNCHANGED <<session, saved>>
        BY <2>11, <3>7 DEF Commit
      <4>2. session[s] = "gone"
        BY <3>1, <3>7 DEF SavesHold
      <4>3. SavedRows'
        BY <3>1, <4>1, <4>2 DEF SavedRows
      <4>4. SweepHolds'
        BY <3>1, <3>5, <4>1, Names DEF SweepHolds
      <4>5. SavesHold'
        BY <3>3, <3>4, <3>5, <4>1 DEF SavesHold, Saving, At
      <4> QED
        BY <4>3, <4>4, <4>5
    <3> QED
      BY <3>6, <3>7
  <2>12. CASE ClearText(r)
    <3>1. [job[r] EXCEPT !.step = "cleared"] \in Job
      BY <2>2 DEF Job
    <3>2. job' = [job EXCEPT ![r] = [job[r] EXCEPT !.step = "cleared"]]
      BY <2>12 DEF ClearText
    <3>3. [job[r] EXCEPT !.step = "cleared"].step = "cleared"
      BY <2>2 DEF Job
    <3>4. UNCHANGED <<session, saved, bare, past, sweep, lock>>
      BY <2>12 DEF ClearText
    <3> QED
      BY <3>1, <3>2, <3>3, <3>4, SaveLeaves
  <2>13. CASE DiscardObjects(r)
    BY <2>1, <2>13 DEF DiscardObjects
  <2>14. CASE GiveUp(r)
    BY <2>1, <2>14 DEF GiveUp
  <2> QED
    BY <1>7, <2>3, <2>4, <2>5, <2>6, <2>7, <2>8, <2>9, <2>10, <2>11, <2>12, <2>13, <2>14 DEF RequestStep
<1>8. ASSUME NEW d \in Readers, ReaderStep(d)
      PROVE  SaveInv'
  BY <1>0, <1>8 DEF ReaderStep, ClaimFile, Settle, ReaderDies
<1>9. CASE ClearExpiredText
  BY <1>0, <1>9 DEF ClearExpiredText
<1>10. CASE SweepStep
  <2>0. UNCHANGED <<saved, bare, past, job>>
    BY <1>10 DEF SweepStep, SweepList, SweepLock, SweepBytes, SweepCommit, SweepStops
  <2>1. \A r \in Requests : job[r].form \in Forms
    BY DEF TypeOK, Job
  <2>2. ASSUME UNCHANGED session, \A s \in Forms : lock[s] \in Requests => lock'[s] = lock[s]
        PROVE  SavedRows' /\ SavesHold'
    BY <2>0, <2>1, <2>2 DEF SavedRows, SavesHold, Saving, At
  <2>3. ASSUME NEW s \in Forms, SweepList(s)
        PROVE  SaveInv'
    <3>1. sweep' = [sweep EXCEPT !.step = "listed", !.form = s] /\ UNCHANGED <<session, lock>>
      BY <2>3 DEF SweepList
    <3>2. sweep'.step = "listed" /\ sweep'.form = s
      BY <3>1 DEF TypeOK, Sweeping
    <3> QED
      BY <2>2, <3>1, <3>2 DEF SweepHolds
  <2>4. CASE SweepLock
    <3> DEFINE s == sweep.form
    <3>1. s \in Forms /\ UNCHANGED session
      BY <2>4 DEF SweepLock, SweepHolds
    <3>2. CASE Free(s) /\ Sweepable(s)
      <4>1. lock' = [lock EXCEPT ![s] = Sweeper]
            /\ sweep' = [sweep EXCEPT !.step = "locked", !.whole = Stale(s)]
        BY <2>4, <3>2 DEF SweepLock
      <4>2. lock'[s] = Sweeper /\ \A t \in Forms : lock[t] \in Requests => lock'[t] = lock[t]
        BY <3>1, <3>2, <4>1, Names DEF Free, TypeOK
      <4>3. sweep'.form = s /\ (sweep'.whole <=> Stale(s))
        BY <4>1 DEF TypeOK, Sweeping
      <4>4. session[s] \in {"open", "spent"} /\ (session[s] = "spent" /\ Stale(s) => s \in past)
        BY <3>2 DEF Sweepable, Stale
      <4> HIDE DEF s
      <4>5. SweepHolds'
        BY <2>0, <3>1, <4>2, <4>3, <4>4 DEF SweepHolds
      <4> QED
        BY <2>2, <3>1, <4>2, <4>5
    <3>3. CASE ~(Free(s) /\ Sweepable(s))
      <4>1. sweep' = Asleep /\ UNCHANGED lock
        BY <2>4, <3>3 DEF SweepLock
      <4> QED
        BY <2>2, <3>1, <4>1 DEF SweepHolds, Asleep
    <3> QED
      BY <3>2, <3>3
  <2>5. CASE SweepBytes
    <3>1. sweep.step = "locked" /\ sweep' = [sweep EXCEPT !.step = "emptied"] /\ UNCHANGED <<session, lock>>
      BY <2>5 DEF SweepBytes
    <3>2. sweep'.form = sweep.form /\ sweep'.whole = sweep.whole
      BY <3>1 DEF TypeOK, Sweeping
    <3>3. SweepHolds'
      BY <2>0, <3>1, <3>2 DEF SweepHolds
    <3> QED
      BY <2>2, <3>1, <3>3
  <2>6. ASSUME sweep.step \in {"locked", "emptied"}, lock' = [lock EXCEPT ![sweep.form] = None], sweep' = Asleep
        PROVE  SweepHolds' /\ \A s \in Forms : lock[s] \in Requests => lock'[s] = lock[s]
    BY <2>6, Names DEF SweepHolds, Asleep, TypeOK
  <2>7. CASE SweepCommit
    <3> DEFINE s == sweep.form
    <3>1. /\ session' = [session EXCEPT ![s] = IF sweep.whole THEN "gone" ELSE @]
          /\ lock' = [lock EXCEPT ![s] = None] /\ sweep' = Asleep /\ sweep.step = "emptied"
      BY <2>7 DEF SweepCommit
    <3>2. /\ s \in Forms /\ lock[s] = Sweeper /\ session[s] \in {"open", "spent"}
          /\ session[s] = "spent" /\ sweep.whole => s \in past
      BY <3>1 DEF SweepHolds
    <3>3. SweepHolds' /\ \A t \in Forms : lock[t] \in Requests => lock'[t] = lock[t]
      BY <2>6, <3>1
    <3>4. \A t \in Forms : lock[t] # Sweeper \/ session[t] = "gone" => session'[t] = session[t]
      BY <3>1, <3>2 DEF TypeOK
    <3>5. \A t \in Forms : session[t] # "none" => session'[t] # "none"
      BY <3>1, <3>2 DEF TypeOK
    <3>6. SavesHold'
      BY <2>0, <2>1, <3>3, <3>4, <3>5, Names DEF SavesHold, Saving, At
    <3>7. ASSUME NEW t \in Forms
          PROVE  /\ saved[t] <= 1
                 /\ session'[t] \in {"none", "open"} => saved[t] = 0
                 /\ session'[t] = "gone" /\ saved[t] = 1 => t \in past
                 /\ t \in bare => session'[t] = "gone"
      <4>1. CASE t = s
        BY <3>1, <3>2, <3>4, <4>1 DEF SavedRows, TypeOK
      <4>2. CASE t # s
        BY <3>1, <4>2 DEF SavedRows, TypeOK
      <4> QED
        BY <4>1, <4>2
    <3>8. SavedRows'
      BY <2>0, <3>7 DEF SavedRows
    <3> QED
      BY <3>3, <3>6, <3>8
  <2>8. CASE SweepStops
    BY <2>2, <2>6, <2>8 DEF SweepStops
  <2> QED
    BY <1>10, <2>3, <2>4, <2>5, <2>7, <2>8 DEF SweepStep
<1>11. CASE Done
  BY <1>a, <1>11 DEF Done
<1> QED
  BY <1>a, <1>1, <1>2, <1>3, <1>4, <1>5, <1>6, <1>7, <1>8, <1>9, <1>10, <1>11 DEF Next

LEMMA SaveHeld == Spec => []SaveInv
<1>1. Init => SaveInv
  BY DEF Init, SaveInv, SavedRows, SweepHolds, SavesHold, Saving, At, Asleep, Unsent
<1> QED
  BY <1>1, Typed, SaveStep, PTL DEF Spec

\* A drawn form's token files one Teema (claim_for_create), and a form whose token has filed
\* one files another without it only after the token's retention, however many posts of the
\* form race and whenever the sweeper deletes the row.
THEOREM SavedOnce == Spec => []FormSavedOnce
<1>1. SaveInv => FormSavedOnce
  BY DEF SaveInv, SavedRows, FormSavedOnce
<1> QED
  BY <1>1, SaveHeld, PTL
-----------------------------------------------------------------------------
(* What a form offers is there                                             *)

Pending(r) == job[r].op = "stage" /\ job[r].step \in {"seen", "staging"}

Carrying(r) == job[r].op = "create" /\ job[r].step \in {"seen", "claimed", "promoted"}

\* A staged row goes with its session's row.
RowsLive == \A f \in Files : row[f].form # None => session[row[f].form] \in {"open", "spent"}

\* A file is posted once, and has no row until the request that posted it commits.
FilesApart ==
    /\ \A f \in Files : f > chosen => row[f].form = None
    /\ \A r \in Requests : Pending(r) =>
         \E f \in Files : f <= chosen /\ job[r].files = {f} /\ row[f].form = None
    /\ \A r, q \in Requests : Pending(r) /\ Pending(q) /\ r # q => job[r].files \cap job[q].files = {}

\* One request stages at a time; it holds the session's row, or the row is its own to insert,
\* and until it commits what it wrote is there.
StagersHold ==
    /\ \A r, q \in Requests : job[r].step = "staging" /\ job[q].step = "staging" => r = q
    /\ \A r \in Requests : job[r].step = "staging" =>
         /\ job[r].op = "stage" /\ job[r].seen \in Forms
         /\ session[job[r].seen] \in {"open", "spent"} => lock[job[r].seen] = r
         /\ session[job[r].seen] \in {"none", "open"} => \A f \in job[r].files : bytes[f] = job[r].seen

\* What a save clears away after its commit is of a session no form can use.
SavesSpend ==
    \A r \in Requests :
        /\ Carrying(r) => job[r].seen \in {job[r].form, None}
        /\ job[r].step \in {"saved", "cleared"} =>
             job[r].seen \in Forms /\ session[job[r].seen] \in {"spent", "gone"}

\* An open form the sweeper works on had expired, and goes whole.
SweepExpires ==
    sweep.step \in {"locked", "emptied"} /\ session[sweep.form] = "open" =>
        sweep.form \in expired /\ sweep.whole

StageInv == RowsLive /\ FilesApart /\ StagersHold /\ SavesSpend /\ SweepExpires /\ UsableIsWhole

\* The requests' part of it, when one request moves and the sessions stay.
LEMMA StageLeaves ==
    ASSUME TypeOK, StageInv, NEW r \in Requests, NEW j \in Job, job' = [job EXCEPT ![r] = j],
           j.step # "staging", ~(j.op = "stage" /\ j.step = "seen"),
           j.op = "create" /\ j.step \in {"seen", "claimed", "promoted"} => j.seen \in {j.form, None},
           j.step \in {"saved", "cleared"} => j.seen \in Forms /\ session[j.seen] \in {"spent", "gone"},
           \A s \in Forms : lock[s] \notin {r, None} => lock'[s] = lock[s],
           \A f \in Files : row'[f].form = row[f].form,
           \A f \in Files : bytes'[f] = bytes[f] \/ (Pending(r) /\ f \in job[r].files),
           UNCHANGED <<session, expired, chosen, sweep>>
    PROVE  StageInv'
<1> USE DEF StageInv
<1>1. \A q \in Requests \ {r} : job'[q] = job[q]
  BY DEF TypeOK
<1>2. job'[r] = j
  BY DEF TypeOK
<1>3. RowsLive'
  BY DEF RowsLive
<1>4. FilesApart'
  BY <1>1, <1>2 DEF FilesApart, Pending
<1>5. StagersHold'
  <2>1. \A q \in Requests : job'[q].step = "staging" => q # r /\ job'[q] = job[q]
    BY <1>1, <1>2
  <2>2. ASSUME NEW q \in Requests, job'[q].step = "staging"
        PROVE  /\ job'[q].op = "stage" /\ job'[q].seen \in Forms
               /\ session'[job'[q].seen] \in {"open", "spent"} => lock'[job'[q].seen] = q
               /\ session'[job'[q].seen] \in {"none", "open"} => \A f \in job'[q].files : bytes'[f] = job'[q].seen
    <3>1. q # r /\ job'[q] = job[q] /\ job[q].step = "staging"
      BY <2>1, <2>2
    <3>2. Pending(q) /\ job[q].op = "stage" /\ job[q].seen \in Forms
      BY <3>1 DEF StagersHold, Pending
    <3>3. session'[job'[q].seen] \in {"open", "spent"} => lock'[job'[q].seen] = q
      BY <3>1, <3>2, Names DEF StagersHold
    <3>4. \A f \in job[q].files : f \in Files /\ bytes'[f] = bytes[f]
      BY <3>1, <3>2 DEF FilesApart
    <3> QED
      BY <3>1, <3>2, <3>3, <3>4 DEF StagersHold
  <2> QED
    BY <2>1, <2>2 DEF StagersHold
<1>6. SavesSpend'
  BY <1>1, <1>2 DEF SavesSpend, Carrying
<1>7. SweepExpires'
  BY DEF SweepExpires
<1>8. UsableIsWhole'
  <2>1. ASSUME NEW f \in Files, row'[f].form # None
        PROVE  bytes'[f] = bytes[f]
    BY <2>1 DEF FilesApart
  <2> QED
    BY <2>1 DEF UsableIsWhole, Usable
<1> QED
  BY <1>3, <1>4, <1>5, <1>6, <1>7, <1>8

\* Rows keep their forms and nothing else of it changes: the readers, and most of the sweeper.
LEMMA StageFrame ==
    ASSUME TypeOK, StageInv, \A f \in Files : row'[f].form = row[f].form,
           \A s \in Forms : lock[s] \in Requests => lock'[s] = lock[s],
           \A s \in Forms : s \in expired => s \in expired',
           UNCHANGED <<session, bytes, chosen, job>>
    PROVE  RowsLive' /\ FilesApart' /\ StagersHold' /\ SavesSpend' /\ UsableIsWhole'
<1> USE DEF StageInv
<1>1. RowsLive' /\ UsableIsWhole'
  BY DEF RowsLive, UsableIsWhole, Usable, TypeOK, Row
<1>2. FilesApart'
  BY DEF FilesApart, Pending
<1>3. StagersHold' /\ SavesSpend'
  BY DEF StagersHold, SavesSpend, Carrying
<1> QED
  BY <1>1, <1>2, <1>3

\* A session's row appears for a form nothing is known of, or the one stager's own.
LEMMA StageOpens ==
    ASSUME TypeOK, StageInv, NEW s \in Forms, session[s] = "none",
           session' = [session EXCEPT ![s] = "open"]
    PROVE  /\ \A t \in Forms : session[t] # "none" => session'[t] = session[t]
           /\ \A f \in Files : row[f].form # s
BY Names DEF StageInv, RowsLive, TypeOK, Row

LEMMA StageStep ==
    ASSUME TypeOK, SaveInv, StageInv, [Next]_vars
    PROVE  StageInv'
<1> USE DEF StageInv
<1>a. CASE UNCHANGED vars
  BY <1>a, StageFrame DEF vars, SweepExpires
<1>0. ASSUME \A f \in Files : row'[f].form = row[f].form, UNCHANGED <<session, bytes, chosen, job, lock, sweep>>,
             expired \subseteq expired'
      PROVE  StageInv'
  BY <1>0, StageFrame DEF SweepExpires
<1>1. ASSUME NEW s \in Forms, Draw(s)
      PROVE  StageInv'
  <2>1. /\ session[s] = "none" /\ session' = [session EXCEPT ![s] = "open"]
        /\ \A r \in Requests : job[r].step = "staging" => job[r].seen # s
    BY <1>1 DEF Draw, Fresh, Known, Opening
  <2>2. UNCHANGED <<expired, row, bytes, lock, chosen, job, sweep>>
    BY <1>1 DEF Draw
  <2>3. /\ \A t \in Forms : session[t] # "none" => session'[t] = session[t]
        /\ \A f \in Files : row[f].form # s
        /\ \A t \in Forms : t # s => session'[t] = session[t]
    BY <2>1, StageOpens DEF TypeOK
  <2>4. \A f \in Files : row[f].form \in Forms \cup {None}
    BY DEF TypeOK, Row
  <2>5. RowsLive' /\ UsableIsWhole'
    BY <2>2, <2>3, <2>4 DEF RowsLive, UsableIsWhole, Usable
  <2>6. FilesApart'
    BY <2>2 DEF FilesApart, Pending
  <2>7. StagersHold'
    BY <2>1, <2>2, <2>3 DEF StagersHold
  <2>8. SavesSpend'
    BY <2>2, <2>3 DEF SavesSpend, Carrying
  <2>9. SweepExpires'
    BY <2>2, <2>3 DEF SweepExpires, SaveInv, SweepHolds
  <2> QED
    BY <2>5, <2>6, <2>7, <2>8, <2>9
<1>2. ASSUME NEW s \in Forms, Expire(s)
      PROVE  StageInv'
  BY <1>0, <1>2 DEF Expire
<1>3. ASSUME NEW s \in Forms, PastRetention(s)
      PROVE  StageInv'
  BY <1>0, <1>3 DEF PastRetention
<1>b. ASSUME NEW r \in Requests, NEW s \in Forms, NEW op \in {"remove", "create"}, NEW files \in SUBSET Files,
             Arrives(r, op, s, files), UNCHANGED <<session, expired, row, bytes, lock, chosen, sweep>>
      PROVE  StageInv'
  <2> DEFINE seen == IF Usable(s) THEN s ELSE None
             j == [Unsent EXCEPT !.step = "seen", !.op = op, !.form = s, !.seen = seen, !.files = files,
                      !.offered = IF op = "create" /\ seen # None THEN LiveRows(s) ELSE {}]
  <2>1. job' = [job EXCEPT ![r] = j]
    BY <1>b DEF Arrives
  <2>2. job' \in [Requests -> Job]
    BY <1>b, ArrivesType
  <2>3. j \in Job
    <3> HIDE DEF j
    <3> QED
      BY <2>1, <2>2 DEF TypeOK
  <2>4. j.step = "seen" /\ j.op = op /\ j.form = s /\ j.seen \in {s, None}
    BY DEF Unsent
  <2> HIDE DEF j
  <2> QED
    BY <1>b, <2>1, <2>3, <2>4, StageLeaves
<1>4. ASSUME NEW r \in Requests, NEW s \in Forms, NEW f \in Files, PostStage(r, s, f)
      PROVE  StageInv'
  <2>1. /\ UNCHANGED <<session, expired, row, bytes, lock, sweep>> /\ f = chosen + 1 /\ chosen' = f
        /\ \A q \in Requests \ {r} : job'[q] = job[q]
    BY <1>4 DEF PostStage, Arrives, TypeOK
  <2>2. job'[r].step = "seen" /\ job'[r].op = "stage" /\ job'[r].files = {f}
    BY <1>4 DEF PostStage, Arrives, TypeOK, Unsent
  <2>3. chosen \in Nat
    BY LimitsAssumption DEF TypeOK
  <2>4. RowsLive' /\ SweepExpires' /\ UsableIsWhole'
    BY <2>1 DEF RowsLive, SweepExpires, UsableIsWhole, Usable
  <2>5. StagersHold' /\ SavesSpend'
    BY <2>1, <2>2 DEF StagersHold, SavesSpend, Carrying
  <2>6. row[f].form = None /\ \A q \in Requests : Pending(q) => f \notin job[q].files
    BY <2>1, <2>3 DEF FilesApart, Files
  <2>7. \A q \in Requests \ {r} : Pending(q)' => Pending(q)
    BY <2>1 DEF Pending
  <2>8. \A g \in Files : g > chosen' => row'[g].form = None
    BY <2>1, <2>3 DEF FilesApart, Files
  <2>9. ASSUME NEW q \in Requests, Pending(q)'
        PROVE  \E g \in Files : g <= chosen' /\ job'[q].files = {g} /\ row'[g].form = None
    <3>1. CASE q = r
      BY <2>1, <2>2, <2>3, <2>6, <3>1
    <3>2. CASE q # r
      <4>1. PICK g \in Files : g <= chosen /\ job[q].files = {g} /\ row[g].form = None
        BY <2>7, <2>9, <3>2 DEF FilesApart
      <4>2. g <= chosen'
        BY <2>1, <2>3, <4>1 DEF Files
      <4> QED
        BY <2>1, <3>2, <4>1, <4>2
    <3> QED
      BY <3>1, <3>2
  <2>10. \A q, p \in Requests : Pending(q)' /\ Pending(p)' /\ q # p => job'[q].files \cap job'[p].files = {}
    BY <2>1, <2>2, <2>6, <2>7 DEF FilesApart
  <2> QED
    BY <2>4, <2>5, <2>8, <2>9, <2>10 DEF FilesApart
<1>5. ASSUME NEW r \in Requests, NEW s \in Forms, NEW f \in Files, PostRemove(r, s, f)
      PROVE  StageInv'
  BY <1>5, <1>b, {f} \in SUBSET Files DEF PostRemove
<1>6. ASSUME NEW r \in Requests, NEW s \in Forms, PostCreate(r, s)
      PROVE  StageInv'
  BY <1>6, <1>b, input[s] \in SUBSET Files DEF PostCreate, TypeOK
<1>7. ASSUME NEW r \in Requests, RequestStep(r)
      PROVE  StageInv'
  <2>0. Over.step = "over" /\ Over.op = "stage" /\ Over \in Job
    BY Constants DEF Over, Unsent
  <2>1. ASSUME Ends(r), UNCHANGED <<session, expired, chosen, sweep>>, lock' \in {lock, Unlocked(r)},
               \A f \in Files : row'[f].form = row[f].form,
               \A f \in Files : bytes'[f] = bytes[f] \/ (Pending(r) /\ f \in job[r].files)
        PROVE  StageInv'
    <3>1. \A s \in Forms : lock[s] \notin {r, None} => lock'[s] = lock[s]
      BY <2>1 DEF Unlocked
    <3> QED
      BY <2>0, <2>1, <3>1, StageLeaves DEF Ends
  <2>2. job[r] \in Job /\ job[r].form \in Forms
    BY DEF TypeOK, Job
  <2>3. ASSUME NEW s \in Forms, StageRefused(r, s)
        PROVE  StageInv'
    <3>1. /\ session' = [session EXCEPT ![s] = IF @ = "none" THEN "open" ELSE @]
          /\ UNCHANGED <<expired, row, bytes, lock, chosen, sweep>> /\ job' = [job EXCEPT ![r] = Over]
          /\ \A q \in Requests : job[q].step # "staging"
      BY <2>3 DEF StageRefused, Ends, StagesInto, QuotaFree
    <3>2. CASE session[s] # "none"
      BY <2>1, <2>3, <3>1, <3>2 DEF StageRefused, TypeOK
    <3>3. CASE session[s] = "none"
      <4>1. /\ \A t \in Forms : session[t] # "none" => session'[t] = session[t]
            /\ \A f \in Files : row[f].form # s
            /\ \A t \in Forms : t # s => session'[t] = session[t]
        BY <3>1, <3>3, StageOpens DEF TypeOK
      <4>2. \A f \in Files : row[f].form \in Forms \cup {None}
        BY DEF TypeOK, Row
      <4>3. \A q \in Requests \ {r} : job'[q] = job[q]
        BY <3>1
      <4>4. job'[r].step = "over"
        BY <2>0, <3>1 DEF TypeOK
      <4>5. RowsLive' /\ UsableIsWhole'
        BY <3>1, <4>1, <4>2 DEF RowsLive, UsableIsWhole, Usable
      <4>6. FilesApart'
        BY <3>1, <4>3, <4>4 DEF FilesApart, Pending
      <4>7. StagersHold'
        BY <3>1, <4>3, <4>4 DEF StagersHold
      <4>8. SavesSpend'
        BY <3>1, <4>1, <4>3, <4>4 DEF SavesSpend, Carrying
      <4>9. SweepExpires'
        BY <3>1, <4>1 DEF SweepExpires, SaveInv, SweepHolds
      <4> QED
        BY <4>5, <4>6, <4>7, <4>8, <4>9
    <3> QED
      BY <3>2, <3>3
  <2>4. ASSUME NEW s \in Forms, StageWrite(r, s)
        PROVE  StageInv'
    <3>1. /\ UNCHANGED <<session, expired, row, chosen, sweep>> /\ job[r].op = "stage" /\ job[r].step = "seen"
          /\ \A q \in Requests : job[q].step # "staging"
          /\ lock' = [lock EXCEPT ![s] = IF session[s] \in {"open", "spent"} THEN r ELSE @]
          /\ bytes' = [f \in Files |-> IF f \in job[r].files THEN s ELSE bytes[f]]
      BY <2>4 DEF StageWrite, StagesInto, QuotaFree, At
    <3>2. job' = [job EXCEPT ![r].step = "staging", ![r].seen = s]
      BY <2>4 DEF StageWrite
    <3>3. /\ job'[r].step = "staging" /\ job'[r].seen = s /\ job'[r].op = "stage"
          /\ job'[r].files = job[r].files
      BY <2>2, <3>1, <3>2 DEF TypeOK, Job
    <3>4. \A q \in Requests \ {r} : job'[q] = job[q]
      BY <3>2 DEF TypeOK
    <3>5. PICK f \in Files : f <= chosen /\ job[r].files = {f} /\ row[f].form = None
      BY <3>1 DEF FilesApart, Pending
    <3>6. \A g \in Files : g # f => bytes'[g] = bytes[g]
      BY <3>1, <3>5
    <3>7. RowsLive' /\ SweepExpires'
      BY <3>1 DEF RowsLive, SweepExpires
    <3>8. UsableIsWhole'
      BY <3>1, <3>5, <3>6 DEF UsableIsWhole, Usable
    <3>9. Pending(r) /\ \A q \in Requests : Pending(q)' => Pending(q) /\ job'[q].files = job[q].files
      BY <3>1, <3>3, <3>4 DEF Pending
    <3>10. FilesApart'
      BY <3>1, <3>9 DEF FilesApart
    <3>11. bytes'[f] = s /\ (session[s] \in {"open", "spent"} => lock'[s] = r)
      BY <3>1, <3>5 DEF TypeOK
    <3>12. StagersHold'
      BY <3>1, <3>3, <3>4, <3>5, <3>11 DEF StagersHold
    <3>13. SavesSpend'
      BY <3>1, <3>3, <3>4 DEF SavesSpend, Carrying
    <3> QED
      BY <3>7, <3>8, <3>10, <3>12, <3>13
  <2>5. CASE StageFails(r)
    <3>1. Pending(r) /\ \A f \in Files : bytes'[f] = bytes[f] \/ f \in job[r].files
      BY <2>5 DEF StageFails, WithoutWritten, Pending, At
    <3> QED
      BY <2>1, <2>5, <3>1 DEF StageFails
  <2>6. CASE StageCommit(r)
    <3> DEFINE s == job[r].seen
    <3>0. job[r].op = "stage" /\ job[r].step = "staging" /\ s \in Forms
      BY <2>6 DEF StageCommit, At, StagersHold
    <3>1. CASE session[s] = "gone"
      BY <2>1, <2>6, <3>1 DEF StageCommit
    <3>2. CASE session[s] # "gone"
      <4>1. /\ session' = [session EXCEPT ![s] = IF @ = "none" THEN "open" ELSE @]
            /\ row' = [f \in Files |-> IF f \in job[r].files THEN [NoRow EXCEPT !.form = s] ELSE row[f]]
            /\ job' = [job EXCEPT ![r].step = "staged"] /\ lock' = Unlocked(r)
            /\ UNCHANGED <<expired, bytes, chosen, sweep>>
        BY <2>6, <3>2 DEF StageCommit
      <4>2. PICK f \in Files : f <= chosen /\ job[r].files = {f} /\ row[f].form = None
        BY <3>0 DEF FilesApart, Pending
      <4>3. row'[f].form = s /\ \A g \in Files : g # f => row'[g] = row[g]
        BY <4>1, <4>2 DEF NoRow
      <4>4. session'[s] \in {"open", "spent"} /\ \A t \in Forms : t # s \/ session[t] # "none" => session'[t] = session[t]
        BY <3>0, <3>2, <4>1 DEF TypeOK
      <4>5. session'[s] = "open" => bytes[f] = s
        BY <3>0, <4>1, <4>2 DEF StagersHold, TypeOK
      <4>6. job'[r].step = "staged" /\ \A q \in Requests \ {r} : job'[q] = job[q]
        BY <2>2, <4>1 DEF TypeOK, Job
      <4>7. \A t \in Forms : lock[t] # r => lock'[t] = lock[t]
        BY <4>1 DEF Unlocked
      <4>8. \A q \in Requests : job'[q].step # "staging"
        BY <3>0, <4>6 DEF StagersHold
      <4>9. \A g \in Files : row[g].form \in Forms \cup {None}
        BY DEF TypeOK, Row
      <4> HIDE DEF s
      <4>10. UNCHANGED <<expired, bytes, chosen, sweep>>
        BY <4>1
      <4>11. RowsLive'
        BY <4>3, <4>4, <4>9 DEF RowsLive
      <4>12. FilesApart'
        <5>1. \A q \in Requests : Pending(q)' => Pending(q) /\ job'[q] = job[q] /\ q # r
          BY <4>6 DEF Pending
        <5>2. Pending(r)
          BY <3>0 DEF Pending
        <5>3. \A q \in Requests : Pending(q)' => f \notin job[q].files
          BY <4>2, <5>1, <5>2 DEF FilesApart
        <5>4. \A g \in Files : g > chosen => g # f
          BY <4>2, LimitsAssumption DEF Files, TypeOK
        <5> QED
          BY <4>3, <4>10, <5>1, <5>3, <5>4 DEF FilesApart
      <4>13. StagersHold'
        BY <4>8 DEF StagersHold
      <4>14. SavesSpend'
        BY <4>4, <4>6 DEF SavesSpend, Carrying
      <4>15. SweepExpires'
        BY <4>4, <4>10 DEF SweepExpires, SaveInv, SweepHolds
      <4>16. UsableIsWhole'
        <5>1. ASSUME NEW g \in Files, g # f, row'[g].form # None, session'[row'[g].form] = "open",
                     row'[g].form \notin expired
              PROVE  bytes'[g] = row'[g].form
          BY <4>3, <4>4, <4>9, <4>10, <5>1 DEF UsableIsWhole, Usable, RowsLive
        <5> QED
          BY <4>3, <4>5, <4>10, <5>1 DEF UsableIsWhole, Usable
      <4> QED
        BY <4>11, <4>12, <4>13, <4>14, <4>15, <4>16
    <3> QED
      BY <3>1, <3>2
  <2>7. CASE StageAnswered(r)
    BY <2>1, <2>7 DEF StageAnswered
  <2>8. CASE RemoveFile(r)
    <3>1. \A f \in Files : row'[f].form = row[f].form
      BY <2>8 DEF RemoveFile, TypeOK, Row
    <3> QED
      BY <2>1, <2>8, <3>1 DEF RemoveFile
  <2>9. CASE Claim(r)
    <3>1. CASE Ends(r) /\ UNCHANGED lock
      BY <2>1, <2>9, <3>1 DEF Claim
    <3>2. CASE ~(Ends(r) /\ UNCHANGED lock)
      <4> DEFINE open == session[job[r].form] = "open"
                 j == [job[r] EXCEPT !.step = "claimed", !.guarded = open]
      <4>1. /\ job' = [job EXCEPT ![r].step = "claimed", ![r].guarded = open]
            /\ lock' = [lock EXCEPT ![job[r].form] = IF open THEN r ELSE @]
            /\ UNCHANGED <<session, expired, row, bytes, chosen, sweep>>
            /\ lock[job[r].form] = None /\ job[r].op = "create" /\ job[r].step = "seen"
        BY <2>9, <3>2 DEF Claim, Free, At
      <4>2. job' = [job EXCEPT ![r] = j]
        BY <4>1 DEF TypeOK
      <4>3. open \in BOOLEAN
        OBVIOUS
      <4>4. \A t \in Forms : lock[t] \notin {r, None} => lock'[t] = lock[t]
        BY <4>1 DEF TypeOK
      <4> HIDE DEF open
      <4>5. j \in Job
        BY <2>2, <4>3 DEF Job
      <4>6. j.step = "claimed" /\ j.op = "create" /\ j.seen = job[r].seen /\ j.form = job[r].form
        BY <2>2, <4>1 DEF Job
      <4> HIDE DEF j
      <4>7. j.seen \in {j.form, None}
        BY <4>1, <4>6 DEF SavesSpend, Carrying
      <4> QED
        BY <4>1, <4>2, <4>4, <4>5, <4>6, <4>7, StageLeaves
    <3> QED
      BY <3>1, <3>2
  <2>10. CASE Promote(r)
    <3> DEFINE live == IF job[r].seen = None THEN {} ELSE LiveRows(job[r].seen)
               attached == WithoutStagedCopies(job[r].files, live)
               j == [job[r] EXCEPT !.step = "promoted", !.promoted = live, !.attached = attached]
    <3>1. live \in SUBSET Files /\ attached \in SUBSET Files
      BY <2>2 DEF LiveRows, RowsOf, WithoutStagedCopies, Job
    <3>2. /\ job' = [job EXCEPT ![r] = j] /\ UNCHANGED <<session, expired, row, bytes, lock, chosen, sweep>>
          /\ job[r].op = "create" /\ job[r].step = "claimed"
      BY <2>10 DEF Promote, At, TypeOK
    <3> HIDE DEF live, attached
    <3>3. /\ j \in Job /\ j.step = "promoted" /\ j.op = "create"
          /\ j.seen = job[r].seen /\ j.form = job[r].form
      BY <2>2, <3>1, <3>2 DEF Job
    <3> HIDE DEF j
    <3>4. j.seen \in {j.form, None}
      BY <3>2, <3>3 DEF SavesSpend, Carrying
    <3> QED
      BY <3>2, <3>3, <3>4, StageLeaves
  <2>11. CASE Commit(r)
    <3> DEFINE s == job[r].form
               j == IF job[r].seen = None THEN Over
                    ELSE [Unsent EXCEPT !.step = "saved", !.op = "create", !.seen = job[r].seen]
    <3>1. /\ Saving(r) /\ Carrying(r) /\ lock' = Unlocked(r) /\ job' = [job EXCEPT ![r] = j]
          /\ UNCHANGED <<row, bytes, chosen, sweep>>
      BY <2>11 DEF Commit, Saving, Carrying, At
    <3>2. s \in Forms /\ s # None /\ job[r].seen \in {s, None}
      BY <2>2, <3>1, Names DEF SavesSpend
    <3>3. j.step \in {"saved", "over"} /\ (j.step = "saved" => j.seen = s) /\ j \in Job
      <4>1. [Unsent EXCEPT !.step = "saved", !.op = "create", !.seen = s] \in Job
        BY <3>2, Constants DEF Unsent, Job
      <4> QED
        BY <2>0, <3>2, <4>1 DEF Unsent
    <3>4. /\ \A q \in Requests \ {r} : job'[q] = job[q]
          /\ job'[r] = j
      BY <3>1 DEF TypeOK
    <3>5. \A t \in Forms : lock[t] # r => lock'[t] = lock[t]
      BY <3>1 DEF Unlocked
    <3>6. /\ \A t \in Forms : t # s => session'[t] = session[t] /\ (t \in expired' <=> t \in expired)
          /\ session'[s] \in {"spent", "gone"}
          /\ session[s] \in {"spent", "gone"} => session'[s] = session[s]
          /\ session[s] = "open" => session'[s] = "spent" /\ lock[s] = r
          /\ session[s] # "none"
      <4>1. CASE job[r].guarded
        <5>1. session' = [session EXCEPT ![s] = "spent"] /\ expired' = expired \ {s}
          BY <2>11, <4>1 DEF Commit
        <5>2. session[s] = "open" /\ lock[s] = r
          BY <3>1, <4>1 DEF SaveInv, SavesHold
        <5> QED
          BY <3>2, <5>1, <5>2 DEF TypeOK
      <4>2. CASE ~job[r].guarded
        <5>1. UNCHANGED <<session, expired>>
          BY <2>11, <4>2 DEF Commit
        <5>2. session[s] = "gone"
          BY <3>1, <4>2 DEF SaveInv, SavesHold
        <5> QED
          BY <5>1, <5>2
      <4> QED
        BY <4>1, <4>2
    <3>7. \A f \in Files : row[f].form \in Forms \cup {None}
      BY DEF TypeOK, Row
    <3> HIDE DEF s, j
    <3>8. RowsLive'
      <4>1. \A t \in Forms : session[t] \in {"open", "spent"} => session'[t] \in {"open", "spent"}
        BY <3>6
      <4> QED
        BY <3>1, <3>7, <4>1 DEF RowsLive
    <3>9. UsableIsWhole'
      <4>1. \A t \in Forms : Usable(t)' => Usable(t)
        BY <3>6 DEF Usable
      <4> QED
        BY <3>1, <3>7, <4>1 DEF UsableIsWhole
    <3>10. FilesApart'
      <4>1. \A q \in Requests : Pending(q)' => Pending(q) /\ job'[q] = job[q]
        BY <3>3, <3>4 DEF Pending
      <4> QED
        BY <3>1, <4>1 DEF FilesApart
    <3>11. StagersHold'
      <4>1. \A q \in Requests : job'[q].step = "staging" => job'[q] = job[q] /\ q # r
        BY <3>3, <3>4
      <4>2. ASSUME NEW q \in Requests, job'[q].step = "staging"
            PROVE  /\ job'[q].op = "stage" /\ job'[q].seen \in Forms
                   /\ session'[job'[q].seen] \in {"open", "spent"} => lock'[job'[q].seen] = q
                   /\ session'[job'[q].seen] \in {"none", "open"} => \A f \in job'[q].files : bytes'[f] = job'[q].seen
        <5>1. job'[q] = job[q] /\ job[q].seen \in Forms /\ job[q].op = "stage" /\ q # r
          BY <4>1, <4>2 DEF StagersHold
        <5>2. session[job[q].seen] \in {"open", "spent"} => lock[job[q].seen] = q
          BY <4>2, <5>1 DEF StagersHold
        <5>3. session'[job[q].seen] \in {"none", "open"} => session[job[q].seen] \in {"none", "open"}
          BY <3>6, <5>1
        <5>4. session'[job[q].seen] \in {"open", "spent"} => session[job[q].seen] \in {"open", "spent"}
          BY <3>6, <5>1 DEF TypeOK
        <5>5. session'[job[q].seen] \in {"open", "spent"} => lock'[job[q].seen] = q
          BY <3>5, <5>1, <5>2, <5>4
        <5> QED
          BY <3>1, <4>2, <5>1, <5>3, <5>5 DEF StagersHold
      <4> QED
        BY <4>1, <4>2 DEF StagersHold
    <3>12. SavesSpend'
      <4>1. \A t \in Forms : session[t] \in {"spent", "gone"} => session'[t] \in {"spent", "gone"}
        BY <3>6
      <4>2. ~Carrying(r)'
        BY <3>3, <3>4 DEF Carrying
      <4> QED
        BY <3>2, <3>3, <3>4, <3>6, <4>1, <4>2 DEF SavesSpend, Carrying
    <3>13. SweepExpires'
      BY <3>1, <3>6, Names DEF SweepExpires, SaveInv, SweepHolds
    <3> QED
      BY <3>8, <3>9, <3>10, <3>11, <3>12, <3>13
  <2>12. CASE ClearText(r)
    <3> DEFINE j == [job[r] EXCEPT !.step = "cleared"]
    <3>1. /\ job' = [job EXCEPT ![r] = j] /\ UNCHANGED <<session, expired, bytes, lock, chosen, sweep>>
          /\ job[r].step = "saved"
      BY <2>12 DEF ClearText, At
    <3>2. \A f \in Files : row'[f].form = row[f].form
      BY <2>12 DEF ClearText, WithoutText, TypeOK, Row
    <3>3. j \in Job /\ j.step = "cleared" /\ j.seen = job[r].seen
      BY <2>2 DEF Job
    <3> HIDE DEF j
    <3>4. j.seen \in Forms /\ session[j.seen] \in {"spent", "gone"}
      BY <3>1, <3>3 DEF SavesSpend
    <3> QED
      BY <3>1, <3>2, <3>3, <3>4, StageLeaves
  <2>13. CASE DiscardObjects(r)
    <3> DEFINE s == job[r].seen
    <3>1. /\ bytes' = WithoutBytes(s) /\ job' = [job EXCEPT ![r] = Over] /\ job[r].step = "cleared"
          /\ UNCHANGED <<session, expired, row, lock, chosen, sweep>>
      BY <2>13 DEF DiscardObjects, Ends, At
    <3>2. s \in Forms /\ session[s] \in {"spent", "gone"}
      BY <3>1 DEF SavesSpend
    <3>3. \A f \in Files : bytes[f] # s => bytes'[f] = bytes[f]
      BY <3>1 DEF WithoutBytes
    <3>4. job'[r] = Over /\ \A q \in Requests \ {r} : job'[q] = job[q]
      BY <3>1 DEF TypeOK
    <3> HIDE DEF s
    <3>5. RowsLive' /\ SweepExpires'
      BY <3>1 DEF RowsLive, SweepExpires
    <3>6. FilesApart'
      BY <2>0, <3>1, <3>4 DEF FilesApart, Pending
    <3>7. StagersHold'
      <4>1. \A q \in Requests : job'[q].step = "staging" => job'[q] = job[q]
        BY <2>0, <3>4
      <4>2. \A q \in Requests : job[q].step = "staging" => \A f \in job[q].files : f \in Files
        BY DEF FilesApart, Pending, StagersHold
      <4> QED
        BY <3>1, <3>2, <3>3, <4>1, <4>2 DEF StagersHold
    <3>8. SavesSpend'
      BY <2>0, <3>1, <3>4 DEF SavesSpend, Carrying
    <3>9. UsableIsWhole'
      BY <3>1, <3>2, <3>3 DEF UsableIsWhole, Usable
    <3> QED
      BY <3>5, <3>6, <3>7, <3>8, <3>9
  <2>14. CASE GiveUp(r)
    BY <2>1, <2>14 DEF GiveUp
  <2> QED
    BY <1>7, <2>3, <2>4, <2>5, <2>6, <2>7, <2>8, <2>9, <2>10, <2>11, <2>12, <2>13, <2>14 DEF RequestStep
<1>8. ASSUME NEW d \in Readers, ReaderStep(d)
      PROVE  StageInv'
  <2>1. \A f \in Files : row'[f].form = row[f].form
    <3>1. ASSUME NEW g \in Files, ClaimFile(d, g)
          PROVE  \A f \in Files : row'[f].form = row[f].form
      BY <3>1 DEF ClaimFile, TypeOK, Row
    <3>2. CASE Settle(d)
      <4>1. ASSUME NEW text \in BOOLEAN,
                   row' = [row EXCEPT ![reader[d].file].state = IF text THEN "DONE" ELSE "FAILED",
                                      ![reader[d].file].text = text]
            PROVE  \A f \in Files : row'[f].form = row[f].form
        BY <4>1 DEF TypeOK, Row
      <4> QED
        BY <3>2, <4>1 DEF Settle
    <3>3. CASE ReaderDies(d)
      BY <3>3 DEF ReaderDies
    <3> QED
      BY <1>8, <3>1, <3>2, <3>3 DEF ReaderStep
  <2> QED
    BY <1>0, <1>8, <2>1 DEF ReaderStep, ClaimFile, Settle, ReaderDies
<1>9. CASE ClearExpiredText
  <2>1. \A f \in Files : row'[f].form = row[f].form
    BY <1>9 DEF ClearExpiredText, TypeOK, Row
  <2> QED
    BY <1>0, <1>9, <2>1 DEF ClearExpiredText
<1>10. CASE SweepStep
  <2>1. ASSUME NEW s \in Forms, SweepList(s)
        PROVE  StageInv'
    <3>1. sweep' = [sweep EXCEPT !.step = "listed", !.form = s]
          /\ UNCHANGED <<session, expired, row, bytes, lock, chosen, job>>
      BY <2>1 DEF SweepList
    <3>2. sweep'.step = "listed"
      BY <3>1 DEF TypeOK, Sweeping
    <3> QED
      BY <3>1, <3>2, StageFrame DEF SweepExpires
  <2>2. CASE SweepLock
    <3> DEFINE s == sweep.form
    <3>1. s \in Forms /\ UNCHANGED <<session, expired, row, bytes, chosen, job>>
      BY <2>2 DEF SweepLock, SaveInv, SweepHolds
    <3>2. \A t \in Forms : lock[t] \in Requests => lock'[t] = lock[t]
      BY <2>2, <3>1, Names DEF SweepLock, Free, TypeOK
    <3>3. CASE Free(s) /\ Sweepable(s)
      <4>1. sweep' = [sweep EXCEPT !.step = "locked", !.whole = Stale(s)]
        BY <2>2, <3>3 DEF SweepLock
      <4>2. sweep'.form = s /\ (sweep'.whole <=> Stale(s))
        BY <4>1 DEF TypeOK, Sweeping
      <4>3. session[s] = "open" => s \in expired /\ Stale(s)
        BY <3>3 DEF Sweepable, Stale
      <4>4. SweepExpires'
        BY <3>1, <4>2, <4>3 DEF SweepExpires
      <4> QED
        BY <3>1, <3>2, <4>4, StageFrame
    <3>4. CASE ~(Free(s) /\ Sweepable(s))
      <4>1. sweep' = Asleep
        BY <2>2, <3>4 DEF SweepLock
      <4>2. SweepExpires'
        BY <4>1 DEF SweepExpires, Asleep
      <4> QED
        BY <3>1, <3>2, <4>2, StageFrame
    <3> QED
      BY <3>3, <3>4
  <2>3. CASE SweepBytes
    <3> DEFINE s == sweep.form
    <3>1. /\ sweep' = [sweep EXCEPT !.step = "emptied"] /\ bytes' = WithoutBytes(s) /\ sweep.step = "locked"
          /\ UNCHANGED <<session, expired, row, lock, chosen, job>>
      BY <2>3 DEF SweepBytes
    <3>2. sweep'.form = s /\ sweep'.whole = sweep.whole
      BY <3>1 DEF TypeOK, Sweeping
    <3>3. /\ s \in Forms /\ lock[s] = Sweeper /\ session[s] \in {"open", "spent"}
          /\ session[s] = "open" => s \in expired
      BY <3>1 DEF SweepExpires, SaveInv, SweepHolds
    <3>4. \A f \in Files : bytes[f] # s => bytes'[f] = bytes[f]
      BY <3>1 DEF WithoutBytes
    <3>5. SweepExpires'
      BY <3>1, <3>2 DEF SweepExpires
    <3> HIDE DEF s
    <3>6. RowsLive' /\ FilesApart' /\ SavesSpend'
      BY <3>1 DEF RowsLive, FilesApart, SavesSpend, Carrying, Pending
    <3>7. UsableIsWhole'
      BY <3>1, <3>3, <3>4 DEF UsableIsWhole, Usable
    <3>8. StagersHold'
      <4>1. \A q \in Requests : job[q].step = "staging" => job[q].seen # s
        BY <3>3, Names DEF StagersHold
      <4>2. \A q \in Requests : job[q].step = "staging" => \A f \in job[q].files : f \in Files
        BY DEF FilesApart, Pending, StagersHold
      <4> QED
        BY <3>1, <3>4, <4>1, <4>2 DEF StagersHold
    <3> QED
      BY <3>5, <3>6, <3>7, <3>8
  <2>4. CASE SweepCommit
    <3> DEFINE s == sweep.form
    <3>1. /\ row' = [f \in Files |-> IF f \in RowsOf(s) THEN NoRow ELSE row[f]]
          /\ session' = [session EXCEPT ![s] = IF sweep.whole THEN "gone" ELSE @]
          /\ expired' = expired \ {s} /\ lock' = [lock EXCEPT ![s] = None] /\ sweep' = Asleep
          /\ UNCHANGED <<bytes, chosen, job>> /\ sweep.step = "emptied"
      BY <2>4 DEF SweepCommit
    <3>2. s \in Forms /\ lock[s] = Sweeper /\ session[s] \in {"open", "spent"}
      BY <3>1 DEF SaveInv, SweepHolds
    <3>3. /\ \A t \in Forms : t # s => session'[t] = session[t] /\ lock'[t] = lock[t] /\ (t \in expired' <=> t \in expired)
          /\ session'[s] \in {"spent", "gone"}
      BY <3>1, <3>2 DEF SweepExpires, TypeOK
    <3>4. \A f \in Files : IF row[f].form = s THEN row'[f].form = None ELSE row'[f].form = row[f].form
      BY <3>1 DEF RowsOf, NoRow
    <3>5. \A f \in Files : row[f].form \in Forms \cup {None}
      BY DEF TypeOK, Row
    <3>6. SweepExpires'
      BY <3>1 DEF SweepExpires, Asleep
    <3> HIDE DEF s
    <3>7. RowsLive'
      BY <3>3, <3>4, <3>5 DEF RowsLive
    <3>8. UsableIsWhole'
      BY <3>1, <3>3, <3>4, <3>5 DEF UsableIsWhole, Usable
    <3>9. FilesApart'
      <4>1. \A f \in Files : row[f].form = None => row'[f].form = None
        BY <3>4
      <4> QED
        BY <3>1, <4>1 DEF FilesApart, Pending
    <3>10. StagersHold'
      <4>1. \A q \in Requests : job[q].step = "staging" => job[q].seen # s /\ job[q].seen \in Forms
        BY <3>2, Names DEF StagersHold
      <4> QED
        BY <3>1, <3>3, <4>1 DEF StagersHold
    <3>11. SavesSpend'
      <4>1. \A t \in Forms : session[t] \in {"spent", "gone"} => session'[t] \in {"spent", "gone"}
        BY <3>3
      <4> QED
        BY <3>1, <4>1 DEF SavesSpend, Carrying
    <3> QED
      BY <3>6, <3>7, <3>8, <3>9, <3>10, <3>11
  <2>5. CASE SweepStops
    <3>1. sweep' = Asleep /\ UNCHANGED <<session, expired, row, bytes, chosen, job>>
      BY <2>5 DEF SweepStops
    <3>2. \A t \in Forms : lock[t] \in Requests => lock'[t] = lock[t]
      BY <2>5, Names DEF SweepStops, SaveInv, SweepHolds, TypeOK
    <3>3. SweepExpires'
      BY <3>1 DEF SweepExpires, Asleep
    <3> QED
      BY <3>1, <3>2, <3>3, StageFrame
  <2> QED
    BY <1>10, <2>1, <2>2, <2>3, <2>4, <2>5 DEF SweepStep
<1>11. CASE Done
  BY <1>a, <1>11 DEF Done
<1> QED
  BY <1>a, <1>1, <1>2, <1>3, <1>4, <1>5, <1>6, <1>7, <1>8, <1>9, <1>10, <1>11 DEF Next

LEMMA StageHeld == Spec => []StageInv
<1>1. Init => StageInv
  BY DEF Init, StageInv, RowsLive, FilesApart, StagersHold, SavesSpend, SweepExpires, UsableIsWhole,
         Pending, Carrying, Asleep, Unsent, NoRow
<1> QED
  BY <1>1, Typed, SaveHeld, StageStep, PTL DEF Spec

\* Whatever a form that can still be saved offers has its bytes: a stager that fails, a save
\* that gives up, one that clears its files away and a sweep each delete only what no usable
\* form names (consume_session, discard_consumed_objects, sweep_stale_sessions).
THEOREM UsableHeld == Spec => []UsableIsWhole
<1>1. StageInv => UsableIsWhole
  BY DEF StageInv
<1> QED
  BY <1>1, StageHeld, PTL
-----------------------------------------------------------------------------
(* What a step does to rows, sessions and requests                         *)

\* A row of a form that stays open keeps its form and its stamp; a session opens once.
RowsKept ==
    /\ \A f \in Files : row[f].form # None /\ session'[row[f].form] = "open" =>
         row'[f].form = row[f].form /\ (row[f].removed = TRUE => row'[f].removed = TRUE)
    /\ \A s \in Forms : session'[s] = "open" /\ session[s] # "none" => session[s] = "open"
    /\ \A f \in Files : \/ row'[f].form \in {row[f].form, None}
                       \/ \E r \in Requests : StageCommit(r) /\ f \in job[r].files

LEMMA RowsStay ==
    ASSUME TypeOK, SaveInv, StageInv, [Next]_vars
    PROVE  RowsKept
<1>0. CASE UNCHANGED <<row, session>>
  BY <1>0 DEF RowsKept
<1>a. CASE UNCHANGED vars
  BY <1>0, <1>a DEF vars
<1>b. ASSUME UNCHANGED session,
             \A f \in Files : row'[f].form = row[f].form /\ (row[f].removed = TRUE => row'[f].removed = TRUE)
      PROVE  RowsKept
  BY <1>b DEF RowsKept
<1>c. ASSUME NEW s \in Forms, UNCHANGED row, session' = [session EXCEPT ![s] = IF @ = "none" THEN "open" ELSE @]
      PROVE  RowsKept
  BY <1>c DEF RowsKept, TypeOK
<1>1. ASSUME NEW s \in Forms, Draw(s)
      PROVE  RowsKept
  BY <1>1, <1>c DEF Draw, Fresh, Known, TypeOK
<1>2. ASSUME NEW s \in Forms, Expire(s) \/ PastRetention(s)
      PROVE  RowsKept
  BY <1>0, <1>2 DEF Expire, PastRetention
<1>3. ASSUME NEW r \in Requests, NEW s \in Forms, NEW f \in Files,
             PostStage(r, s, f) \/ PostRemove(r, s, f)
      PROVE  RowsKept
  BY <1>0, <1>3 DEF PostStage, PostRemove
<1>4. ASSUME NEW r \in Requests, NEW s \in Forms, PostCreate(r, s)
      PROVE  RowsKept
  BY <1>0, <1>4 DEF PostCreate
<1>7. ASSUME NEW r \in Requests, RequestStep(r)
      PROVE  RowsKept
  <2>1. ASSUME NEW s \in Forms, StageRefused(r, s)
        PROVE  RowsKept
    BY <1>c, <2>1 DEF StageRefused
  <2>2. ASSUME NEW s \in Forms, StageWrite(r, s)
        PROVE  RowsKept
    BY <1>0, <2>2 DEF StageWrite
  <2>3. CASE StageFails(r) \/ StageAnswered(r) \/ Claim(r) \/ Promote(r) \/ DiscardObjects(r) \/ GiveUp(r)
    BY <1>0, <2>3 DEF StageFails, StageAnswered, Claim, Promote, DiscardObjects, GiveUp
  <2>4. CASE StageCommit(r)
    <3> DEFINE s == job[r].seen
    <3>1. job[r].op = "stage" /\ job[r].step = "staging" /\ s \in Forms
      BY <2>4 DEF StageCommit, At, StageInv, StagersHold
    <3>2. CASE session[s] = "gone"
      BY <1>0, <2>4, <3>2 DEF StageCommit
    <3>3. CASE session[s] # "gone"
      <4>1. /\ session' = [session EXCEPT ![s] = IF @ = "none" THEN "open" ELSE @]
            /\ row' = [f \in Files |-> IF f \in job[r].files THEN [NoRow EXCEPT !.form = s] ELSE row[f]]
        BY <2>4, <3>3 DEF StageCommit
      <4>2. \A f \in Files : f \in job[r].files => row[f].form = None
        BY <3>1 DEF StageInv, FilesApart, Pending
      <4>3. \A f \in Files : f \notin job[r].files => row'[f] = row[f]
        BY <4>1
      <4>4. \A t \in Forms : session'[t] = "open" /\ session[t] # "none" => session[t] = "open"
        BY <4>1 DEF TypeOK
      <4> QED
        BY <2>4, <4>2, <4>3, <4>4 DEF RowsKept
    <3> QED
      BY <3>2, <3>3
  <2>5. CASE RemoveFile(r)
    <3>1. \A f \in Files : row'[f].form = row[f].form /\ (row[f].removed = TRUE => row'[f].removed = TRUE)
      BY <2>5 DEF RemoveFile, TypeOK, Row
    <3> QED
      BY <1>b, <2>5, <3>1 DEF RemoveFile
  <2>6. CASE Commit(r)
    <3>1. UNCHANGED row /\ (UNCHANGED session \/ session' = [session EXCEPT ![job[r].form] = "spent"])
      BY <2>6 DEF Commit
    <3> QED
      BY <3>1 DEF RowsKept, TypeOK
  <2>7. CASE ClearText(r)
    <3>1. \A f \in Files : row'[f].form = row[f].form /\ (row[f].removed = TRUE => row'[f].removed = TRUE)
      BY <2>7 DEF ClearText, WithoutText, TypeOK, Row
    <3> QED
      BY <1>b, <2>7, <3>1 DEF ClearText
  <2> QED
    BY <1>7, <2>1, <2>2, <2>3, <2>4, <2>5, <2>6, <2>7 DEF RequestStep
<1>8. ASSUME NEW d \in Readers, ReaderStep(d)
      PROVE  RowsKept
  <2>1. ASSUME NEW g \in Files, ClaimFile(d, g)
        PROVE  RowsKept
    <3>1. \A f \in Files : row'[f].form = row[f].form /\ (row[f].removed = TRUE => row'[f].removed = TRUE)
      BY <2>1 DEF ClaimFile, TypeOK, Row
    <3> QED
      BY <1>b, <2>1, <3>1 DEF ClaimFile
  <2>2. CASE Settle(d)
    <3>1. ASSUME NEW text \in BOOLEAN,
                 row' = [row EXCEPT ![reader[d].file].state = IF text THEN "DONE" ELSE "FAILED",
                                    ![reader[d].file].text = text]
          PROVE  \A f \in Files : row'[f].form = row[f].form /\ (row[f].removed = TRUE => row'[f].removed = TRUE)
      BY <3>1 DEF TypeOK, Row
    <3> QED
      BY <1>0, <1>b, <2>2, <3>1 DEF Settle
  <2>3. CASE ReaderDies(d)
    BY <1>0, <2>3 DEF ReaderDies
  <2> QED
    BY <1>8, <2>1, <2>2, <2>3 DEF ReaderStep
<1>9. CASE ClearExpiredText
  <2>1. \A f \in Files : row'[f].form = row[f].form /\ (row[f].removed = TRUE => row'[f].removed = TRUE)
    BY <1>9 DEF ClearExpiredText, TypeOK, Row
  <2> QED
    BY <1>b, <1>9, <2>1 DEF ClearExpiredText
<1>10. CASE SweepStep
  <2>1. CASE SweepCommit
    <3> DEFINE s == sweep.form
    <3>1. /\ row' = [f \in Files |-> IF f \in RowsOf(s) THEN NoRow ELSE row[f]]
          /\ session' = [session EXCEPT ![s] = IF sweep.whole THEN "gone" ELSE @] /\ sweep.step = "emptied"
      BY <2>1 DEF SweepCommit
    <3>2. s \in Forms /\ session'[s] # "open"
      BY <3>1 DEF SaveInv, SweepHolds, StageInv, SweepExpires, TypeOK
    <3>3. \A f \in Files : row[f].form # s => row'[f] = row[f]
      BY <3>1 DEF RowsOf
    <3>4. \A f \in Files : row[f].form = s => row'[f].form = None
      BY <3>1 DEF RowsOf, NoRow
    <3>5. \A t \in Forms : session'[t] = "open" => session[t] = "open"
      BY <3>1 DEF TypeOK
    <3> HIDE DEF s
    <3> QED
      BY <3>2, <3>3, <3>4, <3>5 DEF RowsKept
  <2>2. CASE (\E s \in Forms : SweepList(s)) \/ SweepLock \/ SweepBytes \/ SweepStops
    BY <1>0, <2>2 DEF SweepList, SweepLock, SweepBytes, SweepStops
  <2> QED
    BY <1>10, <2>1, <2>2 DEF SweepStep
<1>11. CASE Done
  BY <1>a, <1>11 DEF Done
<1> QED
  BY <1>a, <1>1, <1>2, <1>3, <1>4, <1>7, <1>8, <1>9, <1>10, <1>11 DEF Next

\* How a request comes to carry files, or to stage one.
LEMMA JobSteps ==
    ASSUME TypeOK, [Next]_vars, NEW q \in Requests
    PROVE  /\ Carrying(q)' =>
                \/ job'[q] = job[q]
                \/ \E op \in {"stage", "remove", "create"}, s \in Forms, files \in SUBSET Files :
                     Arrives(q, op, s, files) /\ UNCHANGED <<session, row>>
                \/ Claim(q) /\ job'[q].step = "claimed"
                \/ Promote(q)
           /\ job'[q].step = "staging" => job'[q] = job[q] \/ \E s \in Forms : StageWrite(q, s)
<1> DEFINE Goal == /\ Carrying(q)' =>
                        \/ job'[q] = job[q]
                        \/ \E op \in {"stage", "remove", "create"}, s \in Forms, files \in SUBSET Files :
                             Arrives(q, op, s, files) /\ UNCHANGED <<session, row>>
                        \/ Claim(q) /\ job'[q].step = "claimed"
                        \/ Promote(q)
                   /\ job'[q].step = "staging" => job'[q] = job[q] \/ \E s \in Forms : StageWrite(q, s)
<1>0. CASE job'[q] = job[q]
  BY <1>0
<1>1. ASSUME NEW op \in {"stage", "remove", "create"}, NEW s \in Forms, NEW files \in SUBSET Files,
             Arrives(q, op, s, files), UNCHANGED <<session, row>>
      PROVE  Goal
  <2>1. job'[q].step = "seen"
    BY <1>1 DEF Arrives, TypeOK, Unsent
  <2> QED
    BY <1>1, <2>1
<1>2. ASSUME job'[q].step \in {"over", "staged", "saved", "cleared"}
      PROVE  Goal
  BY <1>2 DEF Carrying
<1>3. ASSUME Ends(q)
      PROVE  Goal
  BY <1>2, <1>3 DEF Ends, Over, TypeOK, Unsent
<1>4. job[q] \in Job
  BY DEF TypeOK
<1> HIDE DEF Goal
<1>5. ASSUME NEW r \in Requests, NEW s \in Forms, NEW f \in Files, PostStage(r, s, f) \/ PostRemove(r, s, f)
      PROVE  Goal
  <2>1. CASE r = q
    <3>1. CASE PostStage(r, s, f)
      BY <1>1, <2>1, <3>1, {f} \in SUBSET Files DEF PostStage
    <3>2. CASE PostRemove(r, s, f)
      BY <1>1, <2>1, <3>2, {f} \in SUBSET Files DEF PostRemove
    <3> QED
      BY <1>5, <3>1, <3>2
  <2>2. CASE r # q
    BY <1>0, <1>5, <2>2 DEF Goal, PostStage, PostRemove, Arrives, TypeOK
  <2> QED
    BY <2>1, <2>2
<1>6. ASSUME NEW r \in Requests, NEW s \in Forms, PostCreate(r, s)
      PROVE  Goal
  <2>1. CASE r = q
    BY <1>1, <1>6, <2>1, input[s] \in SUBSET Files DEF PostCreate, TypeOK
  <2>2. CASE r # q
    BY <1>0, <1>6, <2>2 DEF Goal, PostCreate, Arrives, TypeOK
  <2> QED
    BY <2>1, <2>2
<1>7. ASSUME NEW r \in Requests, RequestStep(r)
      PROVE  Goal
  <2>1. CASE r # q
    <3>1. job'[q] = job[q]
      BY <1>7, <2>1 DEF RequestStep, StageRefused, StageWrite, StageFails, StageCommit, StageAnswered, RemoveFile,
         Claim, Promote, Commit, ClearText, DiscardObjects, GiveUp, Ends, TypeOK
    <3> QED
      BY <1>0, <3>1 DEF Goal
  <2>2. CASE r = q
    <3>1. ASSUME NEW s \in Forms, StageRefused(q, s) \/ StageWrite(q, s)
          PROVE  Goal
      <4>1. CASE StageRefused(q, s)
        BY <1>3, <4>1 DEF StageRefused
      <4>2. CASE StageWrite(q, s)
        <5>1. job'[q].step = "staging"
          BY <1>4, <4>2 DEF StageWrite, TypeOK, Job
        <5> QED
          BY <4>2, <5>1 DEF Goal, Carrying
      <4> QED
        BY <3>1, <4>1, <4>2
    <3>2. CASE StageFails(q) \/ StageAnswered(q) \/ RemoveFile(q) \/ DiscardObjects(q) \/ GiveUp(q)
      BY <1>3, <3>2 DEF StageFails, StageAnswered, RemoveFile, DiscardObjects, GiveUp
    <3>3. CASE StageCommit(q)
      <4>1. Ends(q) \/ job' = [job EXCEPT ![q].step = "staged"]
        BY <3>3 DEF StageCommit
      <4>2. job' = [job EXCEPT ![q].step = "staged"] => job'[q].step = "staged"
        BY <1>4 DEF TypeOK, Job
      <4> QED
        BY <1>2, <1>3, <4>1, <4>2
    <3>4. CASE Claim(q)
      <4>1. Ends(q) \/ job' = [job EXCEPT ![q].step = "claimed", ![q].guarded = session[job[q].form] = "open"]
        BY <3>4 DEF Claim
      <4>2. job' = [job EXCEPT ![q].step = "claimed", ![q].guarded = session[job[q].form] = "open"]
              => job'[q].step = "claimed"
        BY <1>4 DEF TypeOK, Job
      <4>3. job'[q].step = "claimed" => Goal
        BY <3>4 DEF Goal
      <4> QED
        BY <1>3, <4>1, <4>2, <4>3
    <3>5. CASE Promote(q)
      <4>1. job'[q].step = "promoted"
        BY <1>4, <3>5 DEF Promote, TypeOK, Job
      <4> QED
        BY <3>5, <4>1 DEF Goal
    <3>6. CASE Commit(q)
      <4>1. job'[q].step \in {"over", "saved"}
        BY <3>6 DEF Commit, TypeOK, Over, Unsent
      <4> QED
        BY <1>2, <4>1
    <3>7. CASE ClearText(q)
      <4>1. job'[q].step = "cleared"
        BY <1>4, <3>7 DEF ClearText, TypeOK, Job
      <4> QED
        BY <1>2, <4>1
    <3> QED
      BY <1>7, <2>2, <3>1, <3>2, <3>3, <3>4, <3>5, <3>6, <3>7 DEF RequestStep
  <2> QED
    BY <2>1, <2>2
<1>8. ASSUME job' = job
      PROVE  Goal
  BY <1>8 DEF Goal
<1>9. ASSUME UNCHANGED vars
      PROVE  Goal
  <2>1. job' = job
    BY <1>9 DEF vars
  <2> QED
    BY <1>8, <2>1
<1>10. ASSUME NEW s \in Forms, Draw(s) \/ Expire(s) \/ PastRetention(s)
       PROVE  Goal
  <2>1. job' = job
    BY <1>10 DEF Draw, Expire, PastRetention
  <2> QED
    BY <1>8, <2>1
<1>11. ASSUME NEW d \in Readers, ReaderStep(d)
       PROVE  Goal
  <2>1. job' = job
    BY <1>11 DEF ReaderStep, ClaimFile, Settle, ReaderDies
  <2> QED
    BY <1>8, <2>1
<1>12. ASSUME ClearExpiredText \/ SweepStep \/ Done
       PROVE  Goal
  <2>1. job' = job
    BY <1>12 DEF ClearExpiredText, SweepStep, SweepList, SweepLock, SweepBytes, SweepCommit, SweepStops, Done, vars
  <2> QED
    BY <1>8, <2>1
<1>13. Goal
  BY <1>5, <1>6, <1>7, <1>9, <1>10, <1>11, <1>12 DEF Next
<1> QED
  BY <1>13 DEF Goal
-----------------------------------------------------------------------------
(* What a save files                                                       *)

\* A save's form, while its row is open, has on it the files it had when it was sent, each live
\* or stamped; what the save has promoted or attached covers what it carries, once each.
PressedInv ==
    \A r \in Requests : Carrying(r) =>
        /\ job[r].seen = None => job[r].offered = {}
        /\ session[job[r].form] = "open" => \A f \in job[r].offered : row[f].form = job[r].form
        /\ job[r].step = "promoted" =>
             /\ job[r].promoted \cap job[r].attached = {}
             /\ job[r].files \subseteq job[r].promoted \cup job[r].attached
             /\ job[r].guarded = TRUE =>
                  \A f \in job[r].offered : f \in job[r].promoted \/ row[f].removed = TRUE

LEMMA PressedStep ==
    ASSUME TypeOK, SaveInv, StageInv, PressedInv, [Next]_vars
    PROVE  PressedInv'
<1>0. SaveInv' /\ RowsKept
  BY SaveStep, RowsStay
<1> SUFFICES ASSUME NEW q \in Requests, Carrying(q)'
             PROVE  /\ job'[q].seen = None => job'[q].offered = {}
                    /\ session'[job'[q].form] = "open" => \A f \in job'[q].offered : row'[f].form = job'[q].form
                    /\ job'[q].step = "promoted" =>
                         /\ job'[q].promoted \cap job'[q].attached = {}
                         /\ job'[q].files \subseteq job'[q].promoted \cup job'[q].attached
                         /\ job'[q].guarded = TRUE =>
                              \A f \in job'[q].offered : f \in job'[q].promoted \/ row'[f].removed = TRUE
  BY DEF PressedInv
<1>1. job[q] \in Job /\ job[q].form \in Forms /\ job[q].form # None /\ job[q].offered \subseteq Files
  BY Names DEF TypeOK, Job
<1>2. ASSUME Carrying(q)
      PROVE  /\ job[q].seen = None => job[q].offered = {}
             /\ session'[job[q].form] = "open" => session[job[q].form] = "open"
             /\ session'[job[q].form] = "open" => \A f \in job[q].offered : row'[f].form = job[q].form
             /\ session'[job[q].form] = "open" =>
                  \A f \in job[q].offered : row[f].removed = TRUE => row'[f].removed = TRUE
  <2>1. session[job[q].form] # "none"
    BY <1>2 DEF Carrying, SaveInv, SavesHold, Saving, At
  <2>2. session'[job[q].form] = "open" => session[job[q].form] = "open"
    BY <1>0, <1>1, <2>1 DEF RowsKept
  <2>3. session'[job[q].form] = "open" => \A f \in job[q].offered : row[f].form = job[q].form
    BY <1>2, <2>2 DEF PressedInv
  <2> QED
    BY <1>0, <1>1, <1>2, <2>2, <2>3 DEF RowsKept, PressedInv
<1>3. CASE job'[q] = job[q]
  <2>1. Carrying(q)
    BY <1>3 DEF Carrying
  <2>2. job[q].step = "promoted" /\ job[q].guarded = TRUE => session'[job[q].form] = "open"
    BY <1>0, <1>3, <2>1 DEF SaveInv, SavesHold, Saving, Carrying
  <2> QED
    BY <1>2, <1>3, <2>1, <2>2 DEF PressedInv
<1>4. ASSUME NEW op \in {"stage", "remove", "create"}, NEW s \in Forms, NEW files \in SUBSET Files,
             Arrives(q, op, s, files), UNCHANGED <<session, row>>
      PROVE  /\ job'[q].step = "seen" /\ job'[q].form = s
             /\ job'[q].seen = None => job'[q].offered = {}
             /\ \A f \in job'[q].offered : row'[f].form = s
  BY <1>4 DEF Arrives, TypeOK, Unsent, LiveRows, RowsOf
<1>5. CASE Claim(q) /\ job'[q].step = "claimed"
  <2>1. At(q, "create", "seen") /\ UNCHANGED <<session, row>>
    BY <1>5 DEF Claim
  <2>2. job' = [job EXCEPT ![q].step = "claimed", ![q].guarded = session[job[q].form] = "open"]
    <3>1. ~Ends(q)
      BY <1>5 DEF Ends, Over, TypeOK, Unsent
    <3> QED
      BY <1>5, <3>1 DEF Claim
  <2>3. job'[q].seen = job[q].seen /\ job'[q].form = job[q].form /\ job'[q].offered = job[q].offered
    BY <1>1, <2>2 DEF TypeOK, Job
  <2>4. Carrying(q)
    BY <2>1 DEF Carrying, At
  <2> QED
    BY <1>2, <1>5, <2>3, <2>4
<1>6. CASE Promote(q)
  <2> DEFINE live == IF job[q].seen = None THEN {} ELSE LiveRows(job[q].seen)
  <2>1. /\ job' = [job EXCEPT ![q].step = "promoted", ![q].promoted = live, ![q].attached = job[q].files \ live]
        /\ UNCHANGED <<session, row>> /\ Carrying(q)
    BY <1>6 DEF Promote, At, Carrying, WithoutStagedCopies
  <2>2. job[q].seen \in {job[q].form, None}
    BY <2>1 DEF StageInv, SavesSpend
  <2>3. \A f \in job[q].offered :
          session'[job[q].form] = "open" => f \in live \/ row'[f].removed = TRUE
    <3> SUFFICES ASSUME NEW f \in job[q].offered, session'[job[q].form] = "open"
                 PROVE  f \in live \/ row'[f].removed = TRUE
      OBVIOUS
    <3>1. job[q].seen = job[q].form /\ row[f].form = job[q].form /\ row' = row /\ f \in Files
      BY <1>1, <1>2, <2>1, <2>2
    <3>2. row[f].removed \in BOOLEAN
      BY <3>1 DEF TypeOK, Row
    <3>3. CASE row[f].removed = TRUE
      BY <3>1, <3>3
    <3>4. CASE row[f].removed = FALSE
      <4>1. f \in LiveRows(job[q].seen)
        BY <3>1, <3>4 DEF LiveRows, RowsOf
      <4> QED
        BY <1>1, <3>1, <4>1
    <3> QED
      BY <3>2, <3>3, <3>4
  <2> HIDE DEF live
  <2>4. /\ job'[q].seen = job[q].seen /\ job'[q].form = job[q].form /\ job'[q].offered = job[q].offered
        /\ job'[q].promoted = live /\ job'[q].attached = job[q].files \ live /\ job'[q].files = job[q].files
        /\ job'[q].step = "promoted"
    BY <1>1, <2>1 DEF TypeOK, Job
  <2>5. job'[q].guarded = TRUE => session'[job[q].form] = "open"
    BY <1>0, <2>4 DEF SaveInv, SavesHold, Saving, Carrying
  <2> QED
    BY <1>2, <2>1, <2>3, <2>4, <2>5
<1>7. \/ job'[q] = job[q]
      \/ \E op \in {"stage", "remove", "create"}, s \in Forms, files \in SUBSET Files :
           Arrives(q, op, s, files) /\ UNCHANGED <<session, row>>
      \/ Claim(q) /\ job'[q].step = "claimed"
      \/ Promote(q)
  BY JobSteps
<1>8. CASE \E op \in {"stage", "remove", "create"}, s \in Forms, files \in SUBSET Files :
             Arrives(q, op, s, files) /\ UNCHANGED <<session, row>>
  BY <1>4, <1>8
<1> QED
  BY <1>3, <1>5, <1>6, <1>7, <1>8

\* A save under a token files every file its form had on it when it was sent, staged or carried,
\* and none twice, unless it was taken back, whatever was staged, swept or expired meanwhile
\* (promote_intake_files, without_staged_copies).
THEOREM Pressed == Spec => []PressedIsFiled
<1>1. Init => PressedInv
  BY DEF Init, PressedInv, Carrying, Unsent
<1>2. TypeOK /\ PressedInv => PressedIsFiled
  BY DEF PressedInv, PressedIsFiled, Carrying, At, TypeOK, Job, Row
<1> QED
  BY <1>1, <1>2, Typed, SaveHeld, StageHeld, PressedStep, PTL DEF Spec

-----------------------------------------------------------------------------
(* The quota                                                               *)

\* What a stager counted still stands when it commits: nobody else adds a file meanwhile.
QuotaInv ==
    /\ Cardinality(Unconsumed) <= MaxStaged
    /\ \A r \in Requests : job[r].step = "staging" => Cardinality(Unconsumed) < MaxStaged

LEMMA FilesFinite == IsFiniteSet(Unconsumed) /\ Cardinality(Unconsumed) \in Nat
<1>1. IsFiniteSet(Files)
  BY FS_Interval, LimitsAssumption DEF Files
<1>2. Unconsumed \subseteq Files
  BY DEF Unconsumed
<1> QED
  BY <1>1, <1>2, FS_Subset, FS_CardinalityType

LEMMA QuotaStep ==
    ASSUME TypeOK, SaveInv, StageInv, QuotaInv, [Next]_vars
    PROVE  QuotaInv'
<1>0. RowsKept
  BY RowsStay
<1>1. IsFiniteSet(Unconsumed) /\ Cardinality(Unconsumed) \in Nat
  BY FilesFinite
<1>2. ASSUME NEW f \in Unconsumed'
      PROVE  f \in Unconsumed \/ \E r \in Requests : StageCommit(r) /\ f \in job[r].files
  <2>1. f \in Files /\ row'[f].form # None /\ session'[row'[f].form] = "open"
    BY <1>2 DEF Unconsumed
  <2>2. row[f].form \in Forms \cup {None}
    BY <2>1 DEF TypeOK, Row
  <2>3. CASE row'[f].form = row[f].form
    <3>1. session[row[f].form] # "none"
      BY <2>1, <2>3 DEF StageInv, RowsLive
    <3>2. session[row[f].form] = "open"
      BY <1>0, <2>1, <2>2, <2>3, <3>1 DEF RowsKept
    <3> QED
      BY <2>1, <2>3, <3>2 DEF Unconsumed
  <2> QED
    BY <1>0, <2>1, <2>3 DEF RowsKept
<1>3. CASE \E r \in Requests : StageCommit(r)
  <2>1. PICK r \in Requests : StageCommit(r)
    BY <1>3
  <2>2. /\ job[r].step = "staging" /\ job[r].op = "stage"
        /\ \A q \in Requests : job[q].step = "staging" => q = r
    BY <2>1 DEF StageCommit, At, StageInv, StagersHold
  <2>3. PICK f \in Files : job[r].files = {f}
    BY <2>2 DEF StageInv, FilesApart, Pending
  <2>4. Unconsumed' \subseteq Unconsumed \cup {f}
    <3>1. \A q \in Requests : StageCommit(q) => q = r
      BY <2>2 DEF StageCommit, At
    <3> QED
      BY <1>2, <2>3, <3>1
  <2>5. /\ IsFiniteSet(Unconsumed \cup {f})
        /\ Cardinality(Unconsumed \cup {f}) <= Cardinality(Unconsumed) + 1
    BY <1>1, FS_AddElement
  <2>6. /\ Cardinality(Unconsumed') <= Cardinality(Unconsumed \cup {f})
        /\ Cardinality(Unconsumed \cup {f}) \in Nat /\ Cardinality(Unconsumed') \in Nat
    BY <2>4, <2>5, FS_Subset, FS_CardinalityType
  <2>7. Cardinality(Unconsumed') <= MaxStaged
    BY <1>1, <2>2, <2>5, <2>6, LimitsAssumption DEF QuotaInv
  <2>8. ASSUME NEW q \in Requests
        PROVE  job'[q].step # "staging"
    <3>1. job'[r].step # "staging"
      <4>1. job[r] \in Job
        BY DEF TypeOK
      <4> QED
        BY <2>1, <4>1 DEF StageCommit, Ends, Over, Unsent, TypeOK, Job
    <3>2. \A s \in Forms : ~StageWrite(q, s)
      BY <2>2 DEF StageWrite, StagesInto, QuotaFree
    <3>3. job'[q].step = "staging" => job'[q] = job[q]
      BY <3>2, JobSteps
    <3> QED
      BY <2>2, <3>1, <3>3
  <2> QED
    BY <2>7, <2>8 DEF QuotaInv
<1>4. CASE ~\E r \in Requests : StageCommit(r)
  <2>1. Unconsumed' \subseteq Unconsumed
    BY <1>2, <1>4
  <2>2. Cardinality(Unconsumed') <= Cardinality(Unconsumed) /\ Cardinality(Unconsumed') \in Nat
    BY <1>1, <2>1, FS_Subset, FS_CardinalityType
  <2>3. ASSUME NEW q \in Requests, job'[q].step = "staging"
        PROVE  Cardinality(Unconsumed) < MaxStaged
    <3>1. CASE job'[q] = job[q]
      BY <2>3, <3>1 DEF QuotaInv
    <3>2. CASE \E s \in Forms : StageWrite(q, s)
      BY <3>2 DEF StageWrite, WithinQuota
    <3> QED
      BY <2>3, <3>1, <3>2, JobSteps
  <2>4. Cardinality(Unconsumed') <= MaxStaged
    BY <1>1, <2>2, LimitsAssumption DEF QuotaInv
  <2>5. ASSUME NEW q \in Requests, job'[q].step = "staging"
        PROVE  Cardinality(Unconsumed') < MaxStaged
    BY <1>1, <2>2, <2>3, <2>5, LimitsAssumption
  <2> QED
    BY <2>4, <2>5 DEF QuotaInv
<1> QED
  BY <1>3, <1>4

\* However many requests stage at once, the files of the forms not yet saved stay within the
\* quota: what the one that holds the quotas' lock counted stands until it commits
\* (stage_uploads).
THEOREM Quota == Spec => []QuotaHeld
<1>1. Init => QuotaInv
  <2>1. Init => Unconsumed = {}
    BY DEF Init, Unconsumed, NoRow
  <2>2. Cardinality({}) = 0 /\ 0 <= MaxStaged
    BY FS_EmptySet, LimitsAssumption
  <2>3. Init => \A r \in Requests : job[r].step # "staging"
    BY DEF Init, Unsent
  <2> QED
    BY <2>1, <2>2, <2>3 DEF QuotaInv
<1>2. QuotaInv => QuotaHeld
  BY DEF QuotaInv, QuotaHeld
<1> QED
  BY <1>1, <1>2, Typed, SaveHeld, StageHeld, QuotaStep, PTL DEF Spec
=============================================================================
