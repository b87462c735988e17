----------------------------- MODULE Extraction -----------------------------
(***************************************************************************)
(* The document extraction queue: app/documents/extraction/orchestrator.py *)
(* and the commands that drive it (run_extraction_worker,                  *)
(* extract_pending_documents, rebuild_document_derivatives).               *)
(*                                                                         *)
(* A worker reads a candidate off the queue, claims it by stamping the row *)
(* under a row lock, parses outside any transaction, and then publishes in *)
(* one transaction.  The stamp is a fence: every terminal write is         *)
(* conditional on it still being on the row.  Nothing bounds a parse, so a *)
(* claim can go stale under a live worker and be taken by another one.     *)
(*                                                                         *)
(* Time is abstracted to what the code compares: stamps are the successive *)
(* values of the counter now, and a claim is "aged" once it is older than  *)
(* EXTRACTION_STALE_CLAIM_MINUTES.  A transaction longer than one          *)
(* statement (the publish) is several actions holding rowLock; the writes  *)
(* it has made are invisible until PublishCommit, as READ COMMITTED has it.*)
(* Its last statement, the refresh of the version's search rows, writes    *)
(* nothing that a pass reads: SearchIndex has it, beside the saves,        *)
(* removals and rebuilds it meets there (Publish).                         *)
(*                                                                         *)
(* The worker is a command that people run by hand and nothing restarts:   *)
(* a process that is idle looks for work or has ended, and nothing obliges *)
(* it to take a step.                                                      *)
(***************************************************************************)
EXTENDS Naturals, FiniteSets

CONSTANTS
    Workers,      \* processes running one of the commands
    Versions,     \* DocumentVersion rows, numbered in created_at order
    ParseKinds,   \* the sets of derivative kinds one successful parse may yield
    Ordinals,     \* attachment positions inside one message
    MaxAttempts,  \* EXTRACTION_MAX_ATTEMPTS
    MaxForce,     \* bound: forced claims by an operator
    NoWorker

ASSUME WorkersAssumption == NoWorker \notin Workers
ASSUME VersionsAssumption == Versions \subseteq Nat /\ Versions # {}

TextKinds == {"EXTRACTED_TEXT", "OCR_TEXT"}
Kinds == TextKinds \cup {"EMAIL_METADATA", "THUMBNAIL"}

\* Every parser that succeeds yields text of one kind or the other.
ASSUME ParsersAssumption ==
    /\ ParseKinds \subseteq SUBSET Kinds
    /\ \A K \in ParseKinds : K \cap TextKinds # {}
ASSUME LimitsAssumption == MaxAttempts \in Nat \ {0} /\ MaxForce \in Nat

VARIABLES
    version,   \* state, claim stamp, attempts, and whether the claim is stale
    rows,      \* DocumentDerivative rows
    links,     \* EmailAttachmentLink rows, with the Document each one brought
    rowLock,   \* which transaction holds the version's row lock
    now,       \* the last claim stamp given out
    forced,    \* forced claims so far
    worker,    \* each process's local variables
    claims     \* claims of each version since somebody last asked for it; no guard reads it

vars == <<version, rows, links, rowLock, now, forced, worker, claims>>

Queued == {"PENDING", "PROCESSING"}
Terminal == {"DONE", "FAILED", "NOT_APPLICABLE", "INTAKE_READ"}
Unclaimed == 0

VersionRow == [state : Queued \cup Terminal, claimedAt : Nat,
               attempts : Nat, aged : BOOLEAN]
Derivative == [version : Versions, kind : Kinds,
               status : {"ACTIVE", "SUPERSEDED", "FAILED"}, pass : Nat]
Link == [parent : Versions, ordinal : Ordinals, pass : Nat]
Step == {"idle", "picked", "parsing", "publishing", "linked",
         "publish_failed", "discarding"}
Process == [step : Step, version : Versions, fence : Nat,
            rebuild : BOOLEAN, kinds : SUBSET Kinds, attached : SUBSET Ordinals]

Idle == [step |-> "idle", version |-> CHOOSE v \in Versions : TRUE,
         fence |-> Unclaimed, rebuild |-> FALSE, kinds |-> {}, attached |-> {}]

Active(rs, v, k) ==
    {r \in rs : r.version = v /\ r.kind = k /\ r.status = "ACTIVE"}

Init ==
    /\ version \in [Versions -> {[state |-> s, claimedAt |-> Unclaimed,
                                  attempts |-> 0, aged |-> FALSE] :
                                 s \in {"PENDING", "INTAKE_READ"}}]
    /\ rows = {}
    /\ links = {}
    /\ rowLock = [v \in Versions |-> NoWorker]
    /\ now = 0
    /\ forced = 0
    /\ worker = [w \in Workers |-> Idle]
    /\ claims = [v \in Versions |-> 0]

-----------------------------------------------------------------------------
(* The queue and the claim.                                                *)

IsClaimable(r) == r.state = "PENDING" \/ (r.state = "PROCESSING" /\ r.aged)

PendingVersions == {v \in Versions : IsClaimable(version[v])}

\* The loop reads the oldest row a worker may pick up.
ReadQueue(w) ==
    /\ worker[w].step = "idle"
    /\ \E v \in PendingVersions :
        /\ \A u \in PendingVersions : v <= u
        /\ worker' = [worker EXCEPT ![w].step = "picked", ![w].version = v]
    /\ UNCHANGED <<version, rows, links, rowLock, now, forced, claims>>

Become(w, v, rebuild) ==
    worker' = [worker EXCEPT ![w] =
        [step |-> "parsing", version |-> v, fence |-> now + 1,
         rebuild |-> rebuild, kinds |-> {}, attached |-> {}]]

Stamp(v, attempts) ==
    /\ version' = [version EXCEPT ![v] =
          [state |-> "PROCESSING", claimedAt |-> now + 1,
           attempts |-> attempts, aged |-> FALSE]]
    /\ now' = now + 1

Stop(w) == worker' = [worker EXCEPT ![w] = Idle]

\* Mutant of HoldsClaim: asks whether the row is being processed, not by whom.
HoldsAnyClaim(v, fence) == version[v].state = "PROCESSING"

\* Mutant of HoldsClaim: the write is not conditional at all.
HoldsNoClaim(v, fence) == fence # Unclaimed

\* The conditional UPDATE every terminal write goes through.
HoldsClaim(v, fence) == version[v].claimedAt = fence

Settle(v, state) ==
    version' = [version EXCEPT ![v].state = state,
                               ![v].claimedAt = Unclaimed,
                               ![v].aged = FALSE]

\* A failure is filed under EXTRACTED_TEXT whatever the parser was to yield.
FailedRow(v, fence) ==
    [version |-> v, kind |-> "EXTRACTED_TEXT", status |-> "FAILED", pass |-> fence]

\* Past the budget a stale claim is settled FAILED in place of being taken.
Exhausted(v) ==
    version[v].state = "PROCESSING" /\ version[v].attempts >= MaxAttempts

\* Mutant of Attempts: every claim counts as a fresh request.
AttemptsForgotten(v) == 1

\* Counted from the last request: only the reclaim of an unfinished claim adds.
Attempts(v) == IF version[v].state = "PROCESSING" THEN version[v].attempts + 1 ELSE 1

RecordFailureOf(v, fence) ==
    /\ Settle(v, "FAILED")
    /\ rows' = rows \cup {FailedRow(v, fence)}
    /\ UNCHANGED links

\* claim_version: lost to a locked or no longer claimable row, refused for
\* good once the attempts are used up, or taken with a fresh stamp.
ClaimVersion(w) ==
    LET v == worker[w].version IN
    /\ worker[w].step = "picked"
    /\ UNCHANGED <<rowLock, forced>>
    /\ \/ /\ rowLock[v] # NoWorker \/ ~IsClaimable(version[v])
          /\ Stop(w)
          /\ UNCHANGED <<version, rows, links, now, claims>>
       \/ /\ rowLock[v] = NoWorker /\ IsClaimable(version[v])
          /\ Exhausted(v)
          /\ RecordFailureOf(v, version[v].claimedAt)
          /\ Stop(w)
          /\ UNCHANGED <<now, claims>>
       \/ /\ rowLock[v] = NoWorker /\ IsClaimable(version[v])
          /\ ~Exhausted(v)
          /\ Stamp(v, Attempts(v))
          /\ Become(w, v, FALSE)
          /\ claims' = [claims EXCEPT ![v] = @ + 1]
          /\ UNCHANGED <<rows, links>>

\* rebuild_document_derivatives: claim_version(force=True) takes any row that
\* is not locked this instant, settled or in another worker's hands.
ForceClaim(w, v) ==
    /\ worker[w].step = "idle"
    /\ forced < MaxForce
    /\ rowLock[v] = NoWorker
    /\ forced' = forced + 1
    /\ Stamp(v, 1)
    /\ Become(w, v, TRUE)
    /\ claims' = [claims EXCEPT ![v] = 1]
    /\ UNCHANGED <<rows, links, rowLock>>

-----------------------------------------------------------------------------
(* The pass: the parse runs outside any transaction, so its outcome is     *)
(* chosen at the moment it is written.  A conditional UPDATE waits for the *)
(* row lock, and then re-reads the stamp.                                  *)

CanWrite(w, step) ==
    /\ worker[w].step = step
    /\ rowLock[worker[w].version] = NoWorker

\* _record_failure: the parse failed, or the publish did and was rolled back.
RecordFailure(w) ==
    /\ CanWrite(w, "parsing") \/ CanWrite(w, "publish_failed")
    /\ HoldsClaim(worker[w].version, worker[w].fence)
    /\ RecordFailureOf(worker[w].version, worker[w].fence)
    /\ Stop(w)
    /\ UNCHANGED <<rowLock, now, forced, claims>>

\* Mutant of FinishWithoutDerivatives: writes without asking for the claim.
FinishUnclaimed(w) ==
    /\ CanWrite(w, "parsing")
    /\ Settle(worker[w].version, "NOT_APPLICABLE")
    /\ Stop(w)
    /\ UNCHANGED <<rows, links, rowLock, now, forced, claims>>

\* _finish_without_derivatives: no parser claims the format.
FinishWithoutDerivatives(w) ==
    /\ CanWrite(w, "parsing")
    /\ HoldsClaim(worker[w].version, worker[w].fence)
    /\ Settle(worker[w].version, "NOT_APPLICABLE")
    /\ Stop(w)
    /\ UNCHANGED <<rows, links, rowLock, now, forced, claims>>

\* ClaimLost: the stamp on the row is somebody else's; nothing is written.
LoseClaim(w) ==
    /\ CanWrite(w, "parsing") \/ CanWrite(w, "publish_failed")
    /\ ~HoldsClaim(worker[w].version, worker[w].fence)
    /\ Stop(w)
    /\ UNCHANGED <<version, rows, links, rowLock, now, forced, claims>>

\* load() raised something other than FileNotFoundError: it escapes parse_source,
\* _run, extract_document_version and the command's loop, which ends there.
LoadRaises(w) ==
    /\ worker[w].step = "parsing"
    /\ Stop(w)
    /\ UNCHANGED <<version, rows, links, rowLock, now, forced, claims>>

\* _publish opens its transaction with _settle, which takes the row lock.
PublishBegin(w) ==
    /\ CanWrite(w, "parsing")
    /\ HoldsClaim(worker[w].version, worker[w].fence)
    /\ \E K \in ParseKinds :
        worker' = [worker EXCEPT ![w].step = "publishing", ![w].kinds = K]
    /\ rowLock' = [rowLock EXCEPT ![worker[w].version] = w]
    /\ UNCHANGED <<version, rows, links, now, forced, claims>>

\* Mutant of Unlinked: registers whatever the parser found.
UnlinkedAll(v, found) == found

\* The attachments of a message that no committed link row names yet.
Unlinked(v, found) ==
    {o \in found : ~ \E l \in links : l.parent = v /\ l.ordinal = o}

\* register_email_attachments: a Document for every attachment without one.
RegisterEmailAttachments(w) ==
    /\ worker[w].step = "publishing"
    /\ \E found \in SUBSET Ordinals :
        worker' = [worker EXCEPT ![w].step = "linked",
            ![w].attached = Unlinked(worker[w].version, found)]
    /\ UNCHANGED <<version, rows, links, rowLock, now, forced, claims>>

\* _write_derivative for each payload: demote the live row of its kind, then
\* promote the new one.
WriteDerivatives(v, K, fence) ==
    {IF r.version = v /\ r.kind \in K /\ r.status = "ACTIVE"
     THEN [r EXCEPT !.status = "SUPERSEDED"] ELSE r : r \in rows}
    \cup {[version |-> v, kind |-> k, status |-> "ACTIVE", pass |-> fence] : k \in K}

PublishCommit(w) ==
    LET p == worker[w] IN
    /\ p.step = "linked"
    /\ Settle(p.version, "DONE")
    /\ rows' = WriteDerivatives(p.version, p.kinds, p.fence)
    /\ links' = links \cup
         {[parent |-> p.version, ordinal |-> o, pass |-> p.fence] : o \in p.attached}
    /\ rowLock' = [rowLock EXCEPT ![p.version] = NoWorker]
    /\ worker' = [worker EXCEPT ![w] =
         IF p.rebuild THEN [Idle EXCEPT !.step = "discarding", !.version = p.version]
                      ELSE Idle]
    /\ UNCHANGED <<now, forced, claims>>

Unlocked(w) == [v \in Versions |-> IF rowLock[v] = w THEN NoWorker ELSE rowLock[v]]

\* A full disk or a database error: the transaction rolls back, and the
\* failure is then recorded in a transaction of its own.
PublishRaises(w) ==
    /\ worker[w].step \in {"publishing", "linked"}
    /\ rowLock' = Unlocked(w)
    /\ worker' = [worker EXCEPT ![w].step = "publish_failed",
                                ![w].kinds = {}, ![w].attached = {}]
    /\ UNCHANGED <<version, rows, links, now, forced, claims>>

Kept(v) == {r \in rows : r.version = v => r.status = "ACTIVE"}

\* rebuild_document_derivatives, after a pass that reached DONE.
DiscardInactiveDerivatives(w) ==
    /\ worker[w].step = "discarding"
    /\ rows' = Kept(worker[w].version)
    /\ Stop(w)
    /\ UNCHANGED <<version, links, rowLock, now, forced, claims>>

-----------------------------------------------------------------------------
(* The environment.                                                        *)

\* The process is killed: its transaction, if one is open, rolls back.
Crash(w) ==
    /\ worker[w].step \notin {"idle", "picked"}
    /\ rowLock' = Unlocked(w)
    /\ Stop(w)
    /\ UNCHANGED <<version, rows, links, now, forced, claims>>

\* EXTRACTION_STALE_CLAIM_MINUTES go by, whatever the claim's holder is doing.
ClaimAges(v) ==
    /\ version[v].state = "PROCESSING" /\ ~version[v].aged
    /\ version' = [version EXCEPT ![v].aged = TRUE]
    /\ UNCHANGED <<rows, links, rowLock, now, forced, worker, claims>>

\* The queue is empty: the loop sleeps and looks again.
Sleep(w) ==
    /\ worker[w].step = "idle" /\ PendingVersions = {}
    /\ UNCHANGED vars

Pass(w) ==
    \/ ReadQueue(w) \/ ClaimVersion(w) \/ Sleep(w)
    \/ RecordFailure(w) \/ FinishWithoutDerivatives(w) \/ LoseClaim(w)
    \/ PublishBegin(w) \/ RegisterEmailAttachments(w) \/ PublishCommit(w)
    \/ PublishRaises(w) \/ DiscardInactiveDerivatives(w)

Next ==
    \/ \E w \in Workers : Pass(w) \/ LoadRaises(w) \/ Crash(w)
    \/ \E w \in Workers, v \in Versions : ForceClaim(w, v)
    \/ \E v \in Versions : ClaimAges(v)

Spec == Init /\ [][Next]_vars

-----------------------------------------------------------------------------
(* What the queue promises.                                                *)

TypeOK ==
    /\ version \in [Versions -> VersionRow]
    /\ rows \subseteq Derivative
    /\ links \subseteq Link
    /\ rowLock \in [Versions -> Workers \cup {NoWorker}]
    /\ now \in Nat
    /\ forced \in 0..MaxForce
    /\ worker \in [Workers -> Process]
    /\ claims \in [Versions -> Nat]

\* The fence, in the form that is inductive.  A stamp on a row is a claim in
\* progress, and only the pass that took it may still be inside a publish.  No
\* derivative is as new as the claim now in progress, so whatever that claim's
\* holder writes is newer than everything its version has.
Passing == {"parsing", "publishing", "linked", "publish_failed"}
InTransaction == {"publishing", "linked"}

StampsAreClaims ==
    \A v \in Versions :
        /\ version[v].claimedAt <= now
        /\ version[v].claimedAt # Unclaimed <=> version[v].state = "PROCESSING"

LocksAreHeld ==
    \A v \in Versions : rowLock[v] # NoWorker =>
        /\ worker[rowLock[v]].step \in InTransaction
        /\ worker[rowLock[v]].version = v

PassesHoldStamps ==
    \A w \in Workers :
        /\ worker[w].step \in Passing => worker[w].fence \in 1..now
        /\ worker[w].step \in InTransaction =>
            /\ rowLock[worker[w].version] = w
            /\ version[worker[w].version].claimedAt = worker[w].fence

\* What a publish is about to register is still unregistered when it commits.
LinksStillMissing ==
    \A w \in Workers, l \in links :
        worker[w].step = "linked" /\ l.parent = worker[w].version
            => l.ordinal \notin worker[w].attached

RowsAreOlder ==
    \A r \in rows :
        /\ r.pass \in 1..now
        /\ version[r.version].claimedAt # Unclaimed
              => r.pass < version[r.version].claimedAt

ClaimFence == /\ StampsAreClaims /\ LocksAreHeld /\ PassesHoldStamps
              /\ LinksStillMissing /\ RowsAreOlder

\* However passes overlap, a version never has two live derivatives of one
\* kind: what documents_one_active_derivative_per_kind asserts.
OneActivePerKind ==
    \A r, s \in rows :
        /\ r.version = s.version /\ r.kind = s.kind
        /\ r.status = "ACTIVE" /\ s.status = "ACTIVE"
        => r = s

\* A pass that outlived its claim never serves over the pass that replaced
\* it: nothing superseded is newer than what serves now.
NewestServes ==
    \A r, s \in rows :
        /\ r.version = s.version /\ r.kind = s.kind
        /\ r.status = "ACTIVE" /\ s.status = "SUPERSEDED"
        => s.pass < r.pass

\* A claim ends once: no pass is on record both as failed and as published,
\* not even when the queue gave it up for dead while it was still parsing.
OneOutcomePerPass ==
    \A r, s \in rows : r.version = s.version /\ r.pass = s.pass
                      => (r.status = "FAILED") = (s.status = "FAILED")

\* Reading a message again, or by two workers at once, never registers one of
\* its attachments as a second Document.
NoAttachmentTwice ==
    \A l, m \in links : l.parent = m.parent /\ l.ordinal = m.ordinal => l = m

\* A file that kills whoever reads it is claimed at most MaxAttempts times for
\* one request, however its claims end: by kill, by age or by a forced claim in
\* between. It is then settled FAILED and handed to nobody.
ClaimsPerRequest ==
    \A v \in Versions : claims[v] <= MaxAttempts

\* What makes that inductive: the column says how often the row was claimed.
ClaimsAreCounted ==
    \A v \in Versions :
        /\ version[v].state = "PENDING" => claims[v] = 0
        /\ version[v].state = "PROCESSING" => claims[v] = version[v].attempts

\* A text that serves goes on serving, or a newer one does: no failure, lost
\* claim, crash or rebuild takes it away.
NothingServedIsLost ==
    [][\A v \in Versions, k \in Kinds :
        Active(rows, v, k) # {} => Active(rows', v, k) # {}]_vars

\* A verdict on a file stands, and with it the text the file serves, until an
\* operator forces another reading: no pass that was overtaken, given up for dead
\* or left with a rolled-back publish comes back to a file that is settled.
VerdictStands ==
    [][\A v \in Versions : version[v].state \in Terminal /\ forced' = forced
          => /\ version'[v] = version[v]
             /\ \A k \in Kinds : Active(rows', v, k) = Active(rows, v, k)]_vars

\* What the served text looks like to a reader (see ServedText).
Served == [v \in Versions |-> [k \in Kinds |-> {r.pass : r \in Active(rows, v, k)}]]

Reader == INSTANCE ServedText WITH served <- Served

\* The queue implements the reader's view of it.
ImplementsServedText == Reader!Spec

=============================================================================
