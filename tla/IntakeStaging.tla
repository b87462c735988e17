---------------------------- MODULE IntakeStaging ----------------------------
(***************************************************************************)
(* The files chosen on the form of a new Teema before there is one         *)
(* (app/matters/intake_staging.py): a form is drawn with a session, which  *)
(* holds its staged files and is spent by the one save of the form.        *)
(* Requests stage files, take them back and save, each at its own pace; a  *)
(* reader extracts their text beside them, and a sweeper deletes what no   *)
(* form will use again. A session row is locked by the stager, the save or *)
(* the sweeper; the bytes are on a volume no transaction covers.           *)
(* One person's forms; a request stages one file; sizes are files counted. *)
(***************************************************************************)
EXTENDS Naturals, FiniteSets

CONSTANTS
    MaxDrawn,    \* forms drawn
    MaxForms,    \* sessions, those a stage opens included
    MaxFiles,    \* files chosen
    MaxPosts,    \* requests sent
    MaxStaged,   \* the deployment's staging quota, in files
    MaxAttempts, \* the reader's budget of claims of one file
    Readers,     \* processes of the intake reader
    Sweeper,     \* the sweeping process, as a holder of locks
    None

Forms == 1..MaxForms
Files == 1..MaxFiles
Requests == 1..MaxPosts

ASSUME LimitsAssumption ==
    /\ {MaxDrawn, MaxFiles, MaxPosts, MaxStaged} \subseteq Nat
    /\ {MaxForms, MaxAttempts} \subseteq Nat \ {0}

ASSUME NamesAssumption ==
    /\ Sweeper # None
    /\ {Sweeper, None} \cap (Forms \cup Requests) = {}

VARIABLES
    session, \* each form's session row: none yet, open, spent by a save, gone
    expired, \* the open sessions past their expiry
    past,    \* the spent sessions past their retention as a token
    row,     \* each file's staged row
    bytes,   \* the session under whose prefix each file's bytes lie
    lock,    \* who holds each session row
    chosen,  \* files chosen so far, which number them
    input,   \* the files each form's page still has in its file input
    saved,   \* Teemas filed under each form's token
    bare,    \* the forms of which a post that found no token filed a Teema
    job,     \* each request
    reader,  \* each reader process
    sweep    \* the sweeper

vars == <<session, expired, past, row, bytes, lock, chosen, input, saved, bare, job, reader, sweep>>

Row ==
    [form : Forms \cup {None}, removed : BOOLEAN, text : BOOLEAN,
     state : {"PENDING", "PROCESSING", "DONE", "FAILED"}, attempts : 0..MaxAttempts]

NoRow ==
    [form |-> None, removed |-> FALSE, text |-> FALSE, state |-> "PENDING", attempts |-> 0]

Job ==
    [step : {"unsent", "seen", "staging", "staged", "claimed", "promoted", "saved", "cleared",
             "over"},
     op : {"stage", "remove", "create"}, form : Forms, seen : Forms \cup {None},
     files : SUBSET Files, offered : SUBSET Files, guarded : BOOLEAN,
     promoted : SUBSET Files, attached : SUBSET Files]

Unsent ==
    [step |-> "unsent", op |-> "stage", form |-> 1, seen |-> None, files |-> {},
     offered |-> {}, guarded |-> FALSE, promoted |-> {}, attached |-> {}]

Over == [Unsent EXCEPT !.step = "over"]

Reading == [file : Files \cup {None}, fence : 0..MaxAttempts]
Idle == [file |-> None, fence |-> 0]

Sweeping == [step : {"idle", "listed", "locked", "emptied"}, form : Forms \cup {None}, whole : BOOLEAN]
Asleep == [step |-> "idle", form |-> None, whole |-> FALSE]

TypeOK ==
    /\ session \in [Forms -> {"none", "open", "spent", "gone"}]
    /\ expired \subseteq Forms
    /\ past \subseteq Forms
    /\ row \in [Files -> Row]
    /\ bytes \in [Files -> Forms \cup {None}]
    /\ lock \in [Forms -> Requests \cup {Sweeper, None}]
    /\ chosen \in 0..MaxFiles
    /\ input \in [Forms -> SUBSET Files]
    /\ saved \in [Forms -> Nat]
    /\ bare \subseteq Forms
    /\ job \in [Requests -> Job]
    /\ reader \in [Readers -> Reading]
    /\ sweep \in Sweeping

Init ==
    /\ session = [s \in Forms |-> "none"]
    /\ expired = {}
    /\ past = {}
    /\ row = [f \in Files |-> NoRow]
    /\ bytes = [f \in Files |-> None]
    /\ lock = [s \in Forms |-> None]
    /\ chosen = 0
    /\ input = [s \in Forms |-> {}]
    /\ saved = [s \in Forms |-> 0]
    /\ bare = {}
    /\ job = [r \in Requests |-> Unsent]
    /\ reader = [d \in Readers |-> Idle]
    /\ sweep = Asleep

-----------------------------------------------------------------------------
(* What the querysets ask of the rows                                      *)

Usable(s) == session[s] = "open" /\ s \notin expired

\* Mutant of Finished: a saved form is left out, for its save has blanked its text.
FinishedUnsaved(s) == session[s] = "open" /\ s \in expired

\* No form may use it any more: what it offered is over.
Finished(s) == session[s] = "spent" \/ (session[s] = "open" /\ s \in expired)

\* Mutant of Stale: a saved form's token goes with its files.
StaleOnceSpent(s) == Finished(s)

\* Deleted whole: an abandoned form, or a spent token past its retention.
Stale(s) == (session[s] = "open" /\ s \in expired) \/ (session[s] = "spent" /\ s \in past)

RowsOf(s) == {f \in Files : row[f].form = s}

LiveRows(s) == {f \in RowsOf(s) : ~row[f].removed}

Sweepable(s) == Stale(s) \/ (session[s] = "spent" /\ RowsOf(s) # {})

Unconsumed == {f \in Files : row[f].form # None /\ session[row[f].form] = "open"}

WithoutText(s) == [f \in Files |-> IF row[f].form = s THEN [row[f] EXCEPT !.text = FALSE] ELSE row[f]]

WithoutBytes(s) == [f \in Files |-> IF bytes[f] = s THEN None ELSE bytes[f]]

Free(s) == lock[s] = None

Opening(s) == \E r \in Requests : job[r].step = "staging" /\ job[r].seen = s

Known(s) == session[s] # "none" \/ Opening(s) \/ \E f \in Files : bytes[f] = s

\* Identifiers are new each time; forms are numbered as they are drawn.
Fresh(s) == ~Known(s) /\ \A t \in 1..(s - 1) : Known(t)

-----------------------------------------------------------------------------
(* The requests                                                            *)

\* A form is drawn with a session of its own.
Draw(s) ==
    /\ Fresh(s) /\ s <= MaxDrawn
    /\ session' = [session EXCEPT ![s] = "open"]
    /\ UNCHANGED <<expired, past, row, bytes, lock, chosen, input, saved, bare, job, reader, sweep>>

\* A request arrives from a form that was drawn, however long ago, and looks its
\* session up: one that expired, was spent or is gone reads as no session at all.
\* Requests are numbered as they are sent.
Arrives(r, op, s, files) ==
    LET seen == IF Usable(s) THEN s ELSE None IN
    /\ job[r].step = "unsent" /\ (r > 1 => job[r - 1].step # "unsent")
    /\ session[s] # "none"
    /\ job' = [job EXCEPT ![r] =
         [Unsent EXCEPT !.step = "seen", !.op = op, !.form = s, !.seen = seen, !.files = files,
            !.offered = IF op = "create" /\ seen # None THEN LiveRows(s) ELSE {}]]

\* The page uploads a file as soon as it is chosen and keeps it in its input meanwhile.
PostStage(r, s, f) ==
    /\ f = chosen + 1
    /\ Arrives(r, "stage", s, {f})
    /\ chosen' = f
    /\ input' = [input EXCEPT ![s] = @ \cup {f}]
    /\ UNCHANGED <<session, expired, past, row, bytes, lock, saved, bare, reader, sweep>>

PostRemove(r, s, f) ==
    /\ Usable(s) /\ f \in LiveRows(s)
    /\ Arrives(r, "remove", s, {f})
    /\ UNCHANGED <<session, expired, past, row, bytes, lock, chosen, input, saved, bare, reader, sweep>>

\* The save carries what the input holds beside the session.
PostCreate(r, s) ==
    /\ Arrives(r, "create", s, input[s])
    /\ UNCHANGED <<session, expired, past, row, bytes, lock, chosen, input, saved, bare, reader, sweep>>

At(r, op, step) == job[r].op = op /\ job[r].step = step

Ends(r) == job' = [job EXCEPT ![r] = Over]

Unlocked(r) == [s \in Forms |-> IF lock[s] = r THEN None ELSE lock[s]]

\* One stager at a time (the quotas' lock), which then waits for the session row.
\* The row is locked, not asked again: the save that held it may have spent it, and
\* a row the sweeper deleted meanwhile is locked by nobody.
\* Mutant of QuotaFree: the quotas are counted with no lock of their own.
NoQuotaLock == TRUE

QuotaFree == \A r \in Requests : job[r].step # "staging"

StagesInto(r, s) ==
    /\ At(r, "stage", "seen") /\ QuotaFree
    /\ IF job[r].seen = None THEN Fresh(s) ELSE s = job[r].seen /\ Free(s)

WithinQuota == Cardinality(Unconsumed) < MaxStaged

\* Refused over the quota: nothing is written, though a session it opened stays.
StageRefused(r, s) ==
    /\ StagesInto(r, s) /\ ~WithinQuota
    /\ session' = [session EXCEPT ![s] = IF @ = "none" THEN "open" ELSE @]
    /\ Ends(r)
    /\ UNCHANGED <<expired, past, row, bytes, lock, chosen, input, saved, bare, reader, sweep>>

\* The bytes are written under the session's prefix before the row that names them.
StageWrite(r, s) ==
    /\ StagesInto(r, s) /\ WithinQuota
    /\ bytes' = [f \in Files |-> IF f \in job[r].files THEN s ELSE bytes[f]]
    /\ lock' = [lock EXCEPT ![s] = IF session[s] \in {"open", "spent"} THEN r ELSE @]
    /\ job' = [job EXCEPT ![r].step = "staging", ![r].seen = s]
    /\ UNCHANGED <<session, expired, past, row, chosen, input, saved, bare, reader, sweep>>

\* Mutant of WithoutWritten: the session's whole prefix is deleted.
WithoutPrefix(r) == WithoutBytes(job[r].seen)

WithoutWritten(r) == [f \in Files |-> IF f \in job[r].files THEN None ELSE bytes[f]]

\* A write fails: what was written is deleted and the transaction rolls back.
StageFails(r) ==
    /\ At(r, "stage", "staging")
    /\ bytes' = WithoutWritten(r)
    /\ lock' = Unlocked(r)
    /\ Ends(r)
    /\ UNCHANGED <<session, expired, past, row, chosen, input, saved, bare, reader, sweep>>

\* The transaction commits, unless its session's row is gone: then the foreign key,
\* checked at the commit, fails it, and the bytes stay.
StageCommit(r) ==
    LET s == job[r].seen IN
    /\ At(r, "stage", "staging")
    /\ lock' = Unlocked(r)
    /\ IF session[s] = "gone"
       THEN Ends(r) /\ UNCHANGED <<session, row>>
       ELSE /\ session' = [session EXCEPT ![s] = IF @ = "none" THEN "open" ELSE @]
            /\ row' = [f \in Files |-> IF f \in job[r].files THEN [NoRow EXCEPT !.form = s] ELSE row[f]]
            /\ job' = [job EXCEPT ![r].step = "staged"]
    /\ UNCHANGED <<expired, past, bytes, chosen, input, saved, bare, reader, sweep>>

\* The answer reaches the page, which empties its input once the server lists a file.
StageAnswered(r) ==
    /\ At(r, "stage", "staged")
    /\ input' = [input EXCEPT ![job[r].form] = IF LiveRows(job[r].seen) = {} THEN @ ELSE {}]
    /\ Ends(r)
    /\ UNCHANGED <<session, expired, past, row, bytes, lock, chosen, saved, bare, reader, sweep>>

\* A file is taken back off the form: stamped, not deleted, and no lock asked.
RemoveFile(r) ==
    /\ At(r, "remove", "seen")
    /\ row' = [f \in Files |-> IF f \in job[r].files \cap RowsOf(job[r].seen)
                               THEN [row[f] EXCEPT !.removed = TRUE] ELSE row[f]]
    /\ Ends(r)
    /\ UNCHANGED <<session, expired, past, bytes, lock, chosen, input, saved, bare, reader, sweep>>

-----------------------------------------------------------------------------
(* The save                                                                *)

\* One conditional UPDATE spends the session, first of all: it waits for whoever holds
\* the row. A session already spent answers with the Teema filed before; one that is
\* gone is no token, and the save goes on without one.
Claim(r) ==
    LET s == job[r].form IN
    /\ At(r, "create", "seen") /\ Free(s)
    /\ \/ /\ session[s] = "spent" /\ Ends(r)
          /\ UNCHANGED lock
       \/ /\ session[s] # "spent"
          /\ job' = [job EXCEPT ![r].step = "claimed", ![r].guarded = session[s] = "open"]
          /\ lock' = [lock EXCEPT ![s] = IF session[s] = "open" THEN r ELSE @]
    /\ UNCHANGED <<session, expired, past, row, bytes, chosen, input, saved, bare, reader, sweep>>

\* Mutant of WithoutStagedCopies: every file carried is attached.
AllCarried(files, staged) == files

\* What the save carries that the session has not staged already.
WithoutStagedCopies(files, staged) == files \ staged

\* Every live file of the session becomes a Document, then every other file carried. A
\* file whose bytes are not there refuses the save (GiveUp).
Promote(r) ==
    LET live == IF job[r].seen = None THEN {} ELSE LiveRows(job[r].seen) IN
    /\ At(r, "create", "claimed")
    /\ \A f \in live : bytes[f] = job[r].seen
    /\ job' = [job EXCEPT ![r].step = "promoted", ![r].promoted = live,
                          ![r].attached = WithoutStagedCopies(job[r].files, live)]
    /\ UNCHANGED <<session, expired, past, row, bytes, lock, chosen, input, saved, bare, reader, sweep>>

Commit(r) ==
    LET s == job[r].form IN
    /\ At(r, "create", "promoted")
    /\ IF job[r].guarded
       THEN /\ session' = [session EXCEPT ![s] = "spent"]
            /\ expired' = expired \ {s}
            /\ saved' = [saved EXCEPT ![s] = @ + 1]
            /\ UNCHANGED bare
       ELSE bare' = bare \cup {s} /\ UNCHANGED <<session, expired, saved>>
    /\ lock' = Unlocked(r)
    /\ job' = [job EXCEPT ![r] = IF job[r].seen = None THEN Over
                  ELSE [Unsent EXCEPT !.step = "saved", !.op = "create", !.seen = job[r].seen]]
    /\ UNCHANGED <<past, row, bytes, chosen, input, reader, sweep>>

\* After the commit and under no lock: the text is blanked, then the bytes deleted.
ClearText(r) ==
    /\ At(r, "create", "saved")
    /\ row' = WithoutText(job[r].seen)
    /\ job' = [job EXCEPT ![r].step = "cleared"]
    /\ UNCHANGED <<session, expired, past, bytes, lock, chosen, input, saved, bare, reader, sweep>>

DiscardObjects(r) ==
    /\ At(r, "create", "cleared")
    /\ bytes' = WithoutBytes(job[r].seen)
    /\ Ends(r)
    /\ UNCHANGED <<session, expired, past, row, lock, chosen, input, saved, bare, reader, sweep>>

\* A request stops where it stands: refused by a missing file or the check for a Teema
\* just filed, or killed. An open transaction rolls back and its locks go; the bytes it
\* wrote do not. (One that ends before it holds anything changes nothing: no step.)
GiveUp(r) ==
    /\ job[r].step \notin {"unsent", "seen", "over"}
    /\ lock' = Unlocked(r)
    /\ Ends(r)
    /\ UNCHANGED <<session, expired, past, row, bytes, chosen, input, saved, bare, reader, sweep>>

-----------------------------------------------------------------------------
(* The reader                                                              *)

\* A claim may be of any age: an unfinished one is taken for stale, its reader dead or not.
Claimable(f) == row[f].form # None /\ row[f].state \in {"PENDING", "PROCESSING"}

\* The reader takes a file of a form still in use. A claim past the budget settles it
\* FAILED instead.
ClaimFile(d, f) ==
    LET n == IF row[f].state = "PENDING" THEN 1 ELSE row[f].attempts + 1 IN
    /\ reader[d] = Idle /\ Claimable(f) /\ ~row[f].removed /\ Usable(row[f].form)
    /\ IF n > MaxAttempts
       THEN row' = [row EXCEPT ![f].state = "FAILED"] /\ UNCHANGED reader
       ELSE /\ row' = [row EXCEPT ![f].state = "PROCESSING", ![f].attempts = n]
            /\ reader' = [reader EXCEPT ![d] = [file |-> f, fence |-> n]]
    /\ UNCHANGED <<session, expired, past, bytes, lock, chosen, input, saved, bare, job, sweep>>

\* The outcome, text or not, is written only over the reader's own claim. The bytes were
\* there when it was made, and may have been read before they went.
Settle(d) ==
    LET f == reader[d].file
        mine == row[f].state = "PROCESSING" /\ row[f].attempts = reader[d].fence IN
    /\ reader[d] # Idle
    /\ IF mine
       THEN \E text \in BOOLEAN :
              row' = [row EXCEPT ![f].state = IF text THEN "DONE" ELSE "FAILED", ![f].text = text]
       ELSE UNCHANGED row
    /\ reader' = [reader EXCEPT ![d] = Idle]
    /\ UNCHANGED <<session, expired, past, bytes, lock, chosen, input, saved, bare, job, sweep>>

\* A reader dies in the middle of a file; the claim stays and goes stale.
ReaderDies(d) ==
    /\ reader[d] # Idle
    /\ reader' = [reader EXCEPT ![d] = Idle]
    /\ UNCHANGED <<session, expired, past, row, bytes, lock, chosen, input, saved, bare, job, sweep>>

\* Every few minutes the reader's loop blanks the text of every session no form can use.
ClearExpiredText ==
    LET over == {f \in Files : row[f].text /\ Finished(row[f].form)} IN
    /\ over # {}
    /\ row' = [f \in Files |-> IF f \in over THEN [row[f] EXCEPT !.text = FALSE] ELSE row[f]]
    /\ UNCHANGED <<session, expired, past, bytes, lock, chosen, input, saved, bare, job, reader, sweep>>

-----------------------------------------------------------------------------
(* The sweeper                                                             *)

\* A session is listed; by the time its turn comes it may be another's, or no longer due.
SweepList(s) ==
    /\ sweep = Asleep /\ Sweepable(s)
    /\ sweep' = [sweep EXCEPT !.step = "listed", !.form = s]
    /\ UNCHANGED <<session, expired, past, row, bytes, lock, chosen, input, saved, bare, job, reader>>

\* It is locked if nobody holds it and asked again under the lock; whether the whole of
\* it goes, or only its files, is decided there.
SweepLock ==
    LET s == sweep.form IN
    /\ sweep.step = "listed"
    /\ IF Free(s) /\ Sweepable(s)
       THEN /\ lock' = [lock EXCEPT ![s] = Sweeper]
            /\ sweep' = [sweep EXCEPT !.step = "locked", !.whole = Stale(s)]
       ELSE sweep' = Asleep /\ UNCHANGED lock
    /\ UNCHANGED <<session, expired, past, row, bytes, chosen, input, saved, bare, job, reader>>

\* Bytes first, then rows.
SweepBytes ==
    /\ sweep.step = "locked"
    /\ bytes' = WithoutBytes(sweep.form)
    /\ sweep' = [sweep EXCEPT !.step = "emptied"]
    /\ UNCHANGED <<session, expired, past, row, lock, chosen, input, saved, bare, job, reader>>

SweepCommit ==
    LET s == sweep.form IN
    /\ sweep.step = "emptied"
    /\ row' = [f \in Files |-> IF f \in RowsOf(s) THEN NoRow ELSE row[f]]
    /\ session' = [session EXCEPT ![s] = IF sweep.whole THEN "gone" ELSE @]
    /\ expired' = expired \ {s}
    /\ lock' = [lock EXCEPT ![s] = None]
    /\ sweep' = Asleep
    /\ UNCHANGED <<past, bytes, chosen, input, saved, bare, job, reader>>

\* The sweeper is killed, or an object cannot be deleted: the transaction rolls back.
SweepStops ==
    /\ sweep.step \in {"locked", "emptied"}
    /\ lock' = [lock EXCEPT ![sweep.form] = None]
    /\ sweep' = Asleep
    /\ UNCHANGED <<session, expired, past, row, bytes, chosen, input, saved, bare, job, reader>>

-----------------------------------------------------------------------------
(* Time                                                                    *)

Expire(s) ==
    /\ Usable(s)
    /\ expired' = expired \cup {s}
    /\ UNCHANGED <<session, past, row, bytes, lock, chosen, input, saved, bare, job, reader, sweep>>

PastRetention(s) ==
    /\ session[s] = "spent" /\ s \notin past
    /\ past' = past \cup {s}
    /\ UNCHANGED <<session, expired, row, bytes, lock, chosen, input, saved, bare, job, reader, sweep>>

\* Every form is drawn and no request has a step to take but to open one more.
Done ==
    /\ \A s \in 1..MaxDrawn : Known(s)
    /\ \A r \in Requests :
         job[r].step \in {"unsent", "over"} \/ (At(r, "stage", "seen") /\ job[r].seen = None)
    /\ UNCHANGED vars

RequestStep(r) ==
    \/ \E s \in Forms : StageRefused(r, s) \/ StageWrite(r, s)
    \/ StageFails(r) \/ StageCommit(r) \/ StageAnswered(r) \/ RemoveFile(r)
    \/ Claim(r) \/ Promote(r) \/ Commit(r) \/ ClearText(r) \/ DiscardObjects(r) \/ GiveUp(r)

ReaderStep(d) ==
    \/ \E f \in Files : ClaimFile(d, f)
    \/ Settle(d) \/ ReaderDies(d)

SweepStep == (\E s \in Forms : SweepList(s)) \/ SweepLock \/ SweepBytes \/ SweepCommit \/ SweepStops

Next ==
    \/ \E s \in Forms : Draw(s) \/ Expire(s) \/ PastRetention(s)
    \/ \E r \in Requests, s \in Forms, f \in Files : PostStage(r, s, f) \/ PostRemove(r, s, f)
    \/ \E r \in Requests, s \in Forms : PostCreate(r, s)
    \/ \E r \in Requests : RequestStep(r)
    \/ \E d \in Readers : ReaderStep(d)
    \/ ClearExpiredText
    \/ SweepStep
    \/ Done

Spec == Init /\ [][Next]_vars

FairSpec == Spec /\ WF_vars(ClearExpiredText)

-----------------------------------------------------------------------------
(* Properties                                                              *)

\* A drawn form is saved once (claim_for_create): its token files one Teema, and once it
\* has, a repeated post of the form files another only after the token's retention.
FormSavedOnce ==
    \A s \in Forms : saved[s] <= 1 /\ (saved[s] = 1 /\ s \in bare => s \in past)

\* What a form that can still be saved offers is there to be saved: a failed save has
\* deleted nothing and no sweep has touched it (consume_session, sweep_stale_sessions).
UsableIsWhole ==
    \A f \in Files : row[f].form # None /\ Usable(row[f].form) => bytes[f] = row[f].form

\* However the stagers race, the files of the forms not yet saved stay within the quota
\* (stage_uploads: quotas before bytes, under one lock).
QuotaHeld == Cardinality(Unconsumed) <= MaxStaged

\* A save pressed on a form that could still be used files every file the form then had,
\* staged or carried, whatever expires, is staged or is swept meanwhile; only a file taken
\* back is left out. That none is filed twice leans on without_staged_copies. A form that
\* had expired before the press offers nothing: its staged files are dropped by design
\* (promote_intake_files).
PressedIsFiled ==
    \A r \in Requests : At(r, "create", "promoted") /\ job[r].guarded =>
        /\ job[r].promoted \cap job[r].attached = {}
        /\ \A f \in job[r].files \cup job[r].offered : f \in job[r].promoted \cup job[r].attached \/ row[f].removed

\* The text of a form no one can use any more does not stay, though a reader may write it
\* after the save has blanked it (clear_expired_intake_text).
TextGoes == []<>(\A f \in Files : row[f].text => Usable(row[f].form))
=============================================================================
