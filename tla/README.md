# Juristid: a verification project

Juristid is the case system of a legal department: one Django application on
PostgreSQL 18 under READ COMMITTED, served by several web processes beside an intake
reader, a search refresh worker and operators' management commands, the document
extraction worker among them. All of them share one database and little else, so what is hard about
the program is what transactions of different processes do to each other. That
is what these modules model.

TLC checks every property below on small instances; TLAPS proves those that
matter most for every value of the constants. `PROJECT.json` is the index: the
runs, the mutants that show what each property catches, the source lines of each
definition, the hazards, the findings and the theorems.

```
tlc -workers 4 -config McpWritesPeople.cfg MCMcpWrites    # a run
tlapm McpWritesProofs.tla                              # the proofs of a module
```

## 1. Inventory

Every component is listed in `PROJECT.json`; this is what each one keeps and does,
and where it is hard.

### Modelled

| component | state it keeps | operations | what is hard | what makes it correct |
|---|---|---|---|---|
| document extraction queue (`app/documents/extraction/orchestrator.py`, its worker and rebuild commands) | `DocumentVersion` extraction columns (state, attempts, claim stamp), derivatives, fragments, email attachments | claim, parse, publish, record a failure, reclaim, rebuild, discard | a parse runs outside every transaction and may outlive its claim; a worker may die anywhere; rebuilds force claims | only the holder of the newest claim writes; readers always have one text of a kind and it never goes away |
| AI write gateway (`app/mcp_writes`) | `McpWriteProposal`, `McpWriteApproval`, the authenticator's last step | prepare, approve (page and code), decline, withdraw, commit, expire | the commit is retried and runs in parallel with itself, with the page, with revocations and with colleagues | what was approved is saved once, over the state that was shown, while the right stands |
| AI connection access (`app/mcp_access`) | `McpAccessGrant`, `McpAuthorizationCode`, `McpToken` | consent, exchange, refresh, retry, reuse detection, revocation, write decisions | two refreshes of one token, revocation against issuance, lock order | one live refresh token; a revoked grant leaves nothing alive; no scope outlives its decision |
| search projection (`app/search`: indexing, generations, freshness, signals) | `SearchDocument` rows by generation, `SearchGeneration`, `SearchRebuildDebt` | refresh in the saving transaction, full rebuild in a new generation, debt and its discharge | a rebuild runs beside every save; renames reach the whole corpus later; rebuilds are killed | a reader has one complete generation; a saved record is found; a stale name is owed a rebuild |
| matters: closing, continuing, deleting, relating (`app/matters/services.py`, `locks.py`, `deletion.py`; `app/related_materials`) | `Matter.is_open`, `superseded_by`, `deleted_at`, relations, citations | close, continue under another Matter, reopen, relate, cite, delete | a closure follows a chain it read without locks; two closures of disjoint pairs can close a ring; a deletion refuses on what points at it | the continuations end; nothing live points at a deleted Matter; no ring of waiting writers |
| workflow (`app/workflow`: services, plan, follow_ups; `app/matters/closure_work.py`) | `NextAction`, `MatterPlanStep`, `OpinionFollowUp`, engagements, overviews, who closed the Matter | set, change, complete and cancel steps, promote the next one, start and skip a plan step, send an opinion and check for its answer, close with a confirmed warning, reopen | one save does several of these at once, and what a page shows is older than what it saves over | one current step; a closed Matter owes nothing; a watch has one live check; a closure ends only what its warning named |
| submissions and documents (`app/submissions/services.py`, `app/documents/services.py`, `set_matter_visibility`) | `Submission` with its final version and further files, `Document` with its versions, removal and restriction, `Matter.visibility` | draft, attach, select, send, register, compose, withdraw, supersede; file, add a version, remove; restrict and release | the opinion, the file and the Matter are three rows that three calls change, each judging the other two; a save waits for the search gate between judging and committing | no opinion rests on a file more people may read than the opinion; sent files stay; each commit is a call that could have been made alone |
| intake staging and its reader (`app/matters/intake_staging.py`, `intake_extraction.py`, `staging.py`) | `MatterIntakeSession` (a form's files and its one-time token), `MatterIntakeFile` with its claim and text, the staged bytes | draw a form, stage, take back, save; read a file's text; blank it; sweep | a save runs beside an upload of the same form, the reader and the sweeper; bytes are outside every transaction; a form is posted again days later | a form is saved once; it files what it had on it, once each; a failed save loses nothing; quotas hold; no text outlives its form |

They interact through the database: a publish of a file's text ends with the refresh
of its search rows, in its own transaction; the write gateway asks the access
component, inside its commit, whether the person may write, and saves a Matter whose
`post_save` refreshes search; a closure ends the steps, checks and waits of its Matter; a
sent opinion begins a follow-up. These calls are part of the calling module's actions:
`Publish` in `SearchIndex`, `Writer` and `MayWrite` in `McpWrites`,
`TakeGate` in `EvidenceLocks`, `EndLiveWork` and `Schedule` in `LiveWork`.

### Not modelled yet, or not to be

| component | state and operations | hard behaviour | status |
|---|---|---|---|
| enrolment, personal codes, throttle (`app/mcp_access/services.py`) | links, authenticators, the ladder of locks after wrong codes | lock order of link, grant and account; the ladder's counters under retries and unlocks | planned (McpGrants) |
| documents: held uploads, stored bytes, previews (`app/documents`) | held files of a session, stored bytes | a publish that rolls back leaves bytes; the pruner meets a late publish | planned |
| matters: what a creation writes, change journal, board, timeline (`app/matters`) | the records | one save does all of it in one transaction under the Matter's lock | planned in part |
| accounts (`app/accounts`) | sessions, sign-in throttle, shared gate, mutation tokens | counters under parallel failures, epochs against sessions | planned |
| response deadlines, notifications, stages | deadlines, advisory-locked sending, stage names and dates | one send per deadline | planned; a stage matters to `LiveWork` only in that one ends the Matter |
| intelligence, Lovable sync, legacy import | observed texts, pilot decisions, mirror of an older system | long jobs that resume | planned in part; the importer ran once |
| parsers and OCR | none | what a file says | an input of `Extraction` |
| search queries, reporting, read-only AI server, pages | none of their own | none across transactions | reads only |
| taxonomy, organisations, reference data, audit, core | vocabulary, append-only events, authorization | little of their own | where another module meets them (merges, renames) they are its actions |
| deployment, backup, CI, tests | outside the program | | not modelled |

## 2. Plan

Order: the queue and the write gateway first (they hold user data and are the most
concurrent), then tokens, then search; next what joins them.

1. **Extraction**, refining **ServedText**; proofs in **ExtractionProofs**. Done.
2. **McpWrites**, refining **ApprovedChange**; proofs in **McpWritesProofs**. Done.
3. **McpTokens**; every property of its run proved in **McpTokensProofs**. Done.
4. **SearchIndex**; the safety properties of its runs proved in **SearchIndexProofs**. Done.
5. **Continuations**; every property of its run proved in **ContinuationsProofs**. Done.
6. **LiveWork**, refining **OpinionWatch**; every property of its run proved in
   **LiveWorkProofs**. Done.
7. **SentEvidence**, and **EvidenceLocks** which refines it; the properties of both and
   the refinement proved in **SentEvidenceProofs**. Done.
8. **McpGrants**: enrolment links, personal codes and their ladder, account locks.
   Abstract: an allowance of wrong codes.
9. A publish beside a document's rename and removal, in **SearchIndex**. Done; what is left
   is a re-reading beside them, whose rows replace those of the reading before.
10. **IntakeStaging** with its reader and sweeper. Done, its invariants proved.
    **EvidenceStore**: the stored bytes, rolled-back publishes and the pruner.
11. **Accounts** (throttle, epochs, sessions), **Deadlines** (notifications, response
    deadlines), **EmailChain** (nested messages and their depth).

Runs of the later modules follow these: two of each actor, one or two records, one
failure of each kind, and liveness where a deployed loop obliges it. To keep the whole project quick to
check, a later module's run takes the place of a narrower one (`search_debt` becomes part
of `search_rebuilds` once the two fit in one).

## 3. Modules

A transaction that holds what it needs from its first read to its commit is one
action. A transaction is split wherever another actor can act between two of its
statements: before a lock it may wait for, between a read without a lock and the use
of what was read, and between a statement's snapshot and the rows it visits. Abandoned
requests are modelled where the code goes on without its caller. Calls that are refused
and change no row are stutters.

### Extraction (with ServedText, MCExtraction, ExtractionProofs)

| model | code |
|---|---|
| `version[v]`: state, attempts, stamp, age | the `DocumentVersion` row: `extraction_state`, `extraction_attempts`, `extraction_claimed_at` |
| `rows` | `DocumentDerivative`, with the pass that wrote each and whether it is ACTIVE |
| `worker[w]` | where a worker process is in `extract_document_version` |
| `ReadQueue`, `ClaimVersion`, `Attempts`, `ForceClaim` | the worker's loop, `claim_version` and the budget it keeps, the rebuild command's forced claim |
| `PublishBegin`, `RegisterEmailAttachments`, `WriteDerivatives`, `PublishCommit` | `_publish`, in its order, under the version's row lock |
| `RecordFailure`, `FinishWithoutDerivatives`, `LoseClaim`, `PublishRaises`, `LoadRaises` | each other way out of a pass; a storage error of `load` also ends the command |
| `Crash`, `ClaimAges`, `Sleep` | a killed process, `EXTRACTION_STALE_CLAIM_MINUTES` going by, the poll |

A claim stamp is the clock's reading at the claim; the model counts claims, so two
claims never have one stamp: a clock that repeats a reading for a version is left out. What a parse answers (`ParseKinds`, attachments, a failure
that can be retried or not) is chosen freely. `claims` counts how often a version was
claimed since somebody last asked for it; no guard reads it. The last statement of a
publish refreshes the version's search rows. Nothing in the queue reads those, and what
is in them depends on saves, removals and rebuilds beside it: that statement is `Publish`
of `SearchIndex`.

`ServedText` is what readers are promised: per version and kind, the pass whose text is
served, replaced in one step by a newer one and by nothing else.

### McpWrites (with ApprovedChange, MCMcpWrites, McpWritesProofs)

| model | code |
|---|---|
| `proposal`, `approval` | `McpWriteProposal`, `McpWriteApproval` |
| `Preview`, `Prepare` | the two reads of one prepare (`resolve_matter`, then `op.state`) and the row it stores |
| `Call`, `Begin`, `Ask`, `LockTarget`, `Execute`, `ExecuteRefused`, `Abort` | `commit`: the verified token, the proposal's row lock and its questions, the second question, the Matter's lock, the savepoint, an unexpected error |
| `Post`, `Check`, `UseRecent`, `ConfirmCode`, `Approve` | `_approve`: the unlocked read, the check under the lock, the code's own transaction, the approval under the lock |
| `Decline`, `Withdraw`, `ExpireAtPage` | the page's other buttons, and what it does to a proposal past its time |
| `EditMatter`, `GrantWrite`, `RevokeWrite`, `RevokeGrant`, `BeginFamily`, `EndFamily` | colleagues, operators, the access component |
| `Lapse`, `Overrun`, `Forget` | `expires_at` of the proposal and of its approval, the remembered code's window |

A commit reads the clock once at its start, as `commit` does; time that goes by
while it waits counts after it. `made` and `change` record what was saved, over which
state and under whose approval; no guard reads them.

`ApprovedChange` promises one approval, then one compare-and-set of the Matter.

### McpTokens (with MCMcpTokens, McpTokensProofs)

| model | code |
|---|---|
| `grant`, `account`, `code`, `pairs`, `dead`, `writes`, `started` | `McpAccessGrant`, the account's epoch and eligibility, `McpAuthorizationCode`, and the family's `McpToken` rows: how many pairs, which are revoked, which carry the write scope, the decision they began under |
| `Authorize`, `Exchange`, `ExchangeRefused`, `Issue` | `authorize`, `_exchange_code` with the code's row held, then the grant's |
| `Present`, `Answer`, `Retry`, `Rotate` | `_refresh` with the token's row held; `_retried_rotation`; then the grant's lock |
| `RevokeToken`, `RevokeGrant`, `Begin`, `Visit`, `EndFamily`, `EndGrant` | revocations: an UPDATE is a snapshot of the rows it will visit, and then one row at a time, each of which it may wait for |
| `Abort` | a transaction that PostgreSQL rolls back |

Left out: access tokens' own expiry, PENDING grants, the foreign-key locks on the
account's row, and client registration.

### SearchIndex (with MCSearchIndex, SearchIndexProofs)

| model | code |
|---|---|
| `text`, `names` | the committed text of each record and the names of organisations, people and tags, as version numbers |
| `rows[g][s]`, `state[g]`, `debt` | `SearchDocument`, `SearchGeneration`, `SearchRebuildDebt` |
| `Save`, `MergeTag`, `ReadRecords`, `TakeGate`, `WriteRows`, `Commit` | a saving transaction and its `post_save` refresh; a Matter's refresh reads before the gate, every other kind's after it |
| `Collide` | two transactions replacing the row of one Matter: one-row-per-source rolls the second back |
| `Rename` | `_mark_on_rename`: the new name and its debt in one transaction |
| `Claim`, `TakeRebuild`, `FailUnfinished`, `DiscardGenerations`, `BeginGeneration`, `FillBatch`, `Activate`, `Discharge` | `rebuild_and_discharge` and `rebuild_all`, one action per transaction |
| `FailRebuild`, `KillRebuild` | `_fail`; a killed process, whose session lock goes and whose generation stays |

A batch is one record. A batch that loses a row lock rolls back and is run again, which
is the batch not having run yet. Deletions of records are left out: the
foreign key's cascade takes their rows. `Files` are the fragment rows of an extracted file:
`Publish` is `Extraction`'s publish seen from the search index, `Save` of a file a rename of
its document, `Remove` its removal (`refresh_on_document_change`, which refreshes what text
it sees: `Refreshes`). A file is read once here; re-readings are `Extraction`'s.

### Continuations (with MCContinuations, ContinuationsProofs)

| model | code |
|---|---|
| `open`, `successor`, `deleted` | `Matter.is_open`, `superseded_by`, `deleted_at` |
| `related`, `cited` | `MatterRelation`, `MatterBackgroundMaterial` with another Matter's submission |
| `lock[m]` | the Matter's row lock, FOR NO KEY UPDATE |
| `BeginClose` to `BeginUncite`, `ReadChain` | what each call reads before it has its locks: `close_matter` with a successor follows the chain first |
| `LockNext` | `lock_matters_in_order`: one row at a time, by primary key |
| `Decide`, `OwnedRows`, `Walk` | the questions asked again under the locks, the rows a deletion collects, the walk of `_refuse_continuation_cycle` one row at a time |
| `WriteClose`, `WriteReopen`, `WriteDelete`, `WriteRelation`, `WriteCitation` | the writes of each call and its commit |
| `RollBack` | a refusal, a lost connection, a killed process |

A Matter is its key, so the order of the keys is the order of the numbers. Texts, days and
audit rows are left out.

### LiveWork (with OpinionWatch, MCLiveWork, LiveWorkProofs)

Every one of these services locks the Matter before it reads what it acts on
(`lock_matter_for_write`), so a transaction is one action; what is stale is what it was
asked for, and that is chosen freely.

| model | code |
|---|---|
| `act` | the `NextAction` rows: their status, the opinion a check is for, whether the step carries the plan step |
| `plan` | `MatterPlanStep.state` of a step that is started as an action |
| `opinion`, `watch` | `Submission.status`, `OpinionFollowUp.state` and whether its end was the closure's |
| `other` | website overviews and engagements that wait for feedback |
| `closer`, `warned` | `Matter.closed_by`; the digest of the work the last warning named |
| `SetCurrent`, `Promoted`, `Marked` | `set_next_action`, `promote_next_planned_action`, the end of a step |
| `SetNextAction` to `CompleteAndSet` | `set_next_action`, `change_current_action`, `add_unnamed_step`, `change_planned_action`, `cancel_planned_action`, `finish_planned_action`, `complete_next_action` and `complete_current_action`; `establish_opinion_preparation_action` is `SetNextAction` or nothing |
| `StartStep`, `SkipStep` | `activate_plan_step`, `skip_plan_step` |
| `SendOpinion`, `SendFinishing`, `SendOnNewMatter`, `EndCheck`, `CheckAgain`, `Restart`, `Withdraw` | `follow_ups.py`, and the pages that send an opinion |
| `DrawWarning`, `Confirmed`, `EndLiveWork` | `live_work_at_closure` and its digest, `refuse_unconfirmed_closure`, `end_live_work_for_closure` |
| `Close`, `CompleteAndClose`, `SendAndClose`, `SendFinishAndClose`, `CloseByRegister`, `Reopen` | each save that ends the Matter, the register's closure, `reopen_matter` |

`acknowledge_review`, `reschedule_check`, `follow_sent_date_correction` and
`follow_recipient_correction` change days and texts only and are left out, as are the plan
steps that a form starts (`activate_plan_step` refuses them) and the step texts carried
over from the older system. Days decide which planned row is promoted; without days, any
may be. `OpinionWatch` promises what becomes of each sent opinion: it is watched until an
answer is recorded, a person ends the watch, it is withdrawn, or its Matter closes; only
the last can be taken up again.

### SentEvidence and EvidenceLocks (with MCEvidenceLocks, SentEvidenceProofs)

`SentEvidence` is the services as if each call happened at one moment: what it asks
(`CanSelect`, `CanSend`, `CanRegister`, ...) and what it writes (`DoSelect`, ...).
`EvidenceLocks` runs the same calls as transactions that take their rows one by one in the
order of `app/matters/locks.py`, ask under the locks, wait for the gate of the search index
with what they decided, and commit; a rebuild's batch holds the gate and refers to every
row. That each commit is still a call that could have been made alone is the refinement
`ImplementsSentEvidence`.

| model | code |
|---|---|
| `doc[d]`: versions, restricted, working, removed | `Document` and its `DocumentVersion` rows, `DocumentLink` rows to a submission, `removed_at` |
| `sub[s]`: status, restricted, final, further | `Submission`, `final_version`, the further sent files |
| `restricted`, `open` | `Matter.visibility`, `Matter.is_open` |
| `Covers`, `Usable`, `NoneStranded` | `check_evidence_is_usable`, `_submissions_left_above_their_evidence` |
| `Order`, `TakeRow`, `Decide`, `Commit` | the locks each service takes, its questions, its writes |
| `TakeGate`, `AskGate`, `EnterGate`, `LeaveGate`, `GiveUp` | `_hold_off_a_rebuild`, and the batch's bounded waits |

An attachment of an email becomes a new Document on a closed Matter too (`Extraction` has
it); it has no opinion and is left out. `create_submission`, `supersede_submission` and
`set_matter_visibility` have no page and are called by services and commands;
`set_legal_hold` has no caller and is left out.

### IntakeStaging (with MCIntakeStaging, IntakeStagingProofs)

| model | code |
|---|---|
| `session[s]`, `expired`, `past` | a `MatterIntakeSession`: open, consumed or deleted; past `expires_at`; past `INTAKE_FORM_TOKEN_RETENTION_SECONDS` |
| `row[f]` | the `MatterIntakeFile`: its session, `removed_at`, the extraction state and attempts, whether text is stored |
| `bytes[f]` | the prefix of the staging volume under which a file's bytes lie |
| `lock[s]` | the session's row lock, of a stager, a save or the sweeper |
| `input[s]` | what the page's file input still holds (`static/js/app.js`) |
| `job[r]`: `PostStage`, `PostRemove`, `PostCreate`, `Arrives` | a request: the session `get_session` found for it, the files it carries |
| `StageWrite`, `StageFails`, `StageCommit`, `StageRefused`, `StageAnswered` | `stage_uploads` under the quotas' lock, its clean-up, the page's answer |
| `Claim`, `Promote`, `Commit`, `ClearText`, `DiscardObjects` | `matter_create`: `claim_for_create`, `promote_intake_files` and `without_staged_copies`, then `consume_session` after the commit |
| `GiveUp` | a refusal (a file whose bytes are missing, the check for a Teema just filed) or a killed process |
| `ClaimFile`, `Settle`, `ReaderDies`, `ClearExpiredText` | the reader's queue, its fenced outcome, and what its loop does every few minutes |
| `SweepList` to `SweepStops` | `sweep_stale_sessions`: a candidate, then its own transaction, bytes before rows |

`saved` and `bare` record what was filed under a token and by a post that found none; no
guard reads them. One person's forms, one file per request, sizes counted in files: the cap
of a form, the quota per person and the count of active sessions are the same count under
the same lock. Who owns a session, form validation, files held over a refused save and what a
creation writes besides its files are left out. A reader's claim may be taken for stale at
any age. A request that ends before it holds anything changes nothing and is no step.

## 4. Runs

One run per question that is worth its time; a run checks several properties of one
instance wherever the instance suits them all.

| run | shows | bounds, and why they are enough |
|---|---|---|
| `extraction` | the newest pass is served, one outcome per pass, attachments, the claims of one request, the refinement of `ServedText` (by which nothing served is lost), and that a verdict and its text stand until somebody asks again | 3 processes, 1 version (versions share nothing but the workers), 2 attempts, 2 forced rebuilds: a stale claim, its successor and a rebuild are in flight at once |
| `writes_people` | one save, as the right person approved it; the refinement of `ApprovedChange` | 2 people with a connection each, 1 proposal, 2 threads, 1 tab, 2 states of the Matter: commit against commit, against the page, against a colleague and against the other person |
| `writes_live` | every commit ends; a code approves one change | 2 proposals for one Matter, 2 threads, 1 tab, the remembered-code window open so that both can be approved; one of them may lapse, run over or be edited: both locks contended. That two tabs do not share a code either is proved (`OneCodeEach`) |
| `tokens` | no write scope without a standing decision; one live refresh token; nothing left of a revoked grant; a family its newest holder ends is over | 2 requests, 2 pairs, 2 write decisions, 1 epoch: a decision revoked and given again around an exchange and a rotation, the newest token against the one before it |
| `search_rebuilds` | complete generations; saves found; names owed | 1 Matter, 1 entry, 2 transactions, 2 rebuilders, 1 failure, 4 generations: a rebuild that fails, one that repairs it, a save, a rename and a merge during either |
| `search_debt` | debts are paid | the worker, 2 renames, 1 failure, saves, a publish and a removal contending for the gate |
| `continuations` | the continuations never close a ring, nothing live points at a deleted Matter, no ring of waiting writers | 4 Matters, 2 transactions at once and 3 in all, from no continuation and from two that two further closures could join into a ring |
| `live_work` | all that `LiveWork` states of steps, checks, warnings and closures, and the refinement of `OpinionWatch` | 4 steps (a current one, a planned one, a check and the check after it), 1 opinion, 1 wait; every history of these |
| `evidence` | no ring of waiting transactions and rebuild; the restriction of evidence; sent files; the refinement of `SentEvidence` | 2 opinions, 2 files of 2 versions, 2 transactions at once and 2 in all, from every state of the Matter with its files filed and one opinion begun, lettered or sent: what two calls can do to each other shows in two |
| `intake` | a form is saved once; its save files what it had on it; what an open form offers is whole; quotas; the text of a finished form goes | 1 form drawn and 1 that a stage may open, 3 requests, 3 files, a quota of 2, 1 reader with 1 attempt: a save and its repetition, an upload in flight beside a save, two uploads into two forms, each beside the sweeper |

Each bound is a guard or a constant of its module, named among its CONSTANTS. Symmetry
is used on extraction workers, gateway threads, tabs, requests and writing transactions, in runs without
liveness only.

Deadlock is checked except where the system may really stop: in the liveness run
of `McpWrites` once every proposal has its verdict, the grant is revoked and all
codes are spent; in the search runs once all edits are made, the debt is paid and no
generation number is left for an operator's rebuild; in `continuations` once the run's
transactions are over. That transactions do not wait for one another in a ring is a
property there and in `evidence` (`NoWaitCycle`), since a third party goes on beside them.
In `intake` a deadlock would be a request that waits for ever; the runs that end are told
apart by `Done`.

### Fairness

* `Extraction` states safety only: `run_extraction_worker` is "Not a deployed service" by
  its own words, run by hand with a limit, and nothing restarts it or goes on with what it
  left. That a queued file is read at all is up to whoever runs it.
* `McpWrites`: a thread's steps are weakly fair; those that wait for a row are strongly
  fair, because PostgreSQL queues the waiters of a row and grants it in turn.
* `McpTokens`, `Continuations`, `LiveWork` and `EvidenceLocks` state safety only: what
  they do next is up to people, and no fairness is assumed of them.
* `IntakeStaging`: the reader's loop blanks expired text every few minutes whatever else it
  finds to do, and its container is restarted (`ClearExpiredText`, weak). Nothing is
  assumed of requests, of what the reader makes of a file, or of the sweeper.
* `SearchIndex`: transactions and a rebuild's own steps go on (weak), the worker polls,
  and the exclusive side of the gate is granted in turn (strong): a shared request
  queues behind a waiting batch. Failures are bounded by `MaxFailures`: a rebuild that
  fails for ever pays nothing.

## 5. Findings

Two runs show the code doing something else than its documents or comments say. The
source lines and the quoted sentences are in `PROJECT.json`.

| run | what happens |
|---|---|
| `writes_preview` | a colleague's edit between the two reads of a prepare is overwritten under a preview that did not show it |
| `removed_found` | a document removed while the text of its file is being published is found by that text until its rows are rebuilt |

Modelling also met these, which no run states as a property:

* reuse detection revokes the tokens its statement's snapshot shows: the pair of a rotation
  that commits while the statement waits for that rotation's token lives on (`Visit`,
  `Rotate`), where `models.py` of `app/mcp_access` says the whole family is revoked;
* a re-reading that turns a PDF's text from one kind to the other leaves both served and
  found, the older one included: a pass replaces the live row of its own kind only
  (`WriteDerivatives`);
* a tag merge reprojects Matters it does not hold and can write a Matter's old text over
  the row of a concurrent save (`MergeTag`); hence the search properties allow for a merge;
* a storage error other than a missing file ends the extraction worker with the row
  PROCESSING (`LoadRaises`), for a later run of it to take once the claim is stale;
* a code can be accepted for a proposal that another tab closes between the page's check
  and the code (`Check`, `ConfirmCode`, `Approve`): the approval is refused, the code spent;
* `revoke_grant` takes the grant and then its tokens, a rotation a token and then the
  grant; the transaction PostgreSQL rolls back can be the revocation (`Abort`);
* a Matter's refresh reads names before it has the gate, so a save that waits there can
  write an old name after a rebuild claimed and paid its debt (`ReadRecords`,
  `TakeGate`); hence `ChildNamesOwed` speaks of the other kinds only;
* in the other order of that merge and save, the save takes the merge's names out
  of the row, and two refreshes that meet in the rows roll one business write back
  (`Collide`);
* a form that expired unsaved is deleted with its token, so the same page posted twice
  after that files two Teemas unless the check for a Teema just filed, which a person may
  confirm past, stops the second (`Claim` of a form that is gone, `bare`); the ADR and
  `claim_for_create` speak of a form past its grace period as saved exactly once;
* when a form expires and is swept between a save's look at its session and its claim, the
  Teema is filed without the staged files and nothing says so (`Promote` unguarded);
* a stage that waited for the row of a form being saved puts its file on the spent
  session: the row is locked and not asked again (`StageWrite`);
* a stage that waited while its session was deleted fails at the commit, on the foreign
  key, after `stage_uploads` returned; it and a stage killed in a session it opened
  itself leave bytes that no sweep looks for, since a sweep goes by rows (`StageCommit`,
  `GiveUp`).

## 6. What is proved

No theorem assumes anything but the modules' named assumptions on constants (finite
bounds are natural numbers, `None` is none of the ids, each family has one person).

**ExtractionProofs.** The inductive invariant is `ClaimFence` with `TypeOK`
(`FenceHolds`): a stamp above zero belongs to a claim that was made; only the pass whose
stamp is on the version is inside a publish of it, and it holds the row's lock; every
row on record is older than the claim in progress. It is needed because the other
invariants say nothing of the passes in flight, and each publish's effect depends on
which pass it is. From it follow one live derivative per kind, the newest pass's, and one outcome per
pass (`ServingIsOrdered`, `NewestPassServes`, `PassesEndOnce`), attachments
(`AttachmentsOnce`), the action properties (`ServedStays`; `VerdictsStand`, since a settled
row bears no stamp that an overtaken pass could quote) and the refinement of `ServedText`
(`QueueServes`). The budget (`BudgetKept`) holds because the column of the row counts its
claims (`ClaimsAreCounted`), which is inductive beside the fence.

**McpWritesProofs.** The inductive invariant `Protocol` (`ProtocolHolds`) says: each
proposal's row lock and the Matter's lock have one holder; a commit past its checks finds
the row APPROVED over the state it read, and the write right it confirmed is the one of
the row's own family and person; a page handles its own person's proposals; what was
saved was approved. It is needed because a commit's later steps act on what its earlier
ones found, and only the locks keep that true in between. `SavesOnce`, `SavesAsApproved`
and the refinement `ProtocolSavesOnlyApproved` follow from it; `VerdictsStay` is the same
argument for a step. `OneCodeEach` has its own invariant, `CodesOK`: a code that a tab
has had accepted is no newer than the authenticator's last step, and neither an approval
nor another tab of the person holds it.

**SentEvidenceProofs.** The inductive invariant `FileInv` is the type, that every file an
opinion names is stored (`FilesAreStored`), `EvidenceAsRestricted` and `EvidenceKept`. None
of the last two is inductive alone: a restriction may be lifted only because each file was
judged stored and on the Matter when it was selected, and a removal is refused only for
what stands on the file. `EvidenceStaysRestricted`, `EvidenceStays` and the action property
`SentStays` follow for any number of opinions, files and versions, as theorems of `FileSpec`.

For `EvidenceLocks` the inductive invariant is `LocksInv` (`LocksHold`): `FileInv`; whoever
holds a row holds the Matter (`MatterFirst`); a transaction that has decided still may make its
call and holds the Matter, unless it drafts an opinion, which takes no row (`Behind`); what two
transactions create is their own (`CreatesApart`). It is needed because a transaction decides,
waits for the gate, and only then commits. What it decided can be changed in between by a draft
alone, and a draft names no file (`DraftLeaves`); a draft's own opinion is begun by nobody else
(`NotBegunStays`). So each commit is a step of `SentEvidence`: `CommitsAreCalls`, and with it
`TransactionsKeepEvidence`. `EvidenceWaitsAreNoRing` is short after that: the holder of the
Matter waits for the rebuild alone, the rebuild for those that have the gate, and of these all
but the holder are drafts, which wait for nothing.

**LiveWorkProofs.** First what each operation does to the rows (`EndsRows`, `PlansRow`,
`SetsCurrentRow`, `PromotesRow`, `EndsAll`). The inductive invariant `WorkInv` is the type,
one current row with the plan step carried by that row alone (`GoodRows`), the plan step
open while it is carried, one check for each watch and none otherwise (`Watched`), and
`ClosedOwesNothing`. A promotion keeps one current row only because there was one at most;
a plan step may be skipped only because no planned row carries it; a closure ends each
watch because each has its check; and a withdrawal on a closed Matter promotes nothing
because nothing there is live. All eight properties of the run follow: the four invariants
(`StepIsOne`, `ClosedOwes`, `WatchIsChecked`, `StepWork`), the action properties
(`HistoryStays` through `Remembers`, kept by every operation on rows; `ClosureTold` through
`ConfirmedEnd`; `DeskKept` through `PromotionFollows`) and the refinement (`PromiseKept`):
under `WorkInv` the fate of an opinion no longer depends on the rows (`FateNow`), so each
action is one of six steps of the opinions (`OpinionSteps`) and each of those a step of the
promise.

**ContinuationsProofs.** The inductive invariant `PointInv` is the type,
`NoPointerToTombstone` and, for each transaction, `Locked`: what its locks are worth at
each of its steps. A transaction that still prepares has held or is still to take every row
it needs, and takes them upwards; one that has decided holds them all and found them live;
a deletion that has decided has collected everything that names its Matter. It is needed
because a decision is written some steps after it was made. Each step of a transaction
keeps its own `Locked`, and everybody else's because it writes only to rows it holds
(`OthersStay`). `NothingPointsAtTombstones` follows. `WaitsAreNoRing` does too: among
transactions that wait, one waits for the highest row (`HighestAwaited`), its holder waits
for one higher still. A second invariant, `ChainInv`, gives `ContinuationsEnd`: the chain that a
closure has walked from the other Matter is in rows it holds and does not come to its own
(`Chain`), and nobody else writes the continuation of a row it does not hold
(`OwnContinuations`). A ring through the continuation it writes would then have a ring without
it inside. `NoContinuationCycle` is stated for that argument: no Matters' continuations go
round among themselves, which for finitely many is that none continues as itself.

**IntakeStagingProofs.** Two inductive invariants, one on the other. `SaveInv` says who may
end a session: a save under a token holds its open row, a save without one was posted from a
form whose row is gone, and the sweeper holds the row it deletes, found open or spent; it
deletes a spent one only past its retention. It is needed because a save and a sweep each
decide some steps before they write. `SavedOnce` follows. `StageInv` adds where the bytes
are: one request stages at a time, into a row it holds or inserts itself, and what it wrote is
there until it commits; a file is posted once; what a save clears away is of a session no
form can use; an open form the sweeper works on had expired. `UsableHeld` is part of it.
On both rest `Pressed`, whose invariant `PressedInv` follows the files of a form from its post
to its save, and `Quota`: what a stager counted stands until it commits (`QuotaInv`), since
nobody else adds a file (`RowsStay`, `JobSteps`).

**McpTokensProofs.** The inductive invariant (`LocksSuffice`) is the type, that no row has
two holders (`LocksApart`), what each transaction has read (`Stands`), the order of each
family's rows (`FamilyInOrder`) and `RevokedGrantIsOver`. `Stands` is needed because a
transaction acts on what it read some steps before: that the code it holds is unused, that
the token it holds is the newest of its family, that the rows its UPDATE has still to visit
are all the grant has. Each stays true because a step that could make it untrue needs a row
the reader has locked: every action `Respects` the rows that others hold, and a transaction
keeps what it read under such a step. A revoked grant leaves nothing alive because its holder
saw every token while none could be added; a family has one live refresh token because each
pair before the last was rotated under its own token's lock. All four invariants of the run
follow, for any number of families, requests, pairs and write decisions.

**SearchIndexProofs.** The inductive invariant (`ProjectionInOrder`) follows the rows readers
may find, now or after a swap: those of the active generation (`ActiveInOrder`) and those a
rebuild has filled in the one it builds (`FilledInOrder`). Each says the committed text of its
record, and a child's names that are current or owed a rebuild, and no rebuild that is paying
has claimed the debt of a name it does not show. It is needed because a rebuild reads each
record once and swaps much later. A refresh in flight has read a text it will commit and names
as new as any rebuild has filled (`TxnInOrder`, `ViewInOrder`), because nothing is filled or
swapped while it has the gate; saves have their records to themselves (`SavesApart`). From it
follow `ReadersCompleteHolds`, `SavedIsFoundHolds` and `ChildNamesOwedHolds`, for any number of
records, files, transactions and rebuilders. The Matter rows of a tag merge are outside it, as
they are outside the properties.

**Only model-checked.** Liveness (`CommitsEnd`, `DebtIsPaid`, `TextGoes`) is
beyond the prover, which has neither fairness nor ENABLED. Every invariant, action property and
refinement that a passing run checks is also a theorem. What the two runs of §5 find violated is
of course not. Four theorems state properties that no run checks apart, since a stronger one of
the same run does: `FenceHolds`, `ServingIsOrdered`, `ServedStays` and `VerdictsStay`.
