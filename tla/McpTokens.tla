------------------------------ MODULE McpTokens ------------------------------
(***************************************************************************)
(* The tokens of one AI connection grant: app/mcp_access/services.py       *)
(* (authorize, exchange_code, refresh, revoke_token, revoke_grant and the  *)
(* write decision) and the questions app/mcp_access/verification.py asks.  *)
(*                                                                         *)
(* A family is one authorization code and the pairs its exchange and later *)
(* rotations issue.  Each request is one READ COMMITTED transaction, split *)
(* where it may wait for a row lock and where a statement takes the        *)
(* snapshot it then works through; what it writes shows when it commits.   *)
(* Grants share no rows: revoke_all is a revocation of each in turn.       *)
(* A request refused without writing a row is a stutter.                   *)
(***************************************************************************)
EXTENDS Naturals, FiniteSets

CONSTANTS
    Families,  \* authorization codes, with the tokens each leads to
    Requests,  \* transactions of the web process and of the operator's commands
    MaxPairs,  \* bound: token pairs of a family
    MaxEra,    \* bound: write decisions of the grant
    MaxEpoch,  \* bound: security epochs of the account
    None

ASSUME BoundsAssumption ==
    MaxPairs \in Nat \ {0} /\ MaxEra \in Nat /\ MaxEpoch \in Nat
ASSUME NoneAssumption == None \notin Families

VARIABLES
    grant,    \* McpAccessGrant: status and write decision
    account,  \* the account's standing, read without a lock
    code,     \* McpAuthorizationCode rows
    pairs,    \* how many pairs each family has: pair i was rotated into pair i + 1
    writes,   \* the pairs of each family that carry the write scope
    started,  \* the write decision standing at family_started_at
    dead,     \* rows with revoked_at or used_at set
    stale,    \* rotations longer ago than the grace, families past their age
    txn,      \* what each request's transaction is doing
    ended     \* how each family was ended, as committed

access == <<grant, account>>
issue == <<code, pairs, writes, started>>
vars == <<grant, account, code, pairs, writes, started, dead, stale, txn, ended>>

Pairs == 1..MaxPairs
Eras == 0..MaxEra
Epochs == 0..MaxEpoch

GrantRow == <<"grant", None, 0>>
CodeRow(f) == <<"code", f, 0>>
Refresh(f, i) == <<"refresh", f, i>>
Access(f, i) == <<"access", f, i>>
CodeRows == {CodeRow(f) : f \in Families}
TokenRows(f) == {Refresh(f, i) : i \in Pairs} \cup {Access(f, i) : i \in Pairs}
Rows == CodeRows \cup UNION {TokenRows(f) : f \in Families}
Lockable == Rows \cup {GrantRow}

Code == [made : BOOLEAN, write : BOOLEAN, era : Eras, epoch : Epochs]
NoCode == [made |-> FALSE, write |-> FALSE, era |-> 0, epoch |-> 0]

Txn == [pc : {"idle", "successor", "answer", "rotate", "issue", "family",
              "revoking", "codes", "spending", "tokens"},
        family : Families \cup {None}, pair : 0..MaxPairs, era : Eras,
        newest : BOOLEAN, visit : SUBSET Rows, held : SUBSET Lockable]
Idle == [pc |-> "idle", family |-> None, pair |-> 0, era |-> 0, newest |-> FALSE,
         visit |-> {}, held |-> {}]

Init ==
    /\ grant = [active |-> TRUE, write |-> FALSE, era |-> 0]
    /\ account = [eligible |-> TRUE, epoch |-> 0]
    /\ code = [f \in Families |-> NoCode]
    /\ pairs = [f \in Families |-> 0]
    /\ writes = [f \in Families |-> {}]
    /\ started = [f \in Families |-> 0]
    /\ dead = {}
    /\ stale = {}
    /\ txn = [r \in Requests |-> Idle]
    /\ ended = [f \in Families |-> "no"]

-----------------------------------------------------------------------------
(* Rows, locks and rights                                                  *)

Free(row) == \A r \in Requests : row \notin txn[r].held
FreeFor(r, row) == \A q \in Requests \ {r} : row \notin txn[q].held

Issued(f) ==
    {Refresh(f, i) : i \in 1..pairs[f]} \cup {Access(f, i) : i \in 1..pairs[f]}
AllIssued == UNION {Issued(f) : f \in Families}
Unused == {CodeRow(f) : f \in {g \in Families : code[g].made}} \ dead

\* services.may_connect, and the epoch the code or token was issued under.
MayConnect == grant.active /\ account.eligible
StillMayConnect(f) == MayConnect /\ account.epoch = code[f].epoch

\* services.may_write.
MayWrite == MayConnect /\ grant.write

\* services.write_enablement_covers: begun at or after the standing decision.
Covers(era) == era = grant.era /\ era > 0

\* The event a transaction appends names its grant: by the time it commits,
\* nobody else holds the grant's row for update.
Recorded(r) == FreeFor(r, GrantRow)

Done(r) == txn' = [txn EXCEPT ![r] = Idle]

-----------------------------------------------------------------------------
(* Consent and exchange                                                    *)

\* authorize mints a code under the grant's lock, for the scope that is asked
\* for and may be given now.
Authorize(f, asked) ==
    /\ ~code[f].made
    /\ Free(GrantRow)
    /\ MayConnect
    /\ code' = [code EXCEPT ![f] = [made |-> TRUE, write |-> asked /\ MayWrite,
                                    era |-> grant.era, epoch |-> account.epoch]]
    /\ UNCHANGED <<access, pairs, writes, started, dead, stale, txn, ended>>

\* Mutant of Exchange: a code that was used is exchanged again.
ExchangeAgain(r, f) ==
    /\ txn[r].pc = "idle"
    /\ code[f].made
    /\ Free(CodeRow(f))
    /\ txn' = [txn EXCEPT ![r] = [Idle EXCEPT !.pc = "issue", !.family = f,
                                  !.era = grant.era, !.held = {CodeRow(f)}]]
    /\ UNCHANGED <<access, issue, dead, stale, ended>>

\* _exchange_code holds the code's row and reads the clock.  A code that comes
\* back takes what it was exchanged for with it.
Exchange(r, f) ==
    /\ txn[r].pc = "idle"
    /\ code[f].made
    /\ Free(CodeRow(f))
    /\ IF CodeRow(f) \in dead
       THEN /\ pairs[f] > 0
            /\ txn' = [txn EXCEPT ![r] =
                   [Idle EXCEPT !.pc = "family", !.family = f, !.held = {CodeRow(f)}]]
       ELSE txn' = [txn EXCEPT ![r] = [Idle EXCEPT !.pc = "issue", !.family = f,
                                       !.era = grant.era, !.held = {CodeRow(f)}]]
    /\ UNCHANGED <<access, issue, dead, stale, ended>>

\* Spent on its first presentation: expired, for another client, a wrong
\* verifier or resource.
ExchangeRefused(r) ==
    /\ txn[r].pc = "issue"
    /\ Recorded(r)
    /\ dead' = dead \cup {CodeRow(txn[r].family)}
    /\ Done(r)
    /\ UNCHANGED <<access, issue, stale, ended>>

\* Mutant of ScopeAtExchange: a code consented to under an earlier decision counts.
ScopeAtExchangeAnyEra(f) == code[f].write /\ MayWrite

ScopeAtExchange(f) == code[f].write /\ MayWrite /\ Covers(code[f].era)

\* The grant's lock, the account read afresh, and the first pair.
Issue(r) ==
    LET f == txn[r].family IN
    /\ txn[r].pc = "issue"
    /\ Free(GrantRow)
    /\ dead' = dead \cup {CodeRow(f)}
    /\ IF StillMayConnect(f)
       THEN /\ pairs' = [pairs EXCEPT ![f] = 1]
            /\ writes' = [writes EXCEPT ![f] = IF ScopeAtExchange(f) THEN {1} ELSE {}]
            /\ started' = [started EXCEPT ![f] = txn[r].era]
       ELSE UNCHANGED <<pairs, writes, started>>
    /\ Done(r)
    /\ UNCHANGED <<access, code, stale, ended>>

-----------------------------------------------------------------------------
(* Rotation                                                                *)

\* Mutant of TakeToken: the token is read without its row lock.
TakeTokenUnlocked(r, f, i, pc) ==
    txn' = [txn EXCEPT ![r] = [Idle EXCEPT !.pc = pc, !.family = f, !.pair = i,
                              !.newest = (i = pairs[f])]]

\* The presented token's row is held to the end of the transaction.
TakeToken(r, f, i, pc) ==
    /\ Free(Refresh(f, i))
    /\ txn' = [txn EXCEPT ![r] = [Idle EXCEPT !.pc = pc, !.family = f, !.pair = i,
                                  !.newest = (i = pairs[f]), !.held = {Refresh(f, i)}]]

\* _refresh, up to its next lock.  A token already rotated is a retry or a
\* reuse; a revoked or expired token is refused.  A family past
\* its age ends; its tokens expired with it, unless MCP_REFRESH_FAMILY_MAX_SECONDS
\* was lowered since.
Present(r, f, i) ==
    /\ txn[r].pc = "idle"
    /\ i <= pairs[f]
    /\ \/ i < pairs[f] /\ Refresh(f, i) \notin stale /\ TakeToken(r, f, i, "successor")
       \/ i < pairs[f] /\ Refresh(f, i) \in stale /\ TakeToken(r, f, i, "family")
       \/ /\ i = pairs[f] /\ Refresh(f, i) \notin dead
          /\ TakeToken(r, f, i, IF CodeRow(f) \in stale THEN "family" ELSE "rotate")
    /\ UNCHANGED <<access, issue, dead, stale, ended>>

\* _retried_rotation holds the successor too: unused and live, it is answered
\* again; anything else is reuse.
Retry(r) ==
    LET f == txn[r].family
        next == txn[r].pair + 1 IN
    /\ txn[r].pc = "successor"
    /\ Free(Refresh(f, next))
    /\ txn' = [txn EXCEPT
           ![r].pc = IF next = pairs[f] /\ {Refresh(f, next), Access(f, next)} \cap dead = {}
                     THEN "answer" ELSE "family",
           ![r].held = @ \cup {Refresh(f, next)}]
    /\ UNCHANGED <<access, issue, dead, stale, ended>>

\* The retry is recorded and answered with the pair its first rotation issued.
Answer(r) ==
    /\ txn[r].pc = "answer"
    /\ Recorded(r)
    /\ Done(r)
    /\ UNCHANGED <<access, issue, dead, stale, ended>>

\* Mutant of GrantHeld: the grant is read, not held.
GrantRead(r) == TRUE

\* select_for_update of the grant.
GrantHeld(r) == Free(GrantRow)

ScopeAtRefresh(f, i) == i \in writes[f] /\ MayWrite /\ Covers(started[f])

\* The grant's lock, the account read afresh, and the next pair: never wider
\* than the last, and narrower if the client asks so or may no longer write.
Rotate(r, asked) ==
    LET f == txn[r].family
        i == txn[r].pair IN
    /\ txn[r].pc = "rotate"
    /\ GrantHeld(r)
    /\ IF StillMayConnect(f)
       THEN /\ i < MaxPairs
            /\ pairs' = [pairs EXCEPT ![f] = @ + 1]
            /\ dead' = dead \cup {Refresh(f, i)}
            /\ writes' = IF asked /\ ScopeAtRefresh(f, i)
                         THEN [writes EXCEPT ![f] = @ \cup {pairs[f] + 1}] ELSE writes
            /\ Done(r)
       ELSE /\ txn' = [txn EXCEPT ![r].pc = "family", ![r].held = @ \cup {GrantRow}]
            /\ UNCHANGED <<pairs, dead, writes>>
    /\ UNCHANGED <<access, code, started, stale, ended>>

-----------------------------------------------------------------------------
(* Revocation                                                              *)

\* revoke_token of a refresh token.
RevokeToken(r, f, i) ==
    /\ txn[r].pc = "idle"
    /\ i <= pairs[f]
    /\ TakeToken(r, f, i, "family")
    /\ UNCHANGED <<access, issue, dead, stale, ended>>

\* revoke_token of an access token ends that token alone: one row, one step.
RevokeAccess(f, i) ==
    /\ i <= pairs[f]
    /\ Access(f, i) \notin dead
    /\ Free(Access(f, i)) /\ Free(GrantRow)
    /\ dead' = dead \cup {Access(f, i)}
    /\ UNCHANGED <<access, issue, stale, txn, ended>>

\* revoke_grant holds the grant and works through its codes, then its tokens.
RevokeGrant(r) ==
    /\ txn[r].pc = "idle"
    /\ grant.active
    /\ Free(GrantRow)
    /\ txn' = [txn EXCEPT ![r] = [Idle EXCEPT !.pc = "codes", !.held = {GrantRow}]]
    /\ UNCHANGED <<access, issue, dead, stale, ended>>

\* An UPDATE works through the rows its snapshot showed: those committed by now.
Snapshot(r, pc, rows) == txn' = [txn EXCEPT ![r].pc = pc, ![r].visit = rows]

Begin(r) ==
    /\ \/ txn[r].pc = "family" /\ Snapshot(r, "revoking", Issued(txn[r].family) \ dead)
       \/ txn[r].pc = "codes" /\ Snapshot(r, "spending", Unused)
       \/ txn[r].pc = "spending" /\ txn[r].visit = {} /\ Snapshot(r, "tokens", AllIssued \ dead)
    /\ UNCHANGED <<access, issue, dead, stale, ended>>

\* Each row in turn, waiting for its lock; a row that was ended meanwhile no
\* longer answers the condition and is passed over.
Visit(r, row) ==
    /\ row \in txn[r].visit
    /\ FreeFor(r, row)
    /\ txn' = [txn EXCEPT ![r].visit = @ \ {row},
                          ![r].held = IF row \in dead THEN @ ELSE @ \cup {row}]
    /\ UNCHANGED <<access, issue, dead, stale, ended>>

\* The commit: what the transaction wrote is there, and its locks are free.
EndFamily(r) ==
    /\ txn[r].pc = "revoking" /\ txn[r].visit = {}
    /\ Recorded(r)
    /\ dead' = dead \cup (txn[r].held \ {GrantRow})
    /\ ended' = [ended EXCEPT ![txn[r].family] =
           IF txn[r].newest THEN "holder" ELSE IF @ = "no" THEN "older" ELSE @]
    /\ Done(r)
    /\ UNCHANGED <<access, issue, stale>>

EndGrant(r) ==
    /\ txn[r].pc = "tokens" /\ txn[r].visit = {}
    /\ dead' = dead \cup (txn[r].held \ {GrantRow})
    /\ grant' = [grant EXCEPT !.active = FALSE]
    /\ Done(r)
    /\ UNCHANGED <<account, issue, stale, ended>>

\* A lost connection, a killed process or a deadlock's victim: all rolled back.
Abort(r) ==
    /\ txn[r].pc # "idle"
    /\ Done(r)
    /\ UNCHANGED <<access, issue, dead, stale, ended>>

-----------------------------------------------------------------------------
(* Operators, the account and time                                         *)

GrantWrite ==
    /\ MayConnect /\ ~grant.write /\ grant.era < MaxEra
    /\ Free(GrantRow)
    /\ grant' = [grant EXCEPT !.write = TRUE, !.era = @ + 1]
    /\ UNCHANGED <<account, issue, dead, stale, txn, ended>>

RevokeWrite ==
    /\ grant.active /\ grant.write
    /\ Free(GrantRow)
    /\ grant' = [grant EXCEPT !.write = FALSE]
    /\ UNCHANGED <<account, issue, dead, stale, txn, ended>>

\* The account is deactivated or changes role, or is restored; its security
\* epoch moves.  Neither waits for the grant.
ChangeAccount ==
    /\ \/ account' = [account EXCEPT !.eligible = ~@]
       \/ account.epoch < MaxEpoch /\ account' = [account EXCEPT !.epoch = @ + 1]
    /\ UNCHANGED <<grant, issue, dead, stale, txn, ended>>

\* The grace of a rotation passes, or a family reaches its absolute age.
Age ==
    /\ \E f \in Families :
           \/ \E i \in 1..pairs[f] : i < pairs[f] /\ stale' = stale \cup {Refresh(f, i)}
           \/ pairs[f] > 0 /\ stale' = stale \cup {CodeRow(f)}
    /\ stale' # stale
    /\ UNCHANGED <<access, issue, dead, txn, ended>>

-----------------------------------------------------------------------------
RequestStep(r) ==
    \/ \E f \in Families : Exchange(r, f)
    \/ ExchangeRefused(r) \/ Issue(r)
    \/ \E f \in Families, i \in Pairs : Present(r, f, i) \/ RevokeToken(r, f, i)
    \/ Retry(r) \/ Answer(r)
    \/ \E asked \in BOOLEAN : Rotate(r, asked)
    \/ RevokeGrant(r) \/ Begin(r)
    \/ \E row \in Rows : Visit(r, row)
    \/ EndFamily(r) \/ EndGrant(r)

Around ==
    \/ \E f \in Families, asked \in BOOLEAN : Authorize(f, asked)
    \/ \E f \in Families, i \in Pairs : RevokeAccess(f, i)
    \/ GrantWrite \/ RevokeWrite \/ ChangeAccount \/ Age

Next ==
    \/ \E r \in Requests : RequestStep(r) \/ Abort(r)
    \/ Around

Spec == Init /\ [][Next]_vars

-----------------------------------------------------------------------------
(* Properties                                                              *)

\* Every variable has its type; only a token there is can have ended or write.
TypeOK ==
    /\ grant \in [active : BOOLEAN, write : BOOLEAN, era : Eras]
    /\ account \in [eligible : BOOLEAN, epoch : Epochs]
    /\ code \in [Families -> Code]
    /\ pairs \in [Families -> 0..MaxPairs]
    /\ writes \in [Families -> SUBSET Pairs]
    /\ started \in [Families -> Eras]
    /\ dead \subseteq Rows
    /\ dead \ CodeRows \subseteq AllIssued
    /\ \A f \in Families : writes[f] \subseteq 1..pairs[f]
    /\ stale \subseteq Rows
    /\ txn \in [Requests -> Txn]
    /\ ended \in [Families -> {"no", "older", "holder"}]

\* A family has one refresh token that still works, however many refreshes of
\* one token are in flight (services.py, _retried_rotation: "two refreshes in
\* flight take turns").
OneLiveRefresh ==
    \A f \in Families :
        Cardinality({i \in 1..pairs[f] : Refresh(f, i) \notin dead}) <= 1

\* A revoked grant leaves no token and no code behind, whatever exchanges and
\* rotations were in flight (revoke_grant: "End this account's grant and every
\* token, code and link it has").
RevokedGrantIsOver == ~grant.active => (AllIssued \ dead) \cup Unused = {}

\* A family ended under its newest refresh token's lock, by its client, its age
\* or its account, has no token that works, then or ever after.
HolderEndsFamily ==
    \A f \in Families : ended[f] = "holder" => Issued(f) \subseteq dead

\* verification._token_passes, _account_passes and writer_for.
Passes(f, i) == i <= pairs[f] /\ Access(f, i) \notin dead /\ StillMayConnect(f)
Writer(f, i) == Passes(f, i) /\ i \in writes[f] /\ MayWrite /\ Covers(started[f])

\* A token that may prepare changes comes from a consent to write, given under
\* the write decision that stands now (write_enablement_covers: a token minted
\* under an earlier enablement must not write again).
WritesUnderConsent ==
    \A f \in Families, i \in Pairs :
        Writer(f, i) => code[f].write /\ code[f].era = grant.era

=============================================================================
