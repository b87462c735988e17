--------------------------- MODULE McpTokensProofs ---------------------------
(***************************************************************************)
(* Proofs about the tokens of an AI connection grant (McpTokens), for any  *)
(* set of families and of requests, and any bounds.                        *)
(*                                                                         *)
(* The argument is one of locks.  A transaction in the middle of its work  *)
(* has read something - that the code it holds is unused, that the token   *)
(* it holds is its family's newest, that the rows its UPDATE has still to  *)
(* visit are all there is - and acts on it several steps later.  Stands    *)
(* says what it has read still holds; it does because every step that      *)
(* could make it untrue needs a row the transaction has locked (Respects). *)
(***************************************************************************)
EXTENDS McpTokens, FiniteSetTheorems, TLAPS

-----------------------------------------------------------------------------
(* The inductive invariant                                                 *)

\* No row is locked by two transactions.
LocksApart ==
    \A r, q \in Requests : r # q => txn[r].held \cap txn[q].held = {}

\* What a transaction t has locked or has still to visit are rows there are.
Within(t) == (t.held \cup t.visit) \ (CodeRows \cup {GrantRow}) \subseteq AllIssued

\* The exchange of an unused code, from its lock to its pair or refusal.
StandsIssue(t) ==
    t.pc = "issue" =>
        /\ CodeRow(t.family) \in t.held /\ CodeRow(t.family) \notin dead
        /\ code[t.family].made
        /\ code[t.family].era <= t.era /\ t.era <= grant.era

\* A transaction that found its refresh token to be its family's newest.
StandsNewest(t) ==
    /\ t.pc = "rotate" => t.newest = TRUE /\ Refresh(t.family, t.pair) \notin dead
    /\ t.newest = TRUE =>
        /\ t.family \in Families /\ t.pair \in Pairs /\ t.pair = pairs[t.family]
        /\ Refresh(t.family, t.pair) \in t.held
        /\ t.pc \in {"family", "rotate", "revoking"}
        /\ t.pc = "revoking" => Issued(t.family) \subseteq dead \cup t.visit \cup t.held

\* A revocation of the grant, and what its two UPDATEs have seen so far.
StandsGrant(t) ==
    /\ t.pc \in {"codes", "spending", "tokens"} => GrantRow \in t.held
    /\ t.pc = "spending" => Unused \subseteq t.visit \cup t.held
    /\ t.pc = "tokens" =>
        /\ Unused \subseteq t.held
        /\ AllIssued \subseteq dead \cup t.visit \cup t.held

\* What a transaction has read of rows it holds is still so.
Stands(t) ==
    /\ Within(t)
    /\ t.pc = "idle" => t.held = {} /\ t.visit = {}
    /\ t.pc \notin {"idle", "codes", "spending", "tokens"} => t.family \in Families
    /\ t.pc = "successor" => t.pair \in Pairs /\ t.pair < pairs[t.family]
    /\ StandsIssue(t)
    /\ StandsNewest(t)
    /\ StandsGrant(t)

\* A family's rows: its code was spent for its first pair, every pair but the
\* last was rotated, and a pair that writes was consented to under the decision
\* that stood when the family began.
FamilyInOrder(f) ==
    /\ pairs[f] > 0 => CodeRow(f) \in dead /\ code[f].made
    /\ \A i \in Pairs : i < pairs[f] => Refresh(f, i) \in dead
    /\ code[f].made => code[f].era <= grant.era
    /\ writes[f] # {} => code[f].write = TRUE /\ started[f] = code[f].era /\ pairs[f] > 0
    /\ ended[f] = "holder" => pairs[f] > 0 /\ Issued(f) \subseteq dead

Inv ==
    /\ TypeOK
    /\ LocksApart
    /\ \A r \in Requests : Stands(txn[r])
    /\ \A f \in Families : FamilyInOrder(f)
    /\ RevokedGrantIsOver

-----------------------------------------------------------------------------
(* Rows                                                                    *)

\* Rows of different tables, codes or pairs are different rows.
LEMMA RowNames ==
    ASSUME NEW f, NEW g, NEW i, NEW j
    PROVE  /\ Refresh(f, i) = Refresh(g, j) => f = g /\ i = j
           /\ Access(f, i) = Access(g, j) => f = g /\ i = j
           /\ CodeRow(f) = CodeRow(g) => f = g
           /\ Refresh(f, i) # Access(g, j)
           /\ Refresh(f, i) # CodeRow(g)
           /\ Access(f, i) # CodeRow(g)
           /\ GrantRow # CodeRow(f)
           /\ GrantRow # Refresh(f, i)
           /\ GrantRow # Access(f, i)
<1>1. Refresh(f, i)[1] = "refresh" /\ Refresh(f, i)[2] = f /\ Refresh(f, i)[3] = i
  BY DEF Refresh
<1>2. Refresh(g, j)[1] = "refresh" /\ Refresh(g, j)[2] = g /\ Refresh(g, j)[3] = j
  BY DEF Refresh
<1>3. Access(f, i)[1] = "access" /\ Access(f, i)[2] = f /\ Access(f, i)[3] = i
  BY DEF Access
<1>4. Access(g, j)[1] = "access" /\ Access(g, j)[2] = g /\ Access(g, j)[3] = j
  BY DEF Access
<1>5. CodeRow(f)[1] = "code" /\ CodeRow(f)[2] = f
  BY DEF CodeRow
<1>6. CodeRow(g)[1] = "code" /\ CodeRow(g)[2] = g
  BY DEF CodeRow
<1>7. GrantRow[1] = "grant"
  BY DEF GrantRow
<1> QED BY <1>1, <1>2, <1>3, <1>4, <1>5, <1>6, <1>7

\* Which rows there are, by kind.
LEMMA RowKinds ==
    /\ \A f \in Families : CodeRow(f) \in Rows /\ CodeRow(f) \in CodeRows
    /\ \A f \in Families, i \in Pairs : Refresh(f, i) \in Rows /\ Access(f, i) \in Rows
    /\ \A f, i : Refresh(f, i) \notin CodeRows /\ Access(f, i) \notin CodeRows
    /\ GrantRow \notin Rows
    /\ CodeRows \subseteq Rows
    /\ Rows \subseteq Lockable /\ GrantRow \in Lockable
<1>1. \A f, i : Refresh(f, i) \notin CodeRows /\ Access(f, i) \notin CodeRows
  BY RowNames DEF CodeRows
<1>2. GrantRow \notin Rows
  BY RowNames DEF Rows, CodeRows, TokenRows
<1> QED BY <1>1, <1>2 DEF Rows, CodeRows, TokenRows, Lockable

\* The tokens of a family are rows of the model.
LEMMA IssuedAreRows ==
    ASSUME NEW f \in Families, pairs \in [Families -> 0..MaxPairs]
    PROVE  /\ Issued(f) \subseteq Rows
           /\ Issued(f) \cap CodeRows = {}
           /\ \A i \in 1..pairs[f] : i \in Pairs /\ Refresh(f, i) \in Issued(f)
                                                 /\ Access(f, i) \in Issued(f)
<1>1. \A i \in 1..pairs[f] : i \in Pairs
  BY BoundsAssumption DEF Pairs
<1> QED BY <1>1, RowKinds DEF Issued

-----------------------------------------------------------------------------
(* What a step leaves to the transactions that hold other rows             *)

\* A step that leaves alone what the holder of these rows may rely on: it ends
\* none of them, adds no pair to a family whose newest token is among them, and
\* with the grant's row among them adds no pair and no code at all.
Respects(held) ==
    /\ dead \subseteq dead'
    /\ dead' \cap held \subseteq dead
    /\ \A f \in Families : code[f].made => code'[f] = code[f]
    /\ \A f \in Families :
           \/ pairs'[f] = pairs[f]
           \/ /\ pairs'[f] = pairs[f] + 1
              /\ pairs[f] = 0 \/ Refresh(f, pairs[f]) \notin held
              /\ GrantRow \notin held
    /\ GrantRow \in held => code' = code
    /\ grant.era <= grant'.era

\* Pairs are only added, so the tokens there are stay.
LEMMA IssuedStay ==
    ASSUME TypeOK, pairs' \in [Families -> 0..MaxPairs],
           \A f \in Families : pairs[f] <= pairs'[f]
    PROVE  /\ \A f \in Families : Issued(f) \subseteq Issued(f)'
           /\ AllIssued \subseteq AllIssued'
<1>1. ASSUME NEW f \in Families, NEW i \in 1..pairs[f] PROVE i \in 1..(pairs'[f])
  <2>1. pairs[f] \in Nat /\ pairs'[f] \in Nat /\ pairs[f] <= pairs'[f]
    BY BoundsAssumption DEF TypeOK
  <2> QED BY <2>1
<1>2. \A f \in Families : Issued(f) \subseteq Issued(f)'
  BY <1>1 DEF Issued
<1> QED BY <1>2 DEF AllIssued

\* What a transaction has read of its rows survives such a step.
LEMMA Undisturbed ==
    ASSUME NEW t \in Txn, TypeOK, pairs' \in [Families -> 0..MaxPairs],
           grant'.era \in Eras, code' \in [Families -> Code],
           Stands(t), Respects(t.held)
    PROVE  Stands(t)'
<1>1. \A f \in Families : pairs[f] \in Nat /\ pairs'[f] \in Nat /\ pairs[f] <= pairs'[f]
  BY BoundsAssumption DEF TypeOK, Respects
<1>2. /\ \A f \in Families : Issued(f) \subseteq Issued(f)'
      /\ AllIssued \subseteq AllIssued'
  BY <1>1, IssuedStay
<1>3. Within(t)'
  BY <1>2 DEF Stands, Within
<1>4. ASSUME t.pc = "successor" PROVE t.pair \in Pairs /\ t.pair < pairs'[t.family]
  <2>1. t.family \in Families /\ t.pair \in Pairs /\ t.pair < pairs[t.family]
    BY <1>4 DEF Stands
  <2> QED BY <2>1, <1>1 DEF Pairs
<1>5. StandsIssue(t)'
  <2> SUFFICES ASSUME t.pc = "issue"
               PROVE  /\ CodeRow(t.family) \in t.held /\ CodeRow(t.family) \notin dead'
                      /\ code'[t.family].made
                      /\ code'[t.family].era <= t.era /\ t.era <= grant'.era
    BY DEF StandsIssue
  <2>1. /\ t.family \in Families
        /\ CodeRow(t.family) \in t.held /\ CodeRow(t.family) \notin dead
        /\ code[t.family].made
        /\ code[t.family].era <= t.era /\ t.era <= grant.era
    BY DEF Stands, StandsIssue
  <2>2. code'[t.family] = code[t.family] /\ CodeRow(t.family) \notin dead'
    BY <2>1 DEF Respects
  <2>3. t.era \in Nat /\ grant.era \in Nat /\ grant'.era \in Nat /\ grant.era <= grant'.era
    BY BoundsAssumption DEF TypeOK, Txn, Eras, Respects
  <2> QED BY <2>1, <2>2, <2>3
<1>6. StandsNewest(t)'
  <2>1. ASSUME t.pc = "rotate"
        PROVE  t.newest = TRUE /\ Refresh(t.family, t.pair) \notin dead'
    <3>1. t.newest = TRUE /\ Refresh(t.family, t.pair) \notin dead
                          /\ Refresh(t.family, t.pair) \in t.held
      BY <2>1 DEF Stands, StandsNewest
    <3> QED BY <3>1 DEF Respects
  <2>2. ASSUME t.newest = TRUE
        PROVE  /\ t.family \in Families /\ t.pair \in Pairs /\ t.pair = pairs'[t.family]
               /\ Refresh(t.family, t.pair) \in t.held
               /\ t.pc \in {"family", "rotate", "revoking"}
               /\ t.pc = "revoking" =>
                      Issued(t.family)' \subseteq dead' \cup t.visit \cup t.held
    <3>1. /\ t.family \in Families /\ t.pair \in Pairs /\ t.pair = pairs[t.family]
          /\ Refresh(t.family, t.pair) \in t.held
          /\ t.pc \in {"family", "rotate", "revoking"}
          /\ t.pc = "revoking" => Issued(t.family) \subseteq dead \cup t.visit \cup t.held
      BY <2>2 DEF Stands, StandsNewest
    <3>2. pairs[t.family] # 0
      BY <3>1 DEF Pairs
    <3>3. pairs'[t.family] = pairs[t.family]
      BY <3>1, <3>2 DEF Respects
    <3>4. Issued(t.family)' = Issued(t.family) /\ dead \subseteq dead'
      BY <3>3 DEF Issued, Respects
    <3> QED BY <3>1, <3>3, <3>4
  <2> QED BY <2>1, <2>2 DEF StandsNewest
<1>7. StandsGrant(t)'
  <2>1. t.pc \in {"codes", "spending", "tokens"} => GrantRow \in t.held
    BY DEF Stands, StandsGrant
  <2>2. ASSUME GrantRow \in t.held
        PROVE  Unused' \subseteq Unused /\ AllIssued' = AllIssued /\ dead \subseteq dead'
    <3>1. code' = code /\ dead \subseteq dead'
      BY <2>2 DEF Respects
    <3>2. \A f \in Families : pairs'[f] = pairs[f]
      BY <2>2 DEF Respects
    <3>3. \A f \in Families : Issued(f)' = Issued(f)
      BY <3>2 DEF Issued
    <3> QED BY <3>1, <3>3 DEF Unused, AllIssued
  <2> QED BY <2>1, <2>2 DEF Stands, StandsGrant
<1> QED BY <1>3, <1>4, <1>5, <1>6, <1>7 DEF Stands

\* The types a transaction's view of its rows needs.
Typed(p, c, g) == p \in [Families -> 0..MaxPairs] /\ c \in [Families -> Code] /\ g.era \in Eras

\* A step of request r that respects every other request's locks.
LEMMA TxnStep ==
    ASSUME Inv, NEW r \in Requests, NEW j \in Txn, txn' = [txn EXCEPT ![r] = j],
           Typed(pairs', code', grant'),
           \A q \in Requests \ {r} : Respects(txn[q].held),
           \A q \in Requests \ {r} : (j.held \ txn[r].held) \cap txn[q].held = {},
           Stands(j)'
    PROVE  /\ txn' \in [Requests -> Txn]
           /\ LocksApart'
           /\ \A q \in Requests : Stands(txn[q])'
<1>1. txn \in [Requests -> Txn]
  BY DEF Inv, TypeOK
<1>2. txn' \in [Requests -> Txn]
  BY <1>1
<1>3. txn'[r] = j /\ \A q \in Requests \ {r} : txn'[q] = txn[q]
  BY <1>1
<1>4. LocksApart'
  BY <1>3 DEF Inv, LocksApart
<1>5. ASSUME NEW q \in Requests \ {r} PROVE Stands(txn[q])'
  <2>1. PICK t \in Txn : t = txn[q]
    BY <1>1
  <2>2. Stands(t) /\ Respects(t.held) /\ TypeOK
    BY <2>1 DEF Inv
  <2>3. Stands(t)'
    BY <2>2, Undisturbed DEF Typed
  <2> QED BY <2>1, <2>3, <1>3
<1> QED BY <1>2, <1>3, <1>4, <1>5

\* A step that is no request's and respects every request's locks.
LEMMA AroundStep ==
    ASSUME Inv, txn' = txn, Typed(pairs', code', grant'),
           \A q \in Requests : Respects(txn[q].held)
    PROVE  /\ txn' \in [Requests -> Txn]
           /\ LocksApart'
           /\ \A q \in Requests : Stands(txn[q])'
<1>1. txn \in [Requests -> Txn]
  BY DEF Inv, TypeOK
<1>2. LocksApart'
  BY DEF Inv, LocksApart
<1>3. ASSUME NEW q \in Requests PROVE Stands(txn[q])'
  <2>1. PICK t \in Txn : t = txn[q]
    BY <1>1
  <2>2. Stands(t) /\ Respects(t.held) /\ TypeOK
    BY <2>1 DEF Inv
  <2>3. Stands(t)'
    BY <2>2, Undisturbed DEF Typed
  <2> QED BY <2>1, <2>3
<1> QED BY <1>1, <1>2, <1>3

\* A step that ends no row and changes neither pairs, codes nor decision
\* respects every lock.
LEMMA QuietRespects ==
    ASSUME TypeOK, UNCHANGED <<access, issue, dead>>
    PROVE  \A held : Respects(held)
<1>1. grant.era \in Nat
  BY BoundsAssumption DEF TypeOK, Eras
<1> QED BY <1>1 DEF Respects, access, issue

\* Without change to the rows, what was true of them stays.
LEMMA QuietRows ==
    ASSUME Inv, UNCHANGED <<access, issue, dead, ended>>
    PROVE  /\ Typed(pairs', code', grant')
           /\ \A f \in Families : FamilyInOrder(f)'
           /\ RevokedGrantIsOver'
<1> QED BY DEF Inv, TypeOK, Typed, FamilyInOrder, RevokedGrantIsOver, Issued, AllIssued,
              Unused, access, issue

\* An idle transaction holds nothing it has read.
LEMMA IdleStands == Idle \in Txn /\ Stands(Idle)
<1>1. Idle \in Txn
  BY BoundsAssumption, NoneAssumption DEF Idle, Txn, Eras
<1>2. Stands(Idle)
  BY DEF Stands, Within, StandsIssue, StandsNewest, StandsGrant, Idle
<1> QED BY <1>1, <1>2

\* A request that only locks rows, and reads what it says it has read.
LEMMA QuietStep ==
    ASSUME Inv, NEW r \in Requests, NEW j \in Txn, txn' = [txn EXCEPT ![r] = j],
           UNCHANGED <<access, issue, dead, stale, ended>>,
           \A q \in Requests \ {r} : (j.held \ txn[r].held) \cap txn[q].held = {},
           Stands(j)
    PROVE  Inv'
<1>1. /\ Typed(pairs', code', grant')
      /\ \A f \in Families : FamilyInOrder(f)'
      /\ RevokedGrantIsOver'
  BY QuietRows
<1>2. \A q \in Requests \ {r} : Respects(txn[q].held)
  BY QuietRespects DEF Inv
<1>3. Stands(j)'
  BY QuietRespects, Undisturbed, <1>1 DEF Inv, Typed
<1>4. txn' \in [Requests -> Txn] /\ LocksApart' /\ \A q \in Requests : Stands(txn[q])'
  BY <1>1, <1>2, <1>3, TxnStep
<1>5. TypeOK'
  BY <1>4 DEF Inv, TypeOK, access, issue, Issued, AllIssued
<1> QED BY <1>1, <1>4, <1>5 DEF Inv

-----------------------------------------------------------------------------
(* Requests that lock and read                                             *)

\* Only its holder finds a row locked.
LEMMA FreeRow ==
    ASSUME NEW row, NEW r \in Requests, Free(row) \/ FreeFor(r, row)
    PROVE  \A q \in Requests \ {r} : {row} \cap txn[q].held = {}
BY DEF Free, FreeFor

LEMMA ExchangeKeeps ==
    ASSUME Inv, NEW r \in Requests, NEW f \in Families, Exchange(r, f)
    PROVE  Inv'
<1> DEFINE again == [Idle EXCEPT !.pc = "family", !.family = f, !.held = {CodeRow(f)}]
           first == [Idle EXCEPT !.pc = "issue", !.family = f,
                                 !.era = grant.era, !.held = {CodeRow(f)}]
<1>1. /\ txn[r].pc = "idle" /\ txn[r] \in Txn /\ grant.era \in Eras /\ code[f].made
      /\ grant.era \in Nat /\ code[f].era <= grant.era
  BY BoundsAssumption DEF Exchange, Inv, TypeOK, Eras, FamilyInOrder
<1>2. CodeRow(f) \in Lockable /\ CodeRow(f) \in CodeRows
  BY RowKinds
<1>3. \A q \in Requests \ {r} : {CodeRow(f)} \cap txn[q].held = {}
  BY FreeRow DEF Exchange
<1>4. ASSUME CodeRow(f) \in dead PROVE txn' = [txn EXCEPT ![r] = again]
  BY <1>4 DEF Exchange
<1>5. ASSUME CodeRow(f) \notin dead PROVE txn' = [txn EXCEPT ![r] = first]
  BY <1>5 DEF Exchange
<1>6. /\ again.pc = "family" /\ again.family = f /\ again.held = {CodeRow(f)}
      /\ again.visit = {} /\ again.newest = FALSE /\ again \in Txn
  BY <1>2, IdleStands DEF Idle, Txn
<1>7. /\ first.pc = "issue" /\ first.family = f /\ first.held = {CodeRow(f)}
      /\ first.visit = {} /\ first.newest = FALSE /\ first.era = grant.era /\ first \in Txn
  BY <1>1, <1>2, IdleStands DEF Idle, Txn
<1> HIDE DEF again, first
<1>8. Stands(again)
  BY <1>2, <1>6 DEF Stands, Within, StandsIssue, StandsNewest, StandsGrant
<1>9. ASSUME CodeRow(f) \notin dead PROVE Stands(first)
  BY <1>1, <1>2, <1>7, <1>9 DEF Stands, Within, StandsIssue, StandsNewest, StandsGrant
<1>10. UNCHANGED <<access, issue, dead, stale, ended>>
  BY DEF Exchange
<1>11. ASSUME CodeRow(f) \in dead PROVE Inv'
  <2>1. PICK j \in Txn : j = again
    BY <1>6
  <2>2. txn' = [txn EXCEPT ![r] = j] /\ Stands(j)
    BY <2>1, <1>4, <1>8, <1>11
  <2>3. \A q \in Requests \ {r} : (j.held \ txn[r].held) \cap txn[q].held = {}
    BY <2>1, <1>3, <1>6
  <2> QED BY <2>2, <2>3, <1>10, QuietStep
<1>12. ASSUME CodeRow(f) \notin dead PROVE Inv'
  <2>1. PICK j \in Txn : j = first
    BY <1>7
  <2>2. txn' = [txn EXCEPT ![r] = j] /\ Stands(j)
    BY <2>1, <1>5, <1>9, <1>12
  <2>3. \A q \in Requests \ {r} : (j.held \ txn[r].held) \cap txn[q].held = {}
    BY <2>1, <1>3, <1>7
  <2> QED BY <2>2, <2>3, <1>10, QuietStep
<1> QED BY <1>11, <1>12

\* The lock on the presented token, for each thing it may be taken for.
LEMMA TakeTokenKeeps ==
    ASSUME Inv, NEW r \in Requests, NEW f \in Families, NEW i \in Pairs,
           NEW pc \in {"successor", "family", "rotate"},
           txn[r].pc = "idle", i <= pairs[f], TakeToken(r, f, i, pc),
           pc = "successor" => i < pairs[f],
           pc = "rotate" => i = pairs[f] /\ Refresh(f, i) \notin dead,
           UNCHANGED <<access, issue, dead, stale, ended>>
    PROVE  Inv'
<1> DEFINE t == [Idle EXCEPT !.pc = pc, !.family = f, !.pair = i,
                             !.newest = (i = pairs[f]), !.held = {Refresh(f, i)}]
<1>1. i \in 1..pairs[f] /\ i \in 0..MaxPairs /\ pairs[f] \in Nat
  BY BoundsAssumption DEF Inv, TypeOK, Pairs
<1>2. Refresh(f, i) \in Lockable /\ Refresh(f, i) \in Issued(f) /\ Refresh(f, i) \in AllIssued
  BY <1>1, RowKinds, IssuedAreRows DEF Inv, TypeOK, AllIssued
<1>3. \A q \in Requests \ {r} : {Refresh(f, i)} \cap txn[q].held = {}
  BY FreeRow DEF TakeToken
<1>4. txn' = [txn EXCEPT ![r] = t]
  BY DEF TakeToken
<1>5. /\ t.pc = pc /\ t.family = f /\ t.pair = i /\ t.held = {Refresh(f, i)} /\ t.visit = {}
      /\ t.newest = (i = pairs[f])
  BY DEF Idle
<1>6. t \in Txn
  BY <1>1, <1>2, IdleStands DEF Idle, Txn
<1> HIDE DEF t
<1>7. Stands(t)
  <2>1. Within(t) /\ StandsIssue(t) /\ StandsGrant(t)
    BY <1>2, <1>5 DEF Within, StandsIssue, StandsGrant
  <2>2. (t.newest = TRUE) <=> i = pairs[f]
    BY <1>5
  <2>3. StandsNewest(t)
    BY <1>1, <1>5, <2>2 DEF StandsNewest
  <2> QED BY <1>5, <2>1, <2>3 DEF Stands
<1>8. PICK j \in Txn : j = t
  BY <1>6
<1>9. txn' = [txn EXCEPT ![r] = j] /\ Stands(j)
  BY <1>4, <1>7, <1>8
<1>10. \A q \in Requests \ {r} : (j.held \ txn[r].held) \cap txn[q].held = {}
  BY <1>3, <1>5, <1>8
<1> QED BY <1>9, <1>10, QuietStep

LEMMA PresentKeeps ==
    ASSUME Inv, NEW r \in Requests, NEW f \in Families, NEW i \in Pairs,
           Present(r, f, i)
    PROVE  Inv'
<1>1. txn[r].pc = "idle" /\ i <= pairs[f] /\ UNCHANGED <<access, issue, dead, stale, ended>>
  BY DEF Present
<1>2. CASE i < pairs[f] /\ TakeToken(r, f, i, "successor")
  BY <1>1, <1>2, TakeTokenKeeps
<1>3. CASE TakeToken(r, f, i, "family")
  BY <1>1, <1>3, TakeTokenKeeps
<1>4. CASE i = pairs[f] /\ Refresh(f, i) \notin dead /\ TakeToken(r, f, i, "rotate")
  BY <1>1, <1>4, TakeTokenKeeps
<1> QED BY <1>2, <1>3, <1>4 DEF Present

LEMMA RevokeTokenKeeps ==
    ASSUME Inv, NEW r \in Requests, NEW f \in Families, NEW i \in Pairs,
           RevokeToken(r, f, i)
    PROVE  Inv'
<1>1. /\ txn[r].pc = "idle" /\ i <= pairs[f] /\ UNCHANGED <<access, issue, dead, stale, ended>>
      /\ TakeToken(r, f, i, "family")
  BY DEF RevokeToken
<1> QED BY <1>1, TakeTokenKeeps

LEMMA RetryKeeps ==
    ASSUME Inv, NEW r \in Requests, Retry(r)
    PROVE  Inv'
<1> DEFINE f == txn[r].family
           next == txn[r].pair + 1
           pc == IF next = pairs[f] /\ {Refresh(f, next), Access(f, next)} \cap dead = {}
                 THEN "answer" ELSE "family"
           t == [txn[r] EXCEPT !.pc = pc, !.held = @ \cup {Refresh(f, next)}]
<1>1. /\ txn[r].pc = "successor" /\ txn[r] \in Txn /\ Stands(txn[r])
      /\ UNCHANGED <<access, issue, dead, stale, ended>>
  BY DEF Retry, Inv, TypeOK
<1>2. f \in Families /\ txn[r].pair \in Pairs /\ txn[r].pair < pairs[f] /\ txn[r].newest # TRUE
  BY <1>1 DEF Stands, StandsNewest
<1>3. pairs[f] \in 0..MaxPairs
  BY <1>2 DEF Inv, TypeOK
<1>4. next \in 1..pairs[f] /\ next \in Pairs
  BY <1>2, <1>3, BoundsAssumption DEF Pairs
<1>5. Refresh(f, next) \in Lockable /\ Refresh(f, next) \in AllIssued
  BY <1>2, <1>4, RowKinds, IssuedAreRows DEF Inv, TypeOK, AllIssued
<1>6. \A q \in Requests \ {r} : {Refresh(f, next)} \cap txn[q].held = {}
  BY FreeRow DEF Retry
<1>7. txn' = [txn EXCEPT ![r] = t]
  BY DEF Retry
<1>8. /\ t.pc \in {"answer", "family"} /\ t.family = f /\ t.newest # TRUE
      /\ t.held = txn[r].held \cup {Refresh(f, next)} /\ t.visit = txn[r].visit
  BY <1>1, <1>2 DEF Txn
<1>9. t \in Txn
  BY <1>1, <1>5 DEF Txn
<1> HIDE DEF t, pc
<1>10. Stands(t)
  <2>1. Within(t)
    BY <1>1, <1>5, <1>8 DEF Stands, Within
  <2> QED BY <1>2, <1>8, <2>1 DEF Stands, StandsIssue, StandsNewest, StandsGrant
<1>11. PICK j \in Txn : j = t
  BY <1>9
<1>12. txn' = [txn EXCEPT ![r] = j] /\ Stands(j)
  BY <1>7, <1>10, <1>11
<1>13. \A q \in Requests \ {r} : (j.held \ txn[r].held) \cap txn[q].held = {}
  BY <1>6, <1>8, <1>11
<1> QED BY <1>1, <1>12, <1>13, QuietStep

\* Answering a retry, or rolling back, only lets go of the locks.
LEMMA LetGo ==
    ASSUME Inv, NEW r \in Requests, Done(r),
           UNCHANGED <<access, issue, dead, stale, ended>>
    PROVE  Inv'
<1>1. PICK j \in Txn : j = Idle
  BY IdleStands
<1>2. txn' = [txn EXCEPT ![r] = j] /\ Stands(j)
  BY <1>1, IdleStands DEF Done
<1>3. j.held = {}
  BY <1>1 DEF Idle
<1> QED BY <1>2, <1>3, QuietStep

LEMMA RevokeGrantKeeps ==
    ASSUME Inv, NEW r \in Requests, RevokeGrant(r)
    PROVE  Inv'
<1> DEFINE t == [Idle EXCEPT !.pc = "codes", !.held = {GrantRow}]
<1>1. txn' = [txn EXCEPT ![r] = t] /\ UNCHANGED <<access, issue, dead, stale, ended>>
  BY DEF RevokeGrant
<1>2. /\ t.pc = "codes" /\ t.held = {GrantRow} /\ t.visit = {} /\ t.newest = FALSE
      /\ t \in Txn
  BY IdleStands, RowKinds DEF Idle, Txn
<1> HIDE DEF t
<1>3. Stands(t)
  BY <1>2 DEF Stands, Within, StandsIssue, StandsNewest, StandsGrant
<1>4. \A q \in Requests \ {r} : {GrantRow} \cap txn[q].held = {}
  BY FreeRow DEF RevokeGrant
<1>5. PICK j \in Txn : j = t
  BY <1>2
<1>6. txn' = [txn EXCEPT ![r] = j] /\ Stands(j)
  BY <1>1, <1>3, <1>5
<1>7. \A q \in Requests \ {r} : (j.held \ txn[r].held) \cap txn[q].held = {}
  BY <1>2, <1>4, <1>5
<1> QED BY <1>1, <1>6, <1>7, QuietStep

\* An UPDATE's snapshot shows it every row there is to end.
LEMMA BeginKeeps ==
    ASSUME Inv, NEW r \in Requests, Begin(r)
    PROVE  Inv'
<1> DEFINE f == txn[r].family
<1>1. /\ txn[r] \in Txn /\ Stands(txn[r]) /\ dead \subseteq Rows
      /\ UNCHANGED <<access, issue, dead, stale, ended>>
  BY DEF Begin, Inv, TypeOK
<1>2. AllIssued \subseteq Rows /\ AllIssued \cap CodeRows = {} /\ CodeRows \subseteq Rows
  BY IssuedAreRows, RowKinds DEF Inv, TypeOK, AllIssued
<1>3. Unused \subseteq CodeRows
  BY DEF Unused, CodeRows
<1>4. ASSUME NEW pc \in {"revoking", "spending", "tokens"}, NEW rows \in SUBSET Rows,
             rows \subseteq CodeRows \cup AllIssued,
             Snapshot(r, pc, rows),
             pc = "revoking" => txn[r].pc = "family" /\ rows = Issued(f) \ dead,
             pc = "spending" => txn[r].pc = "codes" /\ rows = Unused,
             pc = "tokens" => /\ txn[r].pc = "spending" /\ txn[r].visit = {}
                              /\ rows = AllIssued \ dead
      PROVE  Inv'
  <2> DEFINE t == [txn[r] EXCEPT !.pc = pc, !.visit = rows]
  <2>1. txn' = [txn EXCEPT ![r] = t]
    BY <1>4 DEF Snapshot
  <2>2. /\ t.pc = pc /\ t.family = f /\ t.newest = txn[r].newest /\ t.pair = txn[r].pair
        /\ t.held = txn[r].held /\ t.visit = rows
    BY <1>1 DEF Txn
  <2>3. t \in Txn
    BY <1>1 DEF Txn
  <2> HIDE DEF t
  <2>4. Within(t)
    BY <1>1, <1>4, <2>2 DEF Stands, Within
  <2>5. StandsIssue(t)
    BY <2>2 DEF StandsIssue
  <2>6. StandsNewest(t)
    BY <1>1, <1>4, <2>2 DEF Stands, StandsNewest
  <2>7. StandsGrant(t)
    BY <1>1, <1>4, <2>2 DEF Stands, StandsGrant
  <2>8. pc = "revoking" => t.family \in Families
    BY <1>1, <1>4, <2>2 DEF Stands
  <2>9. Stands(t)
    BY <2>2, <2>4, <2>5, <2>6, <2>7, <2>8 DEF Stands
  <2>10. PICK j \in Txn : j = t
    BY <2>3
  <2>11. txn' = [txn EXCEPT ![r] = j] /\ Stands(j)
    BY <2>1, <2>9, <2>10
  <2>12. \A q \in Requests \ {r} : (j.held \ txn[r].held) \cap txn[q].held = {}
    BY <2>2, <2>10
  <2> QED BY <1>1, <2>11, <2>12, QuietStep
<1>5. ASSUME txn[r].pc = "family", Snapshot(r, "revoking", Issued(f) \ dead)
      PROVE  Inv'
  <2>1. f \in Families
    BY <1>1, <1>5 DEF Stands
  <2>2. Issued(f) \subseteq AllIssued
    BY <2>1 DEF AllIssued
  <2> QED BY <1>2, <1>4, <1>5, <2>2
<1>6. ASSUME txn[r].pc = "codes", Snapshot(r, "spending", Unused)
      PROVE  Inv'
  BY <1>2, <1>3, <1>4, <1>6
<1>7. ASSUME txn[r].pc = "spending", txn[r].visit = {},
             Snapshot(r, "tokens", AllIssued \ dead)
      PROVE  Inv'
  BY <1>2, <1>4, <1>7
<1> QED BY <1>5, <1>6, <1>7 DEF Begin

\* A row an UPDATE passes over was ended already; any other it now holds.
LEMMA VisitKeeps ==
    ASSUME Inv, NEW r \in Requests, NEW row \in Rows, Visit(r, row)
    PROVE  Inv'
<1> DEFINE held == IF row \in dead THEN txn[r].held ELSE txn[r].held \cup {row}
           t == [txn[r] EXCEPT !.visit = @ \ {row}, !.held = held]
<1>1. /\ txn[r] \in Txn /\ Stands(txn[r]) /\ row \in txn[r].visit
      /\ UNCHANGED <<access, issue, dead, stale, ended>>
  BY DEF Visit, Inv, TypeOK
<1>2. txn' = [txn EXCEPT ![r] = t]
  BY DEF Visit
<1>3. \A q \in Requests \ {r} : {row} \cap txn[q].held = {}
  BY FreeRow DEF Visit
<1>4. /\ t.pc = txn[r].pc /\ t.family = txn[r].family /\ t.newest = txn[r].newest
      /\ t.pair = txn[r].pair /\ t.era = txn[r].era
      /\ t.held = held /\ t.visit = txn[r].visit \ {row}
  BY <1>1 DEF Txn
<1>5. row \in Lockable
  BY RowKinds
<1>6. held \in SUBSET Lockable
  BY <1>1, <1>5 DEF Txn
<1>7. t \in Txn
  BY <1>1, <1>6 DEF Txn
<1>8. /\ txn[r].held \subseteq held /\ held \subseteq txn[r].held \cup {row}
      /\ row \in dead \/ row \in held
  OBVIOUS
<1> HIDE DEF t, held
<1>9. Within(t)
  BY <1>1, <1>4, <1>8 DEF Stands, Within
<1>10. StandsIssue(t)
  BY <1>1, <1>4, <1>8 DEF Stands, StandsIssue
<1>11. StandsNewest(t)
  BY <1>1, <1>4, <1>8 DEF Stands, StandsNewest
<1>12. StandsGrant(t)
  <2>1. row \in dead => row \notin Unused
    BY DEF Unused
  <2> QED BY <1>1, <1>4, <1>8, <2>1 DEF Stands, StandsGrant
<1>13. Stands(t)
  BY <1>1, <1>4, <1>9, <1>10, <1>11, <1>12 DEF Stands
<1>14. PICK j \in Txn : j = t
  BY <1>7
<1>15. txn' = [txn EXCEPT ![r] = j] /\ Stands(j)
  BY <1>2, <1>13, <1>14
<1>16. \A q \in Requests \ {r} : (j.held \ txn[r].held) \cap txn[q].held = {}
  BY <1>3, <1>4, <1>8, <1>14
<1> QED BY <1>1, <1>15, <1>16, QuietStep

-----------------------------------------------------------------------------
(* Requests that end rows                                                  *)

GrantType == [active : BOOLEAN, write : BOOLEAN, era : Eras]
EndedType == [Families -> {"no", "older", "holder"}]

\* Ending rows, and nothing else of a family's.
LEMMA EndRows ==
    ASSUME Inv, NEW more \in SUBSET Rows, more \ CodeRows \subseteq AllIssued,
           dead' = dead \cup more, UNCHANGED <<account, issue, stale>>,
           grant' \in GrantType, grant'.era = grant.era, ended' \in EndedType,
           \A f \in Families : ended'[f] = "holder" => pairs[f] > 0 /\ Issued(f) \subseteq dead'
    PROVE  /\ Typed(pairs', code', grant')
           /\ \A f \in Families : FamilyInOrder(f)'
           /\ \A held : more \cap held = {} => Respects(held)
           /\ txn' \in [Requests -> Txn] => TypeOK'
           /\ Unused' \subseteq Unused /\ AllIssued' = AllIssued
<1>1. code' = code /\ pairs' = pairs /\ writes' = writes /\ started' = started
  BY DEF issue
<1>2. (\A f \in Families : Issued(f)' = Issued(f)) /\ AllIssued' = AllIssued
  BY <1>1 DEF Issued, AllIssued
<1>3. Typed(pairs', code', grant')
  BY <1>1 DEF Inv, TypeOK, Typed, GrantType
<1>4. ASSUME NEW f \in Families PROVE FamilyInOrder(f)'
  BY <1>1, <1>2 DEF Inv, FamilyInOrder
<1>5. grant.era \in Nat
  BY BoundsAssumption DEF Inv, TypeOK, Eras
<1>6. ASSUME NEW held, more \cap held = {} PROVE Respects(held)
  BY <1>1, <1>5, <1>6 DEF Respects
<1>7. ASSUME txn' \in [Requests -> Txn] PROVE TypeOK'
  BY <1>1, <1>2, <1>7 DEF Inv, TypeOK, GrantType, EndedType
<1>8. Unused' \subseteq Unused
  BY <1>1 DEF Unused
<1> QED BY <1>2, <1>3, <1>4, <1>6, <1>7, <1>8

\* A request that ends rows no other request holds, and is done.
LEMMA EndStep ==
    ASSUME Inv, NEW r \in Requests, Done(r),
           NEW more \in SUBSET Rows, more \ CodeRows \subseteq AllIssued,
           \A q \in Requests \ {r} : more \cap txn[q].held = {},
           dead' = dead \cup more, UNCHANGED <<account, issue, stale>>,
           grant' \in GrantType, grant'.era = grant.era, ended' \in EndedType,
           \A f \in Families : ended'[f] = "holder" => pairs[f] > 0 /\ Issued(f) \subseteq dead',
           RevokedGrantIsOver'
    PROVE  Inv'
<1>1. /\ Typed(pairs', code', grant')
      /\ \A f \in Families : FamilyInOrder(f)'
      /\ \A held : more \cap held = {} => Respects(held)
      /\ txn' \in [Requests -> Txn] => TypeOK'
  BY EndRows
<1>2. Stands(Idle)'
  <2>1. \A t \in Txn : t = Idle => Stands(t)'
    BY DEF Stands, Within, StandsIssue, StandsNewest, StandsGrant, Idle
  <2> QED BY <2>1, IdleStands
<1>3. PICK j \in Txn : j = Idle
  BY IdleStands
<1>4. txn' = [txn EXCEPT ![r] = j] /\ Stands(j)' /\ j.held = {}
  BY <1>2, <1>3 DEF Done, Idle
<1>5. txn' \in [Requests -> Txn] /\ LocksApart' /\ \A q \in Requests : Stands(txn[q])'
  BY <1>1, <1>4, TxnStep
<1> QED BY <1>1, <1>5 DEF Inv

\* Nobody else holds what a request holds; it is rows there are.
LEMMA OwnRows ==
    ASSUME Inv, NEW r \in Requests, NEW more, more = txn[r].held \ {GrantRow}
    PROVE  /\ more \in SUBSET Rows
           /\ more \ CodeRows \subseteq AllIssued
           /\ \A q \in Requests \ {r} : more \cap txn[q].held = {}
<1>1. txn[r] \in Txn /\ Stands(txn[r])
  BY DEF Inv, TypeOK
<1>2. more \in SUBSET Rows
  BY <1>1 DEF Txn, Lockable
<1>3. more \ CodeRows \subseteq AllIssued
  BY <1>1 DEF Stands, Within
<1> QED BY <1>2, <1>3 DEF Inv, LocksApart

LEMMA ExchangeRefusedKeeps ==
    ASSUME Inv, NEW r \in Requests, ExchangeRefused(r)
    PROVE  Inv'
<1> DEFINE f == txn[r].family
<1>1. /\ txn[r].pc = "issue" /\ dead' = dead \cup {CodeRow(f)} /\ Done(r)
      /\ UNCHANGED <<access, issue, stale, ended>>
  BY DEF ExchangeRefused
<1>2. f \in Families /\ CodeRow(f) \in txn[r].held
  BY <1>1 DEF Inv, Stands, StandsIssue
<1>3. PICK more : more = {CodeRow(f)}
  OBVIOUS
<1>4. /\ more \in SUBSET Rows /\ more \ CodeRows \subseteq AllIssued
      /\ dead' = dead \cup more
  BY <1>1, <1>2, <1>3, RowKinds
<1>5. \A q \in Requests \ {r} : more \cap txn[q].held = {}
  BY <1>2, <1>3 DEF Inv, LocksApart
<1>6. /\ UNCHANGED <<account, issue, stale>> /\ grant' = grant /\ ended' = ended
      /\ grant' \in GrantType /\ ended' \in EndedType
  BY <1>1 DEF access, Inv, TypeOK, GrantType, EndedType
<1>7. \A g \in Families : ended'[g] = "holder" => pairs[g] > 0 /\ Issued(g) \subseteq dead'
  BY <1>4, <1>6 DEF Inv, FamilyInOrder
<1>8. Unused' \subseteq Unused /\ AllIssued' = AllIssued
  BY <1>4, <1>6, <1>7, EndRows
<1>9. RevokedGrantIsOver'
  BY <1>4, <1>6, <1>8 DEF Inv, RevokedGrantIsOver
<1> QED BY <1>1, <1>4, <1>5, <1>6, <1>7, <1>9, EndStep

\* Whoever ended a family under its newest token's lock saw every row of it.
LEMMA EndFamilyKeeps ==
    ASSUME Inv, NEW r \in Requests, EndFamily(r)
    PROVE  Inv'
<1> DEFINE f == txn[r].family
<1>1. PICK more : more = txn[r].held \ {GrantRow}
  OBVIOUS
<1>2. /\ txn[r].pc = "revoking" /\ txn[r].visit = {} /\ dead' = dead \cup more /\ Done(r)
      /\ UNCHANGED <<access, issue, stale>>
      /\ ended' = [ended EXCEPT ![f] =
             IF txn[r].newest THEN "holder" ELSE IF @ = "no" THEN "older" ELSE @]
  BY <1>1 DEF EndFamily
<1>3. /\ more \in SUBSET Rows /\ more \ CodeRows \subseteq AllIssued
      /\ \A q \in Requests \ {r} : more \cap txn[q].held = {}
  BY <1>1, OwnRows
<1>4. /\ UNCHANGED <<account, issue, stale>> /\ grant' = grant /\ grant' \in GrantType
  BY <1>2 DEF access, Inv, TypeOK, GrantType
<1>5. /\ txn[r] \in Txn /\ f \in Families /\ ended \in EndedType
      /\ Stands(txn[r])
  BY <1>2 DEF Inv, TypeOK, Stands, EndedType
<1>6. ended' \in EndedType
  BY <1>2, <1>5 DEF EndedType
<1>7. ASSUME NEW g \in Families, ended'[g] = "holder"
      PROVE  pairs[g] > 0 /\ Issued(g) \subseteq dead'
  <2>1. CASE ended[g] = "holder"
    BY <1>2, <2>1 DEF Inv, FamilyInOrder
  <2>2. CASE ended[g] # "holder"
    <3>1. g = f /\ txn[r].newest = TRUE
      BY <1>2, <1>5, <1>7, <2>2 DEF EndedType, Txn
    <3>2. /\ txn[r].pair \in Pairs /\ txn[r].pair = pairs[f]
          /\ Issued(f) \subseteq dead \cup txn[r].held
      BY <1>2, <1>5, <3>1 DEF Stands, StandsNewest
    <3>3. GrantRow \notin Issued(f)
      BY <1>5, IssuedAreRows, RowKinds DEF Inv, TypeOK
    <3>4. Issued(f) \subseteq dead'
      BY <1>1, <1>2, <3>2, <3>3
    <3> QED BY <3>1, <3>2, <3>4 DEF Pairs
  <2> QED BY <2>1, <2>2
<1>8. Unused' \subseteq Unused /\ AllIssued' = AllIssued
  BY <1>2, <1>3, <1>4, <1>6, <1>7, EndRows
<1>9. RevokedGrantIsOver'
  BY <1>2, <1>4, <1>8 DEF Inv, RevokedGrantIsOver
<1> QED BY <1>2, <1>3, <1>4, <1>6, <1>7, <1>9, EndStep

\* A revocation that holds the grant has visited every token and every code.
LEMMA EndGrantKeeps ==
    ASSUME Inv, NEW r \in Requests, EndGrant(r)
    PROVE  Inv'
<1>1. PICK more : more = txn[r].held \ {GrantRow}
  OBVIOUS
<1>2. /\ txn[r].pc = "tokens" /\ txn[r].visit = {} /\ dead' = dead \cup more /\ Done(r)
      /\ UNCHANGED <<account, issue, stale, ended>>
      /\ grant' = [grant EXCEPT !.active = FALSE]
  BY <1>1 DEF EndGrant
<1>3. /\ more \in SUBSET Rows /\ more \ CodeRows \subseteq AllIssued
      /\ \A q \in Requests \ {r} : more \cap txn[q].held = {}
  BY <1>1, OwnRows
<1>4. grant' \in GrantType /\ grant'.era = grant.era /\ ended' \in EndedType
  BY <1>2 DEF Inv, TypeOK, GrantType, EndedType
<1>5. \A f \in Families : ended'[f] = "holder" => pairs[f] > 0 /\ Issued(f) \subseteq dead'
  BY <1>2 DEF Inv, FamilyInOrder
<1>6. Unused' \subseteq Unused /\ AllIssued' = AllIssued
  BY <1>2, <1>3, <1>4, <1>5, EndRows
<1>7. Unused \subseteq txn[r].held /\ AllIssued \subseteq dead \cup txn[r].held
  BY <1>2 DEF Inv, Stands, StandsGrant
<1>8. GrantRow \notin AllIssued /\ GrantRow \notin Unused
  BY IssuedAreRows, RowKinds, RowNames DEF Inv, TypeOK, AllIssued, Unused
<1>9. Unused' = {}
  <2>1. Unused' \cap dead' = {}
    BY DEF Unused
  <2> QED BY <1>1, <1>2, <1>6, <1>7, <1>8, <2>1
<1>10. AllIssued' \subseteq dead'
  BY <1>1, <1>2, <1>6, <1>7, <1>8
<1>11. RevokedGrantIsOver'
  BY <1>9, <1>10 DEF RevokedGrantIsOver
<1> QED BY <1>2, <1>3, <1>4, <1>5, <1>11, EndStep

-----------------------------------------------------------------------------
(* Requests that issue a pair                                              *)

\* A pair more in one family, while the grant stands and its row is free.
LEMMA PairStep ==
    ASSUME Inv, NEW r \in Requests, NEW f \in Families, NEW row \in txn[r].held \ {GrantRow},
           Done(r), Free(GrantRow), grant.active = TRUE,
           pairs[f] < MaxPairs, pairs' = [pairs EXCEPT ![f] = pairs[f] + 1],
           pairs[f] = 0 \/ Refresh(f, pairs[f]) \in txn[r].held,
           dead' = dead \cup {row},
           writes' \in [Families -> SUBSET Pairs],
           \A g \in Families : writes'[g] \subseteq 1..(pairs'[g]),
           started' \in [Families -> Eras],
           UNCHANGED <<access, code, stale, ended>>,
           \A g \in Families : FamilyInOrder(g)'
    PROVE  Inv'
<1>1. /\ txn[r] \in Txn /\ Stands(txn[r]) /\ pairs \in [Families -> 0..MaxPairs]
      /\ grant' = grant /\ account' = account /\ code' = code
  BY DEF Inv, TypeOK, access
<1>2. row \in Rows /\ (row \notin CodeRows => row \in AllIssued)
  BY <1>1 DEF Txn, Lockable, Stands, Within
<1>3. pairs[f] \in 0..MaxPairs /\ pairs[f] + 1 \in 0..MaxPairs /\ pairs[f] \in Nat
  BY <1>1, BoundsAssumption
<1>4. /\ pairs' \in [Families -> 0..MaxPairs]
      /\ pairs'[f] = pairs[f] + 1
      /\ \A g \in Families \ {f} : pairs'[g] = pairs[g]
  BY <1>1, <1>3
<1>5. \A g \in Families : pairs[g] <= pairs'[g]
  <2>1. ASSUME NEW g \in Families PROVE pairs[g] <= pairs'[g]
    <3>1. pairs[g] \in Nat /\ (g = f \/ pairs'[g] = pairs[g])
      BY <1>1, <1>4, BoundsAssumption
    <3> QED BY <3>1, <1>4
  <2> QED BY <2>1
<1>6. AllIssued \subseteq AllIssued'
  BY <1>4, <1>5, IssuedStay DEF Inv
<1>7. Typed(pairs', code', grant')
  BY <1>1, <1>4 DEF Typed, Inv, TypeOK
<1>8. ASSUME NEW q \in Requests \ {r} PROVE Respects(txn[q].held)
  <2>1. row \notin txn[q].held /\ GrantRow \notin txn[q].held
    BY DEF Inv, LocksApart, Free
  <2>2. pairs[f] = 0 \/ Refresh(f, pairs[f]) \notin txn[q].held
    BY DEF Inv, LocksApart
  <2>3. \A g \in Families :
            \/ pairs'[g] = pairs[g]
            \/ /\ pairs'[g] = pairs[g] + 1
               /\ pairs[g] = 0 \/ Refresh(g, pairs[g]) \notin txn[q].held
               /\ GrantRow \notin txn[q].held
    BY <1>4, <2>1, <2>2
  <2>4. grant.era <= grant'.era
    BY <1>1, BoundsAssumption DEF Inv, TypeOK, Eras
  <2> QED BY <1>1, <2>1, <2>3, <2>4 DEF Respects
<1>9. PICK j \in Txn : j = Idle
  BY IdleStands
<1>10. Stands(j)'
  BY <1>9 DEF Stands, Within, StandsIssue, StandsNewest, StandsGrant, Idle
<1>11. txn' = [txn EXCEPT ![r] = j] /\ j.held = {}
  BY <1>9 DEF Done, Idle
<1>12. txn' \in [Requests -> Txn] /\ LocksApart' /\ \A q \in Requests : Stands(txn[q])'
  BY <1>7, <1>8, <1>10, <1>11, TxnStep
<1>13. dead' \subseteq Rows /\ dead' \ CodeRows \subseteq AllIssued'
  BY <1>2, <1>6 DEF Inv, TypeOK
<1>14. TypeOK'
  BY <1>1, <1>4, <1>12, <1>13 DEF Inv, TypeOK
<1>15. RevokedGrantIsOver'
  BY <1>1 DEF RevokedGrantIsOver
<1> QED BY <1>12, <1>14, <1>15 DEF Inv

LEMMA IssueKeeps ==
    ASSUME Inv, NEW r \in Requests, Issue(r)
    PROVE  Inv'
<1>0. PICK f \in Families : f = txn[r].family
  BY DEF Inv, Stands, Issue
<1>1. /\ txn[r].pc = "issue" /\ txn[r] \in Txn /\ Stands(txn[r])
      /\ Free(GrantRow) /\ Done(r) /\ dead' = dead \cup {CodeRow(f)}
      /\ UNCHANGED <<access, code, stale, ended>>
  BY <1>0 DEF Issue, Inv, TypeOK
<1>2. /\ f \in Families /\ CodeRow(f) \in txn[r].held \ {GrantRow} /\ CodeRow(f) \notin dead
      /\ code[f].made /\ code[f].era <= txn[r].era /\ txn[r].era <= grant.era
  BY <1>0, <1>1, RowNames DEF Stands, StandsIssue
<1>3. pairs \in [Families -> 0..MaxPairs] /\ pairs[f] = 0 /\ writes[f] = {}
  <2>1. pairs \in [Families -> 0..MaxPairs] /\ pairs[f] \in Nat
    BY <1>2, BoundsAssumption DEF Inv, TypeOK
  <2>2. ~(pairs[f] > 0)
    BY <1>2 DEF Inv, FamilyInOrder
  <2> QED BY <1>2, <2>1, <2>2 DEF Inv, FamilyInOrder
<1>4. CASE StillMayConnect(f)
  <2>1. /\ pairs' = [pairs EXCEPT ![f] = 1]
        /\ writes' = [writes EXCEPT ![f] = IF ScopeAtExchange(f) THEN {1} ELSE {}]
        /\ started' = [started EXCEPT ![f] = txn[r].era]
    BY <1>0, <1>4 DEF Issue
  <2>2. grant.active = TRUE
    BY <1>4 DEF StillMayConnect, MayConnect, Inv, TypeOK
  <2>3. pairs[f] < MaxPairs /\ pairs' = [pairs EXCEPT ![f] = pairs[f] + 1] /\ 1 \in Pairs
    BY <1>3, <2>1, BoundsAssumption DEF Pairs
  <2>4. /\ pairs'[f] = 1 /\ \A g \in Families \ {f} : pairs'[g] = pairs[g]
        /\ writes'[f] \subseteq {1} /\ \A g \in Families \ {f} : writes'[g] = writes[g]
        /\ writes' \in [Families -> SUBSET Pairs]
        /\ started'[f] = txn[r].era /\ \A g \in Families \ {f} : started'[g] = started[g]
        /\ started' \in [Families -> Eras]
        /\ writes'[f] # {} => ScopeAtExchange(f)
    BY <1>1, <1>2, <1>3, <2>1, <2>3 DEF Inv, TypeOK, Txn
  <2>5. \A g \in Families : writes'[g] \subseteq 1..(pairs'[g])
    BY <2>4 DEF Inv, TypeOK
  <2>6. ASSUME NEW g \in Families, g # f PROVE FamilyInOrder(g)'
    <3>1. Issued(g)' = Issued(g) /\ pairs'[g] = pairs[g] /\ writes'[g] = writes[g]
          /\ started'[g] = started[g]
      BY <2>4, <2>6 DEF Issued
    <3> QED BY <1>1, <3>1 DEF Inv, FamilyInOrder, access
  <2>7. FamilyInOrder(f)'
    <3>1. CodeRow(f) \in dead' /\ code' = code /\ grant' = grant /\ ended' = ended
      BY <1>1 DEF access
    <3>2. \A i \in Pairs : ~(i < pairs'[f])
      BY <2>4 DEF Pairs
    <3>3. ended[f] # "holder"
      BY <1>2, <1>3 DEF Inv, FamilyInOrder
    <3>4. ASSUME writes'[f] # {} PROVE code[f].write = TRUE /\ started'[f] = code[f].era
      <4>1. code[f].write = TRUE /\ code[f].era = grant.era
        BY <1>2, <2>4, <3>4 DEF ScopeAtExchange, Covers, Inv, TypeOK, Code
      <4>2. txn[r].era \in Nat /\ grant.era \in Nat
        BY <1>1, BoundsAssumption DEF Inv, TypeOK, Txn, Eras
      <4> QED BY <1>2, <2>4, <4>1, <4>2
    <3>5. code[f].era <= grant.era
      BY <1>2 DEF Inv, FamilyInOrder
    <3>6. pairs'[f] > 0 => CodeRow(f) \in dead' /\ code'[f].made
      BY <1>2, <3>1
    <3>7. code'[f].made => code'[f].era <= grant'.era
      BY <3>1, <3>5
    <3>8. writes'[f] # {} => code'[f].write = TRUE /\ started'[f] = code'[f].era /\ pairs'[f] > 0
      <4>1. pairs'[f] > 0
        BY <2>4
      <4>2. code' = code
        BY <3>1
      <4> QED BY <3>4, <4>1, <4>2
    <3>9. ended'[f] # "holder"
      BY <3>1, <3>3
    <3> QED BY <3>2, <3>6, <3>7, <3>8, <3>9 DEF FamilyInOrder
  <2>8. PICK row : row = CodeRow(f)
    OBVIOUS
  <2>9. row \in txn[r].held \ {GrantRow} /\ dead' = dead \cup {row}
    BY <1>1, <1>2, <2>8
  <2>10. writes' \in [Families -> SUBSET Pairs] /\ started' \in [Families -> Eras]
    BY <2>4
  <2>11. \A g \in Families : FamilyInOrder(g)'
    BY <2>6, <2>7
  <2> QED BY <1>1, <1>3, <2>2, <2>3, <2>5, <2>9, <2>10, <2>11, PairStep
<1>5. CASE ~StillMayConnect(f)
  <2>1. UNCHANGED <<account, issue, stale>> /\ grant' = grant /\ ended' = ended
    BY <1>0, <1>1, <1>5 DEF Issue, issue, access
  <2>2. PICK more : more = {CodeRow(f)}
    OBVIOUS
  <2>3. /\ more \in SUBSET Rows /\ more \ CodeRows \subseteq AllIssued
        /\ dead' = dead \cup more
    BY <1>1, <1>2, <2>2, RowKinds
  <2>4. \A q \in Requests \ {r} : more \cap txn[q].held = {}
    BY <1>2, <2>2 DEF Inv, LocksApart
  <2>5. grant' \in GrantType /\ ended' \in EndedType
    BY <2>1 DEF Inv, TypeOK, GrantType, EndedType
  <2>6. \A g \in Families : ended'[g] = "holder" => pairs[g] > 0 /\ Issued(g) \subseteq dead'
    BY <2>1, <2>3 DEF Inv, FamilyInOrder
  <2>7. Unused' \subseteq Unused /\ AllIssued' = AllIssued
    BY <2>1, <2>3, <2>5, <2>6, EndRows
  <2>8. RevokedGrantIsOver'
    BY <2>1, <2>3, <2>7 DEF Inv, RevokedGrantIsOver
  <2> QED BY <1>1, <2>1, <2>3, <2>4, <2>5, <2>6, <2>8, EndStep
<1> QED BY <1>4, <1>5

LEMMA RotateKeeps ==
    ASSUME Inv, NEW r \in Requests, NEW asked \in BOOLEAN, Rotate(r, asked)
    PROVE  Inv'
<1>0. PICK f \in Families : f = txn[r].family
  BY DEF Inv, Stands, Rotate
<1>1. /\ txn[r].pc = "rotate" /\ txn[r] \in Txn /\ Stands(txn[r]) /\ Free(GrantRow)
      /\ UNCHANGED <<access, code, started, stale, ended>>
  BY DEF Rotate, GrantHeld, Inv, TypeOK
<1>2. PICK i \in Pairs : i = txn[r].pair
  BY <1>1 DEF Stands, StandsNewest
<1>3. /\ i = pairs[f] /\ Refresh(f, i) \in txn[r].held /\ Refresh(f, i) \notin dead
      /\ txn[r].newest = TRUE
  BY <1>0, <1>1, <1>2 DEF Stands, StandsNewest
<1>4. CASE StillMayConnect(f)
  <2>1. /\ i < MaxPairs /\ Done(r)
        /\ pairs' = [pairs EXCEPT ![f] = pairs[f] + 1]
        /\ dead' = dead \cup {Refresh(f, i)}
        /\ writes' = IF asked /\ ScopeAtRefresh(f, i)
                     THEN [writes EXCEPT ![f] = writes[f] \cup {pairs[f] + 1}] ELSE writes
    BY <1>0, <1>2, <1>4 DEF Rotate
  <2>2. grant.active = TRUE
    BY <1>4 DEF StillMayConnect, MayConnect, Inv, TypeOK
  <2>3. /\ pairs \in [Families -> 0..MaxPairs] /\ writes \in [Families -> SUBSET Pairs]
        /\ started \in [Families -> Eras] /\ \A g \in Families : writes[g] \subseteq 1..pairs[g]
    BY DEF Inv, TypeOK
  <2>4. pairs[f] \in Nat /\ pairs[f] > 0 /\ pairs[f] + 1 \in Pairs
    BY <1>2, <1>3, <2>1, BoundsAssumption DEF Pairs
  <2>5. pairs'[f] = pairs[f] + 1 /\ \A g \in Families \ {f} : pairs'[g] = pairs[g]
    BY <2>1, <2>3
  <2>6. /\ writes' \in [Families -> SUBSET Pairs]
        /\ \A g \in Families \ {f} : writes'[g] = writes[g]
        /\ writes'[f] \subseteq writes[f] \cup {pairs[f] + 1}
    BY <2>1, <2>3, <2>4
  <2>7. writes'[f] # {} => writes[f] # {}
    BY <2>1, <2>3 DEF ScopeAtRefresh
  <2>8. \A g \in Families : writes'[g] \subseteq 1..(pairs'[g])
    BY <2>3, <2>4, <2>5, <2>6
  <2>9. started' = started /\ code' = code /\ grant' = grant /\ ended' = ended
    BY <1>1 DEF access
  <2>10. ASSUME NEW g \in Families, g # f PROVE FamilyInOrder(g)'
    <3>1. Issued(g)' = Issued(g) /\ pairs'[g] = pairs[g] /\ writes'[g] = writes[g]
      BY <2>5, <2>6, <2>10 DEF Issued
    <3> QED BY <2>1, <2>9, <3>1 DEF Inv, FamilyInOrder
  <2>11. FamilyInOrder(f)'
    <3>1. FamilyInOrder(f)
      BY DEF Inv
    <3>2. CodeRow(f) \in dead' /\ code'[f].made
      BY <2>1, <2>4, <2>9, <3>1 DEF FamilyInOrder
    <3>3. ASSUME NEW k \in Pairs, k < pairs'[f] PROVE Refresh(f, k) \in dead'
      <4>1. k < pairs[f] \/ k = i
        BY <1>3, <2>4, <2>5, <3>3 DEF Pairs
      <4> QED BY <2>1, <3>1, <4>1 DEF FamilyInOrder
    <3>4. code'[f].made => code'[f].era <= grant'.era
      BY <2>9, <3>1 DEF FamilyInOrder
    <3>5. ASSUME writes'[f] # {}
          PROVE  code'[f].write = TRUE /\ started'[f] = code'[f].era /\ pairs'[f] > 0
      <4>1. code[f].write = TRUE /\ started[f] = code[f].era
        BY <2>7, <3>1, <3>5 DEF FamilyInOrder
      <4>2. pairs'[f] > 0
        BY <2>4, <2>5
      <4> QED BY <2>9, <4>1, <4>2
    <3>6. ended'[f] # "holder"
      <4>1. Refresh(f, i) \in Issued(f)
        BY <1>3, <2>3, <2>4, IssuedAreRows
      <4> QED BY <1>3, <2>9, <3>1, <4>1 DEF FamilyInOrder
    <3> QED BY <3>2, <3>3, <3>4, <3>5, <3>6 DEF FamilyInOrder
  <2>12. PICK row : row = Refresh(f, i)
    OBVIOUS
  <2>13. row \in txn[r].held \ {GrantRow} /\ dead' = dead \cup {row}
    BY <1>3, <2>1, <2>12, RowNames
  <2>14. pairs[f] < MaxPairs /\ Refresh(f, pairs[f]) \in txn[r].held
    BY <1>3, <2>1
  <2>15. started' \in [Families -> Eras] /\ UNCHANGED <<access, code, stale, ended>>
    BY <1>1, <2>3, <2>9
  <2>16. \A g \in Families : FamilyInOrder(g)'
    BY <2>10, <2>11
  <2> QED BY <1>1, <2>1, <2>2, <2>6, <2>8, <2>13, <2>14, <2>15, <2>16, PairStep
<1>5. CASE ~StillMayConnect(f)
  <2> DEFINE t == [txn[r] EXCEPT !.pc = "family", !.held = @ \cup {GrantRow}]
  <2>1. txn' = [txn EXCEPT ![r] = t] /\ UNCHANGED <<access, issue, dead, stale, ended>>
    BY <1>0, <1>1, <1>5 DEF Rotate, issue
  <2>2. /\ t.pc = "family" /\ t.family = txn[r].family /\ t.pair = txn[r].pair
        /\ t.newest = txn[r].newest /\ t.visit = txn[r].visit
        /\ t.held = txn[r].held \cup {GrantRow}
    BY <1>1 DEF Txn
  <2>3. t \in Txn
    BY <1>1, RowKinds DEF Txn
  <2> HIDE DEF t
  <2>4. Within(t)
    BY <1>1, <2>2 DEF Stands, Within
  <2>5. StandsNewest(t)
    BY <1>1, <2>2 DEF Stands, StandsNewest
  <2>6. Stands(t)
    BY <1>0, <2>2, <2>4, <2>5 DEF Stands, StandsIssue, StandsGrant
  <2>7. PICK j \in Txn : j = t
    BY <2>3
  <2>8. txn' = [txn EXCEPT ![r] = j] /\ Stands(j)
    BY <2>1, <2>6, <2>7
  <2>9. \A q \in Requests \ {r} : {GrantRow} \cap txn[q].held = {}
    BY <1>1, FreeRow
  <2>10. \A q \in Requests \ {r} : (j.held \ txn[r].held) \cap txn[q].held = {}
    BY <2>2, <2>7, <2>9
  <2> QED BY <2>1, <2>8, <2>10, QuietStep
<1> QED BY <1>4, <1>5

-----------------------------------------------------------------------------
(* Operators, the account and time                                         *)

LEMMA AuthorizeKeeps ==
    ASSUME Inv, NEW f \in Families, NEW asked \in BOOLEAN, Authorize(f, asked)
    PROVE  Inv'
<1> DEFINE minted == [made |-> TRUE, write |-> asked /\ MayWrite,
                      era |-> grant.era, epoch |-> account.epoch]
<1>1. /\ ~code[f].made /\ Free(GrantRow) /\ grant.active = TRUE
      /\ code' = [code EXCEPT ![f] = minted]
      /\ UNCHANGED <<access, pairs, writes, started, dead, stale, txn, ended>>
  BY DEF Authorize, MayConnect, Inv, TypeOK
<1>2. /\ grant \in GrantType /\ account \in [eligible : BOOLEAN, epoch : Epochs]
      /\ code \in [Families -> Code] /\ grant.era \in Nat
  BY BoundsAssumption DEF Inv, TypeOK, GrantType, Eras
<1>3. minted \in Code
  BY <1>2 DEF Code, GrantType
<1>4. /\ code' \in [Families -> Code] /\ code'[f] = minted
      /\ \A g \in Families \ {f} : code'[g] = code[g]
  BY <1>1, <1>2, <1>3
<1>5. minted.era = grant.era
  OBVIOUS
<1> HIDE DEF minted
<1>6. UNCHANGED grant /\ UNCHANGED account
  BY <1>1 DEF access
<1>7. Typed(pairs', code', grant')
  BY <1>1, <1>4, <1>6 DEF Typed, Inv, TypeOK
<1>8. ASSUME NEW q \in Requests PROVE Respects(txn[q].held)
  <2>1. GrantRow \notin txn[q].held
    BY <1>1 DEF Free
  <2>2. \A g \in Families : code[g].made => code'[g] = code[g]
    BY <1>1, <1>4
  <2> QED BY <1>1, <1>2, <1>6, <2>1, <2>2 DEF Respects
<1>9. txn' \in [Requests -> Txn] /\ LocksApart' /\ \A q \in Requests : Stands(txn[q])'
  BY <1>1, <1>7, <1>8, AroundStep
<1>10. ASSUME NEW g \in Families PROVE FamilyInOrder(g)'
  <2>1. Issued(g)' = Issued(g)
    BY <1>1 DEF Issued
  <2>2. FamilyInOrder(g)
    BY DEF Inv
  <2>3. CASE g # f
    BY <1>1, <1>4, <1>6, <2>1, <2>2, <2>3 DEF FamilyInOrder
  <2>4. CASE g = f
    <3>1. ~(pairs[f] > 0)
      BY <1>1, <2>2, <2>4 DEF FamilyInOrder
    <3>2. code'[f].era = grant'.era /\ grant'.era \in Nat
      BY <1>2, <1>4, <1>5, <1>6
    <3>3. writes'[f] = {} /\ ended'[f] # "holder"
      BY <1>1, <2>2, <2>4, <3>1 DEF FamilyInOrder
    <3>4. \A i \in Pairs : i < pairs'[f] => Refresh(f, i) \in dead'
      BY <1>1, <2>2, <2>4 DEF FamilyInOrder
    <3> QED BY <1>1, <2>4, <3>1, <3>2, <3>3, <3>4 DEF FamilyInOrder
  <2> QED BY <2>3, <2>4
<1>11. TypeOK'
  <2>1. AllIssued' = AllIssued
    BY <1>1 DEF AllIssued, Issued
  <2> QED BY <1>1, <1>4, <1>6, <1>9, <2>1 DEF Inv, TypeOK
<1>12. RevokedGrantIsOver'
  BY <1>1, <1>6 DEF RevokedGrantIsOver
<1> QED BY <1>9, <1>10, <1>11, <1>12 DEF Inv

LEMMA RevokeAccessKeeps ==
    ASSUME Inv, NEW f \in Families, NEW i \in Pairs, RevokeAccess(f, i)
    PROVE  Inv'
<1>1. PICK more : more = {Access(f, i)}
  OBVIOUS
<1>2. /\ i <= pairs[f] /\ dead' = dead \cup more
      /\ Free(Access(f, i)) /\ UNCHANGED <<access, issue, stale, txn, ended>>
  BY <1>1 DEF RevokeAccess
<1>3. i \in 1..pairs[f]
  BY <1>2, BoundsAssumption DEF Inv, TypeOK, Pairs
<1>4. more \in SUBSET Rows /\ more \ CodeRows \subseteq AllIssued
  BY <1>1, <1>3, RowKinds, IssuedAreRows DEF Inv, TypeOK, AllIssued
<1>5. \A q \in Requests : more \cap txn[q].held = {}
  BY <1>1, <1>2 DEF Free
<1>6. /\ UNCHANGED <<account, issue, stale>> /\ grant' = grant /\ ended' = ended
      /\ grant' \in GrantType /\ ended' \in EndedType
  BY <1>2 DEF access, Inv, TypeOK, GrantType, EndedType
<1>7. \A g \in Families : ended'[g] = "holder" => pairs[g] > 0 /\ Issued(g) \subseteq dead'
  BY <1>2, <1>6 DEF Inv, FamilyInOrder
<1>8. /\ Typed(pairs', code', grant')
      /\ \A g \in Families : FamilyInOrder(g)'
      /\ \A held : more \cap held = {} => Respects(held)
      /\ txn' \in [Requests -> Txn] => TypeOK'
      /\ Unused' \subseteq Unused /\ AllIssued' = AllIssued
  BY <1>2, <1>4, <1>6, <1>7, EndRows
<1>9. txn' \in [Requests -> Txn] /\ LocksApart' /\ \A q \in Requests : Stands(txn[q])'
  BY <1>2, <1>5, <1>8, AroundStep
<1>10. RevokedGrantIsOver'
  BY <1>2, <1>6, <1>8 DEF Inv, RevokedGrantIsOver
<1> QED BY <1>8, <1>9, <1>10 DEF Inv

\* A write decision, a change of the account and the passing of time touch none
\* of the rows; a decision only moves the grant's era on.
LEMMA OutsideStep ==
    ASSUME Inv, UNCHANGED <<issue, dead, txn, ended>>,
           grant' \in GrantType, grant'.active = grant.active, grant.era <= grant'.era,
           account' \in [eligible : BOOLEAN, epoch : Epochs], stale' \subseteq Rows
    PROVE  Inv'
<1>1. code' = code /\ pairs' = pairs /\ writes' = writes /\ started' = started
  BY DEF issue
<1>2. (\A f \in Families : Issued(f)' = Issued(f)) /\ AllIssued' = AllIssued
      /\ Unused' = Unused
  BY <1>1 DEF Issued, AllIssued, Unused
<1>3. Typed(pairs', code', grant')
  BY <1>1 DEF Inv, TypeOK, Typed, GrantType
<1>4. \A held : Respects(held)
  BY <1>1 DEF Respects
<1>5. txn' \in [Requests -> Txn] /\ LocksApart' /\ \A q \in Requests : Stands(txn[q])'
  BY <1>3, <1>4, AroundStep
<1>6. ASSUME NEW f \in Families PROVE FamilyInOrder(f)'
  <2>1. code[f].made => code[f].era <= grant'.era
    <3>1. code[f].era \in Nat /\ grant.era \in Nat /\ grant'.era \in Nat
      BY BoundsAssumption DEF Inv, TypeOK, Code, Eras, GrantType
    <3> QED BY <3>1 DEF Inv, FamilyInOrder
  <2> QED BY <1>1, <1>2, <2>1 DEF Inv, FamilyInOrder
<1>7. TypeOK'
  BY <1>1, <1>2, <1>5 DEF Inv, TypeOK, GrantType
<1>8. RevokedGrantIsOver'
  BY <1>2 DEF Inv, RevokedGrantIsOver
<1> QED BY <1>5, <1>6, <1>7, <1>8 DEF Inv

LEMMA OutsideKeeps ==
    ASSUME Inv, GrantWrite \/ RevokeWrite \/ ChangeAccount \/ Age
    PROVE  Inv'
<1>1. /\ grant \in GrantType /\ account \in [eligible : BOOLEAN, epoch : Epochs]
      /\ stale \subseteq Rows /\ grant.era \in Nat /\ account.epoch \in Nat
      /\ pairs \in [Families -> 0..MaxPairs]
  BY BoundsAssumption DEF Inv, TypeOK, GrantType, Eras, Epochs
<1>2. CASE GrantWrite
  <2>1. /\ grant' = [grant EXCEPT !.write = TRUE, !.era = @ + 1] /\ grant.era < MaxEra
        /\ UNCHANGED <<account, issue, dead, stale, txn, ended>>
    BY <1>2 DEF GrantWrite
  <2>2. grant.era + 1 \in Eras
    BY <1>1, <2>1, BoundsAssumption DEF Eras
  <2>3. grant' \in GrantType /\ grant'.active = grant.active /\ grant'.era = grant.era + 1
    BY <1>1, <2>1, <2>2 DEF GrantType
  <2> QED BY <1>1, <2>1, <2>3, OutsideStep
<1>3. CASE RevokeWrite
  <2>1. /\ grant' = [grant EXCEPT !.write = FALSE]
        /\ UNCHANGED <<account, issue, dead, stale, txn, ended>>
    BY <1>3 DEF RevokeWrite
  <2>2. grant' \in GrantType /\ grant'.active = grant.active /\ grant'.era = grant.era
    BY <1>1, <2>1 DEF GrantType
  <2> QED BY <1>1, <2>1, <2>2, OutsideStep
<1>4. CASE ChangeAccount
  <2>1. /\ \/ account' = [account EXCEPT !.eligible = ~@]
           \/ account.epoch < MaxEpoch /\ account' = [account EXCEPT !.epoch = @ + 1]
        /\ UNCHANGED <<grant, issue, dead, stale, txn, ended>>
    BY <1>4 DEF ChangeAccount
  <2>2. account.epoch < MaxEpoch => account.epoch + 1 \in Epochs
    BY <1>1, BoundsAssumption DEF Epochs
  <2>3. account' \in [eligible : BOOLEAN, epoch : Epochs]
    BY <1>1, <2>1, <2>2
  <2> QED BY <1>1, <2>1, <2>3, OutsideStep
<1>5. CASE Age
  <2>1. PICK f \in Families :
            \/ \E i \in 1..pairs[f] : i < pairs[f] /\ stale' = stale \cup {Refresh(f, i)}
            \/ pairs[f] > 0 /\ stale' = stale \cup {CodeRow(f)}
    BY <1>5 DEF Age
  <2>2. \A i \in 1..pairs[f] : i \in Pairs
    BY <1>1, BoundsAssumption DEF Pairs
  <2>3. stale' \subseteq Rows
    BY <1>1, <2>1, <2>2, RowKinds
  <2>4. UNCHANGED <<grant, account, issue, dead, txn, ended>>
    BY <1>5 DEF Age, access
  <2> QED BY <1>1, <2>3, <2>4, OutsideStep
<1> QED BY <1>2, <1>3, <1>4, <1>5

-----------------------------------------------------------------------------
(* The invariant                                                           *)

LEMMA InvInit == Init => Inv
<1> SUFFICES ASSUME Init PROVE Inv
  OBVIOUS
<1>1. /\ grant = [active |-> TRUE, write |-> FALSE, era |-> 0]
      /\ account = [eligible |-> TRUE, epoch |-> 0]
      /\ code = [f \in Families |-> NoCode] /\ pairs = [f \in Families |-> 0]
      /\ writes = [f \in Families |-> {}] /\ started = [f \in Families |-> 0]
      /\ dead = {} /\ stale = {} /\ ended = [f \in Families |-> "no"]
      /\ txn = [r \in Requests |-> Idle]
  BY DEF Init
<1>2. NoCode \in Code /\ 0 \in Eras /\ 0 \in Epochs /\ 0 \in 0..MaxPairs
  BY BoundsAssumption DEF NoCode, Code, Eras, Epochs
<1>3. TypeOK
  BY <1>1, <1>2, IdleStands DEF TypeOK
<1>4. LocksApart /\ \A r \in Requests : Stands(txn[r])
  BY <1>1, IdleStands DEF LocksApart, Idle
<1>5. ASSUME NEW f \in Families PROVE FamilyInOrder(f)
  BY <1>1 DEF FamilyInOrder, NoCode, Pairs
<1>6. RevokedGrantIsOver
  BY <1>1 DEF RevokedGrantIsOver
<1> QED BY <1>3, <1>4, <1>5, <1>6 DEF Inv

LEMMA RequestKeeps ==
    ASSUME Inv, NEW r \in Requests, RequestStep(r) \/ Abort(r)
    PROVE  Inv'
<1>1. CASE \E f \in Families : Exchange(r, f)
  BY <1>1, ExchangeKeeps
<1>2. CASE ExchangeRefused(r) \/ Issue(r)
  BY <1>2, ExchangeRefusedKeeps, IssueKeeps
<1>3. CASE \E f \in Families, i \in Pairs : Present(r, f, i) \/ RevokeToken(r, f, i)
  BY <1>3, PresentKeeps, RevokeTokenKeeps
<1>4. CASE Retry(r)
  BY <1>4, RetryKeeps
<1>5. CASE Answer(r) \/ Abort(r)
  <2>1. Done(r) /\ UNCHANGED <<access, issue, dead, stale, ended>>
    BY <1>5 DEF Answer, Abort
  <2> QED BY <2>1, LetGo
<1>6. CASE \E asked \in BOOLEAN : Rotate(r, asked)
  BY <1>6, RotateKeeps
<1>7. CASE RevokeGrant(r) \/ Begin(r)
  BY <1>7, RevokeGrantKeeps, BeginKeeps
<1>8. CASE \E row \in Rows : Visit(r, row)
  BY <1>8, VisitKeeps
<1>9. CASE EndFamily(r) \/ EndGrant(r)
  BY <1>9, EndFamilyKeeps, EndGrantKeeps
<1> QED BY <1>1, <1>2, <1>3, <1>4, <1>5, <1>6, <1>7, <1>8, <1>9 DEF RequestStep

LEMMA InvNext == Inv /\ [Next]_vars => Inv'
<1> SUFFICES ASSUME Inv, [Next]_vars PROVE Inv'
  OBVIOUS
<1>1. CASE \E r \in Requests : RequestStep(r) \/ Abort(r)
  BY <1>1, RequestKeeps
<1>2. CASE Around
  BY <1>2, AuthorizeKeeps, RevokeAccessKeeps, OutsideKeeps DEF Around
<1>3. CASE UNCHANGED vars
  <2>1. /\ UNCHANGED <<issue, dead, txn, ended>> /\ grant' = grant /\ account' = account
        /\ stale' = stale
    BY <1>3 DEF vars, issue
  <2>2. grant' \in GrantType /\ grant.era <= grant'.era
    BY <2>1, BoundsAssumption DEF Inv, TypeOK, GrantType, Eras
  <2> QED BY <2>1, <2>2, OutsideStep DEF Inv, TypeOK
<1> QED BY <1>1, <1>2, <1>3 DEF Next

-----------------------------------------------------------------------------
(* What follows from it                                                    *)

LEMMA OneLiveRefreshFollows == Inv => OneLiveRefresh
<1> SUFFICES ASSUME Inv, NEW f \in Families
             PROVE  Cardinality({i \in 1..pairs[f] : Refresh(f, i) \notin dead}) <= 1
  BY DEF OneLiveRefresh
<1> DEFINE live == {i \in 1..pairs[f] : Refresh(f, i) \notin dead}
<1>1. pairs[f] \in 0..MaxPairs /\ pairs[f] \in Nat
  BY BoundsAssumption DEF Inv, TypeOK
<1>2. live \subseteq {pairs[f]}
  <2>1. ASSUME NEW i \in live PROVE i = pairs[f]
    <3>1. i \in Pairs /\ i <= pairs[f]
      BY <1>1, BoundsAssumption DEF Pairs
    <3>2. ~(i < pairs[f])
      BY <3>1 DEF Inv, FamilyInOrder
    <3> QED BY <1>1, <3>1, <3>2 DEF Pairs
  <2> QED BY <2>1
<1>3. IsFiniteSet({pairs[f]}) /\ Cardinality({pairs[f]}) = 1
  BY FS_Singleton
<1>4. IsFiniteSet(live) /\ Cardinality(live) <= Cardinality({pairs[f]})
  BY <1>2, <1>3, FS_Subset
<1> QED BY <1>3, <1>4

LEMMA HolderEndsFamilyFollows == Inv => HolderEndsFamily
BY DEF Inv, FamilyInOrder, HolderEndsFamily

\* A pair that writes now was begun under the decision that stands, and its
\* family began under the decision its code was consented to.
LEMMA WritesUnderConsentFollows == Inv => WritesUnderConsent
<1> SUFFICES ASSUME Inv, NEW f \in Families, NEW i \in Pairs, Writer(f, i)
             PROVE  code[f].write /\ code[f].era = grant.era
  BY DEF WritesUnderConsent
<1>1. i \in writes[f] /\ started[f] = grant.era
  BY DEF Writer, Covers
<1>2. code[f].write = TRUE /\ started[f] = code[f].era
  BY <1>1 DEF Inv, FamilyInOrder
<1> QED BY <1>1, <1>2

\* Whatever the requests and their interleaving, no row is ever locked twice,
\* what each transaction has read of the rows it holds is still so when it acts
\* on it, and every family's rows are in order.
THEOREM LocksSuffice == Spec => []Inv
<1> QED BY InvInit, InvNext, PTL DEF Spec

\* Every variable keeps its type, in every instance.
THEOREM TokensTyped == Spec => []TypeOK
<1>1. Inv => TypeOK
  BY DEF Inv
<1> QED BY <1>1, LocksSuffice, PTL

\* A family has at most one refresh token that works, in every instance.
THEOREM OneLiveRefreshHolds == Spec => []OneLiveRefresh
<1> QED BY OneLiveRefreshFollows, LocksSuffice, PTL

\* A revoked grant leaves no token and no unused code behind.
THEOREM RevokedGrantIsOverHolds == Spec => []RevokedGrantIsOver
<1>1. Inv => RevokedGrantIsOver
  BY DEF Inv
<1> QED BY <1>1, LocksSuffice, PTL

\* A family ended under its newest refresh token's lock has no token that works,
\* and never has one again.
THEOREM HolderEndsFamilyHolds == Spec => []HolderEndsFamily
<1> QED BY HolderEndsFamilyFollows, LocksSuffice, PTL

\* A token that may prepare changes was consented to under the write decision
\* that stands.
THEOREM WritesUnderConsentHolds == Spec => []WritesUnderConsent
<1> QED BY WritesUnderConsentFollows, LocksSuffice, PTL
=============================================================================
