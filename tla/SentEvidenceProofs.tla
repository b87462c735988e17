-------------------------- MODULE SentEvidenceProofs --------------------------
(***************************************************************************)
(* Proofs about the opinions of a Matter and their files, for any number   *)
(* of documents, opinions and versions: first as calls (SentEvidence),     *)
(* then as the transactions that make them (EvidenceLocks).                *)
(***************************************************************************)
EXTENDS EvidenceLocks, FiniteSetTheorems, TLAPS

\* A file an opinion names has been stored: what makes the other two inductive,
\* because a Document that is filed later is nobody's evidence yet.
FilesAreStored == \A s \in Submissions : Files(s) \subseteq Stored

FileInv ==
    /\ FileTypeOK
    /\ FilesAreStored
    /\ EvidenceAsRestricted
    /\ EvidenceKept

\* What an opinion rests on, read one opinion at a time.
Rests(s) ==
    \A v \in Files(s) :
        /\ v \in Stored
        /\ Covers(restricted, doc[v[1]].restricted, sub[s].restricted)
        /\ sub[s].status # "withdrawn" => ~doc[v[1]].removed /\ ~doc[v[1]].working

LEMMA InvIsRests ==
    FileInv <=> FileTypeOK /\ \A s \in Submissions : Rests(s)
BY DEF FileInv, FilesAreStored, EvidenceAsRestricted, EvidenceKept, Rests

LEMMA VersionParts ==
    \A v \in Version : v = <<v[1], v[2]>> /\ v[1] \in Documents /\ v[2] \in 1..MaxVersions
BY DEF Version

LEMMA EmptyRows ==
    /\ NoDocument \in Document
    /\ NoSubmission \in Submission
    /\ \A own \in BOOLEAN : Filed(own) \in Document /\ Drafted(own) \in Submission
<1>1. 0 \in 0..MaxVersions /\ 1 \in 0..MaxVersions
  BY VersionsAssumption
<1>2. NoDocument \in Document
  BY <1>1 DEF NoDocument, Document
<1>3. \A own \in BOOLEAN : Filed(own) \in Document
  BY <1>1, <1>2 DEF Filed, Document
<1>4. NoSubmission \in Submission /\ \A own \in BOOLEAN : Drafted(own) \in Submission
  BY DEF NoSubmission, Drafted, Submission
<1> QED
  BY <1>2, <1>3, <1>4

LEMMA BasedRow ==
    ASSUME NEW own \in BOOLEAN, NEW status \in {"draft", "sent"}, NEW v \in Version
    PROVE  Based(status, own, v) \in Submission
<1>1. Drafted(own) \in Submission
  BY EmptyRows
<1> QED
  BY <1>1 DEF Based, Submission

LEMMA ComposedFile ==
    ASSUME NEW working \in BOOLEAN
    PROVE  LET file == [NoDocument EXCEPT !.versions = 1, !.working = working]
           IN  /\ file \in Document /\ file.versions = 1 /\ ~file.removed
               /\ file.working = working
<1>1. 1 \in 0..MaxVersions
  BY VersionsAssumption
<1> QED
  BY <1>1 DEF NoDocument, Document

LEMMA FilesAreVersions ==
    FileTypeOK => \A s \in Submissions : Files(s) \subseteq Version
BY DEF FileTypeOK, Files, Submission

-----------------------------------------------------------------------------
(* One opinion or one Document changes at a time                            *)

\* A Document nobody's opinion names may become anything; one that an opinion
\* names keeps its versions and its restriction, and may only be removed under a
\* withdrawn opinion.
LEMMA DocumentsWritten ==
    ASSUME FileInv, doc' \in [Documents -> Document],
           UNCHANGED <<restricted, open, sub>>,
           \A s \in Submissions : \A v \in Files(s) :
              /\ doc'[v[1]].versions >= doc[v[1]].versions
              /\ doc'[v[1]].restricted = doc[v[1]].restricted
              /\ sub[s].status # "withdrawn" =>
                    /\ doc'[v[1]].removed = doc[v[1]].removed
                    /\ doc'[v[1]].working = doc[v[1]].working
    PROVE  FileInv'
<1>1. FileTypeOK'
  BY DEF FileInv, FileTypeOK
<1>2. ASSUME NEW s \in Submissions PROVE Rests(s)'
  <2>1. Rests(s) /\ Files(s)' = Files(s) /\ Files(s) \subseteq Version
    BY InvIsRests, FilesAreVersions DEF Files, FileInv
  <2>2. ASSUME NEW v \in Files(s) PROVE v \in Stored'
    <3>1. v \in Version /\ v[2] <= doc[v[1]].versions
      BY <2>1 DEF Rests, Stored
    <3>2. v[2] \in Nat /\ doc[v[1]].versions \in Nat /\ doc'[v[1]].versions \in Nat
      BY <3>1, VersionParts DEF FileInv, FileTypeOK, Document
    <3>3. v[2] <= doc'[v[1]].versions
      BY <3>1, <3>2
    <3> QED
      BY <3>1, <3>3 DEF Stored
  <2> QED
    BY <2>1, <2>2 DEF Rests, Covers
<1> QED
  BY <1>1, <1>2 DEF FileInv, FilesAreStored, EvidenceAsRestricted, EvidenceKept, Rests

\* A Document with no version is no opinion's evidence.
LEMMA NewIsNobodys ==
    ASSUME FileInv, NEW s \in Submissions, NEW v \in Files(s)
    PROVE  v \in Version /\ doc[v[1]].versions # 0
<1>1. v \in Version /\ v[2] <= doc[v[1]].versions
  BY DEF FileInv, FilesAreStored, Stored
<1>2. v[2] \in Nat /\ v[2] >= 1 /\ doc[v[1]].versions \in Nat
  BY <1>1, VersionParts DEF FileInv, FileTypeOK, Document
<1> QED
  BY <1>1, <1>2

\* Opinion s becomes row, on files that are stored or new: it is enough to look
\* at row, because no other opinion names a Document that was new.
LEMMA OpinionWritten ==
    ASSUME FileInv, NEW s \in Submissions, NEW row \in Submission,
           sub' = [sub EXCEPT ![s] = row], UNCHANGED <<restricted, open>>,
           doc' \in [Documents -> Document],
           \A d \in Documents : doc[d].versions # 0 => doc'[d] = doc[d],
           \A v \in row.further \cup ({row.final} \cap Version) :
              /\ v[2] <= doc'[v[1]].versions
              /\ Covers(restricted, doc'[v[1]].restricted, row.restricted)
              /\ row.status # "withdrawn" => ~doc'[v[1]].removed /\ ~doc'[v[1]].working
    PROVE  FileInv'
<1>1. FileTypeOK'
  BY DEF FileInv, FileTypeOK
<1>2. sub'[s] = row /\ \A t \in Submissions \ {s} : sub'[t] = sub[t]
  BY DEF FileInv, FileTypeOK
<1>3. Rests(s)'
  <2>1. Files(s)' = row.further \cup ({row.final} \cap Version) /\ Files(s)' \subseteq Version
    BY <1>2 DEF Files, Submission
  <2> QED
    BY <1>2, <2>1 DEF Rests, Stored, Covers
<1>4. ASSUME NEW t \in Submissions \ {s} PROVE Rests(t)'
  <2>1. Rests(t) /\ Files(t)' = Files(t)
    BY <1>2, InvIsRests DEF Files
  <2>2. ASSUME NEW v \in Files(t) PROVE v \in Version /\ doc'[v[1]] = doc[v[1]]
    BY <2>2, NewIsNobodys, VersionParts
  <2> QED
    BY <1>2, <2>1, <2>2 DEF Rests, Stored, Covers
<1> QED
  BY <1>1, <1>3, <1>4 DEF FileInv, FilesAreStored, EvidenceAsRestricted, EvidenceKept, Rests

-----------------------------------------------------------------------------
(* Every call keeps it                                                      *)

LEMMA FilesBegin == FileInit => FileInv
<1> SUFFICES ASSUME FileInit PROVE FileInv
  OBVIOUS
<1>1. doc \in [Documents -> Document]
  BY EmptyRows DEF FileInit
<1>2. 1 \in 1..MaxVersions
  BY VersionsAssumption
<1>3. \A d \in Documents : <<d, 1>> \in Version
  BY <1>2 DEF Version
<1>4. PICK s \in Submissions, own \in BOOLEAN, status \in {"draft", "sent"}, d \in Documents :
           \E row \in {NoSubmission, Drafted(own), Based(status, own, <<d, 1>>)} :
             sub = [t \in Submissions |-> IF t = s THEN row ELSE NoSubmission]
  BY DEF FileInit
<1>5. PICK row \in {NoSubmission, Drafted(own), Based(status, own, <<d, 1>>)} :
        sub = [t \in Submissions |-> IF t = s THEN row ELSE NoSubmission]
  BY <1>4
<1>6. row \in Submission
  BY <1>3, <1>4, EmptyRows, BasedRow
<1>7. FileTypeOK
  BY <1>1, <1>5, <1>6, EmptyRows DEF FileInit, FileTypeOK
<1>8. \A t \in Submissions : \A v \in Files(t) : v \in Stored /\ Usable(sub[t].restricted, v)
  BY DEF FileInit
<1> QED
  BY <1>7, <1>8 DEF FileInv, FilesAreStored, EvidenceAsRestricted, EvidenceKept, Usable

\* A call on an opinion leaves the Documents as they are.
LEMMA SameDocuments ==
    ASSUME FileInv
    PROVE  /\ doc \in [Documents -> Document]
           /\ \A s \in Submissions : sub[s] \in Submission /\ Rests(s)
BY InvIsRests DEF FileInv, FileTypeOK

LEMMA FilesKeep == FileInv /\ [FileNext]_fileVars => FileInv'
<1> SUFFICES ASSUME FileInv, [FileNext]_fileVars PROVE FileInv'
  OBVIOUS
<1> USE SameDocuments
<1>1. ASSUME NEW d \in Documents, NEW own \in BOOLEAN, CanFile(d), DoFile(d, own)
      PROVE  FileInv'
  <2>1. \A s \in Submissions : \A v \in Files(s) : v[1] \in Documents \ {d}
    BY <1>1, NewIsNobodys, VersionParts DEF CanFile
  <2>2. doc' \in [Documents -> Document] /\ \A e \in Documents \ {d} : doc'[e] = doc[e]
    BY <1>1, EmptyRows DEF DoFile
  <2> QED
    BY <1>1, <2>1, <2>2, DocumentsWritten, NewIsNobodys DEF DoFile, Document
<1>2. ASSUME NEW d \in Documents, CanAddVersion(d), DoAddVersion(d) PROVE FileInv'
  <2>1. doc[d].versions \in Nat /\ doc[d].versions + 1 \in 0..MaxVersions
    BY <1>2, VersionsAssumption DEF CanAddVersion, Document
  <2>2. doc' = [doc EXCEPT ![d] = [doc[d] EXCEPT !.versions = doc[d].versions + 1]]
    BY <1>2 DEF DoAddVersion
  <2>3. [doc[d] EXCEPT !.versions = doc[d].versions + 1] \in Document
    BY <2>1 DEF Document
  <2>4. \A s \in Submissions : \A v \in Files(s) : v[1] \in Documents \ {d}
    BY <1>2, NewIsNobodys, VersionParts DEF CanAddVersion, Statuses, StandingOn
  <2>5. doc' \in [Documents -> Document] /\ \A e \in Documents \ {d} : doc'[e] = doc[e]
    BY <2>2, <2>3
  <2>6. \A e \in Documents : doc[e].versions >= doc[e].versions
    BY DEF Document
  <2> QED
    BY <1>2, <2>4, <2>5, <2>6, DocumentsWritten DEF DoAddVersion
<1>3. ASSUME NEW d \in Documents, CanRemove(d), DoRemove(d) PROVE FileInv'
  <2>1. doc' = [doc EXCEPT ![d] = [doc[d] EXCEPT !.removed = TRUE]]
    BY <1>3 DEF DoRemove
  <2>2. [doc[d] EXCEPT !.removed = TRUE] \in Document
    BY DEF Document
  <2>3. \A s \in Submissions : \A v \in Files(s) :
          v[1] \in Documents /\ (sub[s].status # "withdrawn" => v[1] # d)
    BY <1>3, NewIsNobodys, VersionParts DEF CanRemove, Statuses, StandingOn
  <2>4. /\ doc' \in [Documents -> Document]
        /\ \A e \in Documents \ {d} : doc'[e] = doc[e]
        /\ doc'[d].restricted = doc[d].restricted /\ doc'[d].versions = doc[d].versions
    BY <2>1, <2>2 DEF Document
  <2>5. \A e \in Documents : doc[e].versions >= doc[e].versions
    BY DEF Document
  <2> QED
    BY <1>3, <2>3, <2>4, <2>5, DocumentsWritten DEF DoRemove
<1>4. ASSUME NEW s \in Submissions, NEW own \in BOOLEAN, CanDraft(s), DoDraft(s, own)
      PROVE  FileInv'
  <2>1. Drafted(own) \in Submission /\ Drafted(own).further = {} /\ Drafted(own).final \notin Version
    BY EmptyRows, VersionsAssumption DEF Drafted, NoSubmission
  <2> QED
    BY <1>4, <2>1, OpinionWritten DEF DoDraft, OnlySub
<1>5. ASSUME NEW s \in Submissions, NEW d \in Documents, CanAttach(s, d), DoAttach(s, d)
      PROVE  FileInv'
  <2> DEFINE row == [sub[s] EXCEPT !.final = <<d, 1>>]
             file == Filed(sub[s].restricted)
  <2>1. sub[s].restricted \in BOOLEAN /\ 1 \in 1..MaxVersions
    BY VersionsAssumption DEF Submission
  <2>2. <<d, 1>> \in Version
    BY <2>1 DEF Version
  <2>3. row \in Submission /\ file \in Document
    BY <2>1, <2>2, EmptyRows DEF Submission
  <2>4. /\ doc' \in [Documents -> Document] /\ doc'[d] = file
        /\ \A e \in Documents : doc[e].versions # 0 => doc'[e] = doc[e]
    BY <1>5, <2>3 DEF DoAttach, CanAttach
  <2>5. file.versions = 1 /\ file.restricted = sub[s].restricted /\ ~file.removed /\ ~file.working
    BY <2>1 DEF Filed, NoDocument
  <2>6. row.further \subseteq Files(s) /\ row.final = <<d, 1>> /\ row.restricted = sub[s].restricted
        /\ row.status = sub[s].status
    BY DEF Files, Submission
  <2>7. ASSUME NEW v \in row.further
        PROVE  /\ v[2] <= doc'[v[1]].versions
               /\ Covers(restricted, doc'[v[1]].restricted, row.restricted)
               /\ row.status # "withdrawn" => ~doc'[v[1]].removed /\ ~doc'[v[1]].working
    BY <2>4, <2>6, <2>7, NewIsNobodys, VersionParts DEF Rests, Stored
  <2>8. \A v \in row.further \cup ({row.final} \cap Version) :
           v \in row.further \/ v = <<d, 1>>
    BY <2>6
  <2>9. \A v \in row.further \cup ({row.final} \cap Version) :
              /\ v[2] <= doc'[v[1]].versions
              /\ Covers(restricted, doc'[v[1]].restricted, row.restricted)
              /\ row.status # "withdrawn" => ~doc'[v[1]].removed /\ ~doc'[v[1]].working
    <3>1. 1 <= doc'[d].versions /\ Covers(restricted, doc'[d].restricted, row.restricted)
      BY <2>1, <2>4, <2>5, <2>6 DEF Covers
    <3> HIDE DEF row, file
    <3> QED
      BY <2>4, <2>5, <2>7, <2>8, <3>1
  <2>10. sub' = [sub EXCEPT ![s] = row] /\ UNCHANGED <<restricted, open>>
    BY <1>5 DEF DoAttach
  <2> HIDE DEF row, file
  <2> QED
    BY <2>3, <2>4, <2>9, <2>10, OpinionWritten
<1>6. ASSUME NEW s \in Submissions, NEW v \in Stored, CanSelect(s, v), DoSelect(s, v)
      PROVE  FileInv'
  <2> DEFINE row == [sub[s] EXCEPT !.final = v]
  <2>1. v \in Version /\ row \in Submission
    BY DEF Submission, Stored
  <2>2. row.further \subseteq Files(s) /\ row.final = v /\ row.restricted = sub[s].restricted
        /\ row.status = sub[s].status
    BY DEF Files, Submission
  <2>3. v[2] <= doc[v[1]].versions
    BY DEF Stored
  <2> QED
    BY <1>6, <2>1, <2>2, <2>3, OpinionWritten DEF DoSelect, OnlySub, CanSelect, Usable, Rests, Stored
<1>7. ASSUME NEW s \in Submissions, CanSend(s), DoSend(s) PROVE FileInv'
  <2> DEFINE row == [sub[s] EXCEPT !.status = "sent"]
  <2>1. row \in Submission /\ sub[s].status = "draft"
    BY <1>7 DEF Submission, CanSend
  <2>2. row.further \cup ({row.final} \cap Version) = Files(s)
        /\ row.restricted = sub[s].restricted
    BY DEF Files, Submission
  <2> QED
    BY <1>7, <2>1, <2>2, OpinionWritten DEF DoSend, OnlySub, Rests, Stored
<1>8. ASSUME NEW s \in Submissions, NEW letter \in Stored, NEW more \in SUBSET (Stored \ {letter}),
             CanRegister(s, letter, more), DoRegister(s, letter, more)
      PROVE  FileInv'
  <2> DEFINE row == [status |-> "sent", restricted |-> doc[letter[1]].restricted,
                     final |-> letter, further |-> more]
  <2>1. letter \in Version /\ more \subseteq Version
    BY DEF Stored
  <2>2. doc[letter[1]].restricted \in BOOLEAN
    BY <2>1, VersionParts DEF Document
  <2>3. row \in Submission
    BY <2>1, <2>2 DEF Submission
  <2>4. \A v \in row.further \cup ({row.final} \cap Version) :
          v \in Stored /\ Usable(row.restricted, v)
    BY <1>8 DEF CanRegister
  <2> QED
    BY <1>8, <2>3, <2>4, OpinionWritten DEF DoRegister, OnlySub, Usable, Stored
<1>9. ASSUME NEW s \in Submissions, NEW letter \in New, NEW more \in SUBSET (New \ {letter}),
             NEW working \in SUBSET (New \ ({letter} \cup more)),
             CanCompose(s, letter, more, working), DoCompose(s, letter, more, working)
      PROVE  FileInv'
  <2> DEFINE row == [status |-> "sent", restricted |-> FALSE,
                     final |-> <<letter, 1>>, further |-> more \X {1}]
             file(d) == [NoDocument EXCEPT !.versions = 1, !.working = d \in working]
  <2>1. 1 \in 1..MaxVersions /\ letter \in Documents /\ more \subseteq Documents
    BY VersionsAssumption DEF New
  <2>2. row \in Submission
    BY <2>1 DEF Submission, Version
  <2>3. ASSUME NEW d \in Documents
        PROVE  /\ file(d) \in Document /\ file(d).versions = 1 /\ ~file(d).removed
               /\ file(d).working = (d \in working)
    <3>1. (d \in working) \in BOOLEAN
      OBVIOUS
    <3> QED
      BY <3>1, ComposedFile
  <2>4. /\ doc' \in [Documents -> Document]
        /\ \A d \in {letter} \cup more : doc'[d] = file(d)
        /\ \A d \in Documents : doc[d].versions # 0 => doc'[d] = doc[d]
    BY <1>9, <2>1, <2>3 DEF DoCompose, CanCompose
  <2>5. \A v \in row.further \cup ({row.final} \cap Version) :
          v[1] \in {letter} \cup more /\ v[2] = 1
    OBVIOUS
  <2>6. \A d \in {letter} \cup more : d \notin working
    BY <1>9 DEF CanCompose
  <2>7. \A d \in {letter} \cup more : ~doc'[d].removed /\ ~doc'[d].working /\ doc'[d].versions = 1
    BY <2>1, <2>3, <2>4, <2>6
  <2>8. sub' = [sub EXCEPT ![s] = row] /\ UNCHANGED <<restricted, open>>
    BY <1>9 DEF DoCompose
  <2>9. ~row.restricted
    OBVIOUS
  <2> HIDE DEF row, file
  <2>10. \A v \in row.further \cup ({row.final} \cap Version) :
              /\ v[2] <= doc'[v[1]].versions
              /\ Covers(restricted, doc'[v[1]].restricted, row.restricted)
              /\ row.status # "withdrawn" => ~doc'[v[1]].removed /\ ~doc'[v[1]].working
    BY <2>5, <2>7, <2>9 DEF Covers
  <2> QED
    BY <2>2, <2>4, <2>8, <2>10, OpinionWritten
<1>10. ASSUME NEW s \in Submissions, CanWithdraw(s), DoWithdraw(s) PROVE FileInv'
  <2> DEFINE row == [sub[s] EXCEPT !.status = "withdrawn"]
  <2>1. row \in Submission /\ sub[s].status # "withdrawn"
    BY <1>10 DEF Submission, CanWithdraw
  <2>2. row.further \cup ({row.final} \cap Version) = Files(s)
        /\ row.restricted = sub[s].restricted
    BY DEF Files, Submission
  <2> QED
    BY <1>10, <2>1, <2>2, OpinionWritten DEF DoWithdraw, OnlySub, Rests, Stored
<1>11. ASSUME NEW s \in Submissions, CanSupersede(s), DoSupersede(s) PROVE FileInv'
  <2> DEFINE row == [sub[s] EXCEPT !.status = "superseded"]
  <2>1. row \in Submission /\ sub[s].status # "withdrawn"
    BY <1>11 DEF Submission, CanSupersede
  <2>2. row.further \cup ({row.final} \cap Version) = Files(s)
        /\ row.restricted = sub[s].restricted
    BY DEF Files, Submission
  <2> QED
    BY <1>11, <2>1, <2>2, OpinionWritten DEF DoSupersede, OnlySub, Rests, Stored
<1>12. ASSUME NEW value \in BOOLEAN, CanSetVisibility(value), DoSetVisibility(value)
       PROVE  FileInv'
  BY <1>12 DEF CanSetVisibility, DoSetVisibility, NoneStranded, FileInv, FileTypeOK,
               FilesAreStored, EvidenceAsRestricted, EvidenceKept, Files, Stored
<1>13. ASSUME NEW value \in BOOLEAN, CanToggle(value), DoToggle(value) PROVE FileInv'
  BY <1>13 DEF DoToggle, FileInv, FileTypeOK, FilesAreStored, EvidenceAsRestricted,
               EvidenceKept, Files, Stored, Covers
<1>14. ASSUME UNCHANGED fileVars PROVE FileInv'
  BY <1>14 DEF fileVars, FileInv, FileTypeOK, FilesAreStored, EvidenceAsRestricted,
               EvidenceKept, Files, Stored, Covers
<1> QED
  BY <1>1, <1>2, <1>3, <1>4, <1>5, <1>6, <1>7, <1>8, <1>9, <1>10, <1>11, <1>12, <1>13, <1>14
     DEF FileNext

-----------------------------------------------------------------------------
(* What the calls promise                                                   *)

LEMMA FilesHold == FileSpec => []FileInv
<1> QED
  BY FilesBegin, FilesKeep, PTL DEF FileSpec

\* The four variables keep their types.
THEOREM FilesTyped == FileSpec => []FileTypeOK
<1>1. FileInv => FileTypeOK
  BY DEF FileInv
<1> QED
  BY <1>1, FilesHold, PTL

\* However many opinions, files and restrictions of either kind a Matter has,
\* and in whichever order the Matter, an opinion and a file are written, no
\* opinion rests on a file that more people may read than may read the opinion.
THEOREM EvidenceStaysRestricted == FileSpec => []EvidenceAsRestricted
<1>1. FileInv => EvidenceAsRestricted
  BY DEF FileInv
<1> QED
  BY <1>1, FilesHold, PTL

\* No order of removals, withdrawals and new opinions takes a file away from
\* an opinion that still stands on it.
THEOREM EvidenceStays == FileSpec => []EvidenceKept
<1>1. FileInv => EvidenceKept
  BY DEF FileInv
<1> QED
  BY <1>1, FilesHold, PTL

\* What a call leaves of the opinions that have been sent and their files.
Keeps ==
    /\ \A s \in Submissions : sub[s].status \notin {"none", "draft"} =>
         /\ sub'[s].final = sub[s].final
         /\ sub'[s].further = sub[s].further
    /\ \A d \in Documents :
         StandingOn(d) # {} => doc'[d].versions = doc[d].versions

\* One opinion is written whose files were not fixed yet, or only its status.
LEMMA OpinionKeeps ==
    ASSUME FileInv, NEW s \in Submissions, NEW row,
           sub' = [sub EXCEPT ![s] = row],
           \A d \in Documents : doc[d].versions # 0 => doc'[d] = doc[d],
           \/ sub[s].status \in {"none", "draft"}
           \/ row.final = sub[s].final /\ row.further = sub[s].further
    PROVE  Keeps
<1>1. \A t \in Submissions : sub'[t] = IF t = s THEN row ELSE sub[t]
  BY DEF FileInv, FileTypeOK
<1>2. \A d \in Documents : StandingOn(d) # {} => doc[d].versions # 0
  BY NewIsNobodys DEF StandingOn
<1> QED
  BY <1>1, <1>2 DEF Keeps

LEMMA CallsKeep == FileInv /\ [FileNext]_fileVars => [Keeps]_fileVars
<1> SUFFICES ASSUME FileInv, FileNext PROVE Keeps
  OBVIOUS
<1> USE SameDocuments
<1>1. ASSUME NEW d \in Documents, NEW own \in BOOLEAN, CanFile(d), DoFile(d, own)
      PROVE  Keeps
  BY <1>1, NewIsNobodys DEF Keeps, CanFile, DoFile, StandingOn
<1>2. ASSUME NEW d \in Documents, CanAddVersion(d), DoAddVersion(d) PROVE Keeps
  BY <1>2 DEF Keeps, CanAddVersion, DoAddVersion, Statuses
<1>3. ASSUME NEW d \in Documents, CanRemove(d), DoRemove(d) PROVE Keeps
  BY <1>3 DEF Keeps, DoRemove, Document
<1>4. ASSUME NEW s \in Submissions, NEW own \in BOOLEAN, CanDraft(s), DoDraft(s, own)
      PROVE  Keeps
  BY <1>4, OpinionKeeps DEF CanDraft, DoDraft, OnlySub
<1>5. ASSUME NEW s \in Submissions, NEW d \in Documents, CanAttach(s, d), DoAttach(s, d)
      PROVE  Keeps
  <2>1. \A e \in Documents : doc[e].versions # 0 => doc'[e] = doc[e]
    BY <1>5 DEF CanAttach, DoAttach
  <2> QED
    BY <1>5, <2>1, OpinionKeeps DEF CanAttach, DoAttach
<1>6. ASSUME NEW s \in Submissions, NEW v \in Stored, CanSelect(s, v), DoSelect(s, v)
      PROVE  Keeps
  BY <1>6, OpinionKeeps DEF CanSelect, DoSelect, OnlySub
<1>7. ASSUME NEW s \in Submissions, CanSend(s), DoSend(s) PROVE Keeps
  BY <1>7, OpinionKeeps DEF CanSend, DoSend, OnlySub
<1>8. ASSUME NEW s \in Submissions, NEW letter \in Stored, NEW more \in SUBSET (Stored \ {letter}),
             CanRegister(s, letter, more), DoRegister(s, letter, more)
      PROVE  Keeps
  BY <1>8, OpinionKeeps DEF CanRegister, DoRegister, OnlySub
<1>9. ASSUME NEW s \in Submissions, NEW letter \in New, NEW more \in SUBSET (New \ {letter}),
             NEW working \in SUBSET (New \ ({letter} \cup more)),
             CanCompose(s, letter, more, working), DoCompose(s, letter, more, working)
      PROVE  Keeps
  <2>1. \A e \in Documents : doc[e].versions # 0 => doc'[e] = doc[e]
    BY <1>9 DEF CanCompose, DoCompose
  <2> QED
    BY <1>9, <2>1, OpinionKeeps DEF CanCompose, DoCompose
<1>10. ASSUME NEW s \in Submissions, CanWithdraw(s), DoWithdraw(s) PROVE Keeps
  BY <1>10, OpinionKeeps DEF DoWithdraw, OnlySub, Submission
<1>11. ASSUME NEW s \in Submissions, CanSupersede(s), DoSupersede(s) PROVE Keeps
  BY <1>11, OpinionKeeps DEF DoSupersede, OnlySub, Submission
<1>12. ASSUME UNCHANGED <<doc, sub>> PROVE Keeps
  BY <1>12 DEF Keeps
<1>13. ASSUME NEW value \in BOOLEAN,
              \/ CanSetVisibility(value) /\ DoSetVisibility(value)
              \/ CanToggle(value) /\ DoToggle(value)
       PROVE  Keeps
  BY <1>12, <1>13 DEF DoSetVisibility, DoToggle
<1> QED
  BY <1>1, <1>2, <1>3, <1>4, <1>5, <1>6, <1>7, <1>8, <1>9, <1>10, <1>11, <1>13 DEF FileNext

\* The files of an opinion are fixed from the day it is sent, and so are the
\* versions of a file an opinion stands on, a withdrawn one's too.
THEOREM SentStays == FileSpec => SentStaysAsSent
<1>1. [Keeps]_fileVars =>
        [/\ \A s \in Submissions : sub[s].status \notin {"none", "draft"} =>
              /\ sub'[s].final = sub[s].final
              /\ sub'[s].further = sub[s].further
         /\ \A d \in Documents :
              StandingOn(d) # {} => doc'[d].versions = doc[d].versions]_fileVars
  BY DEF Keeps
<1> QED
  BY <1>1, CallsKeep, FilesHold, PTL DEF FileSpec, SentStaysAsSent
-----------------------------------------------------------------------------
(* The transactions of EvidenceLocks                                        *)
(*                                                                         *)
(* All but a draft lock the Matter first, and keep it until they commit.   *)
(* So what one of them has asked can only be changed by a draft, which     *)
(* begins an opinion of its own and names no file.                         *)

\* What transaction w has locked and found.
Behind(w) ==
    /\ job[w].step = "idle" <=> job[w].call = NoCall
    /\ w \in shared => job[w].step # "idle" /\ (job[w].call.op = "draft" \/ lock[Matter] = w)
    /\ job[w].step = "saving" =>
        Can(job[w].call) /\ (job[w].call.op = "draft" \/ lock[Matter] = w)

\* Whoever holds a row holds the Matter.
MatterFirst == \A r \in Rows : lock[r] # Nobody => lock[r] = lock[Matter]

\* Two transactions create rows of their own.
CreatesApart ==
    \A u, w \in Writers : u # w => Creates(job[u].call) \cap Creates(job[w].call) = {}

LocksTyped ==
    /\ lock \in [Rows -> Writers \cup {Nobody}]
    /\ shared \subseteq Writers
    /\ job \in [Writers -> [step : {"idle", "locking", "saving"}, call : Calls \cup {NoCall}]]
    /\ batch \in {"idle", "waiting", "filling"}

LocksInv ==
    /\ FileInv
    /\ LocksTyped
    /\ \A w \in Writers : Behind(w)
    /\ MatterFirst
    /\ CreatesApart

-----------------------------------------------------------------------------
(* The order of the rows                                                    *)

LEMMA SetToSeqIsSeq ==
    ASSUME NEW S, IsFiniteSet(S) PROVE SetToSeq(S) \in Seq(S)
<1> DEFINE n == Cardinality(S)
<1>1. n \in Nat /\ \E f \in [1..n -> S] : IsInjective(f)
  BY FS_CardinalityType DEF ExistsBijection, Bijection, Injection, IsInjective
<1> HIDE DEF n
<1>2. SetToSeq(S) = CHOOSE f \in [1..n -> S] : IsInjective(f)
  BY DEF SetToSeq, n
<1>3. SetToSeq(S) \in [1..n -> S]
  BY <1>1, <1>2
<1> QED
  BY <1>1, <1>3

LEMMA InTurnIsSeq ==
    ASSUME NEW letter \in Version \cup {NoVersion}, NEW more \in SUBSET Version
    PROVE  InTurn(letter, more) \in Seq(Documents)
<1>1. ASSUME NEW S \in SUBSET (Version \cup {NoVersion})
      PROVE  DocumentsOf(S) \subseteq Documents /\ IsFiniteSet(DocumentsOf(S))
  <2>1. DocumentsOf(S) \subseteq Documents
    BY VersionParts DEF DocumentsOf
  <2> QED
    BY <2>1, WritersAssumption, FS_Subset
<1>2. /\ DocumentsOf({letter}) \subseteq Documents /\ IsFiniteSet(DocumentsOf({letter}))
      /\ DocumentsOf(more) \subseteq Documents /\ IsFiniteSet(DocumentsOf(more))
  <2>1. {letter} \in SUBSET (Version \cup {NoVersion}) /\ more \in SUBSET (Version \cup {NoVersion})
    OBVIOUS
  <2> QED
    BY <1>1, <2>1
<1> DEFINE a == DocumentsOf({letter})
           b == DocumentsOf(more) \ DocumentsOf({letter})
<1>3. b \subseteq Documents /\ IsFiniteSet(b)
  BY <1>2, FS_Subset
<1>4. SetToSeq(a) \in Seq(Documents) /\ SetToSeq(b) \in Seq(Documents)
  <2>1. SetToSeq(a) \in Seq(a) /\ SetToSeq(b) \in Seq(b) /\ a \subseteq Documents
    BY <1>2, <1>3, SetToSeqIsSeq
  <2> HIDE DEF a, b
  <2>2. Seq(a) \subseteq Seq(Documents) /\ Seq(b) \subseteq Seq(Documents)
    BY <1>3, <2>1
  <2> QED
    BY <2>1, <2>2
<1> HIDE DEF a, b
<1>5. SetToSeq(a) \o SetToSeq(b) \in Seq(Documents)
  BY <1>4
<1> QED
  BY <1>5 DEF InTurn, a, b

\* The fields of each kind of call.
LEMMA CallFields ==
    ASSUME NEW c \in Calls
    PROVE  /\ c.op \in {"file", "version", "remove", "draft", "attach", "select", "send",
                        "withdraw", "supersede", "register", "compose", "visibility", "toggle"}
           /\ c.op = "file" => c.d \in Documents /\ c.own \in BOOLEAN
           /\ c.op \in {"version", "remove"} => c.d \in Documents
           /\ c.op = "draft" => c.s \in Submissions /\ c.own \in BOOLEAN
           /\ c.op = "attach" => c.s \in Submissions /\ c.d \in Documents
           /\ c.op = "select" => c.s \in Submissions /\ c.v \in Version
           /\ c.op \in {"send", "withdraw", "supersede"} => c.s \in Submissions
           /\ c.op = "register" => c.s \in Submissions /\ c.v \in Version /\ c.more \in SUBSET Version
           /\ c.op = "compose" => /\ c.s \in Submissions /\ c.d \in Documents
                                  /\ c.more \in SUBSET Documents
                                  /\ c.working \in SUBSET Documents
           /\ c.op \in {"visibility", "toggle"} => c.value \in BOOLEAN
BY DEF Calls, AtMostOne

\* A draft takes the gate alone; every other call takes the Matter first.
LEMMA FirstTaken ==
    ASSUME FileTypeOK, NEW c \in Calls
    PROVE  /\ c.op = "draft" => Takes(c) = <<Gate>>
           /\ c.op # "draft" => /\ 1 \in DOMAIN Takes(c) /\ Takes(c)[1] = Matter
                                /\ DOMAIN Takes(c) \subseteq Nat \ {0}
<1>1. CASE c.op \in {"file", "compose", "visibility", "toggle"}
  <2>1. Takes(c) = <<Matter, Gate>>
    BY <1>1 DEF Takes, Order
  <2> QED
    BY <1>1, <2>1
<1>2. CASE c.op = "draft"
  BY <1>2 DEF Takes, Order
<1>3. CASE c.op \in {"version", "remove"}
  <2>1. Takes(c) = <<Matter, c.d, Gate>>
    BY <1>3 DEF Takes, Order
  <2> QED
    BY <1>3, <2>1
<1>4. CASE c.op \in {"attach", "withdraw", "supersede"}
  <2>1. Takes(c) = <<Matter, c.s, Gate>>
    BY <1>4 DEF Takes, Order
  <2> QED
    BY <1>4, <2>1
<1>5. CASE c.op = "select"
  <2>1. Takes(c) = <<Matter, c.s, c.v[1], Gate>>
    BY <1>5 DEF Takes, Order
  <2> QED
    BY <1>5, <2>1
<1>6. ASSUME NEW first, NEW q \in Seq(Documents),
             \/ Takes(c) = <<Matter, first>> \o q \o <<Gate>> \/ Takes(c) = <<Matter, first>> \o q
      PROVE  /\ 1 \in DOMAIN Takes(c) /\ Takes(c)[1] = Matter
             /\ DOMAIN Takes(c) \subseteq Nat \ {0}
  <2> DEFINE T == Documents \cup {Matter, Gate, first}
  <2>1. q \in Seq(T) /\ <<Matter, first>> \in Seq(T) /\ <<Gate>> \in Seq(T)
    OBVIOUS
  <2> HIDE DEF T
  <2>2. <<Matter, first>> \o q \in Seq(T) /\ Len(<<Matter, first>> \o q) >= 2
        /\ (<<Matter, first>> \o q)[1] = Matter
    BY <2>1
  <2> DEFINE p == <<Matter, first>> \o q
  <2>3. p \in Seq(T) /\ Len(p) >= 2 /\ p[1] = Matter
    BY <2>2
  <2> HIDE DEF p
  <2>4. 1 \in DOMAIN p /\ 1 \in DOMAIN (p \o <<Gate>>) /\ (p \o <<Gate>>)[1] = Matter
    BY <2>1, <2>3
  <2>5. DOMAIN p \subseteq Nat \ {0} /\ DOMAIN (p \o <<Gate>>) \subseteq Nat \ {0}
    <3>1. p \o <<Gate>> \in Seq(T)
      BY <2>1, <2>3
    <3> QED
      BY <2>3, <3>1
  <2> QED
    BY <1>6, <2>3, <2>4, <2>5 DEF p
<1>7. CASE c.op = "send"
  <2>1. sub[c.s].final \in Version \cup {NoVersion} /\ sub[c.s].further \in SUBSET Version
    BY <1>7, CallFields DEF FileTypeOK, Submission
  <2>2. InTurn(sub[c.s].final, sub[c.s].further) \in Seq(Documents)
    BY <2>1, InTurnIsSeq
  <2>3. Takes(c) = <<Matter, c.s>> \o InTurn(sub[c.s].final, sub[c.s].further) \o <<Gate>>
    BY <1>7 DEF Takes, Order
  <2> QED
    BY <1>6, <1>7, <2>2, <2>3
<1>8. CASE c.op = "register"
  <2>1. InTurn(c.v, c.more) \in Seq(Documents)
    BY <1>8, CallFields, InTurnIsSeq
  <2>2. Takes(c) = <<Matter, Gate>> \o InTurn(c.v, c.more)
    BY <1>8 DEF Takes, Order
  <2> QED
    BY <1>6, <1>8, <2>1, <2>2
<1> QED
  BY <1>1, <1>2, <1>3, <1>4, <1>5, <1>7, <1>8, CallFields

\* A transaction that takes anything else, or has taken all its rows, holds the
\* Matter, unless it drafts.
LEMMA HoldsMatter ==
    ASSUME FileTypeOK, NEW w \in Writers, job[w].call \in Calls, job[w].call.op # "draft",
           RowsMissing(w) = {} \/ \E x : x # Matter /\ TakesNext(w, x)
    PROVE  lock[Matter] = w
<1> DEFINE takes == Takes(job[w].call)
<1>1. /\ 1 \in DOMAIN takes /\ takes[1] = Matter /\ Matter # Gate
      /\ DOMAIN takes \subseteq Nat \ {0}
  BY FirstTaken DEF Matter, Gate
<1> HIDE DEF takes
<1>2. CASE RowsMissing(w) = {}
  <2>1. Matter \in Range(takes)
    BY <1>1 DEF Range
  <2> QED
    BY <1>1, <1>2, <2>1 DEF RowsMissing, Missing, Has, takes
<1>3. ASSUME NEW x, x # Matter, TakesNext(w, x) PROVE lock[Matter] = w
  <2>1. PICK i \in DOMAIN takes : takes[i] = x /\ \A k \in 1..(i - 1) : Has(w, takes[k])
    BY <1>3 DEF TakesNext, takes
  <2>2. 1 \in 1..(i - 1)
    BY <1>1, <1>3, <2>1
  <2> QED
    BY <1>1, <2>1, <2>2 DEF Has
<1> QED
  BY <1>2, <1>3
-----------------------------------------------------------------------------
(* What another's commit leaves of what a call has asked                    *)

\* An opinion that is begun names no file, so it takes none of the answers away.
LEMMA DraftLeaves ==
    ASSUME FileTypeOK, NEW s \in Submissions, NEW own \in BOOLEAN, CanDraft(s), DoDraft(s, own),
           NEW c \in Calls, Can(c), s \notin Creates(c)
    PROVE  Can(c)'
<1>1. /\ UNCHANGED <<restricted, open, doc>>
      /\ \A t \in Submissions : t # s => sub'[t] = sub[t]
      /\ sub'[s] = Drafted(own) /\ sub[s].status = "none"
  BY DEF FileTypeOK, CanDraft, DoDraft, OnlySub
<1>2. Drafted(own).final = NoVersion /\ Drafted(own).further = {}
  BY DEF Drafted, NoSubmission
<1>3. \A t \in Submissions : Files(t)' \subseteq Files(t)
  <2>1. Files(s)' = {}
    BY <1>1, <1>2, VersionsAssumption DEF Files
  <2> QED
    BY <1>1, <2>1 DEF Files
<1>4. Stored' = Stored /\ \A o, v : Usable(o, v)' = Usable(o, v)
  BY <1>1 DEF Stored, Usable
<1>5. \A d : StandingOn(d)' \subseteq StandingOn(d) \ {s}
  <2>1. Files(s)' = {}
    BY <1>1, <1>2, VersionsAssumption DEF Files
  <2> QED
    BY <1>3, <2>1 DEF StandingOn
<1>6. \A d : Statuses(d)' \subseteq Statuses(d)
  <2>1. ASSUME NEW d, NEW t \in StandingOn(d)' PROVE t \in StandingOn(d) /\ sub'[t] = sub[t]
    BY <1>1, <1>5, <2>1 DEF StandingOn
  <2> QED
    BY <2>1 DEF Statuses
<1>7. \A v \in Stored : IsDraftsFinal(v)' => IsDraftsFinal(v)
  BY <1>1, <1>2, VersionsAssumption DEF IsDraftsFinal, Stored
<1>8. CASE c.op \in {"file", "visibility", "toggle"}
  <2>1. CASE c.op = "file"
    BY <1>1, <2>1 DEF Can, CanFile
  <2>2. CASE c.op = "visibility"
    <3>1. restricted # c.value /\ NoneStranded(c.value)
      BY <2>2 DEF Can, CanSetVisibility
    <3>2. ASSUME NEW t \in Submissions, NEW v \in Files(t)'
          PROVE  Covers(c.value, doc'[v[1]].restricted, sub'[t].restricted)
      <4>1. t # s
        BY <1>1, <1>2, <3>2, VersionsAssumption DEF Files
      <4> QED
        BY <1>1, <1>3, <3>1, <3>2, <4>1 DEF NoneStranded
    <3>3. CanSetVisibility(c.value)'
      BY <1>1, <3>1, <3>2 DEF CanSetVisibility, NoneStranded
    <3> QED
      BY <2>2, <3>3 DEF Can
  <2>3. CASE c.op = "toggle"
    BY <1>1, <2>3 DEF Can, CanToggle
  <2> QED
    BY <1>8, <2>1, <2>2, <2>3
<1>9. CASE c.op \in {"version", "remove"}
  <2>1. CASE c.op = "version"
    <3>1. CanAddVersion(c.d)
      BY <2>1 DEF Can
    <3>2. CanAddVersion(c.d)'
      BY <1>1, <1>6, <3>1 DEF CanAddVersion
    <3> QED
      BY <2>1, <3>2 DEF Can
  <2>2. CASE c.op = "remove"
    <3>1. CanRemove(c.d)
      BY <2>2 DEF Can
    <3>2. CanRemove(c.d)'
      BY <1>1, <1>6, <3>1 DEF CanRemove
    <3> QED
      BY <2>2, <3>2 DEF Can
  <2> QED
    BY <1>9, <2>1, <2>2
<1>10. CASE c.op \in {"attach", "select", "send", "withdraw", "supersede"}
  <2>1. c.s \in Submissions /\ sub[c.s].status # "none"
    BY <1>10, CallFields DEF Can, CanAttach, CanSelect, CanSend, CanWithdraw, CanSupersede
  <2>2. sub'[c.s] = sub[c.s] /\ Files(c.s)' = Files(c.s)
    BY <1>1, <2>1 DEF Files
  <2>3. CASE c.op = "attach"
    <3>1. CanAttach(c.s, c.d)'
      BY <1>1, <2>2, <2>3 DEF Can, CanAttach
    <3> QED
      BY <2>3, <3>1 DEF Can
  <2>4. CASE c.op = "select"
    <3>1. CanSelect(c.s, c.v)
      BY <2>4 DEF Can
    <3>2. CanSelect(c.s, c.v)'
      BY <1>1, <1>4, <2>2, <3>1 DEF CanSelect
    <3> QED
      BY <2>4, <3>2 DEF Can
  <2>5. CASE c.op = "send"
    <3>1. CanSend(c.s)
      BY <2>5 DEF Can
    <3>2. CanSend(c.s)'
      BY <1>1, <1>4, <2>2, <3>1 DEF CanSend
    <3> QED
      BY <2>5, <3>2 DEF Can
  <2>6. CASE c.op \in {"withdraw", "supersede"}
    BY <2>2, <2>6 DEF Can, CanWithdraw, CanSupersede
  <2> QED
    BY <1>10, <2>3, <2>4, <2>5, <2>6
<1>11. CASE c.op = "draft"
  <2>1. c.s # s /\ c.s \in Submissions
    BY <1>11, CallFields DEF Creates
  <2> QED
    BY <1>1, <1>11, <2>1 DEF Can, CanDraft
<1>12. CASE c.op = "register"
  <2>1. c.s # s /\ c.s \in Submissions
    BY <1>12, CallFields DEF Creates
  <2>2. CanRegister(c.s, c.v, c.more)
    BY <1>12 DEF Can
  <2>3. \A v \in c.more \cup {c.v} : v \in Stored
    BY <2>2 DEF CanRegister
  <2>4. CanRegister(c.s, c.v, c.more)'
    BY <1>1, <1>4, <1>7, <2>1, <2>2, <2>3 DEF CanRegister
  <2> QED
    BY <1>12, <2>4 DEF Can
<1>13. CASE c.op = "compose"
  <2>1. c.s # s /\ c.s \in Submissions
    BY <1>13, CallFields DEF Creates
  <2>2. CanCompose(c.s, c.d, c.more, c.working)
    BY <1>13 DEF Can
  <2>3. CanCompose(c.s, c.d, c.more, c.working)'
    BY <1>1, <2>1, <2>2 DEF CanCompose
  <2> QED
    BY <1>13, <2>3 DEF Can
<1> QED
  BY <1>8, <1>9, <1>10, <1>11, <1>12, <1>13, CallFields

\* An opinion that has not begun begins by a call that creates it, and by no other.
LEMMA NotBegunStays ==
    ASSUME FileTypeOK, NEW c \in Calls, Can(c), Do(c),
           NEW s \in Submissions, s \notin Creates(c), sub[s].status = "none"
    PROVE  sub'[s] = sub[s]
<1>1. CASE c.op \in {"file", "version", "remove", "visibility", "toggle"}
  BY <1>1 DEF Do, DoFile, DoAddVersion, DoRemove, DoSetVisibility, DoToggle
<1>2. CASE c.op \in {"attach", "select", "send", "withdraw", "supersede"}
  <2>1. c.s \in Submissions /\ sub[c.s].status # "none"
    BY <1>2, CallFields DEF Can, CanAttach, CanSelect, CanSend, CanWithdraw, CanSupersede
  <2>2. \A t \in Submissions : t # c.s => sub'[t] = sub[t]
    BY <1>2, <2>1 DEF Do, DoAttach, DoSelect, DoSend, DoWithdraw, DoSupersede, FileTypeOK
  <2> QED
    BY <2>1, <2>2
<1>3. CASE c.op \in {"draft", "register", "compose"}
  <2>1. c.s # s
    BY <1>3 DEF Creates
  <2> QED
    BY <1>3, <2>1, CallFields DEF Do, DoDraft, DoRegister, DoCompose, FileTypeOK
<1> QED
  BY <1>1, <1>2, <1>3, CallFields

\* A commit of w leaves what v has asked: v holds the Matter and w drafts, or v
\* drafts an opinion that is not w's.
LEMMA CommitLeaves ==
    ASSUME LocksInv, NEW w \in Writers, Commit(w),
           NEW v \in Writers, v # w, job[v].step = "saving"
    PROVE  Can(job[v].call)'
<1> DEFINE c == job[w].call
           q == job[v].call
<1>1. /\ c \in Calls /\ q \in Calls /\ Can(c) /\ Can(q) /\ Do(c) /\ FileTypeOK
      /\ Creates(c) \cap Creates(q) = {} /\ job'[v] = job[v]
      /\ (c.op = "draft" \/ lock[Matter] = w) /\ (q.op = "draft" \/ lock[Matter] = v)
  BY DEF LocksInv, LocksTyped, Behind, Commit, CreatesApart, FileInv, Release
<1>2. CASE c.op = "draft"
  <2>1. PICK s \in Submissions, own \in BOOLEAN :
          CanDraft(s) /\ DoDraft(s, own) /\ s \in Creates(c)
    BY <1>1, <1>2, CallFields DEF Can, Do, Creates
  <2> HIDE DEF c, q
  <2> PICK q0 \in Calls : q0 = q
    BY <1>1
  <2>2. Can(q0)'
    BY <1>1, <2>1, DraftLeaves
  <2> QED
    BY <1>1, <2>2 DEF q
<1>3. CASE q.op = "draft"
  <2>1. q.s \in Submissions /\ q.s \in Creates(q) /\ sub[q.s].status = "none"
    BY <1>1, <1>3, CallFields DEF Can, CanDraft, Creates
  <2> PICK s \in Submissions : s = q.s
    BY <2>1
  <2>2. sub'[s] = sub[s]
    BY <1>1, <2>1, NotBegunStays
  <2> QED
    BY <1>1, <1>3, <2>1, <2>2 DEF Can, CanDraft
<1> QED
  BY <1>1, <1>2, <1>3
-----------------------------------------------------------------------------
(* Every step keeps the locks in order                                      *)

LEMMA NobodysCall == NoCall.op = "none" /\ Creates(NoCall) = {} /\ \A c \in Calls : c # NoCall
<1>1. NoCall.op = "none"
  BY DEF NoCall
<1> QED
  BY <1>1, CallFields DEF Creates

LEMMA LocksBegin == Init => LocksInv
<1> SUFFICES ASSUME Init PROVE LocksInv
  OBVIOUS
<1>1. FileInv
  BY FilesBegin DEF Init
<1>2. \A w \in Writers : job[w].step = "idle" /\ job[w].call = NoCall
  BY DEF Init, Idle
<1>3. LocksTyped
  BY DEF Init, LocksTyped, Idle
<1>4. \A w \in Writers : Behind(w)
  BY <1>2 DEF Init, Behind
<1>5. MatterFirst /\ CreatesApart
  BY <1>2, NobodysCall DEF Init, MatterFirst, CreatesApart
<1> QED
  BY <1>1, <1>3, <1>4, <1>5 DEF LocksInv

\* The batch of a rebuild touches no row, and a step that leaves the rows alone
\* leaves the files in order.
LEMMA FilesAlone ==
    ASSUME FileInv, UNCHANGED fileVars
    PROVE  FileInv' /\ \A c \in Calls : Can(c)' = Can(c)
<1>1. FileInv'
  BY FilesKeep
<1>2. \A c \in Calls : Can(c)' = Can(c)
  BY DEF fileVars, Can, CanFile, CanAddVersion, CanRemove, CanDraft, CanAttach, CanSelect,
         CanSend, CanWithdraw, CanSupersede, CanRegister, CanCompose, CanSetVisibility, CanToggle,
         Stored, Usable, Statuses, StandingOn, Files, IsDraftsFinal, NoneStranded
<1> QED
  BY <1>1, <1>2

LEMMA BatchKeeps ==
    ASSUME LocksInv, AskGate \/ EnterGate \/ LeaveGate \/ GiveUp PROVE LocksInv'
<1>1. /\ UNCHANGED <<lock, shared, job>> /\ UNCHANGED fileVars
      /\ batch' \in {"idle", "waiting", "filling"}
  BY DEF AskGate, EnterGate, LeaveGate, GiveUp
<1>2. FileInv' /\ \A c \in Calls : Can(c)' = Can(c)
  BY <1>1, FilesAlone DEF LocksInv
<1>3. \A w \in Writers : Behind(w)'
  BY <1>1, <1>2 DEF LocksInv, LocksTyped, Behind
<1> QED
  BY <1>1, <1>2, <1>3 DEF LocksInv, LocksTyped, MatterFirst, CreatesApart

LEMMA BeginKeeps ==
    ASSUME LocksInv, NEW w \in Writers, Begin(w) PROVE LocksInv'
<1>1. PICK c \in Calls :
        /\ job' = [job EXCEPT ![w] = [step |-> "locking", call |-> c]]
        /\ \A x \in Creates(c) : \A u \in Writers : x \notin Creates(job[u].call)
  BY DEF Begin
<1>2. UNCHANGED <<lock, shared, batch>> /\ UNCHANGED fileVars /\ job[w].step = "idle"
  BY DEF Begin
<1>3. FileInv' /\ \A q \in Calls : Can(q)' = Can(q)
  BY <1>2, FilesAlone DEF LocksInv
<1>4. /\ job'[w] = [step |-> "locking", call |-> c]
      /\ \A u \in Writers \ {w} : job'[u] = job[u]
  BY <1>1 DEF LocksInv, LocksTyped
<1>5. LocksTyped'
  BY <1>1, <1>2 DEF LocksInv, LocksTyped
<1>6. ASSUME NEW u \in Writers PROVE Behind(u)'
  <2>1. CASE u = w
    BY <1>2, <1>4, <2>1, NobodysCall DEF LocksInv, Behind
  <2>2. CASE u # w
    BY <1>2, <1>3, <1>4, <2>2 DEF LocksInv, LocksTyped, Behind
  <2> QED
    BY <2>1, <2>2
<1>7. CreatesApart'
  <2>1. /\ Creates(job'[w].call) = Creates(c)
        /\ \A u \in Writers \ {w} : Creates(job'[u].call) = Creates(job[u].call)
    BY <1>4
  <2>2. \A u \in Writers \ {w} : Creates(c) \cap Creates(job[u].call) = {}
    BY <1>1
  <2>3. \A u, v \in Writers : Creates(job[u].call)' = Creates(job'[u].call)
    BY DEF Creates
  <2> QED
    BY <2>1, <2>2, <2>3 DEF LocksInv, CreatesApart
<1> QED
  BY <1>2, <1>3, <1>5, <1>6, <1>7 DEF LocksInv, MatterFirst

LEMMA TakeRowKeeps ==
    ASSUME LocksInv, NEW w \in Writers, TakeRow(w) PROVE LocksInv'
<1>1. PICK r \in Rows : TakesNext(w, r) /\ lock[r] = Nobody /\ lock' = [lock EXCEPT ![r] = w]
  BY DEF TakeRow
<1>2. UNCHANGED <<shared, job, batch>> /\ UNCHANGED fileVars /\ job[w].step # "idle"
  BY DEF TakeRow
<1>3. FileInv' /\ \A q \in Calls : Can(q)' = Can(q)
  BY <1>2, FilesAlone DEF LocksInv
<1>4. LocksTyped' /\ \A x \in Rows : lock'[x] = IF x = r THEN w ELSE lock[x]
  BY <1>1, <1>2 DEF LocksInv, LocksTyped
<1>5. Matter \in Rows /\ Gate \notin Rows
  BY WritersAssumption DEF Rows, Matter, Gate
<1>6. r = Matter \/ lock[Matter] = w
  <2>1. job[w].call \in Calls /\ FileTypeOK
    BY <1>2 DEF LocksInv, LocksTyped, Behind, FileInv
  <2>2. CASE job[w].call.op = "draft"
    <3>1. Takes(job[w].call) = <<Gate>>
      BY <2>1, <2>2, FirstTaken
    <3> QED
      BY <1>1, <1>5, <3>1 DEF TakesNext
  <2>3. CASE job[w].call.op # "draft"
    BY <1>1, <2>1, <2>3, HoldsMatter
  <2> QED
    BY <2>2, <2>3
<1>7. MatterFirst'
  BY <1>1, <1>4, <1>5, <1>6 DEF LocksInv, MatterFirst
<1>8. ASSUME NEW u \in Writers PROVE Behind(u)'
  <2>1. lock[Matter] = u => lock'[Matter] = u
    BY <1>1, <1>4, <1>5, WritersAssumption
  <2> QED
    BY <1>2, <1>3, <2>1 DEF LocksInv, LocksTyped, Behind
<1> QED
  BY <1>2, <1>3, <1>4, <1>7, <1>8 DEF LocksInv, CreatesApart

LEMMA TakeGateKeeps ==
    ASSUME LocksInv, NEW w \in Writers, TakeGate(w) PROVE LocksInv'
<1>1. /\ UNCHANGED <<lock, job, batch>> /\ UNCHANGED fileVars /\ job[w].step # "idle"
      /\ shared' = shared \cup {w} /\ TakesNext(w, Gate)
  BY DEF TakeGate
<1>2. FileInv' /\ \A q \in Calls : Can(q)' = Can(q)
  BY <1>1, FilesAlone DEF LocksInv
<1>3. job[w].call.op = "draft" \/ lock[Matter] = w
  <2>1. job[w].call \in Calls /\ FileTypeOK /\ Gate # Matter
    BY <1>1 DEF LocksInv, LocksTyped, Behind, FileInv, Gate, Matter
  <2> QED
    BY <1>1, <2>1, HoldsMatter
<1>4. \A u \in Writers : Behind(u)'
  BY <1>1, <1>2, <1>3 DEF LocksInv, LocksTyped, Behind
<1> QED
  BY <1>1, <1>2, <1>4 DEF LocksInv, LocksTyped, MatterFirst, CreatesApart

\* A transaction that ends leaves the others their rows and their calls.
LEMMA ReleaseKeeps ==
    ASSUME LocksInv, NEW w \in Writers, Release(w), batch' = batch, FileInv',
           \A v \in Writers \ {w} : job[v].step = "saving" => Can(job[v].call)'
    PROVE  LocksInv'
<1>1. /\ job'[w] = Idle /\ \A v \in Writers \ {w} : job'[v] = job[v]
      /\ shared' = shared \ {w}
      /\ \A r \in Rows : lock'[r] = IF lock[r] = w THEN Nobody ELSE lock[r]
  BY DEF LocksInv, LocksTyped, Release
<1>2. LocksTyped'
  BY DEF LocksInv, LocksTyped, Release, Idle
<1>3. Matter \in Rows
  BY DEF Rows
<1>4. MatterFirst'
  BY <1>1, <1>3 DEF LocksInv, MatterFirst
<1>5. ASSUME NEW v \in Writers PROVE Behind(v)'
  <2>1. CASE v = w
    BY <1>1, <2>1 DEF Behind, Idle
  <2>2. CASE v # w
    <3>1. job'[v] = job[v] /\ (v \in shared' <=> v \in shared)
          /\ (lock[Matter] = v => lock'[Matter] = v)
      BY <1>1, <1>3, <2>2
    <3>2. job[v].step = "saving" => Can(job[v].call)'
      BY <2>2
    <3> QED
      BY <3>1, <3>2 DEF LocksInv, Behind, Can
  <2> QED
    BY <2>1, <2>2
<1>6. CreatesApart'
  <2>1. Creates(job'[w].call) = {}
    BY <1>1, NobodysCall DEF Idle
  <2>2. \A u \in Writers : Creates(job[u].call)' = Creates(job'[u].call)
    BY DEF Creates
  <2> QED
    BY <1>1, <2>1, <2>2 DEF LocksInv, CreatesApart
<1> QED
  BY <1>2, <1>4, <1>5, <1>6 DEF LocksInv

LEMMA DecideKeeps ==
    ASSUME LocksInv, NEW w \in Writers, Decide(w) PROVE LocksInv'
<1>1. /\ job[w].step = "locking" /\ RowsMissing(w) = {} /\ batch' = batch /\ UNCHANGED fileVars
      /\ job[w].call \in Calls /\ FileTypeOK
  BY DEF LocksInv, LocksTyped, Behind, Decide, FileInv
<1>2. FileInv' /\ \A q \in Calls : Can(q)' = Can(q)
  BY <1>1, FilesAlone DEF LocksInv
<1>3. CASE Can(job[w].call)
  <2>1. UNCHANGED <<lock, shared>> /\ job' = [job EXCEPT ![w].step = "saving"]
    BY <1>3 DEF Decide
  <2>2. /\ job'[w].step = "saving" /\ job'[w].call = job[w].call
        /\ \A v \in Writers \ {w} : job'[v] = job[v]
        /\ job' \in [Writers -> [step : {"idle", "locking", "saving"}, call : Calls \cup {NoCall}]]
    BY <2>1 DEF LocksInv, LocksTyped
  <2>3. job[w].call.op = "draft" \/ lock[Matter] = w
    BY <1>1, HoldsMatter
  <2>4. ASSUME NEW v \in Writers PROVE Behind(v)'
    <3>1. CASE v = w
      <4> PICK c \in Calls : c = job[w].call
        BY <1>1
      <4>1. Can(c)'
        BY <1>2, <1>3
      <4> QED
        BY <1>1, <2>1, <2>2, <2>3, <3>1, <4>1, NobodysCall DEF Behind
    <3>2. CASE v # w
      BY <1>2, <2>1, <2>2, <3>2 DEF LocksInv, LocksTyped, Behind
    <3> QED
      BY <3>1, <3>2
  <2>5. CreatesApart'
    <3>1. \A u \in Writers : job'[u].call = job[u].call
      BY <2>2
    <3> QED
      BY <3>1 DEF LocksInv, CreatesApart
  <2> QED
    BY <1>1, <1>2, <2>1, <2>2, <2>4, <2>5 DEF LocksInv, LocksTyped, MatterFirst
<1>4. CASE ~Can(job[w].call)
  <2>1. Release(w)
    BY <1>4 DEF Decide
  <2>2. ASSUME NEW v \in Writers \ {w}, job[v].step = "saving" PROVE Can(job[v].call)'
    <3>1. job[v].call \in Calls /\ Can(job[v].call) /\ job'[v] = job[v]
      BY <2>1, <2>2 DEF LocksInv, LocksTyped, Behind, Release
    <3> PICK c \in Calls : c = job[v].call
      BY <3>1
    <3>2. Can(c)'
      BY <1>2, <3>1
    <3> QED
      BY <3>1, <3>2
  <2> QED
    BY <1>1, <1>2, <2>1, <2>2, ReleaseKeeps
<1> QED
  BY <1>3, <1>4

-----------------------------------------------------------------------------
(* Every commit is a call of SentEvidence                                   *)

\* A call that may be made, and what it writes, is a step of SentEvidence.
LEMMA CallIsStep ==
    ASSUME NEW c \in Calls, Can(c), Do(c) PROVE FileNext
<1>1. CASE c.op \in {"file", "version", "remove"}
  BY <1>1, CallFields DEF Can, Do, FileNext
<1>2. CASE c.op \in {"draft", "send", "withdraw", "supersede", "attach"}
  BY <1>2, CallFields DEF Can, Do, FileNext
<1>3. CASE c.op = "select"
  <2>1. c.s \in Submissions /\ c.v \in Stored /\ CanSelect(c.s, c.v) /\ DoSelect(c.s, c.v)
    BY <1>3, CallFields DEF Can, Do, CanSelect
  <2> QED
    BY <2>1 DEF FileNext
<1>4. CASE c.op = "register"
  <2>1. CanRegister(c.s, c.v, c.more) /\ DoRegister(c.s, c.v, c.more) /\ c.s \in Submissions
    BY <1>4, CallFields DEF Can, Do
  <2>2. /\ sub[c.s].status = "none" /\ c.v \in Stored
        /\ c.more \in SUBSET (Stored \ {c.v})
    BY <2>1 DEF CanRegister
  <2> QED
    BY <2>1, <2>2 DEF FileNext
<1>5. CASE c.op = "compose"
  <2>1. /\ CanCompose(c.s, c.d, c.more, c.working) /\ DoCompose(c.s, c.d, c.more, c.working)
        /\ c.s \in Submissions /\ c.d \in Documents
        /\ c.more \in SUBSET Documents /\ c.working \in SUBSET Documents
    BY <1>5, CallFields DEF Can, Do
  <2>2. /\ sub[c.s].status = "none" /\ c.d \in New
        /\ c.more \in SUBSET (New \ {c.d})
        /\ c.working \in SUBSET (New \ ({c.d} \cup c.more))
    BY <2>1 DEF CanCompose, New
  <2> QED
    BY <2>1, <2>2 DEF FileNext
<1>6. CASE c.op \in {"visibility", "toggle"}
  BY <1>6, CallFields DEF Can, Do, FileNext
<1> QED
  BY <1>1, <1>2, <1>3, <1>4, <1>5, <1>6, CallFields

LEMMA CommitSteps ==
    ASSUME LocksInv, NEW w \in Writers, Commit(w) PROVE FileNext
<1>1. job[w].call \in Calls /\ Can(job[w].call) /\ Do(job[w].call)
  BY DEF LocksInv, LocksTyped, Behind, Commit
<1> QED
  BY <1>1, CallIsStep

LEMMA CommitKeeps ==
    ASSUME LocksInv, NEW w \in Writers, Commit(w) PROVE LocksInv'
<1>1. FileInv'
  BY CommitSteps, FilesKeep DEF LocksInv
<1>2. Release(w) /\ batch' = batch
  BY DEF Commit
<1>3. \A v \in Writers \ {w} : job[v].step = "saving" => Can(job[v].call)'
  BY CommitLeaves
<1> QED
  BY <1>1, <1>2, <1>3, ReleaseKeeps

LEMMA LocksKeep == LocksInv /\ [Next]_vars => LocksInv'
<1> SUFFICES ASSUME LocksInv, [Next]_vars PROVE LocksInv'
  OBVIOUS
<1>1. CASE UNCHANGED vars
  <2>1. UNCHANGED <<lock, shared, job, batch>> /\ UNCHANGED fileVars
    BY <1>1 DEF vars, lockVars
  <2>2. FileInv' /\ \A c \in Calls : Can(c)' = Can(c)
    BY <2>1, FilesAlone DEF LocksInv
  <2>3. \A w \in Writers : Behind(w)'
    BY <2>1, <2>2 DEF LocksInv, LocksTyped, Behind
  <2> QED
    BY <2>1, <2>2, <2>3 DEF LocksInv, LocksTyped, MatterFirst, CreatesApart
<1>2. ASSUME NEW w \in Writers,
             Begin(w) \/ TakeRow(w) \/ TakeGate(w) \/ Decide(w) \/ Commit(w)
      PROVE  LocksInv'
  BY <1>2, BeginKeeps, TakeRowKeeps, TakeGateKeeps, DecideKeeps, CommitKeeps
<1> QED
  BY <1>1, <1>2, BatchKeeps DEF Next

LEMMA StepsMap == LocksInv /\ [Next]_vars => [FileNext]_fileVars
<1> SUFFICES ASSUME LocksInv, [Next]_vars PROVE [FileNext]_fileVars
  OBVIOUS
<1>1. CASE UNCHANGED vars
  BY <1>1 DEF vars
<1>2. ASSUME NEW w \in Writers, Begin(w) \/ TakeRow(w) \/ TakeGate(w) \/ Decide(w)
      PROVE  UNCHANGED fileVars
  BY <1>2 DEF Begin, TakeRow, TakeGate, Decide
<1>3. CASE AskGate \/ EnterGate \/ LeaveGate \/ GiveUp
  BY <1>3 DEF AskGate, EnterGate, LeaveGate, GiveUp
<1> QED
  BY <1>1, <1>2, <1>3, CommitSteps DEF Next

\* What each transaction has found under its locks is still so until it commits,
\* and whoever holds a row of the Matter holds the Matter (app/matters/locks.py).
THEOREM LocksHold == Spec => []LocksInv
<1> QED
  BY LocksBegin, LocksKeep, PTL DEF Spec

\* Every commit is a call that could have been made alone at that moment, for any
\* number of transactions that meet on the Matter, its opinions and its files.
THEOREM CommitsAreCalls == Spec => ImplementsSentEvidence
<1>1. Init => FileInit
  BY DEF Init
<1> QED
  BY <1>1, StepsMap, LocksHold, PTL DEF Spec, FileSpec, ImplementsSentEvidence

\* So the transactions keep what the calls keep: the evidence is as restricted as
\* the opinion, stays on the Matter, and what was sent stays.
THEOREM TransactionsKeepEvidence ==
    Spec => [](EvidenceAsRestricted /\ EvidenceKept) /\ SentStaysAsSent
<1> QED
  BY CommitsAreCalls, EvidenceStaysRestricted, EvidenceStays, SentStays, PTL
     DEF ImplementsSentEvidence

-----------------------------------------------------------------------------
(* Waiting                                                                  *)

\* The shared side of the gate is held by drafts, which wait for nothing more,
\* and by the holder of the Matter.
LEMMA SharedDraft ==
    ASSUME LocksInv, NEW w \in shared, lock[Matter] # w PROVE Waits(w) = {}
<1>1. w \in Writers /\ w # Rebuild /\ job[w].call \in Calls /\ job[w].call.op = "draft"
  BY WritersAssumption DEF LocksInv, LocksTyped, Behind
<1>2. Takes(job[w].call) = <<Gate>>
  BY <1>1, FirstTaken DEF LocksInv, FileInv
<1>3. \A x : ~TakesNext(w, x)
  BY <1>2 DEF TakesNext, Has
<1> QED
  BY <1>1, <1>3 DEF Waits

\* Nobody waits for a row but for one that the holder of the Matter has.
LEMMA WaitsForHolder ==
    ASSUME LocksInv, NEW w \in Writers, NEW q \in Waits(w), q # Rebuild
    PROVE  q = lock[Matter] /\ q # w
<1>1. w # Rebuild
  BY WritersAssumption
<1>2. PICK r \in Rows : lock[r] = q /\ TakesNext(w, r) /\ q \in Writers
  BY <1>1 DEF Waits
<1>3. Gate \notin Rows /\ ~Has(w, r)
  BY <1>2, WritersAssumption DEF Rows, Matter, Gate, TakesNext
<1> QED
  BY <1>2, <1>3, WritersAssumption DEF LocksInv, MatterFirst, Has

\* Of some that wait, one waits for none of them: the holder of the Matter waits
\* for the rebuild alone, and the rebuild for those that hold the gate.
LEMMA NobodyInRing == LocksInv => NoWaitCycle
<1> SUFFICES ASSUME LocksInv, NEW S \in SUBSET (Writers \cup {Rebuild}), S # {},
                    \A p \in S : Waits(p) \cap S # {}
             PROVE  FALSE
  BY DEF NoWaitCycle
<1>1. ASSUME NEW p \in S, p # Rebuild PROVE Rebuild \in S \/ lock[Matter] \in S
  BY <1>1, WaitsForHolder
<1>2. Rebuild \in S
  <2>1. SUFFICES ASSUME Rebuild \notin S PROVE FALSE
    OBVIOUS
  <2>2. lock[Matter] \in S /\ lock[Matter] \in Writers
    BY <1>1, <2>1
  <2>3. PICK q \in Waits(lock[Matter]) : q \in S
    BY <2>2
  <2> QED
    BY <2>1, <2>2, <2>3, WaitsForHolder
<1>3. Blocking = {}
  BY DEF Blocking, Strength
<1>4. PICK q \in S : q \in shared /\ batch = "waiting"
  BY <1>2, <1>3 DEF Waits
<1>5. lock[Matter] = q
  BY <1>4, SharedDraft
<1>6. q \in Writers /\ q # Rebuild
  BY <1>4, WritersAssumption DEF LocksInv, LocksTyped
<1>7. Waits(q) \subseteq {Rebuild} \cup {}
  BY <1>5, <1>6, WaitsForHolder
<1>8. TakesNext(q, Gate)
  <2>1. Rebuild \in Waits(q)
    BY <1>4, <1>7
  <2>2. Rebuild \notin Writers \cup {Nobody}
    BY WritersAssumption
  <2> QED
    BY <1>6, <2>1, <2>2 DEF Waits, LocksInv, LocksTyped
<1> QED
  BY <1>4, <1>8 DEF TakesNext, Has

\* However many transactions and whatever the rebuild does, they never wait for
\* one another in a ring (app/matters/locks.py: the order and the strength).
THEOREM EvidenceWaitsAreNoRing == Spec => []NoWaitCycle
<1> QED
  BY NobodyInRing, LocksHold, PTL
=============================================================================
