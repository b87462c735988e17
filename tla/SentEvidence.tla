---------------------------- MODULE SentEvidence ----------------------------
(***************************************************************************)
(* The opinions of one Matter and the files they rest on                   *)
(* (app/submissions/services.py, app/documents/services.py,                *)
(* set_matter_visibility in app/matters/services.py), as if each service   *)
(* call happened at one moment.  EvidenceLocks shows that the row locks of *)
(* app/matters/locks.py make it look so.                                   *)
(*                                                                         *)
(* Each call is what it checks (Can...) and what it then writes (Do...).   *)
(***************************************************************************)
EXTENDS Naturals

CONSTANTS
    Documents,    \* Document rows of the Matter
    Submissions,  \* Submission rows of the Matter
    NoVersion,    \* final_version is null
    MaxVersions   \* bound on the versions of one Document

Version == Documents \X (1..MaxVersions)

ASSUME VersionsAssumption == MaxVersions \in Nat \ {0} /\ NoVersion \notin Version

VARIABLES
    restricted,  \* Matter.visibility is RESTRICTED
    open,        \* Matter.is_open
    doc,         \* Documents: versions, own restriction, working link, removal
    sub          \* Submissions: status, own restriction, the files sent

fileVars == <<restricted, open, doc, sub>>

Document == [versions : 0..MaxVersions, restricted : BOOLEAN,
             working : BOOLEAN, removed : BOOLEAN]
Submission == [status : {"none", "draft", "sent", "withdrawn", "superseded"},
               restricted : BOOLEAN, final : Version \cup {NoVersion},
               further : SUBSET Version]

FileTypeOK ==
    /\ restricted \in BOOLEAN
    /\ open \in BOOLEAN
    /\ doc \in [Documents -> Document]
    /\ sub \in [Submissions -> Submission]

NoDocument == [versions |-> 0, restricted |-> FALSE, working |-> FALSE, removed |-> FALSE]
NoSubmission == [status |-> "none", restricted |-> FALSE, final |-> NoVersion, further |-> {}]

Filed(own) == [NoDocument EXCEPT !.versions = 1, !.restricted = own]
Drafted(own) == [NoSubmission EXCEPT !.status = "draft", !.restricted = own]

Based(status, own, v) == [Drafted(own) EXCEPT !.status = status, !.final = v]

-----------------------------------------------------------------------------
(* What the calls ask                                                       *)

Stored == {v \in Version : v[2] <= doc[v[1]].versions}
New == {d \in Documents : doc[d].versions = 0}
Files(s) == sub[s].further \cup ({sub[s].final} \cap Version)

\* opinion_evidence_statuses: the opinions that stand on a Document.
StandingOn(d) == {s \in Submissions : \E v \in Files(s) : v[1] = d}
Statuses(d) == {sub[s].status : s \in StandingOn(d)}

\* The restriction a record has is its Matter's or its own; the evidence may
\* not be the less restricted of the two.
Covers(matter, evidence, opinion) == matter \/ evidence \/ ~opinion

\* Mutant of Usable: a Document taken off the Matter is still accepted.
UsableIfRestricted(opinion, v) ==
    /\ ~doc[v[1]].working
    /\ Covers(restricted, doc[v[1]].restricted, opinion)

\* check_evidence_is_usable.
Usable(opinion, v) ==
    /\ ~doc[v[1]].removed
    /\ ~doc[v[1]].working
    /\ Covers(restricted, doc[v[1]].restricted, opinion)

\* An open Matter with files on it, and an opinion at most that is begun, has
\* its letter, or is sent.
FileInit ==
    /\ restricted \in BOOLEAN
    /\ open = TRUE
    /\ doc \in [Documents -> {NoDocument} \cup {Filed(own) : own \in BOOLEAN}]
    /\ \E s \in Submissions, own \in BOOLEAN, status \in {"draft", "sent"}, d \in Documents :
         \E row \in {NoSubmission, Drafted(own), Based(status, own, <<d, 1>>)} :
             sub = [t \in Submissions |-> IF t = s THEN row ELSE NoSubmission]
    /\ \A s \in Submissions : \A v \in Files(s) :
         v \in Stored /\ Usable(sub[s].restricted, v)

IsDraftsFinal(v) == \E s \in Submissions : sub[s].status = "draft" /\ sub[s].final = v

-----------------------------------------------------------------------------
(* Documents                                                                *)

\* A file captured for a record, as restricted as the record.
CanFile(d) == open /\ doc[d].versions = 0
DoFile(d, own) ==
    /\ doc' = [doc EXCEPT ![d] = Filed(own)]
    /\ UNCHANGED <<restricted, open, sub>>

\* Mutant of CanAddVersion: an opinion standing on the file is not asked about.
CanAddAnyVersion(d) ==
    open /\ doc[d].versions \in 1..(MaxVersions - 1) /\ ~doc[d].removed

CanAddVersion(d) ==
    /\ open
    /\ doc[d].versions \in 1..(MaxVersions - 1)
    /\ ~doc[d].removed
    /\ Statuses(d) = {}
DoAddVersion(d) ==
    /\ doc' = [doc EXCEPT ![d].versions = @ + 1]
    /\ UNCHANGED <<restricted, open, sub>>

\* A withdrawn opinion no longer keeps its file.
CanRemove(d) ==
    /\ open
    /\ doc[d].versions > 0
    /\ ~doc[d].removed
    /\ Statuses(d) \subseteq {"withdrawn"}
DoRemove(d) ==
    /\ doc' = [doc EXCEPT ![d].removed = TRUE]
    /\ UNCHANGED <<restricted, open, sub>>

-----------------------------------------------------------------------------
(* Opinions                                                                 *)

OnlySub == UNCHANGED <<restricted, open, doc>>

\* create_submission asks nothing of the Matter.
CanDraft(s) == sub[s].status = "none"
DoDraft(s, own) ==
    /\ sub' = [sub EXCEPT ![s] = Drafted(own)]
    /\ OnlySub

\* attach_final_evidence: a new Document, as restricted as the opinion.
CanAttach(s, d) ==
    /\ open
    /\ sub[s].status = "draft"
    /\ sub[s].final = NoVersion
    /\ doc[d].versions = 0
DoAttach(s, d) ==
    /\ doc' = [doc EXCEPT ![d] = Filed(sub[s].restricted)]
    /\ sub' = [sub EXCEPT ![s].final = <<d, 1>>]
    /\ UNCHANGED <<restricted, open>>

\* Mutant of CanSelect: the status is what the page showed, a draft.
CanSelectLate(s, v) ==
    /\ open
    /\ sub[s].status # "none"
    /\ v \in Stored
    /\ Usable(sub[s].restricted, v)

CanSelect(s, v) ==
    /\ open
    /\ sub[s].status = "draft"
    /\ v \in Stored
    /\ Usable(sub[s].restricted, v)
DoSelect(s, v) == sub' = [sub EXCEPT ![s].final = v] /\ OnlySub

\* Every file is asked about again when the opinion is marked sent.
CanSend(s) ==
    /\ open
    /\ sub[s].status = "draft"
    /\ sub[s].final # NoVersion
    /\ \A v \in Files(s) : Usable(sub[s].restricted, v)
DoSend(s) == sub' = [sub EXCEPT ![s].status = "sent"] /\ OnlySub

\* register_sent_opinion: the opinion is as restricted as its letter, and the
\* draft that owns a file is sent itself.
CanRegister(s, letter, more) ==
    /\ open
    /\ sub[s].status = "none"
    /\ letter \in Stored /\ more \subseteq Stored \ {letter}
    /\ \A v \in more \cup {letter} :
         ~IsDraftsFinal(v) /\ Usable(doc[letter[1]].restricted, v)
DoRegister(s, letter, more) ==
    /\ sub' = [sub EXCEPT ![s] = [status |-> "sent",
                                  restricted |-> doc[letter[1]].restricted,
                                  final |-> letter, further |-> more]]
    /\ OnlySub

\* add_matter_koda_opinion: the letter, the other files and the working
\* documents are new, the opinion is registered on them.
CanCompose(s, letter, more, working) ==
    /\ open
    /\ sub[s].status = "none"
    /\ letter \notin more \cup working /\ more \cap working = {}
    /\ \A d \in {letter} \cup more \cup working : doc[d].versions = 0
DoCompose(s, letter, more, working) ==
    /\ doc' = [d \in Documents |->
                 IF d \in {letter} \cup more \cup working
                 THEN [NoDocument EXCEPT !.versions = 1, !.working = d \in working]
                 ELSE doc[d]]
    /\ sub' = [sub EXCEPT ![s] = [status |-> "sent", restricted |-> FALSE,
                                  final |-> <<letter, 1>>, further |-> more \X {1}]]
    /\ UNCHANGED <<restricted, open>>

\* On a closed Matter too.
CanWithdraw(s) == sub[s].status = "sent"
DoWithdraw(s) == sub' = [sub EXCEPT ![s].status = "withdrawn"] /\ OnlySub

CanSupersede(s) == sub[s].status \in {"sent", "draft"}
DoSupersede(s) == sub' = [sub EXCEPT ![s].status = "superseded"] /\ OnlySub

-----------------------------------------------------------------------------
(* The Matter                                                               *)

\* Mutant of NoneStranded: only drafts are asked about.
NoneStrandedDrafts(value) ==
    \A s \in Submissions : \A v \in Files(s) :
        sub[s].status = "draft" => Covers(value, doc[v[1]].restricted, sub[s].restricted)

\* _submissions_left_above_their_evidence, for every opinion whatever its status.
NoneStranded(value) ==
    \A s \in Submissions : \A v \in Files(s) :
        Covers(value, doc[v[1]].restricted, sub[s].restricted)

CanSetVisibility(value) == restricted # value /\ NoneStranded(value)
DoSetVisibility(value) == restricted' = value /\ UNCHANGED <<open, doc, sub>>

CanToggle(value) == open # value
DoToggle(value) == open' = value /\ UNCHANGED <<restricted, doc, sub>>

FileNext ==
    \/ \E d \in Documents :
         \/ CanAddVersion(d) /\ DoAddVersion(d)
         \/ CanRemove(d) /\ DoRemove(d)
         \/ \E own \in BOOLEAN : CanFile(d) /\ DoFile(d, own)
    \/ \E s \in Submissions :
         \/ CanSend(s) /\ DoSend(s)
         \/ CanWithdraw(s) /\ DoWithdraw(s)
         \/ CanSupersede(s) /\ DoSupersede(s)
         \/ \E own \in BOOLEAN : CanDraft(s) /\ DoDraft(s, own)
         \/ \E d \in Documents : CanAttach(s, d) /\ DoAttach(s, d)
         \/ \E v \in Stored : CanSelect(s, v) /\ DoSelect(s, v)
         \/ /\ sub[s].status = "none"
            /\ \/ \E v \in Stored : \E more \in SUBSET (Stored \ {v}) :
                    CanRegister(s, v, more) /\ DoRegister(s, v, more)
               \/ \E d \in New : \E more \in SUBSET (New \ {d}) :
                    \E working \in SUBSET (New \ ({d} \cup more)) :
                        CanCompose(s, d, more, working) /\ DoCompose(s, d, more, working)
    \/ \E value \in BOOLEAN :
         \/ CanSetVisibility(value) /\ DoSetVisibility(value)
         \/ CanToggle(value) /\ DoToggle(value)

FileSpec == FileInit /\ [][FileNext]_fileVars

-----------------------------------------------------------------------------
(* Properties                                                               *)

\* No opinion rests on a file that more people may read than may read the
\* opinion, whichever of the Matter, the opinion and the file was written last.
EvidenceAsRestricted ==
    \A s \in Submissions : \A v \in Files(s) :
        Covers(restricted, doc[v[1]].restricted, sub[s].restricted)

\* The files of an opinion that is not withdrawn are on the Matter, and none of
\* them is a working document of one.
EvidenceKept ==
    \A s \in Submissions : sub[s].status # "withdrawn" =>
        \A v \in Files(s) : /\ v \in Stored
                            /\ ~doc[v[1]].removed
                            /\ ~doc[v[1]].working

\* What was sent stays what was sent: the files of an opinion never change once
\* it has left the department, and no version is added to one that an opinion,
\* even a withdrawn one, stands on.
SentStaysAsSent ==
    [][/\ \A s \in Submissions : sub[s].status \notin {"none", "draft"} =>
            /\ sub'[s].final = sub[s].final
            /\ sub'[s].further = sub[s].further
       /\ \A d \in Documents :
            StandingOn(d) # {} => doc'[d].versions = doc[d].versions]_fileVars
=============================================================================
