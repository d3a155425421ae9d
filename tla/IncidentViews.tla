--------------------------- MODULE IncidentViews ---------------------------
(***************************************************************************)
(* The answers the API assembles from several tables: the progress of an   *)
(* investigation and the post-incident report.  Each is built by a request *)
(* session that reads one table after the other, and at READ COMMITTED     *)
(* every read sees what is committed by then: the worker and the reviewers *)
(* of RcaReview may commit between two reads of the same answer.           *)
(***************************************************************************)
EXTENDS RcaReview

CONSTANTS
  Readers     \* requests that read an answer

VARIABLES
  evidence,   \* committed evidence of each incident, by its source
  view        \* the answer each reader is assembling, or has assembled

viewVars == <<vars, evidence, view>>

---------------------------------------------------------------------------
(* What the worker's specialists record, and the note of an engineer.      *)
Collected == {"simulator"}
EvidenceSource == Collected \cup {"manual"}

(* The incident states a post-incident report is available in.             *)
REPORTABLE == {IDENTIFIED, CLOSED}

(* Mutant: the report lists the notifications before the reports they      *)
(* announce.                                                               *)
Reads_NotesFirst(use) ==
  IF use = "progress" THEN <<"progress", "evidence", "rca">>
                      ELSE <<"evidence", "notifications", "rca", "progress">>

(* Mutant: the progress of an investigation is read after its reports.     *)
Reads_RcaFirst(use) ==
  IF use = "progress" THEN <<"rca", "progress", "evidence">>
                      ELSE <<"evidence", "rca", "progress", "notifications">>

(* The tables of an answer in the order of their reads, after the incident.*)
Reads(use) ==
  IF use = "progress" THEN <<"progress", "evidence", "rca">>
                      ELSE <<"evidence", "rca", "progress", "notifications">>

(* read counts the tables read so far.                                     *)
View == [use      : {"none", "progress", "report"},
         read     : 0 .. 4,
         id       : Incidents,
         state    : IncidentState,
         row      : Progress \cup {NoRow},
         evidence : SUBSET EvidenceSource,
         reports  : Seq(Report),
         notes    : SUBSET Note]

NoView == [use |-> "none", read |-> 0, id |-> IdleTx.id, state |-> OPEN, row |-> NoRow,
           evidence |-> {}, reports |-> <<>>, notes |-> {}]

(* _inferred_status: there is no progress row.                             *)
inferred_status(v) ==
  IF v.reports # <<>>
  THEN IF \E n \in DOMAIN v.reports :
            /\ v.reports[n].review = "rejected"
            /\ \A m \in DOMAIN v.reports : v.reports[m].version <= v.reports[n].version
       THEN "escalated" ELSE "pending_review"
  ELSE IF v.state = INVESTIGATING THEN "running" ELSE "not_started"

(* assemble_progress: the status that is answered.                         *)
ShownStatus(v) == IF v.row # NoRow THEN v.row.status ELSE inferred_status(v)

(* The versions the report may name the accepted root cause from.          *)
AcceptedVersions(v) == {n \in DOMAIN v.reports : v.reports[n].review = "accepted"}

Reviewed(v) == \E n \in DOMAIN v.reports : v.reports[n].review # "pending_review"

---------------------------------------------------------------------------
(* The requests.                                                           *)

(* get_by_id: an unknown incident, and a report that comes too early, are  *)
(* refused.                                                                *)
OpenView(r, i, use) ==
  /\ view[r].use = "none"
  /\ Exists(i)
  /\ use = "report" => rows[i].state \in REPORTABLE
  /\ view' = [view EXCEPT ![r] = [NoView EXCEPT !.use = use, !.id = i, !.state = rows[i].state]]
  /\ UNCHANGED <<vars, evidence>>

ReadTable(r) ==
  LET v == view[r]
      t == Reads(v.use)[v.read + 1]
  IN  /\ v.use # "none"
      /\ v.read < Len(Reads(v.use))
      /\ view' = [view EXCEPT ![r] =
           [v EXCEPT !.read     = @ + 1,
                     !.row      = IF t = "progress"      THEN progress[v.id] ELSE @,
                     !.evidence = IF t = "evidence"      THEN evidence[v.id] ELSE @,
                     !.reports  = IF t = "rca"           THEN reports[v.id]  ELSE @,
                     !.notes    = IF t = "notifications" THEN notes[v.id]    ELSE @]]
      /\ UNCHANGED <<vars, evidence>>

Answered(r) == view[r].use # "none" /\ view[r].read = Len(Reads(view[r].use))

(* The response is sent, and the reader may ask again.                     *)
Respond(r) ==
  /\ Answered(r)
  /\ view' = [view EXCEPT ![r] = NoView]
  /\ UNCHANGED <<vars, evidence>>

(* POST .../evidence.                                                      *)
AddManualEvidence(i) ==
  /\ Exists(i)
  /\ evidence' = [evidence EXCEPT ![i] = @ \cup {"manual"}]
  /\ UNCHANGED <<vars, view>>

(* Mutant: the evidence is left in the recorder.                           *)
StoreEvidence_Dropped(found) == evidence' = evidence

(* The commit that makes an investigation visible stores its evidence too. *)
StoreEvidence(found) ==
  evidence' = [i \in Incidents |-> IF i \in claims' \ claims THEN evidence[i] \cup found
                                                            ELSE evidence[i]]

(* A step of RcaReview.  An investigation that found nothing has no report.*)
RunStep ==
  /\ Next
  /\ \E found \in SUBSET Collected :
       /\ found = {} => reports' = reports
       /\ StoreEvidence(found)
  /\ UNCHANGED view

ViewInit ==
  /\ Init
  /\ evidence = [i \in Incidents |-> {}]
  /\ view = [r \in Readers |-> NoView]

ViewNext ==
  \/ RunStep
  \/ \E r \in Readers, i \in Incidents, use \in {"progress", "report"} : OpenView(r, i, use)
  \/ \E r \in Readers : ReadTable(r) \/ Respond(r)
  \/ \E i \in Incidents : AddManualEvidence(i)

ViewSpec == ViewInit /\ [][ViewNext]_viewVars

---------------------------------------------------------------------------
(* Properties.                                                             *)

(* Every answer has the shape of its DTO.                                  *)
ViewTypeOK ==
  /\ view \in [Readers -> View]
  /\ evidence \in [Incidents -> SUBSET EvidenceSource]

(* A post-incident report holds together although its sections are read    *)
(* from four tables at four moments: every RCA version it lists is         *)
(* announced in its notification log, and on an identified incident it     *)
(* lists the worker's evidence and a version a human has reviewed.         *)
ReportIsWhole ==
  \A r \in Readers : LET v == view[r] IN
    (Answered(r) /\ v.use = "report") =>
      /\ \A n \in DOMAIN v.reports : <<"rca_ready", v.reports[n].version>> \in v.notes
      /\ v.state = IDENTIFIED => Reviewed(v) /\ v.evidence \cap Collected # {}

(* The reports in a progress answer are never behind its other fields: an  *)
(* answer that says pending_review has a report to review, and one that    *)
(* says identified, or escalated by a rejection, has the reviewed version. *)
ProgressIsNotBehind ==
  \A r \in Readers : LET v == view[r] IN
    (Answered(r) /\ v.use = "progress") =>
      /\ ShownStatus(v) = "pending_review" => v.reports # <<>>
      /\ v.state = IDENTIFIED \/ v.row.reason = "rca_rejected" => Reviewed(v)

(* test_investigations_api.py: the answer that shows an RCA lists the      *)
(* evidence it cites.                                                      *)
ShownRcaHasItsEvidence ==
  \A r \in Readers : LET v == view[r] IN
    (Answered(r) /\ v.use = "progress" /\ v.reports # <<>>) => v.evidence \cap Collected # {}

(* implementation-guide.md: a report is produced after close "or           *)
(* identified+accepted", with the accepted root cause.                     *)
ReportNamesRootCause ==
  \A r \in Readers : LET v == view[r] IN
    (Answered(r) /\ v.use = "report" /\ v.state = IDENTIFIED) => AcceptedVersions(v) # {}

===========================================================================
