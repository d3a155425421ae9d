---------------------------- MODULE RcaReview ----------------------------
(***************************************************************************)
(* What happens to an investigation once the worker has recorded it:       *)
(* reviewers accept, reject or amend the RCA, and pause or resume the      *)
(* investigation, each in a request session of its own, while the worker's *)
(* transaction and the other requests of IncidentStore go on.              *)
(*                                                                         *)
(* A use case reads the incident, then the reports or the progress row,    *)
(* and writes what it decided from those reads; every round trip is a step *)
(* of its own.  Its writes become visible together at the commit, and hold *)
(* their row locks and unique keys until then.  A notification row is      *)
(* inserted, and the notifier called, before the commit.                   *)
(***************************************************************************)
EXTENDS IncidentStore, Naturals, Sequences

CONSTANTS
  MaxVersion,   \* versions of one incident's RCA (bound)
  Requests      \* what the reviewers ask for

Reviews == {"accept", "reject", "amend"}
Controls == {"pause", "resume"}

ASSUME VersionAssumption == MaxVersion \in Nat \ {0}
ASSUME RequestsAssumption == Requests \subseteq Reviews \cup Controls

VARIABLES
  rv,         \* the use case each session is in
  reports,    \* committed rca_reports of each incident, in insertion order
  progress,   \* committed investigation_progress row of each incident
  notes,      \* committed notifications of each incident
  claims      \* incidents whose opened event has been consumed

reviewVars == <<rv, reports, progress, notes, claims>>
vars == <<rows, tx, published, rv, reports, progress, notes, claims>>

---------------------------------------------------------------------------
(* Rows.                                                                   *)

RcaReviewStatus == {"pending_review", "accepted", "rejected"}

(* Version 1 is the original, the others are amendments.                   *)
Report == [version : 1 .. MaxVersion, review : RcaReviewStatus]

(* RcaReport.create, by the worker and by amend: every new version awaits  *)
(* its review.                                                             *)
create(version) == [version |-> version, review |-> "pending_review"]

with_review_status(r, status) == [r EXCEPT !.review = status]

RunStatus == {"not_started", "running", "paused", "pending_review", "escalated"}
Reasons   == {"low_confidence", "dependency_failure", "rca_rejected"}

Progress == [status : RunStatus, reason : Reasons \cup {""}, paused : BOOLEAN]

ProgressRow(status, reason, paused) == [status |-> status, reason |-> reason, paused |-> paused]

(* NoRow is an incident without a progress row; the code then starts from  *)
(* InvestigationProgress.create.                                           *)
NoRow == ProgressRow("no_row", "", FALSE)

orCreate(row) == IF row = NoRow THEN ProgressRow("not_started", "", FALSE) ELSE row

(* Mutant: the flag is set and the status kept.                            *)
with_pause_FlagOnly(p, paused) == ProgressRow(p.status, p.reason, paused)

with_pause(p, paused) ==
  ProgressRow(IF paused THEN "paused" ELSE IF p.status = "paused" THEN "running" ELSE p.status,
              p.reason, paused)

with_rejection(p) == ProgressRow("escalated", "rca_rejected", FALSE)

(* What the graph can leave for the worker to record: a report or none,    *)
(* and the progress.                                                       *)
Outcomes == { [report |-> TRUE,  save |-> ProgressRow("pending_review", "", FALSE)],
              [report |-> TRUE,  save |-> ProgressRow("escalated", "low_confidence", FALSE)],
              [report |-> FALSE, save |-> ProgressRow("running", "dependency_failure", FALSE)] }

(* A notification by its dedupe key.                                       *)
Note == ({"rca_ready"} \X (1 .. MaxVersion)) \cup ({"escalation"} \X Reasons)

(* pc: the step that is next; saving is the incident's save, through tx.   *)
(* seen is the state accept read the incident in; pos the row that was read   *)
(* as the latest report, set the review status for it ("" for none) and    *)
(* add the version to insert (0 for none); prog is the progress row as it  *)
(* was read, base as save loaded it again, save the entity to store, and   *)
(* stored tells that it was flushed; notes are the inserted notifications. *)
Review == [op     : Reviews \cup Controls \cup {"none", "investigate"},
           pc     : {"idle", "reports", "report", "incident", "saving", "insert",
                     "progress", "load", "flush", "notify", "ready"},
           id     : Incidents,
           seen   : IncidentState,
           pos    : 0 .. MaxVersion,
           set    : RcaReviewStatus \cup {""},
           add    : 0 .. MaxVersion,
           prog   : Progress \cup {NoRow},
           base   : Progress \cup {NoRow},
           save   : Progress \cup {NoRow},
           stored : BOOLEAN,
           notes  : SUBSET Note]

NoReview == [op |-> "none", pc |-> "idle", id |-> IdleTx.id, seen |-> OPEN, pos |-> 0, set |-> "",
             add |-> 0, prog |-> NoRow, base |-> NoRow, save |-> NoRow, stored |-> FALSE,
             notes |-> {}]

Free(s) == rv[s].pc = "idle" /\ tx[s].pc = "idle"

(* list_by_incident orders by version: the last one is the latest.         *)
Latest(i) ==
  CHOOSE n \in DOMAIN reports[i] :
    \A m \in DOMAIN reports[i] : reports[i][m].version <= reports[i][n].version

---------------------------------------------------------------------------
(* Row locks and unique keys held by the other sessions.                   *)

Others(s) == {t \in Sessions \ {s} : rv[t].id = rv[s].id}

ReportLocked(s)    == \E t \in Others(s) : rv[t].set # "" /\ rv[t].pc # "report" /\ rv[t].pos = rv[s].pos
VersionPending(s)  == \E t \in Others(s) : rv[t].add = rv[s].add /\ rv[t].pc # "insert"
ProgressLocked(s)  == \E t \in Others(s) : rv[t].stored
NotePending(s, n)  == \E t \in Others(s) : n \in rv[t].notes

(* Mutant: no ux_rca_reports_incident_version.                             *)
VersionTaken_NoConstraint(s) == FALSE

(* ux_rca_reports_incident_version.                                        *)
VersionTaken(s) == \E n \in DOMAIN reports[rv[s].id] : reports[rv[s].id][n].version = rv[s].add

---------------------------------------------------------------------------
(* Reads.                                                                  *)

(* get_by_id; pause and resume insist on an incident under investigation.  *)
ReadIncident(s, i, op) ==
  /\ Free(s)
  /\ Exists(i)
  /\ op \in Controls => rows[i].state = INVESTIGATING
  /\ rv' = [rv EXCEPT ![s] = [NoReview EXCEPT !.op   = op,
                                              !.pc   = IF op \in Controls THEN "progress" ELSE "reports",
                                              !.id   = i,
                                              !.seen = IF op = "accept" THEN rows[i].state ELSE OPEN]]
  /\ UNCHANGED <<rows, tx, published, reports, progress, notes, claims>>

(* What the use case decides from the latest report r, read at position n. *)
Decided(s, n, r) ==
  LET target == IF rv[s].op = "accept" THEN "accepted" ELSE "rejected"
      after  == IF rv[s].op = "accept" THEN "incident" ELSE "progress"
  IN  IF rv[s].op = "amend"
      THEN /\ r.version < MaxVersion
           /\ rv' = [rv EXCEPT ![s].pc = "insert", ![s].add = r.version + 1]
      ELSE IF r.review = target
      THEN rv' = [rv EXCEPT ![s].pc = after]
      ELSE rv' = [rv EXCEPT ![s].pc = "report", ![s].pos = n, ![s].set = target]

(* Mutant: accept does not ask for a report.                               *)
ReadReports_NoneNeeded(s) ==
  /\ rv[s].pc = "reports"
  /\ IF reports[rv[s].id] = <<>>
     THEN rv[s].op = "accept" /\ rv' = [rv EXCEPT ![s].pc = "incident"]
     ELSE LET n == Latest(rv[s].id) IN Decided(s, n, reports[rv[s].id][n])
  /\ UNCHANGED <<rows, tx, published, reports, progress, notes, claims>>

(* list_by_incident; without a report the request fails (Rollback).        *)
ReadReports(s) ==
  /\ rv[s].pc = "reports"
  /\ reports[rv[s].id] # <<>>
  /\ LET n == Latest(rv[s].id) IN Decided(s, n, reports[rv[s].id][n])
  /\ UNCHANGED <<rows, tx, published, reports, progress, notes, claims>>

(* get_by_incident, and the entity that will be saved; pausing what is     *)
(* paused, or resuming what is not, saves nothing.                         *)
ReadProgress(s) ==
  LET p    == orCreate(progress[rv[s].id])
      save == CASE rv[s].op = "reject" -> with_rejection(p)
                [] rv[s].op = "pause"  -> with_pause(p, TRUE)
                [] rv[s].op = "resume" -> with_pause(p, FALSE)
      same == rv[s].op \in Controls /\ p.paused = (rv[s].op = "pause")
  IN  /\ rv[s].pc = "progress"
      /\ rv' = IF same THEN [rv EXCEPT ![s].pc = "ready"]
               ELSE [rv EXCEPT ![s].pc = "load", ![s].prog = progress[rv[s].id], ![s].save = save]
      /\ UNCHANGED <<rows, tx, published, reports, progress, notes, claims>>

---------------------------------------------------------------------------
(* Writes.                                                                 *)

(* RcaRepository.save.  Only review_status differs from the row: it is     *)
(* written, unless save loaded the row afresh and found it there already.  *)
SaveReport(s) ==
  LET after == IF rv[s].op = "accept" THEN "incident" ELSE "progress"
  IN  /\ rv[s].pc = "report"
      /\ \/ ~ReportLocked(s) /\ rv' = [rv EXCEPT ![s].pc = after]
         \/ /\ reports[rv[s].id][rv[s].pos].review = rv[s].set
            /\ rv' = [rv EXCEPT ![s].pc = after, ![s].pos = 0, ![s].set = ""]
      /\ UNCHANGED <<rows, tx, published, reports, progress, notes, claims>>

(* accept: an incident read as investigating becomes identified, through   *)
(* the save of IncidentStore; any other is left as it is.                  *)
AcceptIncident(s) ==
  /\ rv[s].pc = "incident"
  /\ IF rv[s].seen = INVESTIGATING
     THEN /\ rv' = [rv EXCEPT ![s].pc = "saving", ![s].seen = OPEN]
          /\ tx' = [tx EXCEPT ![s] = [IdleTx EXCEPT !.pc    = "read",
                                                    !.id    = rv[s].id,
                                                    !.seen  = INVESTIGATING,
                                                    !.state = IDENTIFIED,
                                                    !.steps = {<<INVESTIGATING, IDENTIFIED>>}]]
     ELSE /\ rv' = [rv EXCEPT ![s].pc = "ready", ![s].seen = OPEN]
          /\ UNCHANGED tx
  /\ UNCHANGED <<rows, published, reports, progress, notes, claims>>

(* IncidentRepository.save, of accept and of the worker.                   *)
SaveIncident(s) ==
  /\ rv[s].pc = "saving"
  /\ Load(s) \/ FlushUpdate(s)
  /\ UNCHANGED reviewVars

(* RcaRepository.add: the INSERT waits for a session that has inserted the *)
(* same version, and fails (Rollback) when it is committed.                *)
InsertReport(s) ==
  /\ rv[s].pc = "insert"
  /\ ~VersionPending(s)
  /\ ~VersionTaken(s)
  /\ rv' = [rv EXCEPT ![s].pc = "notify"]
  /\ UNCHANGED <<rows, tx, published, reports, progress, notes, claims>>

(* InvestigationProgressRepository.save, the get: a row read before is     *)
(* kept by the session's identity map, or is loaded afresh.                *)
LoadProgress(s) ==
  /\ rv[s].pc = "load"
  /\ \E b \in {rv[s].prog, progress[rv[s].id]} :
       /\ b = NoRow => progress[rv[s].id] = NoRow
       /\ rv' = [rv EXCEPT ![s].pc = "flush", ![s].prog = NoRow, ![s].base = b]
  /\ UNCHANGED <<rows, tx, published, reports, progress, notes, claims>>

(* The flush: an INSERT when there was no row, which fails (Rollback) if   *)
(* there is one by now, or an UPDATE of the columns that differ from base. *)
FlushProgress(s) ==
  /\ rv[s].pc = "flush"
  /\ ~ProgressLocked(s)
  /\ rv[s].base = NoRow => progress[rv[s].id] = NoRow
  /\ rv' = [rv EXCEPT ![s].pc     = IF rv[s].op \in Controls \/ rv[s].save.reason = ""
                                    THEN "ready" ELSE "notify",
                      ![s].stored = TRUE]
  /\ UNCHANGED <<rows, tx, published, reports, progress, notes, claims>>

(* The progress row once a save has been committed.                        *)
Merged(s) ==
  LET current == progress[rv[s].id]
      base    == rv[s].base
      save    == rv[s].save
  IN  IF base = NoRow THEN save
      ELSE ProgressRow(IF save.status # base.status THEN save.status ELSE current.status,
                       IF save.reason # base.reason THEN save.reason ELSE current.reason,
                       IF save.paused # base.paused THEN save.paused ELSE current.paused)

(* Mutant: the dedupe key of rca_ready has no version.                     *)
NoteDue_NoVersion(s) ==
  IF rv[s].add # 0 /\ ~rv[s].stored THEN <<"rca_ready", 1>>
                                    ELSE <<"escalation", rv[s].save.reason>>

(* The notification that is due: of a report just inserted, or else of an  *)
(* escalation.                                                             *)
NoteDue(s) ==
  IF rv[s].add # 0 /\ ~rv[s].stored THEN <<"rca_ready", rv[s].add>>
                                    ELSE <<"escalation", rv[s].save.reason>>

(* notify_best_effort.  record_once inserts the row in a savepoint: it     *)
(* waits for a session that has inserted the same key and does nothing if  *)
(* the key is committed; otherwise the notifier is called, which changes   *)
(* nothing here and whose failure is swallowed.  An insert that fails for  *)
(* another reason than its key leaves the session unusable until it is     *)
(* rolled back (RollbackReview), although the exception is swallowed.  The *)
(* worker goes on with the progress.                                       *)
Notify(s) ==
  LET n    == NoteDue(s)
      i    == rv[s].id
      next == IF rv[s].op = "investigate" /\ ~rv[s].stored THEN "load" ELSE "ready"
  IN  /\ rv[s].pc = "notify"
      /\ ~NotePending(s, n)
      /\ IF n \in notes[i]
         THEN rv' = [rv EXCEPT ![s].pc = next]
         ELSE rv' = [rv EXCEPT ![s].pc = next, ![s].notes = @ \cup {n}]
      /\ UNCHANGED <<rows, tx, published, reports, progress, notes, claims>>

---------------------------------------------------------------------------
(* The worker's transaction, as far as reviewers can meet it.              *)

(* The claim, get_by_id and start_investigation on an open incident.       *)
StartInvestigation(w, i) ==
  /\ Free(w)
  /\ i \notin claims
  /\ \A v \in Workers : rv[v].op = "investigate" => rv[v].id # i
  /\ rows[i].state = OPEN
  /\ ReadForTransition(w, i, INVESTIGATING)
  /\ rv' = [rv EXCEPT ![w] = [NoReview EXCEPT !.op = "investigate", !.pc = "saving", !.id = i]]
  /\ UNCHANGED <<rows, published, reports, progress, notes, claims>>

(* The graph has run; its outcome is persisted next.                       *)
InvestigationEnds(w, outcome) ==
  /\ rv[w].op = "investigate"
  /\ rv[w].pc = "saving"
  /\ Flushed(w)
  /\ rv' = [rv EXCEPT ![w].pc   = IF outcome.report THEN "insert" ELSE "load",
                      ![w].add  = IF outcome.report THEN 1 ELSE 0,
                      ![w].save = outcome.save]
  /\ UNCHANGED <<rows, tx, published, reports, progress, notes, claims>>

---------------------------------------------------------------------------
(* The end of a session.                                                   *)

(* The reports of the incident with the session's writes.                  *)
Revised(s) ==
  LET old == reports[rv[s].id]
      reviewed == IF rv[s].set = "" THEN old
                  ELSE [old EXCEPT ![rv[s].pos] = with_review_status(@, rv[s].set)]
  IN  IF rv[s].add = 0 THEN reviewed ELSE Append(reviewed, create(rv[s].add))

(* session.commit, of get_db or of _handle_opened.                         *)
CommitReview(s) ==
  LET i == rv[s].id
  IN  /\ rv[s].pc = "ready" \/ (rv[s].op = "accept" /\ rv[s].pc = "saving" /\ Flushed(s))
      /\ IF Flushed(s) THEN CommitRow(s) ELSE UNCHANGED rows
      /\ reports' = [reports EXCEPT ![i] = Revised(s)]
      /\ progress' = IF rv[s].stored THEN [progress EXCEPT ![i] = Merged(s)] ELSE progress
      /\ notes' = [notes EXCEPT ![i] = @ \cup rv[s].notes]
      /\ claims' = IF rv[s].op = "investigate" THEN claims \cup {i} ELSE claims
      /\ tx' = [tx EXCEPT ![s] = IdleTx]
      /\ rv' = [rv EXCEPT ![s] = NoReview]
      /\ UNCHANGED published

(* A refused request, a constraint that fails, or the end of the process.  *)
RollbackReview(s) ==
  /\ rv[s].pc # "idle"
  /\ tx' = [tx EXCEPT ![s] = IdleTx]
  /\ rv' = [rv EXCEPT ![s] = NoReview]
  /\ UNCHANGED <<rows, published, reports, progress, notes, claims>>

---------------------------------------------------------------------------
(* Incidents that were created by hand and announced to the worker.        *)
Init ==
  /\ rows = [i \in Incidents |-> [Absent EXCEPT !.state = OPEN]]
  /\ tx = [s \in Sessions |-> IdleTx]
  /\ published = Incidents
  /\ rv = [s \in Sessions |-> NoReview]
  /\ reports = [i \in Incidents |-> <<>>]
  /\ progress = [i \in Incidents |-> NoRow]
  /\ notes = [i \in Incidents |-> {}]
  /\ claims = {}

(* The other requests of the API.                                          *)
StoreStep(s) ==
  /\ rv[s].pc = "idle"
  /\ RequestStep(s) \/ PublishOpened(s)
  /\ UNCHANGED reviewVars

ReviewStep(s) ==
  \/ ReadReports(s) \/ ReadProgress(s)
  \/ SaveReport(s) \/ AcceptIncident(s) \/ SaveIncident(s) \/ InsertReport(s)
  \/ LoadProgress(s) \/ FlushProgress(s)

(* The steps in which nobody is notified and no session ends.              *)
WorkStep ==
  \/ \E s \in ApiSessions : StoreStep(s)
  \/ \E s \in ApiSessions, i \in Incidents, op \in Requests : ReadIncident(s, i, op)
  \/ \E w \in Workers, i \in Incidents : StartInvestigation(w, i)
  \/ \E w \in Workers, o \in Outcomes : InvestigationEnds(w, o)
  \/ \E s \in Sessions : ReviewStep(s)

Next ==
  \/ WorkStep
  \/ \E s \in Sessions : Notify(s) \/ CommitReview(s) \/ RollbackReview(s)

Spec == Init /\ [][Next]_vars

---------------------------------------------------------------------------
(* Properties.                                                             *)

(* Every variable has the shape the code gives it.                         *)
ReviewTypeOK ==
  /\ StoreTypeOK
  /\ rv \in [Sessions -> Review]
  /\ reports \in [Incidents -> Seq(Report)]
  /\ progress \in [Incidents -> Progress \cup {NoRow}]
  /\ notes \in [Incidents -> SUBSET Note]
  /\ claims \subseteq Incidents

(* The stored versions of an RCA are 1, 2, ... without a gap or a second   *)
(* row of one version, whoever amends at the same time from the same       *)
(* latest version (FR-035; amend computes latest.version + 1).             *)
VersionsAreSequential ==
  \A i \in Incidents :
    {reports[i][n].version : n \in DOMAIN reports[i]} = 1 .. Len(reports[i])

(* "Humans accept before ``identified``": accept never identifies an       *)
(* incident none of whose reports a human has reviewed, although report,   *)
(* incident and decision come from different round trips.  (A client's     *)
(* PATCH to identified looks at no report, so Targets is without it.)      *)
IdentifiedWasReviewed ==
  \A i \in Incidents :
    rows[i].state = IDENTIFIED =>
      \E n \in DOMAIN reports[i] : reports[i][n].review # "pending_review"

(* Every stored version of a report, and every rejection, has been         *)
(* announced by a notification of its own: deduplication never swallows    *)
(* the news of an amendment.                                               *)
ReviewIsAnnounced ==
  \A i \in Incidents : \A n \in DOMAIN reports[i] :
    /\ <<"rca_ready", reports[i][n].version>> \in notes[i]
    /\ reports[i][n].review = "rejected" => <<"escalation", "rca_rejected">> \in notes[i]

(* After a rejection the investigation never reads as waiting for review   *)
(* again, although pause and resume save a status they read before it.     *)
(* (Targets is without investigating: a PATCH to it lets an investigation  *)
(* be paused before the worker has stored its first progress.)             *)
RejectedIsNotPending ==
  \A i \in Incidents : \A n \in DOMAIN reports[i] :
    reports[i][n].review = "rejected" => progress[i].status # "pending_review"

(* The API tests' word on reject: the report reads rejected and the        *)
(* progress gives rca_rejected as the reason to escalate.                  *)
RejectionIsRecorded ==
  \A i \in Incidents : \A n \in DOMAIN reports[i] :
    reports[i][n].review = "rejected" => progress[i].reason = "rca_rejected"

(* implementation-guide.md: "Accept -> incident identified".  An incident  *)
(* with an accepted report would then be past investigating.               *)
AcceptedIsIdentified ==
  \A i \in Incidents : \A n \in DOMAIN reports[i] :
    reports[i][n].review = "accepted" => rows[i].state \notin {OPEN, INVESTIGATING}

===========================================================================
