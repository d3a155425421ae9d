----------------------- MODULE InvestigationRunner -----------------------
(***************************************************************************)
(* One worker's LangGraphInvestigationRunner across attempts: the graph's  *)
(* nodes, the checkpointer keyed by incident, the buffers that nodes fill  *)
(* and the handler drains, and the rows its transaction writes.            *)
(*                                                                         *)
(* The runner, its checkpointer and its buffers live as long as the        *)
(* process.  An attempt that fails rolls the transaction back, but leaves  *)
(* the process's memory as it is, and the message comes back: the next     *)
(* attempt, for this or another incident, starts with what is left.        *)
(* Deliveries are those of InvestigationDelivery: an incident is attempted *)
(* until an attempt commits, at most MaxAttempts times.                    *)
(***************************************************************************)
EXTENDS CommanderPlan, Sequences

CONSTANTS
  Incidents,
  Scenarios,     \* the scenarios incidents may have
  MaxAttempts    \* MAX_RECEIVE_COUNT of the queue

ASSUME AttemptsAssumption == MaxAttempts \in Nat \ {0}
ASSUME IncidentsAssumption == Incidents # {}

VARIABLES
  scenario,   \* each incident's scenario, from its fingerprint
  attempts,   \* how often each incident has been attempted
  run,        \* the attempt in progress
  threads,    \* the checkpointer: each thread's channels
  buffers,    \* the runner's buffers
  db          \* the committed rows

vars == <<scenario, attempts, run, threads, buffers, db>>

---------------------------------------------------------------------------
(* An evidence id: the uuid4 minted when attempt n recorded an item of the *)
(* collector, or for n = 0 the uuid5 derived from the thread's item.  The  *)
(* audit entry of a tool call has the same name as the evidence it gave.   *)
EvidenceId == Incidents \X Collectors \X (0 .. MaxAttempts)

Report   == [inc : Incidents, cites : SUBSET EvidenceId]
NoReport == [inc |-> CHOOSE i \in Incidents : TRUE, cites |-> {}]

Status == {"", "running", "pending_review", "escalated"}

Thread == [hops     : 0 .. MAX_HOPS + 1,
           evidence : SUBSET Collectors,
           failed   : SUBSET Collectors,
           status   : Status,
           reason   : EscalateReason \cup {""},
           rca      : Report,
           started  : BOOLEAN,     \* started_at is set
           late     : BOOLEAN]     \* MAX_DURATION has passed since then

NoThread == [hops |-> 0, evidence |-> {}, failed |-> {}, status |-> "", reason |-> "",
             rca |-> NoReport, started |-> FALSE, late |-> FALSE]

(* A progress row; "" is an incident without one.                          *)
Progress   == [status : Status, reason : EscalateReason \cup {""}]
NoProgress == [status |-> "", reason |-> ""]

(* A row of notifications, by its dedupe key: rca_ready:1 or               *)
(* escalation:<reason>.                                                    *)
Note == Incidents \X ({"rca_ready"} \cup EscalateReason)

(* pc: the graph node, then the persist that is next.  todo are the nodes  *)
(* of the current super-step still to run, got and failed what the others  *)
(* returned; they reach the thread when the super-step ends.  evidence,    *)
(* audit, rca, progress and notes are the transaction's uncommitted rows.  *)
Run == [pc       : {"idle", "commander", "specialists", "synthesize", "escalate", "capture",
                    "persist_evidence", "persist_audit", "persist_rca", "persist_progress",
                    "commit"},
        id       : Incidents,
        todo     : SUBSET Collectors,
        got      : SUBSET Collectors,
        failed   : SUBSET Collectors,
        evidence : SUBSET EvidenceId,
        audit    : SUBSET EvidenceId,
        rca      : SUBSET Report,
        progress : Progress,
        notes    : SUBSET Note]

Idle == [pc |-> "idle", id |-> NoReport.inc, todo |-> {}, got |-> {}, failed |-> {},
         evidence |-> {}, audit |-> {}, rca |-> {}, progress |-> NoProgress,
         notes |-> {}]

(* What the recorder, the audit log and the runner keep until a drain.     *)
Buffers == [recorded : SUBSET EvidenceId, audit : SUBSET EvidenceId,
            reports : Seq(Report), progress : Progress]

NoBuffers == [recorded |-> {}, audit |-> {}, reports |-> <<>>, progress |-> NoProgress]

(* The committed rows; done are the incidents with an attempt committed.   *)
Db == [evidence : SUBSET EvidenceId, audit : SUBSET EvidenceId, rca : SUBSET Report,
       done : SUBSET Incidents, notes : SUBSET Note, progress : [Incidents -> Progress]]

(* Init: an empty process and an empty database.                           *)
Init ==
  /\ scenario \in [Incidents -> Scenarios]
  /\ attempts = [i \in Incidents |-> 0]
  /\ run = Idle
  /\ threads = [i \in Incidents |-> NoThread]
  /\ buffers = NoBuffers
  /\ db = [evidence |-> {}, audit |-> {}, rca |-> {}, done |-> {}, notes |-> {},
           progress |-> [i \in Incidents |-> NoProgress]]

---------------------------------------------------------------------------
(* The graph.                                                              *)

Current == threads[run.id]
SetCurrent(t) == threads' = [threads EXCEPT ![run.id] = t]

(* Mutant: the leftover audit log is cleared when an attempt starts.       *)
Start_ClearsAudit(i) ==
  /\ run.pc = "idle"
  /\ i \notin db.done
  /\ attempts[i] < MaxAttempts
  /\ attempts' = [attempts EXCEPT ![i] = @ + 1]
  /\ run' = [Idle EXCEPT !.pc = "commander", !.id = i]
  /\ threads' = [threads EXCEPT ![i] = [@ EXCEPT !.hops = 0, !.status = "running", !.started = TRUE]]
  /\ buffers' = [buffers EXCEPT !.audit = {}]
  /\ UNCHANGED <<scenario, db>>

(* invoke_investigation and intake.  The payload overwrites the plain      *)
(* channels; evidence and failed_steps are reducers, to which it adds the  *)
(* empty list; started_at and rca are not part of it.                      *)
Start(i) ==
  /\ run.pc = "idle"
  /\ i \notin db.done
  /\ attempts[i] < MaxAttempts
  /\ attempts' = [attempts EXCEPT ![i] = @ + 1]
  /\ run' = [Idle EXCEPT !.pc = "commander", !.id = i]
  /\ threads' = [threads EXCEPT ![i] = [@ EXCEPT !.hops = 0, !.status = "running", !.started = TRUE]]
  /\ UNCHANGED <<scenario, buffers, db>>

(* The commander node and route_after_commander.                           *)
Commander ==
  LET hops == Current.hops + 1
      d    == next_action(scenario[run.id], hops, Current.evidence, Current.late, Current.failed)
  IN  /\ run.pc = "commander"
      /\ SetCurrent([Current EXCEPT !.hops = hops, !.reason = d.reason])
      /\ run' = CASE d.next = SYNTHESIZE -> [run EXCEPT !.pc = "synthesize"]
                  [] d.next = ESCALATE   -> [run EXCEPT !.pc = "escalate"]
                  [] d.next = FANOUT     -> [run EXCEPT !.pc = "specialists", !.todo = DB_REQUIRED]
                  [] d.next \in Collectors
                                         -> [run EXCEPT !.pc = "specialists", !.todo = {d.next}]
      /\ UNCHANGED <<scenario, attempts, buffers, db>>

(* A specialist node returns; the last one of a super-step ends it, and    *)
(* the reducers merge what all of them returned.                           *)
SpecialistReturns(k, got, failed) ==
  LET todo == run.todo \ {k}
  IN  IF todo # {}
      THEN /\ run' = [run EXCEPT !.todo = todo, !.got = got, !.failed = failed]
           /\ UNCHANGED threads
      ELSE /\ run' = [run EXCEPT !.pc = "commander", !.todo = {}, !.got = {}, !.failed = {}]
           /\ SetCurrent([Current EXCEPT !.evidence = @ \cup got, !.failed = @ \cup failed])

EntryOf(k) == <<run.id, k, attempts[run.id]>>

(* collect_*: the gateway allowed the call and it returned items.  The     *)
(* call is audited; the recorder mints evidence unless it raises.          *)
Collect(k) ==
  /\ run.pc = "specialists"
  /\ k \in run.todo
  /\ \E recorded \in {{}, {EntryOf(k)}} :
       buffers' = [buffers EXCEPT !.recorded = @ \cup recorded, !.audit = @ \cup {EntryOf(k)}]
  /\ SpecialistReturns(k, run.got \cup {k}, run.failed)
  /\ UNCHANGED <<scenario, attempts, db>>

(* collect_*: the call was denied, failed, or returned nothing (audited),  *)
(* or the gateway raised.                                                  *)
CollectFails(k) ==
  /\ run.pc = "specialists"
  /\ k \in run.todo
  /\ \E entry \in {{}, {EntryOf(k)}} : buffers' = [buffers EXCEPT !.audit = @ \cup entry]
  /\ SpecialistReturns(k, run.got, run.failed \cup {k})
  /\ UNCHANGED <<scenario, attempts, db>>

(* What _synthesize hands to the model: the recorder's rows, or when there *)
(* are none the thread's items under derived ids.                          *)
Pack ==
  IF buffers.recorded # {} THEN buffers.recorded
                           ELSE {<<run.id, k, 0>> : k \in Current.evidence}

(* synthesize ends with status and reason; rca is the channel's new value. *)
Synthesized(status, reason, rca) ==
  /\ SetCurrent([Current EXCEPT !.status = status, !.reason = reason, !.rca = rca])
  /\ run' = [run EXCEPT !.pc = "capture"]
  /\ UNCHANGED <<scenario, attempts, buffers, db>>

(* generate_rca accepts an answer that cites ids of the pack; a confidence *)
(* below the threshold escalates it.                                       *)
Synthesize ==
  /\ run.pc = "synthesize"
  /\ \E cites \in (SUBSET Pack) \ {{}} :
       LET report == [inc |-> run.id, cites |-> cites]
       IN  \/ Synthesized("pending_review", "", report)
           \/ Synthesized("escalated", "low_confidence", report)

(* Two answers without valid JSON or with foreign citations; or an empty   *)
(* pack, which leaves the rca channel alone.                               *)
SynthesizeFails ==
  /\ run.pc = "synthesize"
  /\ Synthesized("escalated", "agent_failure", IF Pack = {} THEN Current.rca ELSE NoReport)

(* Mutant: escalate waits for the human instead of suspending the thread.  *)
Escalate_Waits == run.pc = "escalate" /\ UNCHANGED vars

(* escalate: interrupt() suspends the thread and invoke returns; the node  *)
(* has written nothing.                                                    *)
Escalate ==
  /\ run.pc = "escalate"
  /\ run' = [run EXCEPT !.pc = "capture"]
  /\ UNCHANGED <<scenario, attempts, threads, buffers, db>>

(* Mutant: a progress record that was not drained is kept.                 *)
Capture_KeepProgress ==
  /\ run.pc = "capture"
  /\ buffers' = [buffers EXCEPT
                   !.reports  = IF Current.rca.cites # {} THEN Append(@, Current.rca) ELSE @,
                   !.progress = IF @ = NoProgress
                                THEN [status |-> Current.status, reason |-> Current.reason]
                                ELSE @]
  /\ run' = [run EXCEPT !.pc = "persist_evidence"]
  /\ UNCHANGED <<scenario, attempts, threads, db>>

(* _capture_rca and _capture_progress read the channels of the result.     *)
Capture ==
  /\ run.pc = "capture"
  /\ buffers' = [buffers EXCEPT
                   !.reports  = IF Current.rca.cites # {} THEN Append(@, Current.rca) ELSE @,
                   !.progress = [status |-> Current.status, reason |-> Current.reason]]
  /\ run' = [run EXCEPT !.pc = "persist_evidence"]
  /\ UNCHANGED <<scenario, attempts, threads, db>>

---------------------------------------------------------------------------
(* The rest of execute: each persist drains its buffer, then inserts.      *)

PersistEvidence ==
  /\ run.pc = "persist_evidence"
  /\ run' = [run EXCEPT !.pc = "persist_audit", !.evidence = buffers.recorded]
  /\ buffers' = [buffers EXCEPT !.recorded = {}]
  /\ UNCHANGED <<scenario, attempts, threads, db>>

PersistAudit ==
  /\ run.pc = "persist_audit"
  /\ run' = [run EXCEPT !.pc = "persist_rca", !.audit = buffers.audit]
  /\ buffers' = [buffers EXCEPT !.audit = {}]
  /\ UNCHANGED <<scenario, attempts, threads, db>>

(* Every report is version 1: ux_rca_reports_incident_version refuses a    *)
(* second one of an incident, in the table or in the same transaction.     *)
RcaConflict ==
  \E n \in DOMAIN buffers.reports :
    \/ \E r \in db.rca : r.inc = buffers.reports[n].inc
    \/ \E m \in (DOMAIN buffers.reports) \ {n} : buffers.reports[m].inc = buffers.reports[n].inc

(* Each report is added and announced.  The notification is the handled    *)
(* incident's, whose second rca_ready:1 the dedupe key refuses in a        *)
(* savepoint; calling the notifier changes nothing here, and what it       *)
(* raises is swallowed.  An insert of the row that fails for another       *)
(* reason is swallowed too, but leaves the session unusable until it is    *)
(* rolled back: the attempt fails at what it does next (AttemptFails).     *)
PersistRca ==
  /\ run.pc = "persist_rca"
  /\ run' = IF RcaConflict
            THEN Idle
            ELSE [run EXCEPT !.pc    = "persist_progress",
                             !.rca   = {buffers.reports[n] : n \in DOMAIN buffers.reports},
                             !.notes = IF buffers.reports = <<>> THEN @
                                       ELSE @ \cup {<<run.id, "rca_ready">>}]
  /\ buffers' = [buffers EXCEPT !.reports = <<>>]
  /\ UNCHANGED <<scenario, attempts, threads, db>>

(* Mutant: only runs that ended with status escalated are announced.       *)
PersistProgress_ByStatus ==
  /\ run.pc = "persist_progress"
  /\ run' = [run EXCEPT !.pc       = "commit",
                        !.progress = buffers.progress,
                        !.notes    = IF buffers.progress.status # "escalated" THEN @
                                     ELSE @ \cup {<<run.id, buffers.progress.reason>>}]
  /\ buffers' = [buffers EXCEPT !.progress = NoProgress]
  /\ UNCHANGED <<scenario, attempts, threads, db>>

(* The row is saved, and an escalation is announced by its reason, as an   *)
(* RCA is.                                                                 *)
PersistProgress ==
  /\ run.pc = "persist_progress"
  /\ run' = [run EXCEPT !.pc       = "commit",
                        !.progress = buffers.progress,
                        !.notes    = IF buffers.progress.reason = "" THEN @
                                     ELSE @ \cup {<<run.id, buffers.progress.reason>>}]
  /\ buffers' = [buffers EXCEPT !.progress = NoProgress]
  /\ UNCHANGED <<scenario, attempts, threads, db>>

(* session.commit in _handle_opened.                                       *)
Commit ==
  /\ run.pc = "commit"
  /\ db' = [evidence |-> db.evidence \cup run.evidence,
            audit    |-> db.audit \cup run.audit,
            rca      |-> db.rca \cup run.rca,
            done     |-> db.done \cup {run.id},
            notes    |-> db.notes \cup run.notes,
            progress |-> [db.progress EXCEPT ![run.id] = run.progress]]
  /\ run' = Idle
  /\ UNCHANGED <<scenario, attempts, threads, buffers>>

(* The model call raises (ConnectionError is not caught), or an insert or  *)
(* the commit fails: the session rolls back, the process goes on.          *)
AttemptFails ==
  /\ run.pc \in {"synthesize", "persist_audit", "persist_rca", "persist_progress", "commit"}
  /\ run' = Idle
  /\ UNCHANGED <<scenario, attempts, threads, buffers, db>>

(* The process dies, or a worker with an empty memory takes the message.   *)
Crash ==
  /\ run' = Idle
  /\ threads' = [i \in Incidents |-> NoThread]
  /\ buffers' = NoBuffers
  /\ UNCHANGED <<scenario, attempts, db>>

(* MAX_DURATION passes since the started_at of a thread.                   *)
TimePasses(i) ==
  /\ threads[i].started /\ ~threads[i].late
  /\ threads' = [threads EXCEPT ![i] = [@ EXCEPT !.late = TRUE]]
  /\ UNCHANGED <<scenario, attempts, run, buffers, db>>

---------------------------------------------------------------------------
(* The steps of an attempt.                                                *)
AttemptStep ==
  \/ Commander
  \/ \E k \in Collectors : Collect(k) \/ CollectFails(k)
  \/ Synthesize \/ SynthesizeFails \/ Escalate \/ Capture
  \/ PersistEvidence \/ PersistAudit \/ PersistRca \/ PersistProgress
  \/ Commit

Next ==
  \/ \E i \in Incidents : Start(i)
  \/ AttemptStep
  \/ AttemptFails
  \/ Crash
  \/ \E i \in Incidents : TimePasses(i)

Spec == Init /\ [][Next]_vars

(* The handler is one coroutine that runs until it returns or raises.      *)
FairSpec == Spec /\ WF_vars(AttemptStep)

---------------------------------------------------------------------------
(* Properties.                                                             *)

(* Every variable has the shape the code gives it.                         *)
RunnerTypeOK ==
  /\ scenario \in [Incidents -> Scenarios]
  /\ attempts \in [Incidents -> 0 .. MaxAttempts]
  /\ run \in Run
  /\ threads \in [Incidents -> Thread]
  /\ buffers \in Buffers
  /\ db \in Db

(* Every stored evidence row has the audit row of the tool call it came    *)
(* from (metadata audit_id), whatever attempts failed in between: evidence *)
(* is drained before the audit log, so a failure never strands the former. *)
EvidenceIsAudited == db.evidence \subseteq db.audit

(* plan.py: specialists do not ping-pong.  The commander decides at most   *)
(* twice per attempt, also when a thread is resumed with the evidence and  *)
(* the failed steps of an earlier attempt, so the hop cap never decides.   *)
NoPingPong == \A i \in Incidents : threads[i].hops <= 2 /\ threads[i].reason # "max_hops"

(* An incident whose progress row asks for a review has an RCA to review,  *)
(* although the row and the report come from two buffers that outlive a    *)
(* failed attempt.                                                         *)
PendingReviewHasRca ==
  \A i \in Incidents :
    db.progress[i].status = "pending_review" => \E r \in db.rca : r.inc = i

(* An investigation that waits for a human has been announced: with the    *)
(* review of its RCA (FR-027), or with the reason of its escalation        *)
(* (FR-028), also where escalate's interrupt left the status running.      *)
OutcomeIsNotified ==
  \A i \in db.done :
    \/ <<i, db.progress[i].reason>> \in db.notes
    \/ db.progress[i].status = "pending_review" /\ <<i, "rca_ready">> \in db.notes

(* An attempt always ends, with a commit or a rollback: the graph has no   *)
(* endless cycle and the handler waits for nobody.                         *)
AttemptEnds == run.pc # "idle" ~> run.pc = "idle"

(* runner.py, drain_recorded_evidence: "Evidence minted during the last    *)
(* ``start``".  What the transaction of an incident persists would then be *)
(* evidence of that incident.                                              *)
EvidenceOfLastStart == \A e \in run.evidence : e[1] = run.id

(* product-vision.md: "Every claim in an RCA must cite retrievable         *)
(* evidence".  The citations of a stored report would then be stored rows. *)
CitationsResolve == \A r \in db.rca : r.cites \subseteq db.evidence

===========================================================================
