---------------------- MODULE InvestigationDelivery ----------------------
(***************************************************************************)
(* From the published event to the committed investigation: EventBridge    *)
(* and the investigation-workflow queue (external, at least once), the     *)
(* workers that poll it, and the handler ConsumeOpenedIncident, composed   *)
(* with the incidents table and the request sessions of IncidentStore.     *)
(*                                                                         *)
(* A worker receives one message, claims the event in processed_events,    *)
(* reads the incident, moves it to investigating, runs the investigation   *)
(* graph and persists its results in one transaction, commits, and only    *)
(* then deletes the message.  A failure rolls everything back and leaves   *)
(* the message to its visibility timeout; after MaxReceive receives the    *)
(* queue moves it to the dead-letter queue.                                *)
(***************************************************************************)
EXTENDS IncidentStore, Naturals

CONSTANTS
  MaxCopies,    \* copies EventBridge may deliver of one event (bound)
  MaxReceive,   \* MAX_RECEIVE_COUNT of the redrive policy
  Poison        \* messages whose event type or incident id is not valid

ASSUME BoundsAssumption == MaxCopies \in Nat \ {0} /\ MaxReceive \in Nat \ {0}
ASSUME PoisonAssumption == Poison \cap (Incidents \X (1 .. MaxCopies)) = {}

OpenedMessages == Incidents \X (1 .. MaxCopies)
Messages == OpenedMessages \cup Poison

VARIABLES
  queue,    \* every message's place in the queue
  wk,       \* what each worker process is doing
  claims,   \* committed rows of processed_events, one per incident
  runs      \* investigations on record: how often each incident's was committed

deliveryVars == <<queue, wk, claims, runs>>
vars == <<rows, tx, published, queue, wk, claims, runs>>

(* receives is the queue's receive count; a receipt handle is the count at *)
(* the receive that issued it.                                             *)
QueueEntry == [st       : {"none", "visible", "inflight", "deleted", "dlq"},
               receives : 0 .. MaxReceive]

(* pc: down    the process is not running;                                 *)
(*     poll    between two messages;                                       *)
(*     handle  a message was received, nothing is written yet;             *)
(*     claimed the inbox row is inserted, uncommitted;                     *)
(*     saving  open -> investigating is being saved through tx;            *)
(*     noop    claimed, and the incident had already left open;            *)
(*     ack     the handler has returned, the delete is next.               *)
Worker == [pc      : {"down", "poll", "handle", "claimed", "saving", "noop", "ack"},
           msg     : Messages,
           receipt : 0 .. MaxReceive]

NoMessage == CHOOSE m \in Messages : TRUE

Polling == [pc |-> "poll", msg |-> NoMessage, receipt |-> 0]
Down    == [pc |-> "down", msg |-> NoMessage, receipt |-> 0]

Target(w) == wk[w].msg[1]

(* A message moves to st; worker w goes on to pc with the same message.    *)
MoveTo(m, st)  == queue' = [queue EXCEPT ![m] = [st |-> st, receives |-> @.receives]]
GoOnTo(w, pc) == wk' = [wk EXCEPT ![w] = [pc |-> pc, msg |-> @.msg, receipt |-> @.receipt]]

(* Worker w's open transaction has inserted the inbox row of incident i.   *)
HoldsClaim(w, i) ==
  /\ wk[w].pc \in {"claimed", "saving", "noop"}
  /\ wk[w].msg \in OpenedMessages
  /\ Target(w) = i

---------------------------------------------------------------------------
(* The bus and the queue.                                                  *)

(* EventBridge puts a copy of a published event on the queue.              *)
Deliver(m) ==
  /\ m \in OpenedMessages
  /\ m[1] \in published
  /\ queue[m].st = "none"
  /\ MoveTo(m, "visible")
  /\ UNCHANGED <<rows, tx, published, wk, claims, runs>>

(* Some other producer on the bus sends an event the worker cannot use.    *)
PoisonArrives(m) ==
  /\ m \in Poison
  /\ queue[m].st = "none"
  /\ MoveTo(m, "visible")
  /\ UNCHANGED <<rows, tx, published, wk, claims, runs>>

VisibilityTimeout(m) ==
  /\ queue[m].st = "inflight"
  /\ MoveTo(m, "visible")
  /\ UNCHANGED <<rows, tx, published, wk, claims, runs>>

Redrive(m) ==
  /\ queue[m].st = "visible"
  /\ queue[m].receives = MaxReceive
  /\ MoveTo(m, "dlq")
  /\ UNCHANGED <<rows, tx, published, wk, claims, runs>>

---------------------------------------------------------------------------
(* The worker.                                                             *)

(* Mutant: the message is deleted before it is handled.                    *)
Receive_DeleteFirst(w, m) ==
  /\ wk[w].pc = "poll"
  /\ queue[m].st = "visible"
  /\ MoveTo(m, "deleted")
  /\ wk' = [wk EXCEPT ![w] = [pc |-> "handle", msg |-> m, receipt |-> 0]]
  /\ UNCHANGED <<rows, tx, published, claims, runs>>

(* poll_once: receive_one returns a message.                               *)
Receive(w, m) ==
  /\ wk[w].pc = "poll"
  /\ queue[m].st = "visible"
  /\ queue[m].receives < MaxReceive
  /\ queue' = [queue EXCEPT ![m] = [st |-> "inflight", receives |-> @.receives + 1]]
  /\ wk' = [wk EXCEPT ![w] = [pc |-> "handle", msg |-> m, receipt |-> queue[m].receives + 1]]
  /\ UNCHANGED <<rows, tx, published, claims, runs>>

(* Mutant: no inbox, the incident state alone detects duplicates.          *)
Claim_NoInbox(w) ==
  /\ wk[w].pc = "handle"
  /\ wk[w].msg \in OpenedMessages
  /\ GoOnTo(w, "claimed")
  /\ UNCHANGED <<rows, tx, published, queue, claims, runs>>

(* Mutant: the inbox is a SELECT and an INSERT with no primary key.        *)
Claim_NoConflict(w) ==
  /\ wk[w].pc = "handle"
  /\ wk[w].msg \in OpenedMessages
  /\ GoOnTo(w, IF Target(w) \in claims THEN "ack" ELSE "claimed")
  /\ UNCHANGED <<rows, tx, published, queue, claims, runs>>

(* record_once.  The INSERT waits for a transaction that has inserted the  *)
(* same key; if the key is committed it does nothing and the handler       *)
(* returns with already_processed.                                         *)
Claim(w) ==
  /\ wk[w].pc = "handle"
  /\ wk[w].msg \in OpenedMessages
  /\ \A v \in Workers \ {w} : ~HoldsClaim(v, Target(w))
  /\ GoOnTo(w, IF Target(w) \in claims THEN "ack" ELSE "claimed")
  /\ UNCHANGED <<rows, tx, published, queue, claims, runs>>

(* get_by_id and start_investigation on an incident that is open.          *)
StartInvestigation(w) ==
  /\ wk[w].pc = "claimed"
  /\ rows[Target(w)].state = OPEN
  /\ ReadForTransition(w, Target(w), INVESTIGATING)
  /\ GoOnTo(w, "saving")
  /\ UNCHANGED <<rows, published, queue, claims, runs>>

(* start_investigation returns False: nothing is saved and no graph runs.  *)
AlreadyPastOpen(w) ==
  /\ wk[w].pc = "claimed"
  /\ Exists(Target(w))
  /\ rows[Target(w)].state # OPEN
  /\ GoOnTo(w, "noop")
  /\ UNCHANGED <<rows, tx, published, queue, claims, runs>>

(* save, the SELECT and the UPDATE.                                        *)
WorkerLoad(w) ==
  /\ wk[w].pc = "saving"
  /\ Load(w)
  /\ UNCHANGED deliveryVars

WorkerFlush(w) ==
  /\ wk[w].pc = "saving"
  /\ FlushUpdate(w)
  /\ UNCHANGED deliveryVars

(* runner.start, the persists of what it recorded, and the commit, which   *)
(* makes the row, the claim and the investigation durable together.        *)
CommitInvestigation(w) ==
  /\ wk[w].pc = "saving"
  /\ Flushed(w)
  /\ CommitRow(w)
  /\ tx' = [tx EXCEPT ![w] = IdleTx]
  /\ claims' = claims \cup {Target(w)}
  /\ runs' = [runs EXCEPT ![Target(w)] = @ + 1]
  /\ GoOnTo(w, "ack")
  /\ UNCHANGED <<published, queue>>

CommitNoop(w) ==
  /\ wk[w].pc = "noop"
  /\ claims' = claims \cup {Target(w)}
  /\ GoOnTo(w, "ack")
  /\ UNCHANGED <<rows, tx, published, queue, runs>>

(* delete_message.  A receipt that a later receive has replaced may or may *)
(* not delete the message.                                                 *)
Ack(w) ==
  LET m == wk[w].msg
  IN  /\ wk[w].pc = "ack"
      /\ \/ MoveTo(m, IF queue[m].st = "dlq" THEN "dlq" ELSE "deleted")
         \/ wk[w].receipt # queue[m].receives /\ UNCHANGED queue
      /\ wk' = [wk EXCEPT ![w] = Polling]
      /\ UNCHANGED <<rows, tx, published, claims, runs>>

(* Mutant: poll_once deletes the message of a failed handler too.          *)
HandlerFails_Delete(w) ==
  /\ wk[w].pc \in {"handle", "claimed", "saving", "noop"}
  /\ tx' = [tx EXCEPT ![w] = IdleTx]
  /\ GoOnTo(w, "ack")
  /\ UNCHANGED <<rows, published, queue, claims, runs>>

(* Mutant: the claim is committed in a transaction of its own.             *)
HandlerFails_ClaimKept(w) ==
  /\ wk[w].pc \in {"claimed", "saving", "noop"}
  /\ tx' = [tx EXCEPT ![w] = IdleTx]
  /\ wk' = [wk EXCEPT ![w] = Polling]
  /\ claims' = claims \cup {Target(w)}
  /\ UNCHANGED <<rows, published, queue, runs>>

(* The handler raises (a poison event, a missing incident, the database,   *)
(* the model or a tool): the session rolls back, the message stays.        *)
HandlerFails(w) ==
  /\ wk[w].pc \in {"handle", "claimed", "saving", "noop"}
  /\ tx' = [tx EXCEPT ![w] = IdleTx]
  /\ wk' = [wk EXCEPT ![w] = Polling]
  /\ UNCHANGED <<rows, published, queue, claims, runs>>

(* The process dies: the database rolls its transaction back.  A delete or *)
(* a receive that raises ends the process too.                             *)
Crash(w) ==
  /\ wk[w].pc # "down"
  /\ tx' = [tx EXCEPT ![w] = IdleTx]
  /\ wk' = [wk EXCEPT ![w] = Down]
  /\ UNCHANGED <<rows, published, queue, claims, runs>>

Restart(w) ==
  /\ wk[w].pc = "down"
  /\ wk' = [wk EXCEPT ![w] = Polling]
  /\ UNCHANGED <<rows, tx, published, queue, claims, runs>>

---------------------------------------------------------------------------
Init ==
  /\ StoreInit
  /\ queue = [m \in Messages |-> [st |-> "none", receives |-> 0]]
  /\ wk = [w \in Workers |-> Polling]
  /\ claims = {}
  /\ runs = [i \in Incidents |-> 0]

ApiStep(s) == (RequestStep(s) \/ PublishOpened(s)) /\ UNCHANGED deliveryVars

QueueStep(m) == Deliver(m) \/ PoisonArrives(m) \/ VisibilityTimeout(m) \/ Redrive(m)

(* The steps a worker takes by itself while it handles a message.          *)
HandlerStep(w) ==
  \/ StartInvestigation(w)
  \/ AlreadyPastOpen(w)
  \/ WorkerLoad(w)
  \/ CommitInvestigation(w)
  \/ CommitNoop(w)
  \/ Ack(w)

WorkerStep(w) ==
  \/ \E m \in Messages : Receive(w, m)
  \/ Claim(w)
  \/ WorkerFlush(w)
  \/ HandlerStep(w)
  \/ HandlerFails(w)
  \/ Crash(w)
  \/ Restart(w)

Next ==
  \/ \E s \in ApiSessions : ApiStep(s)
  \/ \E m \in Messages : QueueStep(m)
  \/ \E w \in Workers : WorkerStep(w)

Spec == Init /\ [][Next]_vars

(* Fairness.  The bus delivers at least one copy of an event and the queue *)
(* runs its timeouts and its redrive policy; a process supervisor restarts *)
(* a worker; a worker loop never stops between two steps (run_worker);     *)
(* PostgreSQL queues waiters, so a session that waits for a lock gets its  *)
(* turn (strong fairness); and a request ends.  Failures and crashes are   *)
(* not fair: they may happen, or not.  A poison event always fails.        *)
Fairness ==
  /\ \A i \in Incidents : WF_vars(Deliver(<<i, 1>>))
  /\ \A m \in Messages : WF_vars(VisibilityTimeout(m)) /\ WF_vars(Redrive(m))
  /\ \A w \in Workers :
       /\ SF_vars(\E m \in Messages : Receive(w, m))
       /\ SF_vars(Claim(w))
       /\ SF_vars(WorkerFlush(w))
       /\ WF_vars(HandlerStep(w))
       /\ WF_vars(Restart(w))
       /\ WF_vars(wk[w].msg \in Poison /\ HandlerFails(w))
  /\ \A s \in ApiSessions : WF_vars((Commit(s) \/ Rollback(s)) /\ UNCHANGED deliveryVars)

FairSpec == Spec /\ Fairness

---------------------------------------------------------------------------
(* Properties.                                                             *)

(* Every variable has the shape the code gives it.                         *)
TypeOK ==
  /\ StoreTypeOK
  /\ queue \in [Messages -> QueueEntry]
  /\ wk \in [Workers -> Worker]
  /\ claims \subseteq Incidents
  /\ runs \in [Incidents -> Nat]

(* However often an event is delivered, and whatever crashes and timeouts  *)
(* happen in between, at most one investigation of an incident is ever on  *)
(* record: processed_events.record_once and the one transaction of         *)
(* _handle_opened see to it.                                               *)
OneInvestigation == \A i \in Incidents : runs[i] <= 1

(* A message is deleted only once its event has taken effect durably:      *)
(* poll_once deletes after the handler, and the handler commits first.     *)
AckedIsDurable ==
  \A m \in OpenedMessages : queue[m].st = "deleted" => m[1] \in claims

(* An incident whose event was consumed has left open at least once: the   *)
(* claim and the transition are one transaction, so no failure can record  *)
(* the claim and lose the transition.                                      *)
ClaimedHasLeftOpen == \A i \in claims : rows[i].history # {}

(* The worker implements the abstract promise.                             *)
Abstract == INSTANCE OnceOnlyInvestigation WITH handled <- claims
RefinesOnceOnly == Abstract!Spec

(* A published event is eventually consumed, or parked in the dead-letter  *)
(* queue where an operator finds it: no crash, duplicate, lock wait or     *)
(* poison message loses it or blocks it for ever.                          *)
PublishedIsSettled ==
  \A i \in Incidents :
    i \in published ~> (i \in claims \/ queue[<<i, 1>>].st = "dlq")

===========================================================================
