------------------ MODULE InvestigationDelivery_proofs -------------------
(***************************************************************************)
(* Proofs that the worker consumes each event at most once and loses none  *)
(* that it acknowledged, for any number of workers, request sessions,      *)
(* incidents, duplicate copies and receives.                               *)
(*                                                                         *)
(* DeliveryInv relates the four pieces of state that the code keeps in     *)
(* different places: the worker's position in poll_once, its transaction,  *)
(* the inbox table processed_events, and the queue.  The step to           *)
(* investigating is followed from the entity in memory (tx.steps) through  *)
(* the flushed version (tx.row) into the committed row.                    *)
(***************************************************************************)
EXTENDS InvestigationDelivery, IncidentStore_proofs

(* What is known of worker w at each point of poll_once and execute.       *)
WorkerOK(w) ==
  /\ wk[w].pc \in {"claimed", "saving", "noop", "ack"} => wk[w].msg \in OpenedMessages
  /\ wk[w].pc = "saving" =>
       /\ tx[w].pc \in {"read", "load", "flushed"}
       /\ tx[w].id = Target(w)
       /\ tx[w].pc \in {"read", "load"} => tx[w].steps # {}
       /\ Flushed(w) => tx[w].row.history # {}
  /\ wk[w].pc = "noop" => rows[Target(w)].history # {}
  /\ wk[w].pc = "ack" => Target(w) \in claims

(* The primary key of processed_events: two transactions never hold the    *)
(* same uncommitted claim, nor one that is already committed.              *)
ClaimsExclusive ==
  \A w \in Workers, i \in Incidents : HoldsClaim(w, i) =>
    /\ i \notin claims
    /\ \A v \in Workers : HoldsClaim(v, i) => v = w

(* No investigation is on record without its claim.                        *)
RunsAreClaimed == \A i \in Incidents : runs[i] <= 1 /\ (i \notin claims => runs[i] = 0)

DeliveryInv ==
  /\ StoreInv
  /\ TypeOK
  /\ \A w \in Workers : WorkerOK(w)
  /\ ClaimsExclusive
  /\ RunsAreClaimed
  /\ AckedIsDurable
  /\ ClaimedHasLeftOpen

HistoryKept == \A i \in Incidents : rows[i].history \subseteq rows'[i].history

---------------------------------------------------------------------------
(* Workers between two messages, and the messages that name an incident.   *)
LEMMA MessageFacts ==
  /\ NoMessage \in Messages
  /\ Polling \in Worker /\ Polling.pc = "poll"
  /\ Down \in Worker /\ Down.pc = "down"
  /\ \A m \in OpenedMessages : m \in Messages /\ m[1] \in Incidents
<1>1. PICK i \in Incidents : TRUE
  BY NonemptyAssumption
<1>2. <<i, 1>> \in Messages
  BY BoundsAssumption DEF Messages, OpenedMessages
<1>3. NoMessage \in Messages
  BY <1>2 DEF NoMessage
<1>4. 0 \in 0 .. MaxReceive
  BY BoundsAssumption
<1>5. QED
  BY <1>3, <1>4 DEF Polling, Down, Worker, Messages, OpenedMessages

(* A request session touches only its own transaction.                     *)
LEMMA RequestFrame ==
  ASSUME NEW s \in ApiSessions, tx \in [Sessions -> Tx],
         RequestStep(s) \/ PublishOpened(s)
  PROVE  \A t \in Sessions \ {s} : tx'[t] = tx[t]
<1>1. \E r : tx' = [tx EXCEPT ![s] = r]
  BY DEF RequestStep, PublishOpened, PostIncident, IngestFound, IngestNotFound, IngestInsert,
         PatchState, Load, FlushUpdate, Commit, Rollback, LoseOpened, FlushInsert,
         ReadForTransition
<1>2. QED
  BY <1>1

(* DeliveryInv holds in the initial states.                                *)
LEMMA DeliveryInitInv == Init => DeliveryInv
<1> SUFFICES ASSUME Init PROVE DeliveryInv
  OBVIOUS
<1>1. StoreInv
  BY StoreInitInv DEF Init
<1>2. TypeOK
  <2>1. [st |-> "none", receives |-> 0] \in QueueEntry
    BY BoundsAssumption DEF QueueEntry
  <2>2. QED
    BY <1>1, <2>1, MessageFacts DEF Init, TypeOK, StoreInv
<1>3. \A w \in Workers : wk[w].pc = "poll"
  BY MessageFacts DEF Init
<1>4. (\A w \in Workers : WorkerOK(w)) /\ ClaimsExclusive
  BY <1>3 DEF WorkerOK, ClaimsExclusive, HoldsClaim
<1>5. RunsAreClaimed /\ AckedIsDurable /\ ClaimedHasLeftOpen
  BY MessageFacts DEF Init, RunsAreClaimed, AckedIsDurable, ClaimedHasLeftOpen
<1>6. QED
  BY <1>1, <1>2, <1>4, <1>5 DEF DeliveryInv

---------------------------------------------------------------------------
(* What is known of a worker survives every step of somebody else.         *)
LEMMA OthersKeep ==
  ASSUME DeliveryInv, NEW v \in Workers,
         wk'[v] = wk[v], tx'[v] = tx[v],
         HistoryKept, claims \subseteq claims'
  PROVE  WorkerOK(v)'
<1>1. WorkerOK(v)
  BY DEF DeliveryInv
<1>2. wk[v].pc \in {"claimed", "saving", "noop", "ack"} => Target(v) \in Incidents
  BY <1>1, MessageFacts DEF WorkerOK, Target
<1>3. Target(v)' = Target(v) /\ Flushed(v)' = Flushed(v)
  BY DEF Target, Flushed
<1>4. QED
  BY <1>1, <1>2, <1>3 DEF WorkerOK, HistoryKept

(* A claimed incident that has left open never returns to it.              *)
LEMMA LeftOpenKeeps ==
  ASSUME DeliveryInv, HistoryKept, claims' = claims
  PROVE  ClaimedHasLeftOpen'
BY DEF DeliveryInv, TypeOK, HistoryKept, ClaimedHasLeftOpen

(* A request session touches no claim and no worker.                       *)
LEMMA ApiInv ==
  ASSUME DeliveryInv, NEW s \in ApiSessions, ApiStep(s)
  PROVE  DeliveryInv'
<1>1. (RequestStep(s) \/ PublishOpened(s)) /\ UNCHANGED deliveryVars
  BY DEF ApiStep
<1>2. StoreInv' /\ HistoryKept
  BY <1>1, RequestInv DEF DeliveryInv, HistoryKept
<1>3. TypeOK'
  BY <1>1, <1>2 DEF DeliveryInv, TypeOK, deliveryVars, StoreInv
<1>4. \A w \in Workers : tx'[w] = tx[w]
  <2>1. \A w \in Workers : w \in Sessions \ {s}
    BY SessionsAssumption DEF Sessions
  <2>2. tx \in [Sessions -> Tx]
    BY DEF DeliveryInv, StoreInv, StoreTypeOK
  <2>3. QED
    BY <1>1, <2>1, <2>2, RequestFrame
<1>5. \A w \in Workers : WorkerOK(w)'
  BY <1>1, <1>2, <1>4, OthersKeep DEF deliveryVars
<1>6. ClaimsExclusive' /\ RunsAreClaimed' /\ AckedIsDurable'
  BY <1>1 DEF DeliveryInv, deliveryVars, ClaimsExclusive, HoldsClaim, Target, RunsAreClaimed,
              AckedIsDurable
<1>7. ClaimedHasLeftOpen'
  BY <1>1, <1>2, LeftOpenKeeps DEF deliveryVars
<1>8. QED
  BY <1>2, <1>3, <1>5, <1>6, <1>7 DEF DeliveryInv

(* A step that leaves the store, the claims and the runs alone.            *)
LEMMA WorkerOnlyStep ==
  ASSUME DeliveryInv, NEW w \in Workers, NEW r \in Worker,
         UNCHANGED <<rows, tx, published, claims, runs>>,
         wk' = [wk EXCEPT ![w] = r],
         queue' \in [Messages -> QueueEntry],
         AckedIsDurable',
         WorkerOK(w)',
         ASSUME NEW i \in Incidents, HoldsClaim(w, i)'
         PROVE  i \notin claims /\ \A v \in Workers \ {w} : ~HoldsClaim(v, i)
  PROVE  DeliveryInv'
<1>1. StoreInv'
  BY StoreStutter DEF DeliveryInv, storeVars
<1>2. HistoryKept
  BY DEF HistoryKept
<1>3. TypeOK'
  BY <1>1 DEF DeliveryInv, TypeOK, StoreInv
<1>4. \A v \in Workers \ {w} : wk'[v] = wk[v] /\ tx'[v] = tx[v]
  BY DEF DeliveryInv, TypeOK
<1>5. \A v \in Workers : WorkerOK(v)'
  BY <1>2, <1>4, OthersKeep
<1>6. \A v \in Workers \ {w}, i \in Incidents : HoldsClaim(v, i)' <=> HoldsClaim(v, i)
  BY <1>4 DEF HoldsClaim, Target
<1>7. ClaimsExclusive'
  BY <1>6 DEF DeliveryInv, ClaimsExclusive
<1>8. RunsAreClaimed'
  BY DEF DeliveryInv, RunsAreClaimed
<1>9. ClaimedHasLeftOpen'
  BY <1>2, LeftOpenKeeps
<1>10. QED
  BY <1>1, <1>3, <1>5, <1>7, <1>8, <1>9 DEF DeliveryInv

(* A step of the bus or the queue.                                         *)
LEMMA QueueInv ==
  ASSUME DeliveryInv, NEW m \in Messages, QueueStep(m)
  PROVE  DeliveryInv'
<1>1. PICK st \in {"visible", "dlq"} : MoveTo(m, st)
  BY DEF QueueStep, Deliver, PoisonArrives, VisibilityTimeout, Redrive
<1>2. UNCHANGED <<rows, tx, published, wk, claims, runs>>
  BY DEF QueueStep, Deliver, PoisonArrives, VisibilityTimeout, Redrive
<1>3. queue' \in [Messages -> QueueEntry]
  BY <1>1 DEF MoveTo, DeliveryInv, TypeOK, QueueEntry
<1>4. AckedIsDurable'
  BY <1>1, <1>2, MessageFacts DEF MoveTo, DeliveryInv, TypeOK, QueueEntry, AckedIsDurable
<1>5. StoreInv' /\ HistoryKept
  BY <1>2, StoreStutter DEF DeliveryInv, storeVars, HistoryKept
<1>6. TypeOK'
  BY <1>2, <1>3, <1>5 DEF DeliveryInv, TypeOK, StoreInv
<1>7. \A w \in Workers : WorkerOK(w)'
  BY <1>2, <1>5, OthersKeep
<1>8. ClaimsExclusive' /\ RunsAreClaimed'
  BY <1>2 DEF DeliveryInv, ClaimsExclusive, HoldsClaim, Target, RunsAreClaimed
<1>9. QED
  BY <1>2, <1>4, <1>5, <1>6, <1>7, <1>8, LeftOpenKeeps DEF DeliveryInv

---------------------------------------------------------------------------
(* The worker's actions.                                                   *)

(* A worker that has claimed holds a message about an incident.            *)
LEMMA WorkerType ==
  ASSUME DeliveryInv, NEW w \in Workers
  PROVE  /\ w \in Sessions
         /\ wk[w].msg \in Messages /\ wk[w].receipt \in 0 .. MaxReceive
         /\ wk[w].pc \in {"claimed", "saving", "noop", "ack"} =>
              wk[w].msg \in OpenedMessages /\ Target(w) \in Incidents
BY MessageFacts DEF DeliveryInv, TypeOK, Worker, WorkerOK, Target, Sessions

(* Worker w goes on to pc: the fields it then has.                         *)
LEMMA GoOnToFacts ==
  ASSUME DeliveryInv, NEW w \in Workers,
         NEW pc \in {"claimed", "saving", "noop", "ack"}, GoOnTo(w, pc)
  PROVE  \E r \in Worker : /\ wk' = [wk EXCEPT ![w] = r]
                           /\ r.pc = pc /\ r.msg = wk[w].msg
                           /\ wk'[w] = r
<1> DEFINE r == [pc |-> pc, msg |-> wk[w].msg, receipt |-> wk[w].receipt]
<1>1. r \in Worker
  BY WorkerType DEF Worker
<1>2. wk' = [wk EXCEPT ![w] = r] /\ wk'[w] = r
  BY DEF GoOnTo, DeliveryInv, TypeOK
<1>3. QED
  BY <1>1, <1>2

(* A receive gives the worker a message and a receipt.                     *)
LEMMA ReceiveInv ==
  ASSUME DeliveryInv, NEW w \in Workers, NEW m \in Messages, Receive(w, m)
  PROVE  DeliveryInv'
<1> DEFINE n == queue[m].receives + 1
           r == [pc |-> "handle", msg |-> m, receipt |-> n]
           e == [st |-> "inflight", receives |-> n]
<1>1. n \in 0 .. MaxReceive
  BY BoundsAssumption DEF Receive, DeliveryInv, TypeOK, QueueEntry
<1>2. r \in Worker /\ e \in QueueEntry
  BY <1>1 DEF Worker, QueueEntry
<1>3. queue' = [queue EXCEPT ![m] = e] /\ wk' = [wk EXCEPT ![w] = r]
  BY DEF Receive
<1>4. UNCHANGED <<rows, tx, published, claims, runs>>
  BY DEF Receive
<1>5. queue' \in [Messages -> QueueEntry]
  BY <1>2, <1>3 DEF DeliveryInv, TypeOK
<1>6. AckedIsDurable'
  BY <1>3, <1>4, MessageFacts DEF DeliveryInv, TypeOK, AckedIsDurable
<1>7. wk'[w].pc = "handle"
  BY <1>3 DEF DeliveryInv, TypeOK
<1>8. WorkerOK(w)' /\ \A i \in Incidents : ~HoldsClaim(w, i)'
  BY <1>7 DEF WorkerOK, HoldsClaim
<1>9. QED
  BY <1>2, <1>3, <1>4, <1>5, <1>6, <1>8, WorkerOnlyStep

(* record_once inserts a key that nobody has, committed or not.            *)
LEMMA ClaimInv ==
  ASSUME DeliveryInv, NEW w \in Workers, Claim(w)
  PROVE  DeliveryInv'
<1> DEFINE pc == IF Target(w) \in claims THEN "ack" ELSE "claimed"
<1>1. wk[w].msg \in OpenedMessages
  BY DEF Claim
<1>2. UNCHANGED <<rows, tx, published, queue, claims, runs>> /\ GoOnTo(w, pc)
  BY DEF Claim
<1>3. PICK r \in Worker : /\ wk' = [wk EXCEPT ![w] = r]
                          /\ r.pc = pc /\ r.msg = wk[w].msg
                          /\ wk'[w] = r
  BY <1>2, GoOnToFacts
<1>4. Target(w)' = Target(w)
  BY <1>3 DEF Target
<1>5. WorkerOK(w)'
  BY <1>1, <1>2, <1>3, <1>4 DEF WorkerOK
<1>6. ASSUME NEW i \in Incidents, HoldsClaim(w, i)'
      PROVE  i \notin claims /\ \A v \in Workers \ {w} : ~HoldsClaim(v, i)
  BY <1>3, <1>4, <1>6 DEF HoldsClaim, Claim
<1>7. queue' \in [Messages -> QueueEntry] /\ AckedIsDurable'
  BY <1>2 DEF DeliveryInv, TypeOK, AckedIsDurable
<1>8. QED
  BY <1>2, <1>3, <1>5, <1>6, <1>7, WorkerOnlyStep

(* The incident was past open: only the claim is to be committed.          *)
LEMMA AlreadyPastOpenInv ==
  ASSUME DeliveryInv, NEW w \in Workers, AlreadyPastOpen(w)
  PROVE  DeliveryInv'
<1>1. wk[w].pc = "claimed" /\ wk[w].msg \in OpenedMessages /\ Target(w) \in Incidents
  BY WorkerType DEF AlreadyPastOpen
<1>2. UNCHANGED <<rows, tx, published, queue, claims, runs>> /\ GoOnTo(w, "noop")
  BY DEF AlreadyPastOpen
<1>3. PICK r \in Worker : /\ wk' = [wk EXCEPT ![w] = r]
                          /\ r.pc = "noop" /\ r.msg = wk[w].msg
                          /\ wk'[w] = r
  BY <1>2, GoOnToFacts
<1>4. Target(w)' = Target(w)
  BY <1>3 DEF Target
<1>5. rows[Target(w)].history # {}
  BY <1>1 DEF AlreadyPastOpen, Exists, DeliveryInv, StoreInv, Recorded
<1>6. WorkerOK(w)'
  BY <1>1, <1>2, <1>3, <1>4, <1>5 DEF WorkerOK
<1>7. ASSUME NEW i \in Incidents, HoldsClaim(w, i)'
      PROVE  i \notin claims /\ \A v \in Workers \ {w} : ~HoldsClaim(v, i)
  BY <1>1, <1>3, <1>4, <1>7 DEF HoldsClaim, DeliveryInv, ClaimsExclusive
<1>8. queue' \in [Messages -> QueueEntry] /\ AckedIsDurable'
  BY <1>2 DEF DeliveryInv, TypeOK, AckedIsDurable
<1>9. QED
  BY <1>2, <1>3, <1>6, <1>7, <1>8, WorkerOnlyStep

(* delete_message of a handled message.                                    *)
LEMMA AckInv ==
  ASSUME DeliveryInv, NEW w \in Workers, Ack(w)
  PROVE  DeliveryInv'
<1> DEFINE m == wk[w].msg
<1>1. m \in OpenedMessages /\ m \in Messages /\ Target(w) \in claims
  BY MessageFacts DEF Ack, DeliveryInv, WorkerOK
<1>2. UNCHANGED <<rows, tx, published, claims, runs>> /\ wk' = [wk EXCEPT ![w] = Polling]
  BY DEF Ack
<1>3. queue' = queue \/ \E st \in {"dlq", "deleted"} : MoveTo(m, st)
  BY DEF Ack
<1>4. queue' \in [Messages -> QueueEntry]
  BY <1>1, <1>3 DEF MoveTo, DeliveryInv, TypeOK, QueueEntry
<1>5. AckedIsDurable'
  BY <1>1, <1>2, <1>3, MessageFacts DEF MoveTo, DeliveryInv, TypeOK, AckedIsDurable, Target
<1>6. wk'[w].pc = "poll"
  BY <1>2, MessageFacts DEF DeliveryInv, TypeOK
<1>7. WorkerOK(w)' /\ \A i \in Incidents : ~HoldsClaim(w, i)'
  BY <1>6 DEF WorkerOK, HoldsClaim
<1>8. QED
  BY <1>2, <1>4, <1>5, <1>7, MessageFacts, WorkerOnlyStep

(* A process that died comes back without a transaction.                   *)
LEMMA RestartInv ==
  ASSUME DeliveryInv, NEW w \in Workers, Restart(w)
  PROVE  DeliveryInv'
<1>1. UNCHANGED <<rows, tx, published, queue, claims, runs>> /\ wk' = [wk EXCEPT ![w] = Polling]
  BY DEF Restart
<1>2. wk'[w].pc = "poll"
  BY <1>1, MessageFacts DEF DeliveryInv, TypeOK
<1>3. WorkerOK(w)' /\ \A i \in Incidents : ~HoldsClaim(w, i)'
  BY <1>2 DEF WorkerOK, HoldsClaim
<1>4. queue' \in [Messages -> QueueEntry] /\ AckedIsDurable'
  BY <1>1 DEF DeliveryInv, TypeOK, AckedIsDurable
<1>5. QED
  BY <1>1, <1>3, <1>4, MessageFacts, WorkerOnlyStep

---------------------------------------------------------------------------
(* The worker's steps on its transaction.                                  *)

(* A step that commits nothing and claims nothing new.                     *)
LEMMA WorkerTxStep ==
  ASSUME DeliveryInv, NEW w \in Workers, NEW r \in Worker,
         StoreInv', rows' = rows,
         \A v \in Workers \ {w} : tx'[v] = tx[v],
         UNCHANGED <<queue, claims, runs>>,
         wk' = [wk EXCEPT ![w] = r],
         WorkerOK(w)',
         \A i \in Incidents : HoldsClaim(w, i)' => HoldsClaim(w, i)
  PROVE  DeliveryInv'
<1>1. HistoryKept
  BY DEF HistoryKept
<1>2. TypeOK'
  BY DEF DeliveryInv, TypeOK, StoreInv
<1>3. \A v \in Workers \ {w} : wk'[v] = wk[v]
  BY DEF DeliveryInv, TypeOK
<1>4. \A v \in Workers : WorkerOK(v)'
  BY <1>1, <1>3, OthersKeep
<1>5. \A v \in Workers, i \in Incidents : HoldsClaim(v, i)' => HoldsClaim(v, i)
  BY <1>3 DEF HoldsClaim, Target
<1>6. ClaimsExclusive'
  BY <1>5 DEF DeliveryInv, ClaimsExclusive
<1>7. RunsAreClaimed' /\ AckedIsDurable'
  BY DEF DeliveryInv, RunsAreClaimed, AckedIsDurable
<1>8. QED
  BY <1>1, <1>2, <1>4, <1>6, <1>7, LeftOpenKeeps DEF DeliveryInv

(* The worker takes its incident under investigation in memory.            *)
LEMMA StartInvestigationInv ==
  ASSUME DeliveryInv, NEW w \in Workers, StartInvestigation(w)
  PROVE  DeliveryInv'
<1> DEFINE i == Target(w)
<1>1. wk[w].pc = "claimed" /\ wk[w].msg \in OpenedMessages /\ i \in Incidents /\ w \in Sessions
  BY WorkerType DEF StartInvestigation
<1>2. ReadForTransition(w, i, INVESTIGATING) /\ UNCHANGED <<rows, published, queue, claims, runs>>
      /\ GoOnTo(w, "saving")
  BY DEF StartInvestigation
<1>3. StoreInv'
  BY <1>1, <1>2, StatesAreDistinct, ReadForTransitionInv DEF DeliveryInv
<1>4. PICK r \in Worker : /\ wk' = [wk EXCEPT ![w] = r]
                          /\ r.pc = "saving" /\ r.msg = wk[w].msg
                          /\ wk'[w] = r
  BY <1>2, GoOnToFacts
<1> DEFINE q == [IdleTx EXCEPT !.pc = "read", !.id = i, !.seen = rows[i].state,
                               !.state = INVESTIGATING,
                               !.steps = {<<rows[i].state, INVESTIGATING>>}]
<1>5. q.pc = "read" /\ q.id = i /\ q.steps = {<<rows[i].state, INVESTIGATING>>}
  BY DEF IdleTx
<1>6. tx' = [tx EXCEPT ![w] = q]
  BY <1>2 DEF ReadForTransition
<1>7. tx'[w] = q /\ \A v \in Workers \ {w} : tx'[v] = tx[v]
  BY <1>1, <1>6 DEF DeliveryInv, StoreInv, StoreTypeOK, Sessions
<1>8. Target(w)' = i
  BY <1>4 DEF Target
<1>9. WorkerOK(w)'
  BY <1>1, <1>4, <1>5, <1>7, <1>8 DEF WorkerOK, Flushed
<1>10. \A j \in Incidents : HoldsClaim(w, j)' => HoldsClaim(w, j)
  BY <1>1, <1>4, <1>8 DEF HoldsClaim
<1>11. QED
  BY <1>2, <1>3, <1>4, <1>7, <1>9, <1>10, WorkerTxStep

(* The worker's SELECT.                                                    *)
LEMMA WorkerLoadInv ==
  ASSUME DeliveryInv, NEW w \in Workers, WorkerLoad(w)
  PROVE  DeliveryInv'
<1>1. wk[w].pc = "saving" /\ w \in Sessions /\ Load(w) /\ UNCHANGED <<rows, queue, wk, claims, runs>>
  BY WorkerType DEF WorkerLoad, deliveryVars, Load
<1>2. StoreInv'
  BY <1>1, LoadInv DEF DeliveryInv
<1>3. PICK b \in {tx[w].seen, rows[tx[w].id].state} :
        tx' = [tx EXCEPT ![w] = [IdleTx EXCEPT !.pc = "load", !.id = tx[w].id,
                                  !.state = tx[w].state, !.steps = tx[w].steps, !.base = b]]
  BY <1>1 DEF Load
<1> DEFINE q == [IdleTx EXCEPT !.pc = "load", !.id = tx[w].id, !.state = tx[w].state,
                               !.steps = tx[w].steps, !.base = b]
<1>4. q.pc = "load" /\ q.id = tx[w].id /\ q.steps = tx[w].steps
  BY DEF IdleTx
<1>5. tx'[w] = q /\ \A v \in Workers \ {w} : tx'[v] = tx[v]
  BY <1>1, <1>3 DEF DeliveryInv, StoreInv, StoreTypeOK, Sessions
<1>6. WorkerOK(w)'
  <2>1. WorkerOK(w) /\ tx[w].pc = "read"
    BY <1>1 DEF DeliveryInv, Load
  <2>2. Target(w)' = Target(w) /\ wk'[w] = wk[w]
    BY <1>1 DEF Target
  <2>3. QED
    BY <1>1, <1>4, <1>5, <2>1, <2>2 DEF WorkerOK, Flushed
<1>7. wk[w] \in Worker /\ wk' = [wk EXCEPT ![w] = wk[w]]
  BY <1>1 DEF DeliveryInv, TypeOK
<1>8. \A i \in Incidents : HoldsClaim(w, i)' => HoldsClaim(w, i)
  BY <1>1 DEF HoldsClaim, Target
<1>9. QED
  BY <1>1, <1>2, <1>5, <1>6, <1>7, <1>8, WorkerTxStep

(* The worker's UPDATE.                                                    *)
LEMMA WorkerFlushInv ==
  ASSUME DeliveryInv, NEW w \in Workers, WorkerFlush(w)
  PROVE  DeliveryInv'
<1>1. /\ wk[w].pc = "saving" /\ w \in Sessions /\ FlushUpdate(w) /\ tx[w].pc = "load"
      /\ UNCHANGED <<rows, queue, wk, claims, runs>>
  BY WorkerType DEF WorkerFlush, deliveryVars, FlushUpdate
<1>2. StoreInv'
  BY <1>1, FlushUpdateInv DEF DeliveryInv
<1> DEFINE q == [IdleTx EXCEPT !.pc = "flushed", !.id = tx[w].id, !.row = UpdatedRow(w)]
<1>3. q.pc = "flushed" /\ q.id = tx[w].id /\ q.row = UpdatedRow(w)
  BY DEF IdleTx
<1>4. tx' = [tx EXCEPT ![w] = q]
  BY <1>1 DEF FlushUpdate
<1>5. tx'[w] = q /\ \A v \in Workers \ {w} : tx'[v] = tx[v]
  BY <1>1, <1>4 DEF DeliveryInv, StoreInv, StoreTypeOK, Sessions
<1>6. WorkerOK(w)'
  <2>1. WorkerOK(w) /\ UpdatedRow(w).history = rows[tx[w].id].history \cup tx[w].steps
    BY <1>1, UpdatedRowFacts DEF DeliveryInv
  <2>2. UpdatedRow(w).history # {}
    BY <1>1, <2>1 DEF WorkerOK
  <2>3. Target(w)' = Target(w) /\ wk'[w] = wk[w]
    BY <1>1 DEF Target
  <2>4. QED
    BY <1>1, <1>3, <1>5, <2>1, <2>2, <2>3 DEF WorkerOK, Flushed
<1>7. wk[w] \in Worker /\ wk' = [wk EXCEPT ![w] = wk[w]]
  BY <1>1 DEF DeliveryInv, TypeOK
<1>8. \A i \in Incidents : HoldsClaim(w, i)' => HoldsClaim(w, i)
  BY <1>1 DEF HoldsClaim, Target
<1>9. QED
  BY <1>1, <1>2, <1>5, <1>6, <1>7, <1>8, WorkerTxStep

(* A failed handler or a dead process: everything uncommitted is gone.     *)
LEMMA FailureInv ==
  ASSUME DeliveryInv, NEW w \in Workers, HandlerFails(w) \/ Crash(w)
  PROVE  DeliveryInv'
<1>1. UNCHANGED <<rows, published, queue, claims, runs>> /\ tx' = [tx EXCEPT ![w] = IdleTx]
  BY DEF HandlerFails, Crash
<1>2. PICK r \in {Polling, Down} : wk' = [wk EXCEPT ![w] = r]
  BY DEF HandlerFails, Crash
<1>3. r \in Worker /\ r.pc \in {"poll", "down"} /\ wk'[w] = r
  BY <1>2, MessageFacts DEF DeliveryInv, TypeOK
<1>4. StoreInv'
  BY <1>1, WorkerType, ToIdleInv DEF DeliveryInv, StoreInv, StoreTypeOK, PublishedIsCommitted
<1>5. \A v \in Workers \ {w} : tx'[v] = tx[v]
  BY <1>1 DEF DeliveryInv, StoreInv, StoreTypeOK, Sessions
<1>6. WorkerOK(w)' /\ \A i \in Incidents : ~HoldsClaim(w, i)'
  BY <1>3 DEF WorkerOK, HoldsClaim
<1>7. QED
  BY <1>1, <1>2, <1>3, <1>4, <1>5, <1>6, WorkerTxStep

---------------------------------------------------------------------------
(* The commits, the only steps that change what is on record.              *)

(* Whoever holds a claim is the first to do anything for the incident.     *)
LEMMA FirstEffect ==
  ASSUME DeliveryInv, NEW w \in Workers, wk[w].pc \in {"saving", "noop"}
  PROVE  Target(w) \in Incidents /\ Target(w) \notin claims /\ runs[Target(w)] = 0
<1>1. wk[w].msg \in OpenedMessages /\ Target(w) \in Incidents
  BY WorkerType
<1>2. HoldsClaim(w, Target(w))
  BY <1>1 DEF HoldsClaim
<1>3. QED
  BY <1>1, <1>2 DEF DeliveryInv, ClaimsExclusive, RunsAreClaimed

(* A commit of a claim preserves DeliveryInv, whatever else it commits.    *)
LEMMA EffectStep ==
  ASSUME DeliveryInv, NEW w \in Workers, wk[w].pc \in {"saving", "noop"},
         StoreInv', HistoryKept, rows'[Target(w)].history # {},
         \A v \in Workers \ {w} : tx'[v] = tx[v],
         claims' = claims \cup {Target(w)},
         runs' \in [Incidents -> Nat],
         \A i \in Incidents \ {Target(w)} : runs'[i] = runs[i],
         runs'[Target(w)] <= 1,
         UNCHANGED queue,
         GoOnTo(w, "ack")
  PROVE  DeliveryInv'
<1> DEFINE i == Target(w)
<1>1. wk[w].msg \in OpenedMessages /\ i \in Incidents
  BY WorkerType
<1>2. PICK r \in Worker : /\ wk' = [wk EXCEPT ![w] = r]
                          /\ r.pc = "ack" /\ r.msg = wk[w].msg
                          /\ wk'[w] = r
  BY GoOnToFacts
<1>3. \A v \in Workers \ {w} : wk'[v] = wk[v]
  BY <1>2 DEF DeliveryInv, TypeOK
<1>4. TypeOK'
  BY <1>1, <1>2 DEF DeliveryInv, TypeOK, StoreInv
<1>5. WorkerOK(w)'
  BY <1>1, <1>2 DEF WorkerOK, Target
<1>6. \A v \in Workers : WorkerOK(v)'
  BY <1>3, <1>5, OthersKeep
<1>7. ClaimsExclusive'
  <2>1. \A v \in Workers, j \in Incidents : HoldsClaim(v, j)' => v # w /\ HoldsClaim(v, j)
    BY <1>2, <1>3 DEF HoldsClaim, Target
  <2>2. HoldsClaim(w, i)
    BY <1>1 DEF HoldsClaim
  <2>3. \A v \in Workers \ {w} : ~HoldsClaim(v, i)
    BY <1>1, <2>2 DEF DeliveryInv, ClaimsExclusive
  <2>4. QED
    BY <2>1, <2>3 DEF DeliveryInv, ClaimsExclusive
<1>8. RunsAreClaimed'
  BY <1>1 DEF DeliveryInv, RunsAreClaimed
<1>9. AckedIsDurable'
  BY DEF DeliveryInv, AckedIsDurable
<1>10. ClaimedHasLeftOpen'
  BY DEF DeliveryInv, TypeOK, ClaimedHasLeftOpen, HistoryKept
<1>11. QED
  BY <1>4, <1>6, <1>7, <1>8, <1>9, <1>10 DEF DeliveryInv

(* The commit of an investigation: claim, transition and run together.     *)
LEMMA CommitInvestigationInv ==
  ASSUME DeliveryInv, NEW w \in Workers, CommitInvestigation(w)
  PROVE  DeliveryInv'
<1> DEFINE i == Target(w)
<1>1. wk[w].pc = "saving" /\ Flushed(w) /\ w \in Sessions
  BY WorkerType DEF CommitInvestigation
<1>2. i \in Incidents /\ i \notin claims /\ runs[i] = 0
  BY <1>1, FirstEffect
<1>3. tx[w].id = i /\ tx[w].row.history # {}
  BY <1>1 DEF DeliveryInv, WorkerOK
<1>4. CommitRow(w) /\ tx' = [tx EXCEPT ![w] = IdleTx] /\ UNCHANGED <<published, queue>>
      /\ claims' = claims \cup {i} /\ runs' = [runs EXCEPT ![i] = @ + 1] /\ GoOnTo(w, "ack")
  BY DEF CommitInvestigation
<1>5. StoreInv' /\ HistoryKept
  BY <1>1, <1>4, IdleType, CommitStep DEF DeliveryInv, HistoryKept
<1>6. rows'[i].history # {}
  BY <1>2, <1>3, <1>4 DEF CommitRow, DeliveryInv, StoreInv, StoreTypeOK
<1>7. \A v \in Workers \ {w} : tx'[v] = tx[v]
  BY <1>4 DEF DeliveryInv, StoreInv, StoreTypeOK, Sessions
<1>8. runs' \in [Incidents -> Nat] /\ runs'[i] = 1 /\ \A j \in Incidents \ {i} : runs'[j] = runs[j]
  BY <1>2, <1>4 DEF DeliveryInv, TypeOK
<1>9. QED
  BY <1>1, <1>4, <1>5, <1>6, <1>7, <1>8, EffectStep

(* The commit of a claim alone.                                            *)
LEMMA CommitNoopInv ==
  ASSUME DeliveryInv, NEW w \in Workers, CommitNoop(w)
  PROVE  DeliveryInv'
<1> DEFINE i == Target(w)
<1>1. wk[w].pc = "noop"
  BY DEF CommitNoop
<1>2. i \in Incidents /\ i \notin claims /\ runs[i] = 0
  BY <1>1, FirstEffect
<1>3. UNCHANGED <<rows, tx, published, queue, runs>> /\ claims' = claims \cup {i}
      /\ GoOnTo(w, "ack")
  BY DEF CommitNoop
<1>4. StoreInv' /\ HistoryKept
  BY <1>3, StoreStutter DEF DeliveryInv, storeVars, HistoryKept
<1>5. rows'[i].history # {}
  BY <1>1, <1>3 DEF DeliveryInv, WorkerOK
<1>6. runs' \in [Incidents -> Nat] /\ runs'[i] <= 1 /\ \A j \in Incidents \ {i} : runs'[j] = runs[j]
  BY <1>2, <1>3 DEF DeliveryInv, TypeOK
<1>7. QED
  BY <1>1, <1>3, <1>4, <1>5, <1>6, EffectStep

---------------------------------------------------------------------------
(* Every step preserves DeliveryInv.                                       *)
LEMMA DeliveryNextInv == DeliveryInv /\ [Next]_vars => DeliveryInv'
<1> SUFFICES ASSUME DeliveryInv, [Next]_vars PROVE DeliveryInv'
  OBVIOUS
<1>1. CASE UNCHANGED vars
  <2>1. StoreInv' /\ HistoryKept
    BY <1>1, StoreStutter DEF DeliveryInv, vars, storeVars, HistoryKept
  <2>2. \A w \in Workers : WorkerOK(w)'
    BY <1>1, <2>1, OthersKeep DEF vars
  <2>3. QED
    BY <1>1, <2>1, <2>2, LeftOpenKeeps
       DEF vars, DeliveryInv, TypeOK, StoreInv, ClaimsExclusive, HoldsClaim, Target,
           RunsAreClaimed, AckedIsDurable
<1>2. ASSUME NEW s \in ApiSessions, ApiStep(s) PROVE DeliveryInv'
  BY <1>2, ApiInv
<1>3. ASSUME NEW m \in Messages, QueueStep(m) PROVE DeliveryInv'
  BY <1>3, QueueInv
<1>4. ASSUME NEW w \in Workers, WorkerStep(w) PROVE DeliveryInv'
  BY <1>4, ReceiveInv, ClaimInv, WorkerFlushInv, StartInvestigationInv, AlreadyPastOpenInv,
     WorkerLoadInv, CommitInvestigationInv, CommitNoopInv, AckInv, FailureInv, RestartInv
     DEF WorkerStep, HandlerStep
<1>5. QED
  BY <1>1, <1>2, <1>3, <1>4 DEF Next

(* The inductive invariant of the whole delivery path.                     *)
THEOREM DeliveryInvariance == Spec => []DeliveryInv
BY DeliveryInitInv, DeliveryNextInv, PTL DEF Spec

(* Every variable of the delivery path keeps its type.                     *)
THEOREM DeliveryTypeCorrect == Spec => []TypeOK
<1>1. DeliveryInv => TypeOK
  BY DEF DeliveryInv
<1>2. QED
  BY <1>1, DeliveryInvariance, PTL

(* Any number of deliveries to any number of workers, with crashes,        *)
(* failures and visibility timeouts, leaves at most one investigation of   *)
(* an incident on record (record_once and one commit in _handle_opened).   *)
THEOREM AtMostOneInvestigation == Spec => []OneInvestigation
<1>1. DeliveryInv => OneInvestigation
  BY DEF DeliveryInv, RunsAreClaimed, OneInvestigation
<1>2. QED
  BY <1>1, DeliveryInvariance, PTL

(* poll_once deletes no message whose event has not taken effect.          *)
THEOREM AckFollowsCommit == Spec => []AckedIsDurable
<1>1. DeliveryInv => AckedIsDurable
  BY DEF DeliveryInv
<1>2. QED
  BY <1>1, DeliveryInvariance, PTL

(* A consumed event has moved its incident out of open: execute's claim    *)
(* and its transition are never torn apart.                                *)
THEOREM ClaimImpliesTransition == Spec => []ClaimedHasLeftOpen
<1>1. DeliveryInv => ClaimedHasLeftOpen
  BY DEF DeliveryInv
<1>2. QED
  BY <1>1, DeliveryInvariance, PTL

(* The worker implements the once-only consumer: its commits are the       *)
(* abstract steps and everything else stutters.                            *)
THEOREM WorkerImplementsOnceOnly == Spec => RefinesOnceOnly
<1>1. Init => Abstract!Init
  BY DEF Init, Abstract!Init
<1>2. DeliveryInv /\ [Next]_vars => [Abstract!Next]_(Abstract!vars)
  <2> SUFFICES ASSUME DeliveryInv, [Next]_vars PROVE [Abstract!Next]_(Abstract!vars)
    OBVIOUS
  <2>1. ASSUME NEW w \in Workers, CommitInvestigation(w) PROVE Abstract!Next
    <3>1. Target(w) \in Incidents /\ Target(w) \notin claims /\ runs[Target(w)] = 0
      BY <2>1, FirstEffect DEF CommitInvestigation
    <3>2. claims' = claims \cup {Target(w)} /\ runs' = [runs EXCEPT ![Target(w)] = 1]
      BY <2>1, <3>1 DEF CommitInvestigation
    <3>3. QED
      BY <3>1, <3>2 DEF Abstract!Next, Abstract!Investigate
  <2>2. ASSUME NEW w \in Workers, CommitNoop(w) PROVE Abstract!Next
    <3>1. Target(w) \in Incidents /\ Target(w) \notin claims
      BY <2>2, FirstEffect DEF CommitNoop
    <3>2. claims' = claims \cup {Target(w)} /\ UNCHANGED runs
      BY <2>2 DEF CommitNoop
    <3>3. QED
      BY <3>1, <3>2 DEF Abstract!Next, Abstract!Skip
  <2>3. ASSUME NEW s \in ApiSessions, ApiStep(s) PROVE UNCHANGED <<claims, runs>>
    BY <2>3 DEF ApiStep, deliveryVars
  <2>4. ASSUME NEW m \in Messages, QueueStep(m) PROVE UNCHANGED <<claims, runs>>
    BY <2>4 DEF QueueStep, Deliver, PoisonArrives, VisibilityTimeout, Redrive
  <2>5. ASSUME NEW w \in Workers, WorkerStep(w), ~CommitInvestigation(w), ~CommitNoop(w)
        PROVE  UNCHANGED <<claims, runs>>
    BY <2>5 DEF WorkerStep, HandlerStep, Receive, Claim, StartInvestigation, AlreadyPastOpen,
                WorkerLoad, WorkerFlush, Ack, HandlerFails, Crash, Restart, deliveryVars
  <2>6. CASE UNCHANGED vars
    BY <2>6 DEF vars, Abstract!vars
  <2>7. QED
    BY <2>1, <2>2, <2>3, <2>4, <2>5, <2>6 DEF Next, Abstract!vars
<1>3. QED
  BY <1>1, <1>2, DeliveryInvariance, PTL DEF Spec, RefinesOnceOnly, Abstract!Spec

---------------------------------------------------------------------------
(* The incidents table does not tell a worker from a request: seen through *)
(* its rows, its transactions and its events, the delivery path is a       *)
(* behaviour of IncidentStore in which every session is a request session  *)
(* and clients may also ask for investigating.                             *)
Table == INSTANCE IncidentStore WITH ApiSessions <- Sessions, Workers <- {},
           Targets <- Targets \cup {INVESTIGATING}

(* The table of any session is this table.                                 *)
LEMMA SameConstants ==
  /\ Table!Sessions = Sessions
  /\ Table!OPEN = OPEN /\ Table!ABSENT = ABSENT /\ Table!IdleTx = IdleTx /\ Table!Absent = Absent
  /\ Table!ALLOWED_TRANSITIONS = ALLOWED_TRANSITIONS
  /\ Table!storeVars = storeVars
BY DEF Table!Sessions, Table!OPEN, OPEN, Table!ABSENT, ABSENT, Table!IdleTx, IdleTx, Table!Absent, Absent,
       Table!ALLOWED_TRANSITIONS, ALLOWED_TRANSITIONS, Table!storeVars, storeVars,
       Table!INVESTIGATING, INVESTIGATING, Table!IDENTIFIED, IDENTIFIED, Table!REMEDIATING, REMEDIATING,
       Table!RESOLVED, RESOLVED, Table!CLOSED, CLOSED

(* Its guards are the guards of this table.                                *)
LEMMA SameGuards ==
  /\ \A row, f : Table!Indexed(row, f) <=> Indexed(row, f)
  /\ \A i : Table!Exists(i) <=> Exists(i)
  /\ \A s : Table!Flushed(s) <=> Flushed(s)
  /\ \A s, i : Table!RowLocked(s, i) <=> RowLocked(s, i)
  /\ \A i, f : Table!KeyTaken(i, f) <=> KeyTaken(i, f)
  /\ \A s, i, f : Table!KeyPending(s, i, f) <=> KeyPending(s, i, f)
  /\ \A i : Table!Fresh(i) <=> Fresh(i)
  /\ \A a, b : Table!can_transition(a, b) <=> can_transition(a, b)
<1>1. \A row, f : Table!Indexed(row, f) <=> Indexed(row, f)
  BY SameConstants DEF Table!Indexed, Indexed
<1>2. \A i : Table!Exists(i) <=> Exists(i)
  BY SameConstants DEF Table!Exists, Exists
<1>3. \A s : Table!Flushed(s) <=> Flushed(s)
  BY DEF Table!Flushed, Flushed
<1>4. \A s, i : Table!RowLocked(s, i) <=> RowLocked(s, i)
  BY <1>3, SameConstants DEF Table!RowLocked, RowLocked
<1>5. \A i, f : Table!KeyTaken(i, f) <=> KeyTaken(i, f)
  BY <1>1 DEF Table!KeyTaken, KeyTaken
<1>6. \A s, i, f : Table!KeyPending(s, i, f) <=> KeyPending(s, i, f)
  BY <1>1, <1>3, SameConstants DEF Table!KeyPending, KeyPending
<1>7. \A i : Table!Fresh(i) <=> Fresh(i)
  BY <1>2, SameConstants DEF Table!Fresh, Fresh
<1>8. \A a, b : Table!can_transition(a, b) <=> can_transition(a, b)
  BY SameConstants DEF Table!can_transition, can_transition
<1> QED
  BY <1>1, <1>2, <1>3, <1>4, <1>5, <1>6, <1>7, <1>8

(* Its steps are the steps of this table.                                  *)
LEMMA SameSteps ==
  ASSUME NEW s
  PROVE  /\ Load(s) => Table!Load(s)
         /\ FlushUpdate(s) => Table!FlushUpdate(s)
         /\ Rollback(s) => Table!Rollback(s)
         /\ Commit(s) => Table!Commit(s)
         /\ LoseOpened(s) => Table!LoseOpened(s)
         /\ PublishOpened(s) => Table!PublishOpened(s)
         /\ \A i, f : FlushInsert(s, i, f) => Table!FlushInsert(s, i, f)
         /\ \A i, target : ReadForTransition(s, i, target) => Table!ReadForTransition(s, i, target)
<1> USE SameConstants, SameGuards
<1>1. Load(s) => Table!Load(s)
  BY DEF Load, Table!Load
<1>2. FlushUpdate(s) => Table!FlushUpdate(s)
  BY DEF FlushUpdate, Table!FlushUpdate, UpdatedRow, Table!UpdatedRow
<1>3. Rollback(s) => Table!Rollback(s)
  BY DEF Rollback, Table!Rollback
<1>4. Commit(s) => Table!Commit(s)
  BY DEF Commit, Table!Commit, CommitRow, Table!CommitRow
<1>5. LoseOpened(s) => Table!LoseOpened(s)
  BY DEF LoseOpened, Table!LoseOpened
<1>6. PublishOpened(s) => Table!PublishOpened(s)
  BY DEF PublishOpened, Table!PublishOpened
<1>7. \A i, f : FlushInsert(s, i, f) => Table!FlushInsert(s, i, f)
  BY DEF FlushInsert, Table!FlushInsert
<1>8. \A i, target : ReadForTransition(s, i, target) => Table!ReadForTransition(s, i, target)
  BY DEF ReadForTransition, Table!ReadForTransition
<1> QED
  BY <1>1, <1>2, <1>3, <1>4, <1>5, <1>6, <1>7, <1>8

---------------------------------------------------------------------------
(* Outside save, a worker has no open transaction of its own, and it never *)
(* creates an incident.                                                    *)
WorkerTx ==
  \A w \in Workers : ~tx[w].created /\ (wk[w].pc # "saving" => tx[w] = IdleTx)

(* Nobody has a transaction at the start.                                  *)
LEMMA WorkerTxInit == Init => WorkerTx
<1> SUFFICES ASSUME Init PROVE WorkerTx
  OBVIOUS
<1>1. \A w \in Workers : tx[w] = IdleTx
  BY DEF Init, StoreInit, Sessions
<1>2. ~IdleTx.created
  BY DEF IdleTx
<1>3. QED
  BY <1>1, <1>2 DEF WorkerTx

(* A step of one worker.                                                   *)
LEMMA OneWorkerTx ==
  ASSUME WorkerTx, NEW w \in Workers,
         \A v \in Workers \ {w} : tx'[v] = tx[v] /\ wk'[v] = wk[v],
         ~tx'[w].created, wk'[w].pc # "saving" => tx'[w] = IdleTx
  PROVE  WorkerTx'
BY DEF WorkerTx

(* Every step keeps WorkerTx.                                              *)
LEMMA WorkerTxNext ==
  ASSUME DeliveryInv, WorkerTx, [Next]_vars
  PROVE  WorkerTx'
<1> USE DEF DeliveryInv, TypeOK, StoreInv, StoreTypeOK
<1>0. ~IdleTx.created
  BY DEF IdleTx
<1>1. ASSUME NEW s \in ApiSessions, ApiStep(s) PROVE WorkerTx'
  <2>1. \A v \in Workers : v \in Sessions \ {s}
    BY SessionsAssumption DEF Sessions
  <2>2. \A v \in Workers : tx'[v] = tx[v]
    BY <1>1, <2>1, RequestFrame DEF ApiStep
  <2>3. QED
    BY <1>1, <2>2 DEF ApiStep, deliveryVars, WorkerTx
<1>2. ASSUME NEW m \in Messages, QueueStep(m) PROVE WorkerTx'
  BY <1>2 DEF QueueStep, Deliver, PoisonArrives, VisibilityTimeout, Redrive, WorkerTx
<1>3. ASSUME NEW w \in Workers, WorkerStep(w) PROVE WorkerTx'
  <2>0. w \in Sessions /\ Workers \subseteq Sessions
    BY DEF Sessions
  <2>1. CASE \E m \in Messages : Receive(w, m)
    BY <2>1, OneWorkerTx DEF Receive, WorkerTx
  <2>2. CASE Claim(w)
    BY <2>2, OneWorkerTx DEF Claim, GoOnTo, WorkerTx
  <2>3. CASE StartInvestigation(w)
    <3>1. \A v \in Workers \ {w} : tx'[v] = tx[v] /\ wk'[v] = wk[v]
      BY <2>3, <2>0 DEF StartInvestigation, ReadForTransition, GoOnTo
    <3>2. ~tx'[w].created /\ wk'[w].pc = "saving"
      BY <2>3, <2>0 DEF StartInvestigation, ReadForTransition, GoOnTo, IdleTx
    <3>3. QED
      BY <3>1, <3>2, OneWorkerTx
  <2>4. CASE AlreadyPastOpen(w)
    BY <2>4, OneWorkerTx DEF AlreadyPastOpen, GoOnTo, WorkerTx
  <2>5. CASE WorkerLoad(w)
    <3>1. PICK b : tx' = [tx EXCEPT ![w] = [IdleTx EXCEPT !.pc    = "load",
                                                          !.id    = tx[w].id,
                                                          !.state = tx[w].state,
                                                          !.steps = tx[w].steps,
                                                          !.base  = b]]
      BY <2>5 DEF WorkerLoad, Load
    <3>2. ~tx'[w].created /\ \A v \in Workers \ {w} : tx'[v] = tx[v]
      BY <2>0, <3>1 DEF IdleTx
    <3>3. wk[w].pc = "saving" /\ wk' = wk
      BY <2>5 DEF WorkerLoad, deliveryVars
    <3>4. QED
      BY <3>2, <3>3, OneWorkerTx
  <2>6. CASE WorkerFlush(w)
    BY <2>6, <2>0, OneWorkerTx DEF WorkerFlush, FlushUpdate, deliveryVars, IdleTx
  <2>7. CASE CommitInvestigation(w)
    BY <2>7, <2>0, <1>0, OneWorkerTx DEF CommitInvestigation, GoOnTo
  <2>8. CASE CommitNoop(w)
    BY <2>8, OneWorkerTx DEF CommitNoop, GoOnTo, WorkerTx
  <2>9. CASE Ack(w)
    BY <2>9, OneWorkerTx DEF Ack, WorkerTx
  <2>10. CASE HandlerFails(w)
    BY <2>10, <2>0, <1>0, OneWorkerTx DEF HandlerFails
  <2>11. CASE Crash(w)
    BY <2>11, <2>0, <1>0, OneWorkerTx DEF Crash
  <2>12. CASE Restart(w)
    BY <2>12, OneWorkerTx DEF Restart, WorkerTx
  <2>13. QED
    BY <1>3, <2>1, <2>2, <2>3, <2>4, <2>5, <2>6, <2>7, <2>8, <2>9, <2>10, <2>11, <2>12
       DEF WorkerStep, HandlerStep
<1>4. CASE UNCHANGED vars
  BY <1>4 DEF vars, WorkerTx
<1>5. QED
  BY <1>1, <1>2, <1>3, <1>4 DEF Next

---------------------------------------------------------------------------
(* A request is a request of the table.                                    *)
LEMMA SessionSteps ==
  ASSUME NEW s \in Sessions, RequestStep(s) \/ PublishOpened(s)
  PROVE  Table!RequestStep(s) \/ Table!PublishOpened(s)
<1> USE SameConstants, SameGuards, SameSteps
<1>1. CASE \E i \in Incidents : PostIncident(s, i)
  BY <1>1 DEF PostIncident, Table!PostIncident, Table!RequestStep
<1>2. CASE \E i \in Incidents, f \in Fingerprints : IngestFound(s, i, f)
  BY <1>2 DEF IngestFound, Table!IngestFound, Table!RequestStep
<1>3. CASE \E f \in Fingerprints : IngestNotFound(s, f)
  BY <1>3 DEF IngestNotFound, Table!IngestNotFound, Table!RequestStep
<1>4. CASE \E i \in Incidents : IngestInsert(s, i)
  BY <1>4 DEF IngestInsert, Table!IngestInsert, Table!RequestStep
<1>5. CASE \E i \in Incidents, target \in Targets : PatchState(s, i, target)
  BY <1>5 DEF PatchState, Table!PatchState, Table!RequestStep
<1>6. CASE Load(s) \/ FlushUpdate(s) \/ Commit(s) \/ Rollback(s) \/ LoseOpened(s)
  BY <1>6 DEF Table!RequestStep
<1>7. CASE PublishOpened(s)
  BY <1>7
<1>8. QED
  BY <1>1, <1>2, <1>3, <1>4, <1>5, <1>6, <1>7 DEF RequestStep

(* Every step is a step of the table's sessions, or stutters: starting an  *)
(* investigation is a PATCH to investigating, a failure or a crash is a    *)
(* rollback, and the bus and the queue leave the table alone.              *)
LEMMA DeliveryStepOnTable ==
  ASSUME DeliveryInv, WorkerTx, [Next]_vars
  PROVE  [Table!StoreNext]_(Table!storeVars)
<1> USE SameConstants
<1>0. tx \in [Sessions -> Tx]
  BY DEF DeliveryInv, StoreInv, StoreTypeOK
<1>1. ASSUME NEW s \in ApiSessions, ApiStep(s) PROVE Table!StoreNext
  <2>1. s \in Sessions
    BY DEF Sessions
  <2>2. QED
    BY <1>1, <2>1, SessionSteps DEF ApiStep, Table!StoreNext
<1>2. ASSUME NEW m \in Messages, QueueStep(m) PROVE UNCHANGED storeVars
  BY <1>2 DEF QueueStep, Deliver, PoisonArrives, VisibilityTimeout, Redrive, storeVars
<1>3. ASSUME NEW w \in Workers, WorkerStep(w) PROVE Table!StoreNext \/ UNCHANGED storeVars
  <2>1. w \in Sessions /\ IdleTx.pc = "idle"
    BY DEF Sessions, IdleTx
  <2>2. CASE \E m \in Messages : Receive(w, m)
    BY <2>2 DEF Receive, storeVars
  <2>3. CASE Claim(w) \/ AlreadyPastOpen(w) \/ CommitNoop(w) \/ Ack(w) \/ Restart(w)
    BY <2>3 DEF Claim, AlreadyPastOpen, CommitNoop, Ack, Restart, storeVars
  <2>4. CASE StartInvestigation(w)
    <3>1. tx[w].pc = "idle" /\ Target(w) \in Incidents
      BY <2>1, <2>4, WorkerType DEF StartInvestigation, WorkerTx
    <3>2. Table!PatchState(w, Target(w), INVESTIGATING)
      BY <2>4, <3>1, SameSteps DEF StartInvestigation, Table!PatchState
    <3>3. QED
      BY <2>1, <3>1, <3>2 DEF Table!StoreNext, Table!RequestStep
  <2>5. CASE WorkerLoad(w) \/ WorkerFlush(w)
    BY <2>1, <2>5, SameSteps DEF WorkerLoad, WorkerFlush, Table!StoreNext, Table!RequestStep
  <2>6. CASE CommitInvestigation(w)
    <3>1. Commit(w)
      BY <2>6 DEF CommitInvestigation, Commit, WorkerTx
    <3>2. QED
      BY <2>1, <3>1, SameSteps DEF Table!StoreNext, Table!RequestStep
  <2>7. CASE HandlerFails(w) \/ Crash(w)
    <3>1. UNCHANGED <<rows, published>> /\ tx' = [tx EXCEPT ![w] = IdleTx]
      BY <2>7 DEF HandlerFails, Crash
    <3>2. CASE wk[w].pc = "saving"
      <4>1. Rollback(w)
        BY <3>1, <3>2 DEF Rollback, DeliveryInv, WorkerOK
      <4>2. QED
        BY <2>1, <4>1, SameSteps DEF Table!StoreNext, Table!RequestStep
    <3>3. CASE wk[w].pc # "saving"
      <4>1. tx' = tx
        BY <1>0, <3>1, <3>3 DEF WorkerTx
      <4>2. QED
        BY <3>1, <4>1 DEF storeVars
    <3>4. QED
      BY <3>2, <3>3
  <2>8. QED
    BY <1>3, <2>2, <2>3, <2>4, <2>5, <2>6, <2>7 DEF WorkerStep, HandlerStep
<1>4. CASE UNCHANGED vars
  BY <1>4 DEF vars, Table!storeVars
<1>5. QED
  BY <1>1, <1>2, <1>3, <1>4 DEF Next, storeVars, Table!storeVars

(* Refinement: what the worker (ConsumeOpenedIncident, its commit, its     *)
(* failures and crashes) does to the incidents table is what a request     *)
(* session of get_db that PATCHes to investigating may do.  Whatever is    *)
(* proved of IncidentStore for all request sessions and targets therefore  *)
(* holds with any number of workers among them.                            *)
THEOREM WorkersAreSessions == Spec => Table!StoreSpec
<1>1. Init => DeliveryInv /\ WorkerTx /\ Table!StoreInit
  BY DeliveryInitInv, WorkerTxInit, SameConstants DEF Init, StoreInit, Table!StoreInit
<1>2. DeliveryInv /\ [Next]_vars => DeliveryInv'
  BY DeliveryNextInv
<1>3. DeliveryInv /\ WorkerTx /\ [Next]_vars => WorkerTx'
  BY WorkerTxNext
<1>4. DeliveryInv /\ WorkerTx /\ [Next]_vars => [Table!StoreNext]_(Table!storeVars)
  BY DeliveryStepOnTable
<1>5. QED
  BY <1>1, <1>2, <1>3, <1>4, PTL DEF Spec, Table!StoreSpec

(* A commit adds to a row's history.                                       *)
LEMMA CommitKeepsHistory ==
  ASSUME StoreInv, NEW s \in Sessions, Flushed(s), CommitRow(s)
  PROVE  HistoryKept
<1>1. tx[s].id \in Incidents /\ rows[tx[s].id].history \subseteq tx[s].row.history
  BY DEF StoreInv, StoreTypeOK, Tx, FlushedRow
<1>2. \A i \in Incidents : rows'[i] = IF i = tx[s].id THEN tx[s].row ELSE rows[i]
  BY <1>1 DEF CommitRow, StoreInv, StoreTypeOK
<1>3. QED
  BY <1>1, <1>2 DEF HistoryKept

(* With the workers among the sessions, too, no save removes a history     *)
(* entry that is committed: apply_to_orm only inserts.                     *)
THEOREM WorkersKeepHistory == Spec => HistoryGrows
<1>1. DeliveryInv /\ [Next]_vars => [HistoryKept]_storeVars
  <2> SUFFICES ASSUME DeliveryInv, [Next]_vars PROVE HistoryKept
    OBVIOUS
  <2>1. CASE rows' = rows
    BY <2>1 DEF HistoryKept
  <2>2. ASSUME NEW s \in Sessions, Flushed(s), CommitRow(s) PROVE HistoryKept
    BY <2>2, CommitKeepsHistory DEF DeliveryInv
  <2>3. ASSUME NEW s \in ApiSessions, ApiStep(s)
        PROVE  rows' = rows \/ (Flushed(s) /\ CommitRow(s))
    BY <2>3 DEF ApiStep, RequestStep, PublishOpened, PostIncident, IngestFound, IngestNotFound,
                IngestInsert, FlushInsert, PatchState, Load, FlushUpdate, Commit, Rollback, LoseOpened
  <2>4. ASSUME NEW w \in Workers, WorkerStep(w)
        PROVE  rows' = rows \/ (Flushed(w) /\ CommitRow(w))
    BY <2>4 DEF WorkerStep, HandlerStep, Receive, Claim, StartInvestigation, AlreadyPastOpen,
                WorkerLoad, Load, WorkerFlush, FlushUpdate, CommitInvestigation, CommitNoop, Ack,
                HandlerFails, Crash, Restart
  <2>5. ASSUME NEW m \in Messages, QueueStep(m) PROVE rows' = rows
    BY <2>5 DEF QueueStep, Deliver, PoisonArrives, VisibilityTimeout, Redrive
  <2>6. rows' = rows \/ \E s \in Sessions : Flushed(s) /\ CommitRow(s)
    BY <2>3, <2>4, <2>5 DEF Next, vars, Sessions
  <2>7. QED
    BY <2>1, <2>2, <2>6
<1>2. QED
  BY <1>1, DeliveryInvariance, PTL DEF Spec, HistoryGrows, HistoryKept

(* What the requests of get_db guarantee of the incidents table survives   *)
(* the workers' transactions: one open incident per fingerprint, no event  *)
(* before its commit, no state without the step that led to it.            *)
THEOREM WorkersKeepTheTable ==
  Spec => [](UniqueOpenFingerprint /\ PublishedIsCommitted /\ StateIsRecorded)
<1>1. DeliveryInv => UniqueOpenFingerprint /\ PublishedIsCommitted /\ StateIsRecorded
  BY DEF DeliveryInv, StoreInv, StateIsRecorded, Recorded
<1>2. QED
  BY <1>1, DeliveryInvariance, PTL

===========================================================================
