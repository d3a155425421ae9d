-------------------- MODULE InvestigationRunner_proofs --------------------
(***************************************************************************)
(* Proofs about one worker's runner, for any incidents, any scenarios and  *)
(* any number of attempts.                                                 *)
(*                                                                         *)
(* EvidenceIsAudited is not inductive: it says nothing of the rows that    *)
(* are still in a buffer or in the open transaction.  RunnerInv follows an *)
(* evidence item from the buffer to the table and says at each stage where *)
(* its audit entry is.  Its type part needs to know that the commander is  *)
(* never entered with the hop count at its cap.                            *)
(*                                                                         *)
(* NoPingPong is about decisions that were made: CourseInv says that the   *)
(* commander is entered again only when every collector it needs has       *)
(* contributed or failed.  PendingReviewHasRca and OutcomeIsNotified are   *)
(* about committed rows; OutcomeInv follows the report and the reason from *)
(* the thread through the buffers to the transaction.                      *)
(***************************************************************************)
EXTENDS InvestigationRunner, TLAPS

(* The commander's next hop is within the cap.                             *)
HopsLeft == run.pc \in {"commander", "specialists"} => threads[run.id].hops <= MAX_HOPS

(* Where the audit entries of recorded evidence are.                       *)
Draining == {"persist_audit"}
Drained  == {"persist_rca", "persist_progress", "commit"}

BufferedIsAudited == buffers.recorded \subseteq buffers.audit

PendingIsAudited ==
  /\ run.pc \in Draining => run.evidence \subseteq buffers.audit /\ buffers.recorded = {}
  /\ run.pc \in Drained => run.evidence \subseteq run.audit

RunnerInv ==
  /\ RunnerTypeOK
  /\ HopsLeft
  /\ BufferedIsAudited
  /\ PendingIsAudited
  /\ EvidenceIsAudited

---------------------------------------------------------------------------
(* The commander's decision is one of NextAction, with a reason or none.   *)
LEMMA DecisionType ==
  ASSUME NEW sc, NEW hops \in Nat, NEW evidence, NEW late, NEW failed
  PROVE  /\ next_action(sc, hops, evidence, late, failed).next \in NextAction
         /\ next_action(sc, hops, evidence, late, failed).reason \in EscalateReason \cup {""}
<1> DEFINE specialist == first_specialist(sc)
<1>1. specialist \in NextAction
  BY DEF first_specialist, NextAction, Collectors, ESCALATE, FANOUT, CODE, OBSERVABILITY,
         KNOWLEDGE, OBS_FIRST
<1>2. fanout_or_remaining(evidence) \in NextAction
  BY DEF fanout_or_remaining, NextAction, Collectors, SYNTHESIZE, FANOUT, KNOWLEDGE,
         OBSERVABILITY, CODE
<1> HIDE DEF specialist
<1> QED
  BY <1>1, <1>2 DEF next_action, PlanDecision, NextAction, ESCALATE, SYNTHESIZE, FANOUT,
         EscalateReason, specialist

---------------------------------------------------------------------------
(* Idle, NoReport and the other initial values have their types.           *)
LEMMA InitialTypes ==
  /\ NoReport \in Report
  /\ NoThread \in Thread
  /\ NoProgress \in Progress
  /\ Idle \in Run
  /\ NoBuffers \in Buffers
<1>1. NoReport \in Report
  BY IncidentsAssumption DEF NoReport, Report
<1>2. NoThread \in Thread
  BY <1>1 DEF NoThread, Thread, Status, MAX_HOPS
<1>3. NoProgress \in Progress
  BY DEF NoProgress, Progress, Status
<1>4. NoReport.inc \in Incidents
  BY <1>1 DEF Report
<1>5. Idle \in Run
  BY <1>3, <1>4 DEF Idle, Run
<1>6. NoBuffers \in Buffers
  BY <1>3 DEF NoBuffers, Buffers
<1> QED
  BY <1>1, <1>2, <1>3, <1>5, <1>6

(* RunnerInv holds in the initial states.                                  *)
LEMMA RunnerInvInit == Init => RunnerInv
<1> SUFFICES ASSUME Init PROVE RunnerInv
  OBVIOUS
<1>1. RunnerTypeOK
  <2>1. attempts \in [Incidents -> 0 .. MaxAttempts]
    BY AttemptsAssumption DEF Init
  <2>2. db \in Db
    BY InitialTypes DEF Init, Db
  <2> QED
    BY <2>1, <2>2, InitialTypes DEF Init, RunnerTypeOK
<1>2. HopsLeft /\ BufferedIsAudited /\ PendingIsAudited /\ EvidenceIsAudited
  BY DEF Init, HopsLeft, BufferedIsAudited, PendingIsAudited, EvidenceIsAudited, Idle, NoBuffers,
         Draining, Drained
<1> QED
  BY <1>1, <1>2 DEF RunnerInv

---------------------------------------------------------------------------
(* The steps that leave the graph's thread alone or start a new attempt.   *)

(* Start preserves RunnerInv: a new attempt has no evidence of its own.    *)
LEMMA StartPreserves ==
  ASSUME RunnerInv, NEW i \in Incidents, Start(i)
  PROVE  RunnerInv'
<1> USE DEF RunnerInv, RunnerTypeOK
<1>1. attempts' \in [Incidents -> 0 .. MaxAttempts]
  BY AttemptsAssumption DEF Start
<1>2. run' \in Run /\ run'.pc = "commander" /\ run'.id = i /\ run'.evidence = {}
  BY InitialTypes DEF Start, Run, Idle
<1>3. threads' \in [Incidents -> Thread] /\ threads'[i].hops = 0
  <2>1. 0 \in 0 .. MAX_HOPS + 1
    BY DEF MAX_HOPS
  <2>2. "running" \in Status
    BY DEF Status
  <2> QED
    BY <2>1, <2>2, ZenonT(60) DEF Start, Thread
<1>4. HopsLeft'
  BY <1>2, <1>3 DEF HopsLeft, MAX_HOPS
<1>5. PendingIsAudited'
  BY <1>2 DEF PendingIsAudited, Draining, Drained
<1> QED
  BY <1>1, <1>2, <1>3, <1>4, <1>5 DEF Start, BufferedIsAudited, EvidenceIsAudited

(* TimePasses only sets late.                                              *)
LEMMA TimePassesPreserves ==
  ASSUME RunnerInv, NEW i \in Incidents, TimePasses(i)
  PROVE  RunnerInv'
<1> USE DEF RunnerInv, RunnerTypeOK
<1>1. threads' \in [Incidents -> Thread]
  BY DEF TimePasses, Thread
<1>2. \A j \in Incidents : threads'[j].hops = threads[j].hops
  BY DEF TimePasses, Thread
<1>3. run.id \in Incidents
  BY DEF Run
<1> QED
  BY <1>1, <1>2, <1>3 DEF TimePasses, HopsLeft, BufferedIsAudited, PendingIsAudited, EvidenceIsAudited

(* An attempt that fails drops its transaction and keeps the buffers.      *)
LEMMA AttemptFailsPreserves == RunnerInv /\ AttemptFails => RunnerInv'
  BY InitialTypes
  DEF RunnerInv, RunnerTypeOK, AttemptFails, HopsLeft, BufferedIsAudited, PendingIsAudited,
      EvidenceIsAudited, Idle, Draining, Drained

(* A crash empties the process.                                            *)
LEMMA CrashPreserves == RunnerInv /\ Crash => RunnerInv'
<1> SUFFICES ASSUME RunnerInv, Crash PROVE RunnerInv'
  OBVIOUS
<1>1. RunnerTypeOK'
  BY InitialTypes DEF RunnerInv, RunnerTypeOK, Crash
<1>2. run'.pc = "idle" /\ buffers'.recorded = {}
  BY DEF Crash, Idle, NoBuffers
<1> QED
  BY <1>1, <1>2 DEF RunnerInv, Crash, HopsLeft, BufferedIsAudited, PendingIsAudited,
      EvidenceIsAudited, Draining, Drained

---------------------------------------------------------------------------
(* The persists and the commit, which move the evidence and the audit      *)
(* entries from the buffers to the table.                                  *)
LEMMA PersistPreserves ==
  ASSUME RunnerInv, PersistEvidence \/ PersistAudit \/ PersistRca \/ PersistProgress \/ Commit
  PROVE  RunnerInv'
<1> USE DEF RunnerInv, RunnerTypeOK, HopsLeft, BufferedIsAudited, PendingIsAudited,
            EvidenceIsAudited, Draining, Drained
<1>1. CASE PersistEvidence
  <2>1. run' \in Run /\ run'.pc = "persist_audit" /\ run'.evidence = buffers.recorded
    BY <1>1 DEF PersistEvidence, Run, Buffers
  <2>2. buffers' \in Buffers /\ buffers'.recorded = {} /\ buffers'.audit = buffers.audit
    BY <1>1 DEF PersistEvidence, Buffers
  <2> QED
    BY <1>1, <2>1, <2>2 DEF PersistEvidence
<1>2. CASE PersistAudit
  <2>1. /\ run' \in Run /\ run'.pc = "persist_rca"
        /\ run'.evidence = run.evidence /\ run'.audit = buffers.audit
    BY <1>2 DEF PersistAudit, Run, Buffers
  <2>2. buffers' \in Buffers /\ buffers'.recorded = buffers.recorded /\ buffers'.audit = {}
    BY <1>2 DEF PersistAudit, Buffers
  <2> QED
    BY <1>2, <2>1, <2>2 DEF PersistAudit
<1>3. CASE PersistRca
  <2>1. /\ run' \in Run /\ run'.pc \in {"idle", "persist_progress"}
        /\ run'.pc = "idle" \/ (run'.evidence = run.evidence /\ run'.audit = run.audit)
    <3>1. CASE RcaConflict
      BY <1>3, <3>1, InitialTypes DEF PersistRca, Idle
    <3>2. CASE ~RcaConflict
      <4>1. {buffers.reports[n] : n \in DOMAIN buffers.reports} \in SUBSET Report
        BY DEF Buffers
      <4>2. run.id \in Incidents /\ run.notes \in SUBSET Note
        BY DEF Run
      <4>3. <<run.id, "rca_ready">> \in Note
        BY <4>2 DEF Note
      <4>4. (IF buffers.reports = <<>> THEN run.notes ELSE run.notes \cup {<<run.id, "rca_ready">>})
              \in SUBSET Note
        BY <4>2, <4>3
      <4> QED
        BY <1>3, <3>2, <4>1, <4>4, ZenonT(60) DEF PersistRca, Run
    <3> QED
      BY <3>1, <3>2
  <2>2. /\ buffers' \in Buffers /\ buffers'.recorded = buffers.recorded
        /\ buffers'.audit = buffers.audit
    <3>1. <<>> \in Seq(Report)
      OBVIOUS
    <3> QED
      BY <1>3, <3>1, ZenonT(60) DEF PersistRca, Buffers
  <2> QED
    BY <1>3, <2>1, <2>2 DEF PersistRca
<1>4. CASE PersistProgress
  <2>1. /\ run' \in Run /\ run'.pc = "commit"
        /\ run'.evidence = run.evidence /\ run'.audit = run.audit
    <3>1. buffers.progress \in Progress
      BY DEF Buffers
    <3>2. run.id \in Incidents /\ run.notes \in SUBSET Note
      BY DEF Run
    <3>3. buffers.progress.reason # "" => <<run.id, buffers.progress.reason>> \in Note
      BY <3>1, <3>2 DEF Progress, Note
    <3>4. (IF buffers.progress.reason = "" THEN run.notes
           ELSE run.notes \cup {<<run.id, buffers.progress.reason>>}) \in SUBSET Note
      BY <3>2, <3>3
    <3> QED
      BY <1>4, <3>1, <3>4, ZenonT(60) DEF PersistProgress, Run
  <2>2. /\ buffers' \in Buffers /\ buffers'.recorded = buffers.recorded
        /\ buffers'.audit = buffers.audit
    BY <1>4, InitialTypes DEF PersistProgress, Buffers
  <2> QED
    BY <1>4, <2>1, <2>2 DEF PersistProgress
<1>5. CASE Commit
  <2>1. run' \in Run /\ run'.pc = "idle"
    BY <1>5, InitialTypes DEF Commit, Idle
  <2>2. /\ run.evidence \in SUBSET EvidenceId /\ run.audit \in SUBSET EvidenceId
        /\ run.rca \in SUBSET Report /\ run.id \in Incidents /\ run.notes \in SUBSET Note
        /\ run.progress \in Progress
    BY DEF Run
  <2>3. db' \in Db
    BY <1>5, <2>2 DEF Commit, Db
  <2>4. db'.evidence \subseteq db'.audit
    BY <1>5 DEF Commit
  <2> QED
    BY <1>5, <2>1, <2>3, <2>4 DEF Commit
<1> QED
  BY <1>1, <1>2, <1>3, <1>4, <1>5

---------------------------------------------------------------------------
(* The graph.                                                              *)

(* The commander counts a hop and, at the cap, leaves the cycle.           *)
LEMMA CommanderPreserves == RunnerInv /\ Commander => RunnerInv'
<1> SUFFICES ASSUME RunnerInv, Commander PROVE RunnerInv'
  OBVIOUS
<1> USE DEF RunnerInv, RunnerTypeOK
<1> DEFINE hops == Current.hops + 1
           d    == next_action(scenario[run.id], hops, Current.evidence, Current.late, Current.failed)
<1>1. run.pc = "commander" /\ run.id \in Incidents
  BY DEF Commander, Run
<1>2. Current \in Thread /\ Current.late \in BOOLEAN
  BY <1>1 DEF Current, Thread
<1>3. hops \in 0 .. MAX_HOPS + 1
  <2>1. Current.hops \in 0 .. MAX_HOPS + 1
    BY <1>2 DEF Thread
  <2>2. Current.hops <= MAX_HOPS
    BY <1>1 DEF HopsLeft, Current
  <2> QED
    BY <2>1, <2>2 DEF MAX_HOPS
<1>4. /\ d.next \in NextAction
      /\ d.reason \in EscalateReason \cup {""}
      /\ hops > MAX_HOPS => d.next = ESCALATE
  <2>1. hops \in Nat
    BY <1>3 DEF MAX_HOPS
  <2> HIDE DEF hops
  <2>2. d.next \in NextAction
    BY <2>1, DecisionType
  <2>3. d.reason \in EscalateReason \cup {""}
    BY <2>1, DecisionType
  <2>4. hops > MAX_HOPS => d.next = ESCALATE
    BY DEF next_action, PlanDecision
  <2> QED
    BY <2>2, <2>3, <2>4
<1>5. threads' = [threads EXCEPT ![run.id] = [Current EXCEPT !.hops = hops, !.reason = d.reason]]
  BY DEF Commander, SetCurrent
<1>6. run' = CASE d.next = SYNTHESIZE -> [run EXCEPT !.pc = "synthesize"]
               [] d.next = ESCALATE   -> [run EXCEPT !.pc = "escalate"]
               [] d.next = FANOUT     -> [run EXCEPT !.pc = "specialists", !.todo = DB_REQUIRED]
               [] d.next \in Collectors
                                      -> [run EXCEPT !.pc = "specialists", !.todo = {d.next}]
  BY DEF Commander
<1> HIDE DEF hops, d
<1>7. threads' \in [Incidents -> Thread] /\ threads'[run.id].hops = hops
  <2>1. [Current EXCEPT !.hops = hops, !.reason = d.reason] \in Thread
    BY <1>2, <1>3, <1>4, ZenonT(60) DEF Thread
  <2>2. [Current EXCEPT !.hops = hops, !.reason = d.reason].hops = hops
    BY <1>2, ZenonT(60) DEF Thread
  <2> QED
    BY <1>1, <1>5, <2>1, <2>2
<1>8. /\ run' \in Run /\ run'.id = run.id
      /\ run'.pc \in {"synthesize", "escalate", "specialists"}
      /\ d.next = ESCALATE => run'.pc = "escalate"
  <2>1. CASE d.next = SYNTHESIZE
    <3>1. run' = [run EXCEPT !.pc = "synthesize"]
      BY <1>6, <2>1, ZenonT(60) DEF SYNTHESIZE, ESCALATE, FANOUT, Collectors, OBSERVABILITY, KNOWLEDGE, CODE
    <3> QED
      BY <3>1, <2>1 DEF Run, SYNTHESIZE, ESCALATE
  <2>2. CASE d.next = ESCALATE
    <3>1. run' = [run EXCEPT !.pc = "escalate"]
      BY <1>6, <2>2, ZenonT(60) DEF SYNTHESIZE, ESCALATE, FANOUT, Collectors, OBSERVABILITY, KNOWLEDGE, CODE
    <3> QED
      BY <3>1 DEF Run
  <2>3. CASE d.next = FANOUT
    <3>1. run' = [run EXCEPT !.pc = "specialists", !.todo = DB_REQUIRED]
      BY <1>6, <2>3, ZenonT(60) DEF SYNTHESIZE, ESCALATE, FANOUT, Collectors, OBSERVABILITY, KNOWLEDGE, CODE
    <3>2. DB_REQUIRED \in SUBSET Collectors
      BY DEF DB_REQUIRED, Collectors
    <3>3. d.next # ESCALATE
      BY <2>3 DEF FANOUT, ESCALATE
    <3> QED
      BY <3>1, <3>2, <3>3, ZenonT(60) DEF Run
  <2>4. CASE d.next \in Collectors
    <3>1. run' = [run EXCEPT !.pc = "specialists", !.todo = {d.next}]
      BY <1>6, <2>4, ZenonT(60) DEF SYNTHESIZE, ESCALATE, FANOUT, Collectors, OBSERVABILITY, KNOWLEDGE, CODE
    <3>2. d.next # ESCALATE /\ {d.next} \in SUBSET Collectors
      BY <2>4 DEF ESCALATE, Collectors, OBSERVABILITY, KNOWLEDGE, CODE
    <3> QED
      BY <3>1, <3>2, ZenonT(60) DEF Run
  <2> QED
    BY <1>4, <2>1, <2>2, <2>3, <2>4 DEF NextAction
<1>9. HopsLeft'
  <2>1. hops > MAX_HOPS => run'.pc = "escalate"
    BY <1>4, <1>8
  <2>2. ~(hops > MAX_HOPS) => hops <= MAX_HOPS
    BY <1>3 DEF MAX_HOPS
  <2> QED
    BY <1>7, <1>8, <2>1, <2>2, ZenonT(60) DEF HopsLeft
<1> QED
  BY <1>7, <1>8, <1>9 DEF Commander, BufferedIsAudited, PendingIsAudited, EvidenceIsAudited,
      Draining, Drained

(* A specialist that returned, with what the super-step has so far.        *)
LEMMA SpecialistReturnsType ==
  ASSUME RunnerInv, run.pc = "specialists",
         NEW k \in Collectors, NEW got \in SUBSET Collectors, NEW failed \in SUBSET Collectors,
         SpecialistReturns(k, got, failed)
  PROVE  /\ run' \in Run /\ run'.id = run.id /\ run'.pc \in {"specialists", "commander"}
         /\ threads' \in [Incidents -> Thread]
         /\ threads'[run.id].hops = threads[run.id].hops
<1> USE DEF RunnerInv, RunnerTypeOK
<1>1. run.id \in Incidents /\ run.todo \in SUBSET Collectors
  BY DEF Run
<1>2. Current \in Thread
  BY <1>1 DEF Current
<1>3. CASE run.todo \ {k} # {}
  <2>1. run' = [run EXCEPT !.todo = run.todo \ {k}, !.got = got, !.failed = failed]
    BY <1>3 DEF SpecialistReturns
  <2>2. run.todo \ {k} \in SUBSET Collectors
    BY <1>1
  <2>3. run' \in Run /\ run'.id = run.id /\ run'.pc = run.pc
    BY <2>1, <2>2, ZenonT(60) DEF Run
  <2>4. threads' = threads
    BY <1>3 DEF SpecialistReturns
  <2> QED
    BY <2>3, <2>4
<1>4. CASE ~(run.todo \ {k} # {})
  <2>1. run' = [run EXCEPT !.pc = "commander", !.todo = {}, !.got = {}, !.failed = {}]
    BY <1>4 DEF SpecialistReturns
  <2>2. run' \in Run /\ run'.id = run.id /\ run'.pc = "commander"
    BY <2>1, ZenonT(60) DEF Run
  <2>3. threads' = [threads EXCEPT ![run.id] =
                      [Current EXCEPT !.evidence = Current.evidence \cup got,
                                      !.failed   = Current.failed \cup failed]]
    BY <1>4 DEF SpecialistReturns, SetCurrent
  <2>4. /\ Current.evidence \cup got \in SUBSET Collectors
        /\ Current.failed \cup failed \in SUBSET Collectors
    BY <1>2 DEF Thread
  <2>5. /\ [Current EXCEPT !.evidence = Current.evidence \cup got,
                           !.failed   = Current.failed \cup failed] \in Thread
        /\ [Current EXCEPT !.evidence = Current.evidence \cup got,
                           !.failed   = Current.failed \cup failed].hops = Current.hops
    BY <1>2, <2>4, ZenonT(60) DEF Thread
  <2> QED
    BY <1>1, <2>2, <2>3, <2>5 DEF Current
<1> QED
  BY <1>3, <1>4

(* A collector that records evidence has its call audited; one that fails  *)
(* records nothing.                                                        *)
LEMMA CollectPreserves ==
  ASSUME RunnerInv, NEW k \in Collectors, Collect(k) \/ CollectFails(k)
  PROVE  RunnerInv'
<1> USE DEF RunnerInv, RunnerTypeOK
<1>1. /\ run.pc = "specialists" /\ run.id \in Incidents
      /\ run.got \in SUBSET Collectors /\ run.failed \in SUBSET Collectors
      /\ UNCHANGED <<scenario, attempts, db>>
  BY DEF Collect, CollectFails, Run
<1>2. EntryOf(k) \in EvidenceId
  <2>1. attempts[run.id] \in 0 .. MaxAttempts
    BY <1>1
  <2> QED
    BY <1>1, <2>1 DEF EntryOf, EvidenceId
<1>3. /\ run' \in Run /\ run'.id = run.id /\ run'.pc \in {"specialists", "commander"}
      /\ threads' \in [Incidents -> Thread]
      /\ threads'[run.id].hops = threads[run.id].hops
  <2>1. CASE Collect(k)
    <3>1. run.got \cup {k} \in SUBSET Collectors
      BY <1>1
    <3>2. SpecialistReturns(k, run.got \cup {k}, run.failed)
      BY <2>1 DEF Collect
    <3> QED
      BY <1>1, <3>1, <3>2, SpecialistReturnsType
  <2>2. CASE CollectFails(k)
    <3>1. run.failed \cup {k} \in SUBSET Collectors
      BY <1>1
    <3>2. SpecialistReturns(k, run.got, run.failed \cup {k})
      BY <2>2 DEF CollectFails
    <3> QED
      BY <1>1, <3>1, <3>2, SpecialistReturnsType
  <2> QED
    BY <2>1, <2>2
<1>4. /\ buffers.recorded \in SUBSET EvidenceId /\ buffers.audit \in SUBSET EvidenceId
      /\ buffers.recorded \subseteq buffers.audit
  BY DEF Buffers, BufferedIsAudited
<1>5. buffers' \in Buffers /\ buffers'.recorded \subseteq buffers'.audit
  <2>1. CASE Collect(k)
    <3>1. PICK r \in {{}, {EntryOf(k)}} :
            buffers' = [buffers EXCEPT !.recorded = buffers.recorded \cup r,
                                       !.audit    = buffers.audit \cup {EntryOf(k)}]
      BY <2>1 DEF Collect
    <3>2. /\ buffers.recorded \cup r \in SUBSET EvidenceId
          /\ buffers.audit \cup {EntryOf(k)} \in SUBSET EvidenceId
          /\ buffers.recorded \cup r \subseteq buffers.audit \cup {EntryOf(k)}
      BY <1>2, <1>4
    <3> QED
      BY <3>1, <3>2, ZenonT(60) DEF Buffers
  <2>2. CASE CollectFails(k)
    <3>1. PICK a \in {{}, {EntryOf(k)}} : buffers' = [buffers EXCEPT !.audit = buffers.audit \cup a]
      BY <2>2 DEF CollectFails
    <3>2. /\ buffers.audit \cup a \in SUBSET EvidenceId
          /\ buffers.recorded \subseteq buffers.audit \cup a
      BY <1>2, <1>4
    <3> QED
      BY <3>1, <3>2, ZenonT(60) DEF Buffers
  <2> QED
    BY <2>1, <2>2
<1> QED
  BY <1>1, <1>3, <1>5 DEF HopsLeft, BufferedIsAudited, PendingIsAudited, EvidenceIsAudited,
      Draining, Drained

(* The pack is a set of evidence ids, so what the answer cites is one too. *)
LEMMA PackType == RunnerInv /\ run.pc = "synthesize" => Pack \in SUBSET EvidenceId
<1> SUFFICES ASSUME RunnerInv, run.pc = "synthesize" PROVE Pack \in SUBSET EvidenceId
  OBVIOUS
<1>1. run.id \in Incidents /\ buffers.recorded \in SUBSET EvidenceId
  BY DEF RunnerInv, RunnerTypeOK, Run, Buffers
<1>2. Current \in Thread
  BY <1>1 DEF RunnerInv, RunnerTypeOK, Current
<1>3. Current.evidence \in SUBSET Collectors
  BY <1>2 DEF Thread
<1>4. 0 \in 0 .. MaxAttempts
  BY AttemptsAssumption
<1> QED
  BY <1>1, <1>3, <1>4 DEF Pack, EvidenceId

(* However synthesize ends, it writes channels of the thread only.         *)
LEMMA SynthesizePreserves ==
  ASSUME RunnerInv, Synthesize \/ SynthesizeFails
  PROVE  RunnerInv'
<1> USE DEF RunnerInv, RunnerTypeOK
<1>1. run.pc = "synthesize" /\ run.id \in Incidents
  BY DEF Synthesize, SynthesizeFails, Run
<1>2. Current \in Thread
  BY <1>1 DEF Current
<1>3. Pack \in SUBSET EvidenceId
  BY <1>1, PackType
<1>4. \E status \in Status, reason \in EscalateReason \cup {""}, rca \in Report :
        Synthesized(status, reason, rca)
  <2>1. CASE Synthesize
    <3>1. PICK cites \in (SUBSET Pack) \ {{}} :
            \/ Synthesized("pending_review", "", [inc |-> run.id, cites |-> cites])
            \/ Synthesized("escalated", "low_confidence", [inc |-> run.id, cites |-> cites])
      BY <2>1 DEF Synthesize
    <3>2. [inc |-> run.id, cites |-> cites] \in Report
      BY <1>1, <1>3 DEF Report
    <3> QED
      BY <3>1, <3>2 DEF Status, EscalateReason
  <2>2. CASE SynthesizeFails
    <3>1. (IF Pack = {} THEN Current.rca ELSE NoReport) \in Report
      BY <1>2, InitialTypes DEF Thread
    <3> QED
      BY <2>2, <3>1 DEF SynthesizeFails, Status, EscalateReason
  <2> QED
    BY <2>1, <2>2
<1>5. PICK status \in Status, reason \in EscalateReason \cup {""}, rca \in Report :
        Synthesized(status, reason, rca)
  BY <1>4
<1>6. run' \in Run /\ run'.pc = "capture"
  BY <1>5 DEF Synthesized, Run
<1>7. threads' \in [Incidents -> Thread]
  <2>1. [Current EXCEPT !.status = status, !.reason = reason, !.rca = rca] \in Thread
    BY <1>2, ZenonT(60) DEF Thread
  <2> QED
    BY <1>1, <1>5, <2>1 DEF Synthesized, SetCurrent
<1> QED
  BY <1>5, <1>6, <1>7 DEF Synthesized, HopsLeft, BufferedIsAudited, PendingIsAudited,
      EvidenceIsAudited, Draining, Drained

(* escalate only moves on; capture adds to the reports and the progress.   *)
LEMMA CapturePreserves ==
  ASSUME RunnerInv, Escalate \/ Capture
  PROVE  RunnerInv'
<1> USE DEF RunnerInv, RunnerTypeOK, HopsLeft, BufferedIsAudited, PendingIsAudited,
            EvidenceIsAudited, Draining, Drained
<1>1. CASE Escalate
  <2>1. run' \in Run /\ run'.pc = "capture"
    BY <1>1 DEF Escalate, Run
  <2> QED
    BY <1>1, <2>1 DEF Escalate
<1>2. CASE Capture
  <2>1. run' \in Run /\ run'.pc = "persist_evidence"
    BY <1>2 DEF Capture, Run
  <2>2. run.id \in Incidents
    BY DEF Run
  <2>3. Current \in Thread
    BY <2>2 DEF Current
  <2>4. Current.rca \in Report /\ [status |-> Current.status, reason |-> Current.reason] \in Progress
    BY <2>3 DEF Thread, Progress
  <2>5. buffers.reports \in Seq(Report)
    BY DEF Buffers
  <2>6. (IF Current.rca.cites # {} THEN Append(buffers.reports, Current.rca) ELSE buffers.reports)
          \in Seq(Report)
    BY <2>4, <2>5
  <2>7. /\ buffers' \in Buffers /\ buffers'.recorded = buffers.recorded
        /\ buffers'.audit = buffers.audit
    BY <1>2, <2>4, <2>6, ZenonT(60) DEF Capture, Buffers
  <2> QED
    BY <1>2, <2>1, <2>7 DEF Capture
<1> QED
  BY <1>1, <1>2

---------------------------------------------------------------------------
(* Every step of the runner preserves RunnerInv.                           *)
LEMMA RunnerInvNext == RunnerInv /\ [Next]_vars => RunnerInv'
<1> SUFFICES ASSUME RunnerInv, [Next]_vars PROVE RunnerInv'
  OBVIOUS
<1>1. CASE UNCHANGED vars
  BY <1>1 DEF vars, RunnerInv, RunnerTypeOK, HopsLeft, BufferedIsAudited, PendingIsAudited,
      EvidenceIsAudited, Draining, Drained
<1>2. ASSUME NEW i \in Incidents, Start(i) PROVE RunnerInv'
  BY <1>2, StartPreserves
<1>3. CASE Commander
  BY <1>3, CommanderPreserves
<1>4. ASSUME NEW k \in Collectors, Collect(k) \/ CollectFails(k) PROVE RunnerInv'
  BY <1>4, CollectPreserves
<1>5. CASE Synthesize \/ SynthesizeFails
  BY <1>5, SynthesizePreserves
<1>6. CASE Escalate \/ Capture
  BY <1>6, CapturePreserves
<1>7. CASE PersistEvidence \/ PersistAudit \/ PersistRca \/ PersistProgress \/ Commit
  BY <1>7, PersistPreserves
<1>8. CASE AttemptFails
  BY <1>8, AttemptFailsPreserves
<1>9. CASE Crash
  BY <1>9, CrashPreserves
<1>10. ASSUME NEW i \in Incidents, TimePasses(i) PROVE RunnerInv'
  BY <1>10, TimePassesPreserves
<1> QED
  BY <1>1, <1>2, <1>3, <1>4, <1>5, <1>6, <1>7, <1>8, <1>9, <1>10 DEF Next, AttemptStep

(* RunnerInv holds throughout every behaviour of the runner.               *)
THEOREM RunnerInvariance == Spec => []RunnerInv
  BY RunnerInvInit, RunnerInvNext, PTL DEF Spec

(* The threads, the buffers, the transaction and the tables keep the shape *)
(* the code gives them, whatever attempts fail, crash or resume a thread.  *)
THEOREM RunnerTypeCorrect == Spec => []RunnerTypeOK
<1>1. RunnerInv => RunnerTypeOK
  BY DEF RunnerInv
<1> QED
  BY <1>1, RunnerInvariance, PTL

(* Stored evidence always has the audit entry of the tool call it came     *)
(* from, for any number of incidents and attempts (the order of the drains *)
(* in ConsumeOpenedIncident.execute).                                      *)
THEOREM StoredEvidenceIsAudited == Spec => []EvidenceIsAudited
<1>1. RunnerInv => EvidenceIsAudited
  BY DEF RunnerInv
<1> QED
  BY <1>1, RunnerInvariance, PTL

---------------------------------------------------------------------------
(* The course of an attempt.                                               *)

(* The collectors the commander asks for before it synthesizes.            *)
Needed(sc) == IF first_specialist(sc) = FANOUT THEN DB_REQUIRED ELSE {first_specialist(sc)}

(* The commander is entered once with a fresh hop count, and once more     *)
(* when every collector it needs has contributed or failed.                *)
CourseInv ==
  /\ run.pc = "commander" =>
       \/ Current.hops = 0
       \/ /\ Current.hops = 1
          /\ Needed(scenario[run.id]) \subseteq Current.evidence \cup Current.failed
  /\ run.pc = "specialists" =>
       /\ Current.hops = 1
       /\ Needed(scenario[run.id]) \subseteq
            Current.evidence \cup Current.failed \cup run.todo \cup run.got \cup run.failed
  /\ NoPingPong

(* A thread that awaits its review has a report of its own with citations. *)
ThreadHasRca ==
  \A i \in Incidents :
    threads[i].status = "pending_review" => threads[i].rca.inc = i /\ threads[i].rca.cites # {}

(* What a human is to be told, from the end of the graph to the commit: a  *)
(* reason, or that a report waits.  The report is first the thread's, then *)
(* buffered, then a row of the transaction.                                *)
Persisting == {"persist_evidence", "persist_audit", "persist_rca"}

OutcomeIsComing ==
  /\ run.pc = "escalate" => Current.reason # ""
  /\ run.pc = "capture" => Current.reason # "" \/ Current.status = "pending_review"
  /\ run.pc \in Persisting =>
       /\ buffers.progress.reason # "" \/ buffers.progress.status = "pending_review"
       /\ buffers.progress.status = "pending_review" =>
            \E n \in DOMAIN buffers.reports : buffers.reports[n].inc = run.id
  /\ run.pc = "persist_progress" =>
       /\ buffers.progress.reason # "" \/ buffers.progress.status = "pending_review"
       /\ buffers.progress.status = "pending_review" =>
            (\E r \in run.rca : r.inc = run.id) /\ <<run.id, "rca_ready">> \in run.notes
  /\ run.pc = "commit" =>
       /\ \/ <<run.id, run.progress.reason>> \in run.notes
          \/ run.progress.status = "pending_review" /\ <<run.id, "rca_ready">> \in run.notes
       /\ run.progress.status = "pending_review" => \E r \in run.rca : r.inc = run.id

OutcomeInv == ThreadHasRca /\ OutcomeIsComing /\ PendingReviewHasRca /\ OutcomeIsNotified

---------------------------------------------------------------------------
(* At its first decision the commander either leaves the cycle or asks for *)
(* all that is still missing of what it needs.                             *)
LEMMA FirstDecision ==
  ASSUME NEW sc, NEW evidence \in SUBSET Collectors, NEW failed \in SUBSET Collectors,
         NEW late \in BOOLEAN, NEW hops, hops = 1
  PROVE  LET d == next_action(sc, hops, evidence, late, failed)
         IN  /\ d.reason # "max_hops"
             /\ d.next = FANOUT => Needed(sc) \subseteq evidence \cup DB_REQUIRED
             /\ d.next \in Collectors => Needed(sc) \subseteq evidence \cup {d.next}
<1> DEFINE specialist == first_specialist(sc)
<1>1. ~(hops > MAX_HOPS)
  BY DEF MAX_HOPS
<1>2. specialist = FANOUT => DB_REQUIRED \subseteq evidence \cup DB_REQUIRED
  OBVIOUS
<1>3. fanout_or_remaining(evidence) \in Collectors
        => DB_REQUIRED \subseteq evidence \cup {fanout_or_remaining(evidence)}
  BY DEF fanout_or_remaining, DB_REQUIRED, Collectors, KNOWLEDGE, OBSERVABILITY, CODE, FANOUT,
         SYNTHESIZE
<1>4. /\ ESCALATE # FANOUT /\ SYNTHESIZE # FANOUT
      /\ ESCALATE \notin Collectors /\ SYNTHESIZE \notin Collectors /\ FANOUT \notin Collectors
  BY DEF Collectors, ESCALATE, SYNTHESIZE, FANOUT, KNOWLEDGE, OBSERVABILITY, CODE
<1>5. specialist # FANOUT => Needed(sc) = {specialist}
  BY DEF Needed
<1>6. specialist = FANOUT => Needed(sc) = DB_REQUIRED
  BY DEF Needed
<1> HIDE DEF specialist
<1> DEFINE d == next_action(sc, hops, evidence, late, failed)
<1>7. \/ d.next = ESCALATE /\ d.reason \in {"max_duration", "agent_failure", "dependency_failure"}
      \/ d.next = SYNTHESIZE /\ d.reason = ""
      \/ specialist = FANOUT /\ d.next = fanout_or_remaining(evidence) /\ d.reason = ""
      \/ specialist # FANOUT /\ d.next = specialist /\ d.reason = ""
  BY <1>1 DEF next_action, PlanDecision, specialist
<1> HIDE DEF d
<1>8. d.reason # "max_hops"
  BY <1>7
<1>9. d.next = FANOUT => Needed(sc) \subseteq evidence \cup DB_REQUIRED
  BY <1>2, <1>4, <1>6, <1>7
<1>10. d.next \in Collectors => Needed(sc) \subseteq evidence \cup {d.next}
  BY <1>3, <1>4, <1>5, <1>6, <1>7
<1> QED
  BY <1>8, <1>9, <1>10 DEF d

(* Once every collector it needs has contributed or failed, the commander  *)
(* leaves the cycle.                                                       *)
LEMMA SecondDecision ==
  ASSUME NEW sc, NEW evidence \in SUBSET Collectors, NEW failed \in SUBSET Collectors,
         NEW late \in BOOLEAN, NEW hops, hops = 2, Needed(sc) \subseteq evidence \cup failed
  PROVE  LET d == next_action(sc, hops, evidence, late, failed)
         IN  d.reason # "max_hops" /\ d.next \in {SYNTHESIZE, ESCALATE}
<1> DEFINE specialist == first_specialist(sc)
           d == next_action(sc, hops, evidence, late, failed)
<1>1. ~(hops > MAX_HOPS)
  BY DEF MAX_HOPS
<1>2. CASE specialist = FANOUT
  <2>1. DB_REQUIRED \subseteq evidence \cup failed
    BY <1>2 DEF Needed
  <2>2. sc = "db_exhaustion"
    BY <1>2 DEF first_specialist, FANOUT, ESCALATE, CODE, OBSERVABILITY, KNOWLEDGE
  <2>3. enough_evidence(sc, evidence) \/ failure_blocks(specialist, failed, evidence)
    BY <1>2, <2>1, <2>2 DEF enough_evidence, failure_blocks
  <2> HIDE DEF specialist
  <2> QED
    BY <1>1, <2>3 DEF next_action, PlanDecision, specialist
<1>3. CASE specialist # FANOUT
  <2>1. specialist \in evidence \cup failed
    BY <1>3 DEF Needed
  <2>2. specialist \in failed => failure_blocks(specialist, failed, evidence)
    BY <1>3 DEF failure_blocks
  <2> HIDE DEF specialist
  <2> QED
    BY <1>1, <1>3, <2>1, <2>2 DEF next_action, PlanDecision, specialist
<1> QED
  BY <1>2, <1>3

(* A decision to escalate gives its reason.                                *)
LEMMA EscalationHasReason ==
  ASSUME NEW sc, NEW hops, NEW evidence \in SUBSET Collectors, NEW late, NEW failed,
         next_action(sc, hops, evidence, late, failed).next = ESCALATE
  PROVE  next_action(sc, hops, evidence, late, failed).reason # ""
<1> DEFINE specialist == first_specialist(sc)
<1>1. fanout_or_remaining(evidence) # ESCALATE /\ SYNTHESIZE # ESCALATE
  BY DEF fanout_or_remaining, ESCALATE, SYNTHESIZE, FANOUT, KNOWLEDGE, OBSERVABILITY
<1> HIDE DEF specialist
<1> QED
  BY <1>1 DEF next_action, PlanDecision, specialist

---------------------------------------------------------------------------
(* NoPingPong: the steps that touch the course of an attempt.              *)

(* CourseInv holds in the initial states.                                  *)
LEMMA CourseInvInit == Init => CourseInv
<1> SUFFICES ASSUME Init PROVE CourseInv
  OBVIOUS
<1>1. run.pc = "idle"
  BY DEF Init, Idle
<1>2. \A i \in Incidents : threads[i].hops = 0 /\ threads[i].reason = ""
  BY DEF Init, NoThread
<1>3. NoPingPong
  <2>1. 0 <= 2 /\ "" # "max_hops"
    OBVIOUS
  <2> QED
    BY <1>2, <2>1, ZenonT(60) DEF NoPingPong
<1> QED
  BY <1>1, <1>3, ZenonT(60) DEF CourseInv

(* The commander's first decision asks for what is missing; its second     *)
(* leaves the cycle.                                                       *)
LEMMA CommanderKeepsCourse == RunnerInv /\ CourseInv /\ Commander => CourseInv'
<1> SUFFICES ASSUME RunnerInv, CourseInv, Commander PROVE CourseInv'
  OBVIOUS
<1> DEFINE hops == Current.hops + 1
           sc   == scenario[run.id]
           d    == next_action(sc, hops, Current.evidence, Current.late, Current.failed)
           t    == [Current EXCEPT !.hops = hops, !.reason = d.reason]
<1>1. /\ run.pc = "commander" /\ run \in Run /\ run.id \in Incidents
      /\ threads \in [Incidents -> Thread]
  BY DEF Commander, Run, RunnerInv, RunnerTypeOK
<1>2. Current \in Thread
  BY <1>1 DEF Current
<1>3. /\ Current.evidence \in SUBSET Collectors /\ Current.failed \in SUBSET Collectors
      /\ Current.late \in BOOLEAN
  BY <1>2 DEF Thread
<1>4. threads' = [threads EXCEPT ![run.id] = t] /\ scenario' = scenario
  BY DEF Commander, SetCurrent
<1>5. run' = CASE d.next = SYNTHESIZE -> [run EXCEPT !.pc = "synthesize"]
               [] d.next = ESCALATE   -> [run EXCEPT !.pc = "escalate"]
               [] d.next = FANOUT     -> [run EXCEPT !.pc = "specialists", !.todo = DB_REQUIRED]
               [] d.next \in Collectors
                                      -> [run EXCEPT !.pc = "specialists", !.todo = {d.next}]
  BY DEF Commander
<1>6. /\ hops \in {1, 2} /\ d.reason # "max_hops" /\ d.next \in NextAction
      /\ hops = 2 => d.next \in {SYNTHESIZE, ESCALATE}
      /\ d.next = FANOUT => Needed(sc) \subseteq Current.evidence \cup DB_REQUIRED
      /\ d.next \in Collectors => Needed(sc) \subseteq Current.evidence \cup {d.next}
  <2>1. CASE Current.hops = 0
    <3>1. hops = 1 /\ hops \in Nat
      BY <2>1
    <3> HIDE DEF hops
    <3>2. d.next \in NextAction
      BY <3>1, DecisionType
    <3>3. /\ d.reason # "max_hops"
          /\ d.next = FANOUT => Needed(sc) \subseteq Current.evidence \cup DB_REQUIRED
          /\ d.next \in Collectors => Needed(sc) \subseteq Current.evidence \cup {d.next}
      <4> HIDE DEF sc
      <4> QED
        BY <1>3, <3>1, FirstDecision
    <3> QED
      BY <3>1, <3>2, <3>3
  <2>2. CASE Current.hops = 1 /\ Needed(sc) \subseteq Current.evidence \cup Current.failed
    <3>1. hops = 2 /\ hops \in Nat
      BY <2>2
    <3> HIDE DEF hops
    <3>2. d.reason # "max_hops" /\ d.next \in {SYNTHESIZE, ESCALATE}
      BY <1>3, <2>2, <3>1, SecondDecision
    <3>3. FANOUT \notin {SYNTHESIZE, ESCALATE} /\ Collectors \cap {SYNTHESIZE, ESCALATE} = {}
      BY DEF FANOUT, SYNTHESIZE, ESCALATE, Collectors, OBSERVABILITY, KNOWLEDGE, CODE
    <3> QED
      BY <3>1, <3>2, <3>3 DEF NextAction
  <2> QED
    BY <1>1, <2>1, <2>2 DEF CourseInv
<1> HIDE DEF hops, d, sc
<1>7. t.hops = hops /\ t.reason = d.reason /\ t.evidence = Current.evidence
  BY <1>2, ZenonT(60) DEF Thread
<1> HIDE DEF t
<1>8. threads'[run.id] = t /\ \A i \in Incidents : i # run.id => threads'[i] = threads[i]
  BY <1>1, <1>4
<1>9. NoPingPong'
  <2>1. t.hops <= 2 /\ t.reason # "max_hops"
    BY <1>6, <1>7
  <2> QED
    BY <1>8, <2>1 DEF CourseInv, NoPingPong
<1>10. \/ run'.pc \in {"synthesize", "escalate"}
       \/ d.next = FANOUT /\ run'.pc = "specialists" /\ run'.todo = DB_REQUIRED
       \/ d.next \in Collectors /\ run'.pc = "specialists" /\ run'.todo = {d.next}
  <2>1. CASE d.next = SYNTHESIZE
    <3>1. run' = [run EXCEPT !.pc = "synthesize"]
      BY <1>5, <2>1, ZenonT(60) DEF SYNTHESIZE, ESCALATE, FANOUT, Collectors, OBSERVABILITY, KNOWLEDGE, CODE
    <3> QED
      BY <1>1, <3>1 DEF Run
  <2>2. CASE d.next = ESCALATE
    <3>1. run' = [run EXCEPT !.pc = "escalate"]
      BY <1>5, <2>2, ZenonT(60) DEF SYNTHESIZE, ESCALATE, FANOUT, Collectors, OBSERVABILITY, KNOWLEDGE, CODE
    <3> QED
      BY <1>1, <3>1 DEF Run
  <2>3. CASE d.next = FANOUT
    <3>1. run' = [run EXCEPT !.pc = "specialists", !.todo = DB_REQUIRED]
      BY <1>5, <2>3, ZenonT(60) DEF SYNTHESIZE, ESCALATE, FANOUT, Collectors, OBSERVABILITY, KNOWLEDGE, CODE
    <3> QED
      BY <1>1, <2>3, <3>1 DEF Run
  <2>4. CASE d.next \in Collectors
    <3>1. run' = [run EXCEPT !.pc = "specialists", !.todo = {d.next}]
      BY <1>5, <2>4, ZenonT(60) DEF SYNTHESIZE, ESCALATE, FANOUT, Collectors, OBSERVABILITY, KNOWLEDGE, CODE
    <3> QED
      BY <1>1, <2>4, <3>1 DEF Run
  <2> QED
    BY <1>6, <2>1, <2>2, <2>3, <2>4 DEF NextAction
<1>11. run'.id = run.id
  <2>1. \E pc, todo : run' = [run EXCEPT !.pc = pc] \/ run' = [run EXCEPT !.pc = pc, !.todo = todo]
    <3>1. d.next \in {SYNTHESIZE, ESCALATE, FANOUT} \cup Collectors
      BY <1>6 DEF NextAction
    <3> QED
      BY <1>5, <3>1, ZenonT(60) DEF SYNTHESIZE, ESCALATE, FANOUT, Collectors, OBSERVABILITY, KNOWLEDGE, CODE
  <2> QED
    BY <1>1, <2>1, ZenonT(60) DEF Run
<1>12. run'.pc = "specialists" =>
         hops = 1 /\ Needed(sc) \subseteq Current.evidence \cup run'.todo
  <2>1. run'.pc = "specialists" => d.next \notin {SYNTHESIZE, ESCALATE}
    BY <1>10 DEF SYNTHESIZE, ESCALATE, FANOUT, Collectors, OBSERVABILITY, KNOWLEDGE, CODE
  <2> QED
    BY <1>6, <1>10, <2>1
<1>13. scenario'[run'.id] = sc /\ threads'[run'.id] = t
  BY <1>4, <1>8, <1>11 DEF sc
<1>14. run'.pc # "commander"
  BY <1>10
<1> QED
  BY <1>7, <1>9, <1>12, <1>13, <1>14 DEF CourseInv, Current

(* A specialist that returns is in got or failed, and the end of the       *)
(* super-step moves both to the thread.                                    *)
LEMMA CollectKeepsCourse ==
  ASSUME RunnerInv, CourseInv, NEW k \in Collectors, Collect(k) \/ CollectFails(k)
  PROVE  CourseInv'
<1>1. /\ run.pc = "specialists" /\ run \in Run /\ run.id \in Incidents /\ scenario' = scenario
      /\ threads \in [Incidents -> Thread]
  BY DEF Collect, CollectFails, Run, RunnerInv, RunnerTypeOK
<1>2. Current \in Thread
  BY <1>1 DEF Current
<1>3. PICK got, failed :
        /\ SpecialistReturns(k, got, failed)
        /\ run.got \cup run.failed \cup {k} = got \cup failed
  <2>1. CASE Collect(k)
    BY <2>1 DEF Collect
  <2>2. CASE CollectFails(k)
    BY <2>2 DEF CollectFails
  <2> QED
    BY <2>1, <2>2
<1> DEFINE needed == Needed(scenario[run.id])
<1>4. /\ Current.hops = 1
      /\ needed \subseteq Current.evidence \cup Current.failed \cup run.todo \cup run.got \cup run.failed
  BY <1>1 DEF CourseInv
<1> HIDE DEF needed
<1>5. needed \subseteq Current.evidence \cup Current.failed \cup (run.todo \ {k}) \cup got \cup failed
  BY <1>3, <1>4
<1>6. CASE run.todo \ {k} # {}
  <2>1. /\ run' = [run EXCEPT !.todo = run.todo \ {k}, !.got = got, !.failed = failed]
        /\ threads' = threads
    BY <1>3, <1>6 DEF SpecialistReturns
  <2>2. /\ run'.todo = run.todo \ {k} /\ run'.got = got /\ run'.failed = failed
        /\ run'.id = run.id /\ run'.pc = "specialists"
    BY <1>1, <2>1, ZenonT(60) DEF Run
  <2>3. Current' = Current /\ needed' = needed
    BY <1>1, <2>1, <2>2 DEF Current, needed
  <2>4. NoPingPong'
    BY <2>1 DEF CourseInv, NoPingPong
  <2> QED
    BY <1>4, <1>5, <2>2, <2>3, <2>4 DEF CourseInv, needed
<1>7. CASE run.todo \ {k} = {}
  <2> DEFINE t == [Current EXCEPT !.evidence = Current.evidence \cup got,
                                  !.failed   = Current.failed \cup failed]
  <2>1. /\ run' = [run EXCEPT !.pc = "commander", !.todo = {}, !.got = {}, !.failed = {}]
        /\ threads' = [threads EXCEPT ![run.id] = t]
    BY <1>3, <1>7 DEF SpecialistReturns, SetCurrent
  <2>2. run'.id = run.id /\ run'.pc = "commander"
    BY <1>1, <2>1, ZenonT(60) DEF Run
  <2>3. /\ t.evidence = Current.evidence \cup got /\ t.failed = Current.failed \cup failed
        /\ t.hops = Current.hops /\ t.reason = Current.reason
    BY <1>2, ZenonT(60) DEF Thread
  <2> HIDE DEF t
  <2>4. threads'[run.id] = t /\ \A i \in Incidents : i # run.id => threads'[i] = threads[i]
    BY <1>1, <2>1
  <2>5. Current' = t /\ scenario'[run'.id] = scenario[run.id]
    BY <1>1, <2>2, <2>4 DEF Current
  <2>6. needed \subseteq t.evidence \cup t.failed
    BY <1>5, <1>7, <2>3
  <2>7. NoPingPong'
    BY <1>1, <2>3, <2>4 DEF CourseInv, NoPingPong, Current
  <2> QED
    BY <1>4, <2>2, <2>3, <2>5, <2>6, <2>7 DEF CourseInv, needed
<1> QED
  BY <1>6, <1>7

(* The other steps leave the cycle alone, start it afresh, or come after   *)
(* it.                                                                     *)
LEMMA OthersKeepCourse ==
  ASSUME RunnerInv, CourseInv,
         \/ \E i \in Incidents : Start(i)
         \/ Synthesize \/ SynthesizeFails \/ Escalate \/ Capture
         \/ PersistEvidence \/ PersistAudit \/ PersistRca \/ PersistProgress \/ Commit
         \/ AttemptFails \/ Crash \/ UNCHANGED vars
  PROVE  CourseInv'
<1>1. run \in Run /\ run.id \in Incidents /\ threads \in [Incidents -> Thread]
  BY DEF Run, RunnerInv, RunnerTypeOK
<1>2. ASSUME NEW i \in Incidents, Start(i) PROVE CourseInv'
  <2>1. run'.pc = "commander" /\ run'.id = i
    BY <1>2 DEF Start, Idle
  <2> DEFINE t == [threads[i] EXCEPT !.hops = 0, !.status = "running", !.started = TRUE]
  <2>2. threads' = [threads EXCEPT ![i] = t]
    BY <1>2 DEF Start
  <2>3. t.hops = 0 /\ t.reason = threads[i].reason
    BY <1>1, ZenonT(60) DEF Thread
  <2> HIDE DEF t
  <2>4. threads'[i] = t /\ \A j \in Incidents : j # i => threads'[j] = threads[j]
    BY <1>1, <2>2
  <2>5. NoPingPong'
    BY <2>3, <2>4 DEF CourseInv, NoPingPong
  <2> QED
    BY <2>1, <2>3, <2>4, <2>5 DEF CourseInv, Current
<1>3. CASE Synthesize \/ SynthesizeFails
  <2>1. PICK status, reason, rca : Synthesized(status, reason, rca) /\ reason # "max_hops"
    <3>1. CASE Synthesize
      <4>1. PICK cites \in (SUBSET Pack) \ {{}} :
              \/ Synthesized("pending_review", "", [inc |-> run.id, cites |-> cites])
              \/ Synthesized("escalated", "low_confidence", [inc |-> run.id, cites |-> cites])
        BY <3>1 DEF Synthesize
      <4>2. "" # "max_hops" /\ "low_confidence" # "max_hops"
        OBVIOUS
      <4> QED
        BY <4>1, <4>2, Zenon
    <3>2. CASE SynthesizeFails
      BY <3>2 DEF SynthesizeFails
    <3> QED
      BY <1>3, <3>1, <3>2
  <2> DEFINE t == [Current EXCEPT !.status = status, !.reason = reason, !.rca = rca]
  <2>2. run'.pc = "capture" /\ threads' = [threads EXCEPT ![run.id] = t]
    BY <1>1, <2>1 DEF Synthesized, SetCurrent, Run
  <2>3. t.hops = Current.hops /\ t.reason = reason
    BY <1>1, ZenonT(60) DEF Thread, Current
  <2> HIDE DEF t
  <2>4. threads'[run.id] = t /\ \A j \in Incidents : j # run.id => threads'[j] = threads[j]
    BY <1>1, <2>2
  <2>5. NoPingPong'
    BY <1>1, <2>1, <2>3, <2>4 DEF CourseInv, NoPingPong, Current
  <2> QED
    BY <2>2, <2>5 DEF CourseInv
<1>4. CASE \/ Escalate \/ Capture \/ PersistEvidence \/ PersistAudit \/ PersistRca
           \/ PersistProgress \/ Commit \/ AttemptFails
  <2>1. threads' = threads
    BY <1>4 DEF Escalate, Capture, PersistEvidence, PersistAudit, PersistRca, PersistProgress,
                Commit, AttemptFails
  <2>2. run'.pc \notin {"commander", "specialists"}
    <3>1. CASE Escalate
      BY <1>1, <3>1 DEF Escalate, Run
    <3>2. CASE Capture
      BY <1>1, <3>2 DEF Capture, Run
    <3>3. CASE PersistEvidence
      BY <1>1, <3>3 DEF PersistEvidence, Run
    <3>4. CASE PersistAudit
      BY <1>1, <3>4 DEF PersistAudit, Run
    <3>5. CASE PersistRca
      BY <1>1, <3>5 DEF PersistRca, Run, Idle
    <3>6. CASE PersistProgress
      BY <1>1, <3>6 DEF PersistProgress, Run
    <3>7. CASE Commit \/ AttemptFails
      BY <3>7 DEF Commit, AttemptFails, Idle
    <3> QED
      BY <1>4, <3>1, <3>2, <3>3, <3>4, <3>5, <3>6, <3>7
  <2> QED
    BY <2>1, <2>2 DEF CourseInv, NoPingPong
<1>5. CASE Crash
  <2>1. run'.pc = "idle" /\ \A i \in Incidents : threads'[i] = NoThread
    BY <1>5 DEF Crash, Idle
  <2>2. NoThread.hops = 0 /\ NoThread.reason = ""
    BY DEF NoThread
  <2>3. NoPingPong'
    <3>1. 0 <= 2 /\ "" # "max_hops"
      OBVIOUS
    <3> QED
      BY <2>1, <2>2, <3>1, ZenonT(60) DEF NoPingPong
  <2> QED
    BY <2>1, <2>3, ZenonT(60) DEF CourseInv
<1>6. CASE UNCHANGED vars
  BY <1>6 DEF vars, CourseInv, NoPingPong, Current
<1> QED
  BY <1>2, <1>3, <1>4, <1>5, <1>6

(* TimePasses changes the clock of a thread only.                          *)
LEMMA TimeKeepsCourse ==
  ASSUME RunnerInv, CourseInv, NEW i \in Incidents, TimePasses(i)
  PROVE  CourseInv'
<1>1. run \in Run /\ run.id \in Incidents /\ threads \in [Incidents -> Thread]
  BY DEF Run, RunnerInv, RunnerTypeOK
<1>2. \A j \in Incidents : /\ threads'[j].hops = threads[j].hops
                           /\ threads'[j].reason = threads[j].reason
                           /\ threads'[j].evidence = threads[j].evidence
                           /\ threads'[j].failed = threads[j].failed
  BY <1>1 DEF TimePasses, Thread
<1> QED
  BY <1>1, <1>2 DEF TimePasses, CourseInv, NoPingPong, Current

(* The commander decides at most twice per attempt and never at the hop    *)
(* cap, for any incidents, scenarios and attempts, with threads that are   *)
(* resumed, timed out or failed in any order (next_action in plan.py).     *)
THEOREM SpecialistsDoNotPingPong == Spec => []NoPingPong
<1>1. RunnerInv /\ CourseInv /\ [Next]_vars => CourseInv'
  BY CommanderKeepsCourse, CollectKeepsCourse, OthersKeepCourse, TimeKeepsCourse
  DEF Next, AttemptStep
<1>2. CourseInv => NoPingPong
  BY DEF CourseInv
<1> QED
  BY <1>1, <1>2, CourseInvInit, RunnerInvariance, PTL DEF Spec

---------------------------------------------------------------------------
(* PendingReviewHasRca and OutcomeIsNotified.                              *)

(* OutcomeInv holds in the initial states.                                 *)
LEMMA OutcomeInvInit == Init => OutcomeInv
<1> SUFFICES ASSUME Init PROVE OutcomeInv
  OBVIOUS
<1>1. run.pc = "idle" /\ db.done = {}
  BY DEF Init, Idle
<1>2. \A i \in Incidents : threads[i].status = "" /\ db.progress[i].status = ""
  BY DEF Init, NoThread, NoProgress
<1> QED
  BY <1>1, <1>2 DEF OutcomeInv, ThreadHasRca, OutcomeIsComing, Persisting, PendingReviewHasRca,
      OutcomeIsNotified

(* The commander leaves the status and the report of the thread alone, and *)
(* gives a reason when it escalates.                                       *)
LEMMA CommanderKeepsOutcome == RunnerInv /\ OutcomeInv /\ Commander => OutcomeInv'
<1> SUFFICES ASSUME RunnerInv, OutcomeInv, Commander PROVE OutcomeInv'
  OBVIOUS
<1> DEFINE hops == Current.hops + 1
           d    == next_action(scenario[run.id], hops, Current.evidence, Current.late, Current.failed)
           t    == [Current EXCEPT !.hops = hops, !.reason = d.reason]
<1>1. /\ run \in Run /\ run.id \in Incidents /\ threads \in [Incidents -> Thread]
      /\ db' = db
  BY DEF Commander, Run, RunnerInv, RunnerTypeOK
<1>2. Current \in Thread
  BY <1>1 DEF Current
<1>3. Current.evidence \in SUBSET Collectors /\ hops \in Nat
  <2>1. Current.evidence \in SUBSET Collectors /\ Current.hops \in 0 .. MAX_HOPS + 1
    BY <1>2 DEF Thread
  <2> QED
    BY <2>1 DEF MAX_HOPS
<1>4. threads' = [threads EXCEPT ![run.id] = t]
  BY DEF Commander, SetCurrent
<1>5. run' = CASE d.next = SYNTHESIZE -> [run EXCEPT !.pc = "synthesize"]
               [] d.next = ESCALATE   -> [run EXCEPT !.pc = "escalate"]
               [] d.next = FANOUT     -> [run EXCEPT !.pc = "specialists", !.todo = DB_REQUIRED]
               [] d.next \in Collectors
                                      -> [run EXCEPT !.pc = "specialists", !.todo = {d.next}]
  BY DEF Commander
<1>6. d.next \in NextAction /\ (d.next = ESCALATE => d.reason # "")
  <2> HIDE DEF hops
  <2>1. d.next \in NextAction
    BY <1>3, DecisionType
  <2>2. d.next = ESCALATE => d.reason # ""
    BY <1>3, EscalationHasReason, Zenon
  <2> QED
    BY <2>1, <2>2
<1> HIDE DEF hops, d
<1>7. t.status = Current.status /\ t.rca = Current.rca /\ t.reason = d.reason
  BY <1>2, ZenonT(60) DEF Thread
<1> HIDE DEF t
<1>8. threads'[run.id] = t /\ \A i \in Incidents : i # run.id => threads'[i] = threads[i]
  BY <1>1, <1>4
<1>9. /\ run'.id = run.id /\ run'.pc \in {"synthesize", "escalate", "specialists"}
      /\ run'.pc = "escalate" => d.next = ESCALATE
  <2>1. \/ run' = [run EXCEPT !.pc = "synthesize"]
        \/ d.next = ESCALATE /\ run' = [run EXCEPT !.pc = "escalate"]
        \/ \E todo : run' = [run EXCEPT !.pc = "specialists", !.todo = todo]
    <3>1. d.next \in {SYNTHESIZE, ESCALATE, FANOUT} \cup Collectors
      BY <1>6 DEF NextAction
    <3> QED
      BY <1>5, <3>1, ZenonT(60) DEF SYNTHESIZE, ESCALATE, FANOUT, Collectors, OBSERVABILITY, KNOWLEDGE, CODE
  <2> QED
    BY <1>1, <2>1 DEF Run
<1>10. ThreadHasRca'
  BY <1>1, <1>7, <1>8 DEF OutcomeInv, ThreadHasRca, Current
<1>11. OutcomeIsComing'
  BY <1>6, <1>7, <1>8, <1>9 DEF OutcomeIsComing, Persisting, Current
<1> QED
  BY <1>1, <1>10, <1>11 DEF OutcomeInv, PendingReviewHasRca, OutcomeIsNotified

(* The specialists write evidence and failed steps only.                   *)
LEMMA CollectKeepsOutcome ==
  ASSUME RunnerInv, OutcomeInv, NEW k \in Collectors, Collect(k) \/ CollectFails(k)
  PROVE  OutcomeInv'
<1>1. /\ run.pc = "specialists" /\ run \in Run /\ run.id \in Incidents /\ db' = db
      /\ threads \in [Incidents -> Thread]
  BY DEF Collect, CollectFails, Run, RunnerInv, RunnerTypeOK
<1>2. Current \in Thread
  BY <1>1 DEF Current
<1>3. PICK got, failed : SpecialistReturns(k, got, failed)
  BY DEF Collect, CollectFails
<1>4. /\ run'.pc \in {"specialists", "commander"}
      /\ \A i \in Incidents : threads'[i].status = threads[i].status /\ threads'[i].rca = threads[i].rca
  <2>1. CASE run.todo \ {k} # {}
    <3>1. /\ run' = [run EXCEPT !.todo = run.todo \ {k}, !.got = got, !.failed = failed]
          /\ threads' = threads
      BY <1>3, <2>1 DEF SpecialistReturns
    <3>2. run'.pc = run.pc
      BY <1>1, <3>1, ZenonT(60) DEF Run
    <3> QED
      BY <1>1, <3>1, <3>2
  <2>2. CASE run.todo \ {k} = {}
    <3> DEFINE t == [Current EXCEPT !.evidence = Current.evidence \cup got,
                                    !.failed   = Current.failed \cup failed]
    <3>1. /\ run' = [run EXCEPT !.pc = "commander", !.todo = {}, !.got = {}, !.failed = {}]
          /\ threads' = [threads EXCEPT ![run.id] = t]
      BY <1>3, <2>2 DEF SpecialistReturns, SetCurrent
    <3>2. run'.pc = "commander"
      BY <1>1, <3>1, ZenonT(60) DEF Run
    <3>3. t.status = Current.status /\ t.rca = Current.rca
      BY <1>2, ZenonT(60) DEF Thread
    <3> HIDE DEF t
    <3>4. threads'[run.id] = t /\ \A i \in Incidents : i # run.id => threads'[i] = threads[i]
      BY <1>1, <3>1
    <3> QED
      BY <3>2, <3>3, <3>4 DEF Current
  <2> QED
    BY <2>1, <2>2
<1> QED
  BY <1>1, <1>4 DEF OutcomeInv, ThreadHasRca, OutcomeIsComing, Persisting, PendingReviewHasRca,
      OutcomeIsNotified

(* synthesize ends with a report that awaits its review, or with a reason. *)
LEMMA SynthesizeKeepsOutcome ==
  ASSUME RunnerInv, OutcomeInv, Synthesize \/ SynthesizeFails
  PROVE  OutcomeInv'
<1>1. run \in Run /\ run.id \in Incidents /\ threads \in [Incidents -> Thread]
  BY DEF Run, RunnerInv, RunnerTypeOK
<1>2. Current \in Thread
  BY <1>1 DEF Current
<1>3. PICK status, reason, rca :
        /\ Synthesized(status, reason, rca)
        /\ \/ status = "pending_review" /\ rca.inc = run.id /\ rca.cites # {}
           \/ status = "escalated" /\ reason # ""
  <2>1. CASE Synthesize
    <3>1. PICK cites \in (SUBSET Pack) \ {{}} :
            \/ Synthesized("pending_review", "", [inc |-> run.id, cites |-> cites])
            \/ Synthesized("escalated", "low_confidence", [inc |-> run.id, cites |-> cites])
      BY <2>1 DEF Synthesize
    <3> DEFINE report == [inc |-> run.id, cites |-> cites]
    <3>2. report.inc = run.id /\ report.cites # {}
      OBVIOUS
    <3>3. "low_confidence" # ""
      OBVIOUS
    <3> HIDE DEF report
    <3>4. Synthesized("pending_review", "", report) \/ Synthesized("escalated", "low_confidence", report)
      BY <3>1 DEF report
    <3> QED
      BY <3>2, <3>3, <3>4, Zenon
  <2>2. CASE SynthesizeFails
    <3>1. "agent_failure" # ""
      OBVIOUS
    <3> QED
      BY <2>2, <3>1, ZenonT(60) DEF SynthesizeFails
  <2> QED
    BY <2>1, <2>2
<1> DEFINE t == [Current EXCEPT !.status = status, !.reason = reason, !.rca = rca]
<1>4. threads' = [threads EXCEPT ![run.id] = t] /\ db' = db
  BY <1>3 DEF Synthesized, SetCurrent
<1>5. run'.pc = "capture" /\ run'.id = run.id
  BY <1>1, <1>3 DEF Synthesized, Run
<1>6. t.status = status /\ t.reason = reason /\ t.rca = rca
  BY <1>2, ZenonT(60) DEF Thread
<1> HIDE DEF t
<1>7. threads'[run.id] = t /\ \A i \in Incidents : i # run.id => threads'[i] = threads[i]
  BY <1>1, <1>4
<1>8. ThreadHasRca'
  BY <1>3, <1>6, <1>7 DEF OutcomeInv, ThreadHasRca
<1>9. OutcomeIsComing'
  BY <1>3, <1>5, <1>6, <1>7 DEF OutcomeIsComing, Persisting, Current
<1> QED
  BY <1>4, <1>8, <1>9 DEF OutcomeInv, PendingReviewHasRca, OutcomeIsNotified

(* Capture buffers the progress of the thread and, when it awaits its      *)
(* review, its report.                                                     *)
LEMMA CaptureKeepsOutcome ==
  ASSUME RunnerInv, OutcomeInv, Escalate \/ Capture
  PROVE  OutcomeInv'
<1>1. /\ run \in Run /\ run.id \in Incidents /\ threads \in [Incidents -> Thread]
      /\ buffers \in Buffers /\ threads' = threads /\ db' = db
  BY DEF Escalate, Capture, Run, RunnerInv, RunnerTypeOK
<1>2. ThreadHasRca' /\ PendingReviewHasRca' /\ OutcomeIsNotified'
  BY <1>1 DEF OutcomeInv, ThreadHasRca, PendingReviewHasRca, OutcomeIsNotified
<1>3. CASE Escalate
  <2>1. run.pc = "escalate" /\ run'.pc = "capture" /\ run'.id = run.id
    BY <1>1, <1>3 DEF Escalate, Run
  <2>2. OutcomeIsComing'
    BY <1>1, <2>1 DEF OutcomeInv, OutcomeIsComing, Persisting, Current
  <2> QED
    BY <1>2, <2>2 DEF OutcomeInv
<1>4. CASE Capture
  <2> DEFINE reports == IF Current.rca.cites # {} THEN Append(buffers.reports, Current.rca)
                                                   ELSE buffers.reports
             progress == [status |-> Current.status, reason |-> Current.reason]
  <2>1. run.pc = "capture" /\ run'.pc = "persist_evidence" /\ run'.id = run.id
    BY <1>1, <1>4 DEF Capture, Run
  <2>2. buffers' = [buffers EXCEPT !.reports = reports, !.progress = progress]
    BY <1>4 DEF Capture
  <2>3. buffers'.reports = reports /\ buffers'.progress = progress
    BY <1>1, <2>2, ZenonT(60) DEF Buffers
  <2>4. progress.status = Current.status /\ progress.reason = Current.reason
    BY Zenon
  <2>5. Current.status = "pending_review" =>
          \E n \in DOMAIN reports : reports[n].inc = run.id
    <3> SUFFICES ASSUME Current.status = "pending_review"
                 PROVE  \E n \in DOMAIN reports : reports[n].inc = run.id
      OBVIOUS
    <3>1. Current.rca.inc = run.id /\ Current.rca.cites # {}
      BY <1>1 DEF OutcomeInv, ThreadHasRca, Current
    <3>2. buffers.reports \in Seq(Report) /\ Current.rca \in Report
      BY <1>1 DEF Buffers, Current, Thread
    <3>3. reports = Append(buffers.reports, Current.rca)
      BY <3>1
    <3>4. Len(buffers.reports) + 1 \in DOMAIN reports /\ reports[Len(buffers.reports) + 1] = Current.rca
      <4> HIDE DEF reports
      <4> QED
        BY <3>2, <3>3
    <3> HIDE DEF reports
    <3> QED
      BY <3>1, <3>4
  <2>6. Current.reason # "" \/ Current.status = "pending_review"
    BY <2>1 DEF OutcomeInv, OutcomeIsComing
  <2> HIDE DEF reports, progress
  <2>7. OutcomeIsComing'
    BY <2>1, <2>3, <2>4, <2>5, <2>6 DEF OutcomeIsComing, Persisting
  <2> QED
    BY <1>2, <2>7 DEF OutcomeInv
<1> QED
  BY <1>3, <1>4

(* The persists move the progress and the report, and announce them.       *)
LEMMA PersistKeepsOutcome ==
  ASSUME RunnerInv, OutcomeInv, PersistEvidence \/ PersistAudit \/ PersistRca \/ PersistProgress
  PROVE  OutcomeInv'
<1>1. /\ run \in Run /\ run.id \in Incidents /\ buffers \in Buffers /\ threads' = threads /\ db' = db
  BY DEF PersistEvidence, PersistAudit, PersistRca, PersistProgress, Run, RunnerInv, RunnerTypeOK
<1>2. ThreadHasRca' /\ PendingReviewHasRca' /\ OutcomeIsNotified'
  BY <1>1 DEF OutcomeInv, ThreadHasRca, PendingReviewHasRca, OutcomeIsNotified
<1>3. CASE PersistEvidence \/ PersistAudit
  <2>1. run.pc \in Persisting /\ run'.pc \in Persisting /\ run'.id = run.id
    BY <1>1, <1>3 DEF PersistEvidence, PersistAudit, Persisting, Run
  <2>2. buffers'.progress = buffers.progress /\ buffers'.reports = buffers.reports
    BY <1>1, <1>3 DEF PersistEvidence, PersistAudit, Buffers
  <2>3. OutcomeIsComing'
    BY <2>1, <2>2 DEF OutcomeInv, OutcomeIsComing, Persisting
  <2> QED
    BY <1>2, <2>3 DEF OutcomeInv
<1>4. CASE PersistRca
  <2>1. /\ run.pc \in Persisting
        /\ buffers.progress.reason # "" \/ buffers.progress.status = "pending_review"
        /\ buffers.progress.status = "pending_review" =>
             \E n \in DOMAIN buffers.reports : buffers.reports[n].inc = run.id
    BY <1>4 DEF PersistRca, OutcomeInv, OutcomeIsComing, Persisting
  <2>2. CASE RcaConflict
    <3>1. run'.pc = "idle"
      BY <1>4, <2>2 DEF PersistRca, Idle
    <3> QED
      BY <1>2, <3>1 DEF OutcomeInv, OutcomeIsComing, Persisting
  <2>3. CASE ~RcaConflict
    <3> DEFINE rca   == {buffers.reports[n] : n \in DOMAIN buffers.reports}
               notes == IF buffers.reports = <<>> THEN run.notes
                                                  ELSE run.notes \cup {<<run.id, "rca_ready">>}
    <3>1. run' = [run EXCEPT !.pc = "persist_progress", !.rca = rca, !.notes = notes]
      BY <1>4, <2>3 DEF PersistRca
    <3>2. run'.pc = "persist_progress" /\ run'.id = run.id /\ run'.rca = rca /\ run'.notes = notes
      BY <1>1, <3>1, ZenonT(60) DEF Run
    <3>3. buffers'.progress = buffers.progress
      BY <1>1, <1>4 DEF PersistRca, Buffers
    <3>4. (\E n \in DOMAIN buffers.reports : buffers.reports[n].inc = run.id) =>
            (\E r \in rca : r.inc = run.id) /\ <<run.id, "rca_ready">> \in notes
      <4> SUFFICES ASSUME NEW n \in DOMAIN buffers.reports, buffers.reports[n].inc = run.id
                   PROVE  (\E r \in rca : r.inc = run.id) /\ <<run.id, "rca_ready">> \in notes
        OBVIOUS
      <4>1. buffers.reports # <<>>
        <5>1. DOMAIN (<<>>) = {}
          OBVIOUS
        <5> QED
          BY <5>1
      <4> QED
        BY <4>1, Zenon
    <3> HIDE DEF rca, notes
    <3>5. OutcomeIsComing'
      BY <2>1, <3>2, <3>3, <3>4 DEF OutcomeIsComing, Persisting
    <3> QED
      BY <1>2, <3>5 DEF OutcomeInv
  <2> QED
    BY <2>2, <2>3
<1>5. CASE PersistProgress
  <2> DEFINE notes == IF buffers.progress.reason = "" THEN run.notes
                      ELSE run.notes \cup {<<run.id, buffers.progress.reason>>}
  <2>1. /\ buffers.progress.reason # "" \/ buffers.progress.status = "pending_review"
        /\ buffers.progress.status = "pending_review" =>
             (\E r \in run.rca : r.inc = run.id) /\ <<run.id, "rca_ready">> \in run.notes
    BY <1>5 DEF PersistProgress, OutcomeInv, OutcomeIsComing
  <2>2. run' = [run EXCEPT !.pc = "commit", !.progress = buffers.progress, !.notes = notes]
    BY <1>5 DEF PersistProgress
  <2>3. /\ run'.pc = "commit" /\ run'.id = run.id /\ run'.progress = buffers.progress
        /\ run'.notes = notes /\ run'.rca = run.rca
    BY <1>1, <2>2, ZenonT(60) DEF Run
  <2>4. /\ run.notes \subseteq notes
        /\ buffers.progress.reason # "" => <<run.id, buffers.progress.reason>> \in notes
    OBVIOUS
  <2> HIDE DEF notes
  <2>5. OutcomeIsComing'
    BY <2>1, <2>3, <2>4 DEF OutcomeIsComing, Persisting
  <2> QED
    BY <1>2, <2>5 DEF OutcomeInv
<1> QED
  BY <1>3, <1>4, <1>5

(* The commit stores the progress with the report and the notification it  *)
(* needs.                                                                  *)
LEMMA CommitKeepsOutcome == RunnerInv /\ OutcomeInv /\ Commit => OutcomeInv'
<1> SUFFICES ASSUME RunnerInv, OutcomeInv, Commit PROVE OutcomeInv'
  OBVIOUS
<1>1. run \in Run /\ run.id \in Incidents /\ db \in Db /\ run.pc = "commit"
  BY DEF Commit, Run, RunnerInv, RunnerTypeOK
<1>2. db.progress \in [Incidents -> Progress] /\ db.done \in SUBSET Incidents
  BY <1>1 DEF Db
<1>3. /\ threads' = threads /\ run'.pc = "idle"
      /\ db'.rca = db.rca \cup run.rca /\ db'.notes = db.notes \cup run.notes
      /\ db'.done = db.done \cup {run.id}
      /\ db'.progress = [db.progress EXCEPT ![run.id] = run.progress]
  BY DEF Commit, Idle
<1>4. /\ db'.progress[run.id] = run.progress
      /\ \A i \in Incidents : i # run.id => db'.progress[i] = db.progress[i]
  BY <1>1, <1>2, <1>3
<1>5. /\ \/ <<run.id, run.progress.reason>> \in run.notes
         \/ run.progress.status = "pending_review" /\ <<run.id, "rca_ready">> \in run.notes
      /\ run.progress.status = "pending_review" => \E r \in run.rca : r.inc = run.id
  BY <1>1 DEF OutcomeInv, OutcomeIsComing
<1>6. PendingReviewHasRca'
  BY <1>3, <1>4, <1>5, ZenonT(60) DEF OutcomeInv, PendingReviewHasRca
<1>7. OutcomeIsNotified'
  <2> SUFFICES ASSUME NEW i \in db'.done
               PROVE  \/ <<i, db'.progress[i].reason>> \in db'.notes
                      \/ db'.progress[i].status = "pending_review" /\ <<i, "rca_ready">> \in db'.notes
    BY DEF OutcomeIsNotified
  <2>1. CASE i = run.id
    BY <1>3, <1>4, <1>5, <2>1
  <2>2. CASE i # run.id
    <3>1. i \in db.done /\ db'.progress[i] = db.progress[i]
      BY <1>2, <1>3, <1>4, <2>2
    <3> QED
      BY <1>3, <3>1 DEF OutcomeInv, OutcomeIsNotified
  <2> QED
    BY <2>1, <2>2
<1> QED
  BY <1>3, <1>6, <1>7 DEF OutcomeInv, ThreadHasRca, OutcomeIsComing, Persisting

(* A thread that Start resets has the status running.                      *)
LEMMA StartedIsRunning ==
  ASSUME NEW u \in Thread
  PROVE  [u EXCEPT !.hops = 0, !.status = "running", !.started = TRUE].status = "running"
BY ZenonT(60) DEF Thread

(* A new attempt sets the status of its thread to running; a failure or a  *)
(* crash ends the attempt; the clock is not part of the outcome.           *)
LEMMA OthersKeepOutcome ==
  ASSUME RunnerInv, OutcomeInv,
         \/ \E i \in Incidents : Start(i) \/ TimePasses(i)
         \/ AttemptFails \/ Crash \/ UNCHANGED vars
  PROVE  OutcomeInv'
<1> USE DEF OutcomeInv, ThreadHasRca, OutcomeIsComing, Persisting, PendingReviewHasRca,
            OutcomeIsNotified
<1>1. run \in Run /\ run.id \in Incidents /\ threads \in [Incidents -> Thread]
  BY DEF Run, RunnerInv, RunnerTypeOK
<1>2. ASSUME NEW i \in Incidents, Start(i) PROVE OutcomeInv'
  <2>1. run'.pc = "commander" /\ db' = db
    BY <1>2 DEF Start, Idle
  <2> DEFINE t == [threads[i] EXCEPT !.hops = 0, !.status = "running", !.started = TRUE]
  <2>2. threads' = [threads EXCEPT ![i] = t]
    BY <1>2 DEF Start
  <2>3. t.status = "running"
    <3>1. threads[i] \in Thread
      BY <1>1
    <3> QED
      BY <3>1, StartedIsRunning
  <2> HIDE DEF t
  <2>4. threads'[i] = t /\ \A j \in Incidents : j # i => threads'[j] = threads[j]
    BY <1>1, <2>2
  <2> QED
    BY <2>1, <2>3, <2>4
<1>3. ASSUME NEW i \in Incidents, TimePasses(i) PROVE OutcomeInv'
  <2>1. \A j \in Incidents : /\ threads'[j].status = threads[j].status
                             /\ threads'[j].reason = threads[j].reason
                             /\ threads'[j].rca = threads[j].rca
    BY <1>1, <1>3 DEF TimePasses, Thread
  <2>2. run' = run /\ buffers' = buffers /\ db' = db
    BY <1>3 DEF TimePasses
  <2> QED
    BY <1>1, <2>1, <2>2 DEF Current
<1>4. CASE AttemptFails
  BY <1>4 DEF AttemptFails, Idle
<1>5. CASE Crash
  <2>1. run'.pc = "idle" /\ db' = db /\ \A i \in Incidents : threads'[i].status = ""
    BY <1>5 DEF Crash, Idle, NoThread
  <2> QED
    BY <2>1
<1>6. CASE UNCHANGED vars
  BY <1>6 DEF vars, Current
<1> QED
  BY <1>2, <1>3, <1>4, <1>5, <1>6

(* OutcomeInv holds throughout every behaviour of the runner.              *)
THEOREM OutcomeInvariance == Spec => []OutcomeInv
<1>1. RunnerInv /\ OutcomeInv /\ [Next]_vars => OutcomeInv'
  BY CommanderKeepsOutcome, CollectKeepsOutcome, SynthesizeKeepsOutcome, CaptureKeepsOutcome,
     PersistKeepsOutcome, CommitKeepsOutcome, OthersKeepOutcome
  DEF Next, AttemptStep
<1> QED
  BY <1>1, OutcomeInvInit, RunnerInvariance, PTL DEF Spec

(* A stored progress row that asks for a review has a stored RCA of that   *)
(* incident, for any number of failed, crashed or resumed attempts         *)
(* (_persist_rca before _persist_progress, in one transaction).            *)
THEOREM ReviewsHaveReports == Spec => []PendingReviewHasRca
<1>1. OutcomeInv => PendingReviewHasRca
  BY DEF OutcomeInv
<1> QED
  BY <1>1, OutcomeInvariance, PTL

(* Every investigation that ends has been announced, by its reason or by   *)
(* the RCA that is ready.                                                  *)
THEOREM OutcomesAreNotified == Spec => []OutcomeIsNotified
<1>1. OutcomeInv => OutcomeIsNotified
  BY DEF OutcomeInv
<1> QED
  BY <1>1, OutcomeInvariance, PTL
===========================================================================
