----------------------- MODULE EvidenceSources_proofs -----------------------
(***************************************************************************)
(* What the specialists collect from: proofs about the simulator, about    *)
(* the ingest of the knowledge corpus, about the chunker and about the     *)
(* retrieval, for any services, scenarios, threads and sizes, any files,   *)
(* runs, contents and sections, any index and any rankings.                *)
(***************************************************************************)
EXTENDS Simulator, RagIngest, Chunking, Retrieval,
        FiniteSetTheorems, SequenceTheorems, WellFoundedInduction, TLAPS

---------------------------------------------------------------------------
(***************************************************************************)
(* The simulator.                                                          *)
(*                                                                         *)
(* BiasFitsService is about ticks in the buffer, whose scenario was read   *)
(* up to three steps earlier, without a lock.  RequestOK says of a tick in *)
(* the making what the property says of one that is stored; it mentions no *)
(* shared variable, so no other thread can disturb it.                     *)
(***************************************************************************)
Fields == {"pc", "scenario", "todo", "index", "since", "service", "rows", "code", "left"}

RequestOK(r) ==
  /\ DOMAIN r = Fields
  /\ r.scenario \in Scenarios \cup {Off}
  /\ r.todo \subseteq Services
  /\ r.index \in 0 .. MaxIndex
  /\ r.pc \in {"first", "ask", "load", "store", "append", "list"} => r.service \in Services
  /\ r.pc \in {"load", "store", "append"} /\ r.scenario # Off => r.service \in Affected[r.scenario]

SharedOK ==
  /\ active \in Scenarios \cup {Off}
  /\ tick_index \in 0 .. MaxIndex
  /\ status \subseteq Services
  /\ ticks \in Seq(Tick) /\ Len(ticks) <= BufferSize
  /\ BiasFitsService

RequestsOK == DOMAIN req = Threads /\ \A t \in Threads : RequestOK(req[t])

SimulatorInv == SharedOK /\ RequestsOK

(* An idle request is well-formed.                                         *)
LEMMA IdleIsOK == RequestOK(Idle) /\ DOMAIN Idle = Fields
<1>1. DOMAIN Idle = Fields
  BY DEF Idle, Fields
<1>2. Idle.scenario = Off /\ Idle.todo = {} /\ Idle.index = 0 /\ Idle.pc = "idle"
  BY DEF Idle
<1>3. 0 \in 0 .. MaxIndex
  BY SimulatorAssumption
<1> QED
  BY <1>1, <1>2, <1>3 DEF RequestOK

(* A thread that replaces its request by a well-formed one.                *)
LEMMA RequestStep ==
  ASSUME RequestsOK, NEW t \in Threads, NEW new, RequestOK(new), req' = [req EXCEPT ![t] = new]
  PROVE  RequestsOK'
<1>1. DOMAIN req' = Threads
  BY DEF RequestsOK
<1>2. \A u \in Threads : req'[u] = IF u = t THEN new ELSE req[u]
  BY DEF RequestsOK
<1> QED
  BY <1>1, <1>2 DEF RequestsOK

(* The shared state, with the buffer left alone.                           *)
LEMMA SharedStep ==
  ASSUME SharedOK, ticks' = ticks,
         active' \in Scenarios \cup {Off}, tick_index' \in 0 .. MaxIndex, status' \subseteq Services
  PROVE  SharedOK'
BY DEF SharedOK, BiasFitsService

(* The buffer keeps the newest ticks: what is in it afterwards was in it   *)
(* before or is the new tick.                                              *)
LEMMA PushedTicks ==
  ASSUME ticks \in Seq(Tick), NEW tick \in Tick
  PROVE  /\ Pushed(tick) \in Seq(Tick)
         /\ Len(Pushed(tick)) <= BufferSize
         /\ \A i \in DOMAIN Pushed(tick) :
              Pushed(tick)[i] = tick \/ \E j \in DOMAIN ticks : Pushed(tick)[i] = ticks[j]
<1> DEFINE all == Append(ticks, tick)
           n == Len(all)
           low == Low(n, BufferSize)
           from == n - low + 1
<1>1. /\ all \in Seq(Tick) /\ n = Len(ticks) + 1 /\ n \in Nat
      /\ \A j \in 1 .. n : all[j] = tick \/ (j \in DOMAIN ticks /\ all[j] = ticks[j])
  OBVIOUS
<1>2. BufferSize \in Nat
  BY SimulatorAssumption
<1> HIDE DEF all, n
<1>3. low \in Nat /\ low <= BufferSize /\ low <= n
  BY <1>1, <1>2 DEF Low
<1> HIDE DEF low
<1>4. from \in Nat /\ from >= 1 /\ n - from + 1 = low
  BY <1>1, <1>3
<1> HIDE DEF from
<1>5. Pushed(tick) = SubSeq(all, from, n)
  BY DEF Pushed, all, n, low, from
<1>6. /\ SubSeq(all, from, n) \in Seq(Tick) /\ Len(SubSeq(all, from, n)) = low
      /\ \A i \in 1 .. low : SubSeq(all, from, n)[i] = all[from + i - 1] /\ from + i - 1 \in 1 .. n
  BY <1>1, <1>3, <1>4 DEF n
<1>7. DOMAIN SubSeq(all, from, n) = 1 .. low
  BY <1>6
<1> QED
  BY <1>1, <1>3, <1>5, <1>6, <1>7

(* Threads that serve POST and DELETE /scenarios.                          *)
LEMMA ScenarioStepPreserves ==
  ASSUME SimulatorInv, NEW t \in Threads, ScenarioStep(t)
  PROVE  SimulatorInv'
<1> USE DEF SimulatorInv
<1>0. RequestOK(req[t]) /\ DOMAIN req[t] = Fields
  BY DEF RequestsOK, RequestOK
<1>1. /\ active \in Scenarios \cup {Off} /\ tick_index \in 0 .. MaxIndex /\ status \subseteq Services
      /\ 0 \in 0 .. MaxIndex
  BY SimulatorAssumption DEF SharedOK
<1>2. ASSUME NEW scenario \in Scenarios, BeginActivate(t, scenario) PROVE SimulatorInv'
  <2> DEFINE new == [Idle EXCEPT !.pc = "reset", !.scenario = scenario, !.todo = Services]
  <2>1. RequestOK(new)
    BY IdleIsOK DEF RequestOK, Fields
  <2> HIDE DEF new
  <2>2. RequestsOK'
    BY <1>2, <2>1, RequestStep DEF BeginActivate, new
  <2> QED
    BY <1>1, <1>2, <2>2, SharedStep DEF BeginActivate
<1>3. CASE BeginDeactivate(t)
  <2> DEFINE new == [Idle EXCEPT !.pc = "zero", !.todo = Services]
  <2>1. RequestOK(new)
    BY IdleIsOK DEF RequestOK, Fields
  <2> HIDE DEF new
  <2>2. RequestsOK'
    BY <1>3, <2>1, RequestStep DEF BeginDeactivate, new
  <2> QED
    BY <1>1, <1>3, <2>2, SharedStep DEF BeginDeactivate
<1>4. ASSUME NEW s \in Services, ResetService(t, s) \/ SetStatus(t, s) PROVE SimulatorInv'
  <2> DEFINE new == [req[t] EXCEPT !.todo = req[t].todo \ {s}]
  <2>1. RequestOK(new)
    BY <1>0 DEF RequestOK, Fields
  <2> HIDE DEF new
  <2>2. req' = [req EXCEPT ![t] = new]
    BY <1>4 DEF ResetService, SetStatus, new
  <2>3. RequestsOK'
    BY <2>1, <2>2, RequestStep
  <2>4. /\ status' \subseteq Services
        /\ active' = active /\ tick_index' = tick_index /\ ticks' = ticks
    BY <1>1, <1>4 DEF ResetService, SetStatus
  <2> QED
    BY <1>1, <2>3, <2>4, SharedStep
<1>5. CASE ResetDone(t)
  <2> DEFINE set == [req[t] EXCEPT !.pc = "set", !.todo = Affected[req[t].scenario]]
             new == IF req[t].scenario = Off THEN Idle ELSE set
  <2>1. req[t].scenario # Off => RequestOK(set)
    <3>1. req[t].scenario # Off => Affected[req[t].scenario] \subseteq Services
      BY <1>0, SimulatorAssumption DEF RequestOK
    <3> QED
      BY <1>0, <3>1 DEF RequestOK, Fields
  <2> HIDE DEF set
  <2>2. RequestOK(new)
    BY <2>1, IdleIsOK
  <2>3. req' = [req EXCEPT ![t] = new]
    BY <1>5 DEF ResetDone, set
  <2> HIDE DEF new
  <2>4. RequestsOK'
    BY <2>2, <2>3, RequestStep
  <2> QED
    BY <1>1, <1>5, <2>4, SharedStep DEF ResetDone
<1>6. CASE SetActive(t)
  <2> DEFINE new == [req[t] EXCEPT !.pc = "zero"]
  <2>1. RequestOK(new) /\ req[t].scenario \in Scenarios \cup {Off}
    BY <1>0 DEF RequestOK, Fields
  <2> HIDE DEF new
  <2>2. req' = [req EXCEPT ![t] = new]
    BY <1>6 DEF SetActive, Goes, new
  <2>3. RequestsOK'
    BY <2>1, <2>2, RequestStep
  <2> QED
    BY <1>1, <1>6, <2>1, <2>3, SharedStep DEF SetActive
<1>7. CASE ZeroIndex(t)
  <2> DEFINE reset == [req[t] EXCEPT !.pc = "reset"]
             new == IF req[t].scenario = Off THEN reset ELSE Idle
  <2>1. RequestOK(reset)
    BY <1>0 DEF RequestOK, Fields
  <2> HIDE DEF reset
  <2>2. RequestOK(new)
    BY <2>1, IdleIsOK
  <2>3. req' = [req EXCEPT ![t] = new]
    BY <1>7 DEF ZeroIndex, reset
  <2> HIDE DEF new
  <2>4. RequestsOK'
    BY <2>2, <2>3, RequestStep
  <2> QED
    BY <1>1, <1>7, <2>4, SharedStep DEF ZeroIndex
<1> QED
  BY <1>2, <1>3, <1>4, <1>5, <1>6, <1>7 DEF ScenarioStep

(* A tick in the making: its scenario is read when it begins, and is the   *)
(* one it is stored with.                                                  *)
LEMMA TickStepPreserves ==
  ASSUME SimulatorInv, NEW t \in Threads, TickStep(t)
  PROVE  SimulatorInv'
<1> USE DEF SimulatorInv
<1>0. RequestOK(req[t]) /\ DOMAIN req[t] = Fields
  BY DEF RequestsOK, RequestOK
<1>1. /\ active \in Scenarios \cup {Off} /\ tick_index \in 0 .. MaxIndex /\ status \subseteq Services
      /\ MaxIndex \in Nat
  BY SimulatorAssumption DEF SharedOK
<1>2. CASE LoadIndex(t)
  <2> DEFINE next == tick_index + 1
             new == [req[t] EXCEPT !.pc = "store", !.index = next]
  <2>1. next \in 0 .. MaxIndex
    BY <1>1, <1>2 DEF LoadIndex
  <2>2. req' = [req EXCEPT ![t] = new] /\ req[t].pc = "load"
    BY <1>2 DEF LoadIndex
  <2> HIDE DEF next
  <2>3. RequestOK(new)
    BY <1>0, <2>1, <2>2 DEF RequestOK, Fields
  <2> HIDE DEF new
  <2>4. RequestsOK'
    BY <2>2, <2>3, RequestStep
  <2> QED
    BY <1>1, <1>2, <2>4, SharedStep DEF LoadIndex
<1>3. CASE StoreIndex(t)
  <2> DEFINE new == [req[t] EXCEPT !.pc = "append", !.index = 0]
  <2>1. req' = [req EXCEPT ![t] = new] /\ req[t].pc = "store" /\ req[t].index \in 0 .. MaxIndex
    BY <1>0, <1>3 DEF StoreIndex, RequestOK
  <2>2. 0 \in 0 .. MaxIndex
    BY <1>1
  <2>3. RequestOK(new)
    BY <1>0, <2>1, <2>2 DEF RequestOK, Fields
  <2> HIDE DEF new
  <2>4. RequestsOK'
    BY <2>1, <2>3, RequestStep
  <2> QED
    BY <1>1, <1>3, <2>1, <2>4, SharedStep DEF StoreIndex
<1>4. CASE AppendTick(t)
  <2> DEFINE list == [req[t] EXCEPT !.pc = "list", !.scenario = Off]
             new == IF t \in Readers /\ ~req[t].left THEN list ELSE Idle
             tick == [service |-> req[t].service, scenario |-> req[t].scenario]
  <2>1. /\ req' = [req EXCEPT ![t] = new] /\ req[t].pc = "append"
        /\ ticks' = Pushed(tick) /\ UNCHANGED <<active, tick_index, status>>
    BY <1>4 DEF AppendTick
  <2>2. RequestOK(list)
    BY <1>0, <2>1 DEF RequestOK, Fields
  <2> HIDE DEF list
  <2>3. RequestOK(new)
    BY <2>2, IdleIsOK
  <2> HIDE DEF new
  <2>4. RequestsOK'
    BY <2>1, <2>3, RequestStep
  <2>5. /\ tick \in Tick
        /\ tick.scenario # Off => tick.service \in Affected[tick.scenario]
    BY <1>0, <2>1 DEF RequestOK, Tick
  <2> HIDE DEF tick
  <2>6. ticks' \in Seq(Tick) /\ Len(ticks') <= BufferSize
    BY <2>1, <2>5, PushedTicks DEF SharedOK
  <2>7. \A i \in DOMAIN ticks' : ticks'[i] = tick \/ \E j \in DOMAIN ticks : ticks'[i] = ticks[j]
    BY <2>1, <2>5, PushedTicks DEF SharedOK
  <2>8. BiasFitsService'
    BY <2>5, <2>7 DEF SharedOK, BiasFitsService
  <2> QED
    BY <1>1, <2>1, <2>4, <2>6, <2>8 DEF SharedOK
<1> QED
  BY <1>2, <1>3, <1>4 DEF TickStep

(* The scenario a service suffers from affects it.                         *)
LEMMA SufferedFits ==
  ASSUME NEW s \in Services
  PROVE  Suffered(s) \in {active, Off} /\ (Suffered(s) # Off => s \in Affected[Suffered(s)])
BY DEF Suffered

(* A tick takes the scenario only when it affects the service, whether     *)
(* the endpoint is called directly or by a fetch; the start of a fetch     *)
(* takes none.                                                             *)
LEMMA BeginPreserves ==
  ASSUME SimulatorInv, NEW t \in Threads,
         AskTick(t) \/ \E s \in Services : BeginTick(t, s) \/ BeginFetch(t, s)
  PROVE  SimulatorInv'
<1> USE DEF SimulatorInv
<1>0. RequestOK(req[t]) /\ DOMAIN req[t] = Fields
  BY DEF RequestsOK, RequestOK
<1>1. active \in Scenarios \cup {Off} /\ tick_index \in 0 .. MaxIndex /\ status \subseteq Services
  BY DEF SharedOK
<1>2. active' = active /\ tick_index' = tick_index /\ status' = status /\ ticks' = ticks
  BY DEF AskTick, BeginTick, BeginFetch
<1>3. \E new : RequestOK(new) /\ req' = [req EXCEPT ![t] = new]
  <2>1. CASE AskTick(t)
    <3> DEFINE s == req[t].service
               to == AfterBias(s)
               scenario == Suffered(s)
               new == [req[t] EXCEPT !.pc = to, !.scenario = scenario]
    <3>1. req' = [req EXCEPT ![t] = new] /\ req[t].pc = "ask"
      BY <2>1 DEF AskTick
    <3>2. s \in Services
      BY <1>0, <3>1 DEF RequestOK
    <3>3. scenario \in {active, Off} /\ (scenario # Off => s \in Affected[scenario])
      BY <3>2, SufferedFits
    <3> HIDE DEF to, scenario
    <3>4. RequestOK(new)
      BY <1>0, <1>1, <3>2, <3>3 DEF RequestOK, Fields
    <3> QED
      BY <3>1, <3>4
  <2>2. ASSUME NEW s \in Services, BeginTick(t, s)
        PROVE  \E new : RequestOK(new) /\ req' = [req EXCEPT ![t] = new]
    <3> DEFINE to == AfterBias(s)
               scenario == Suffered(s)
               new == [Idle EXCEPT !.pc = to, !.service = s, !.scenario = scenario]
    <3>1. req' = [req EXCEPT ![t] = new]
      BY <2>2 DEF BeginTick
    <3>2. scenario \in {active, Off} /\ (scenario # Off => s \in Affected[scenario])
      BY SufferedFits
    <3> HIDE DEF to, scenario
    <3>3. RequestOK(new)
      BY <1>1, <3>2, IdleIsOK DEF RequestOK, Fields
    <3> QED
      BY <3>1, <3>3
  <2>3. ASSUME NEW s \in Services, BeginFetch(t, s)
        PROVE  \E new : RequestOK(new) /\ req' = [req EXCEPT ![t] = new]
    <3> DEFINE since == IF NoScenarioRequest THEN Suffered(s) ELSE Off
               new == [Idle EXCEPT !.pc = "first", !.service = s, !.since = since]
    <3>1. req' = [req EXCEPT ![t] = new]
      BY <2>3 DEF BeginFetch
    <3> HIDE DEF since
    <3>2. RequestOK(new)
      BY IdleIsOK DEF RequestOK, Fields
    <3> QED
      BY <3>1, <3>2
  <2> QED
    BY <2>1, <2>2, <2>3
<1>4. RequestsOK'
  BY <1>3, RequestStep
<1> QED
  BY <1>1, <1>2, <1>4, SharedStep

(* The other steps of an emit and a fetch write their own request only,    *)
(* and a tick that is in the making goes on when nobody waits for it.      *)
LEMMA AnswerPreserves ==
  ASSUME SimulatorInv, NEW t \in Threads,
         \/ BeginEmit(t) \/ PostSignal(t) \/ Answered(t) \/ EmptyFirst(t) \/ Listed(t)
         \/ TickLost(t) \/ FetchFails(t) \/ TickTimesOut(t)
  PROVE  SimulatorInv'
<1> USE DEF SimulatorInv
<1>0. RequestOK(req[t]) /\ DOMAIN req[t] = Fields
  BY DEF RequestsOK, RequestOK
<1>1. active \in Scenarios \cup {Off} /\ tick_index \in 0 .. MaxIndex /\ status \subseteq Services
  BY DEF SharedOK
<1>2. active' = active /\ tick_index' = tick_index /\ status' = status /\ ticks' = ticks
  BY DEF BeginEmit, PostSignal, Answered, EmptyFirst, Listed, TickLost, FetchFails, TickTimesOut
<1>3. \E new : RequestOK(new) /\ req' = [req EXCEPT ![t] = new]
  <2>1. CASE BeginEmit(t)
    <3>1. ASSUME NEW code PROVE RequestOK(Refused(code))
      BY IdleIsOK DEF Refused, RequestOK, Fields
    <3>2. RequestOK([Idle EXCEPT !.pc = "emit"])
      BY IdleIsOK DEF RequestOK, Fields
    <3>3. PICK next \in IF active = Off THEN {Refused(409)}
                        ELSE {Refused(503), [Idle EXCEPT !.pc = "emit"]} :
            req' = [req EXCEPT ![t] = next]
      BY <2>1 DEF BeginEmit
    <3>4. next \in {Refused(409), Refused(503), [Idle EXCEPT !.pc = "emit"]}
      OBVIOUS
    <3>5. RequestOK(next)
      BY <3>1, <3>2, <3>4
    <3> QED
      BY <3>3, <3>5
  <2>2. CASE PostSignal(t)
    <3>0. PICK code \in IF active = Off THEN {500} ELSE PostCodes :
            req' = [req EXCEPT ![t].pc = "answered", ![t].code = code, ![t].scenario = active]
      BY <2>2 DEF PostSignal
    <3>1. req' = [req EXCEPT ![t] =
            [req[t] EXCEPT !.pc = "answered", !.code = code, !.scenario = active]]
      BY <3>0
    <3>2. RequestOK([req[t] EXCEPT !.pc = "answered", !.code = code, !.scenario = active])
      BY <1>0, <1>1 DEF RequestOK, Fields
    <3> QED
      BY <3>1, <3>2
  <2>3. CASE Answered(t) \/ FetchFails(t)
    BY <2>3, IdleIsOK DEF Answered, FetchFails
  <2>4. CASE TickLost(t)
    <3>1. req' = [req EXCEPT ![t] = [req[t] EXCEPT !.pc = "list"]] /\ req[t].pc = "ask"
      BY <2>4 DEF TickLost, Goes
    <3>2. RequestOK([req[t] EXCEPT !.pc = "list"])
      BY <1>0, <3>1 DEF RequestOK, Fields
    <3> QED
      BY <3>1, <3>2
  <2>5. CASE Listed(t)
    <3>1. PICK since, rows : req' = [req EXCEPT ![t] =
                       [req[t] EXCEPT !.pc = "answered", !.since = since, !.rows = rows]]
      BY <2>5 DEF Listed
    <3>2. RequestOK([req[t] EXCEPT !.pc = "answered", !.since = since, !.rows = rows])
      BY <1>0 DEF RequestOK, Fields
    <3> QED
      BY <3>1, <3>2
  <2>6. CASE EmptyFirst(t)
    <3>1. req' = [req EXCEPT ![t] = [req[t] EXCEPT !.pc = "ask"]] /\ req[t].pc = "first"
      BY <2>6 DEF EmptyFirst, Goes
    <3>2. RequestOK([req[t] EXCEPT !.pc = "ask"])
      BY <1>0, <3>1 DEF RequestOK, Fields
    <3> QED
      BY <3>1, <3>2
  <2>7. CASE TickTimesOut(t)
    <3>1. req' = [req EXCEPT ![t] = [req[t] EXCEPT !.left = TRUE]]
      BY <2>7 DEF TickTimesOut
    <3>2. RequestOK([req[t] EXCEPT !.left = TRUE])
      BY <1>0 DEF RequestOK, Fields
    <3> QED
      BY <3>1, <3>2
  <2> QED
    BY <2>1, <2>2, <2>3, <2>4, <2>5, <2>6, <2>7
<1>4. RequestsOK'
  BY <1>3, RequestStep
<1> QED
  BY <1>1, <1>2, <1>4, SharedStep

(* SimulatorInv is an invariant of the simulator.                          *)
LEMMA SimulatorInvariant == Spec => []SimulatorInv
<1>1. Init => SimulatorInv
  <2> SUFFICES ASSUME Init PROVE SimulatorInv
    OBVIOUS
  <2>1. status \subseteq Services
    BY SimulatorAssumption DEF Init
  <2>2. RequestsOK
    BY IdleIsOK DEF Init, RequestsOK
  <2>3. ticks = <<>> /\ ticks \in Seq(Tick) /\ Len(ticks) = 0 /\ DOMAIN ticks = {}
    BY DEF Init
  <2>4. SharedOK
    BY <2>1, <2>3, SimulatorAssumption DEF Init, SharedOK, BiasFitsService
  <2> QED
    BY <2>2, <2>4 DEF SimulatorInv
<1>2. SimulatorInv /\ [Next]_vars => SimulatorInv'
  <2> SUFFICES ASSUME SimulatorInv, [Next]_vars PROVE SimulatorInv'
    OBVIOUS
  <2>1. CASE UNCHANGED vars
    BY <2>1 DEF vars, SimulatorInv, SharedOK, RequestsOK, BiasFitsService
  <2>2. CASE Next
    <3>1. Admins \subseteq Threads /\ Tickers \subseteq Threads /\ Emitters \subseteq Threads
          /\ Readers \subseteq Threads
      BY DEF Threads
    <3> QED
      BY <2>2, <3>1, ScenarioStepPreserves, TickStepPreserves, BeginPreserves, AnswerPreserves
      DEF Next
  <2> QED
    BY <2>1, <2>2
<1> QED
  BY <1>1, <1>2, PTL DEF Spec

(* The shared state of the simulator and its buffer keep their shape.      *)
THEOREM SimulatorTypeCorrect == Spec => []SimulatorTypeOK
<1>1. SimulatorInv => SimulatorTypeOK
  BY DEF SimulatorInv, SharedOK, RequestsOK, RequestOK, SimulatorTypeOK
<1> QED
  BY <1>1, SimulatorInvariant, PTL

(* A failing tick is of a scenario that affects its service, for any       *)
(* number of threads that switch scenarios and make ticks without a lock   *)
(* (bias_for reads the active scenario once).                              *)
THEOREM BiasesFitServices == Spec => []BiasFitsService
<1>1. SimulatorInv => BiasFitsService
  BY DEF SimulatorInv, SharedOK
<1> QED
  BY <1>1, SimulatorInvariant, PTL

---------------------------------------------------------------------------
(***************************************************************************)
(* The ingest.                                                             *)
(*                                                                         *)
(* SkipIsSafe compares the saved hash of a file with its content now.  It  *)
(* holds because, as long as nothing unsound happened, contents only go    *)
(* forward: a hash that was read before a content changed never comes up   *)
(* again.  Goal(r, f) is the hash the manifest will have of f when run r   *)
(* ends; OnCourse says that the chunks in the index and in the run's hands *)
(* are those of f whenever that hash is still the current one.  A run that *)
(* skips known files touches only files whose saved hash is outdated, so   *)
(* it may stop anywhere; one that does not must end, or be unsound.        *)
(***************************************************************************)
Job == [selected : SUBSET Files, skip : BOOLEAN, todo : SUBSET Files,
        path : Files \cup {NoFile}, hashes : Hashes, digest : Contents \cup {Unknown},
        children : SUBSET Chunk]

PCs == {"idle", "next", "delete", "chunk", "upsert", "save", "done"}

JobOK(at, j) ==
  /\ j.todo \subseteq j.selected
  /\ IF at \in {"delete", "chunk"} THEN j.path \in j.todo ELSE j.path = NoFile
  /\ \A c \in j.children : c.path \in j.selected \ j.todo

IngestShape ==
  /\ files \in [Files -> Contents]
  /\ stored \subseteq Chunk /\ seen \subseteq Chunk
  /\ manifest \in Hashes
  /\ pc \in [Runs -> PCs]
  /\ job \in [Runs -> Job]
  /\ sound \in BOOLEAN
  /\ edited \subseteq Files
  /\ \A r \in Runs : JobOK(pc[r], job[r])

Busy(r) == pc[r] \notin {"idle", "done"}
Goal(r, f) == IF job[r].skip THEN job[r].hashes[f] ELSE manifest[f]

(* What the index and the run hold of f is f as it is now, if hash is.     *)
Current(hash, f, chunks) == hash <= files[f] /\ (hash = files[f] => Of(f, chunks) = chunk_document(f))

OnCourse(r) ==
  /\ pc[r] \in {"next", "delete", "chunk"} => seen = stored
  /\ pc[r] = "save" => job[r].children = {}
  /\ \A f \in Files :
       \/ pc[r] = "chunk" /\ f = job[r].path
       \/ Current(Goal(r, f), f, stored \cup job[r].children)
  /\ pc[r] \in {"delete", "chunk"} =>
       /\ job[r].digest <= files[job[r].path] /\ manifest[job[r].path] <= files[job[r].path]
       /\ job[r].skip => manifest[job[r].path] < files[job[r].path]
  /\ pc[r] = "chunk" => Of(job[r].path, stored) = {}
  /\ job[r].skip =>
       /\ \A f \in Files : manifest[f] = files[f] => Of(f, job[r].children) = {}
       /\ \A f \in job[r].todo : job[r].hashes[f] = manifest[f]

OneAtATime == \A r, s \in Runs : Busy(r) /\ Busy(s) => r = s
MayStop == \A r \in Runs : Busy(r) => job[r].skip

SoundInv ==
  sound =>
    /\ OneAtATime
    /\ \A r \in Runs : Busy(r) => OnCourse(r)
    /\ MayStop => \A f \in Files : Current(manifest[f], f, stored)

IngestInv == IngestShape /\ SoundInv

(* A run with --no-skip: what it holds of the files it has done is what    *)
(* they are now, unless they were edited.                                  *)
Healing(r) ==
  LET done == job[r].selected \ (job[r].todo \cup edited)
  IN  /\ pc[r] \in {"next", "delete", "chunk"} =>
           /\ seen = stored
           /\ \A f \in done : Of(f, stored) = {} /\ Of(f, job[r].children) = chunk_document(f)
      /\ pc[r] = "chunk" => Of(job[r].path, stored) = {}
      /\ pc[r] \in {"upsert", "save", "done"} =>
           /\ job[r].todo = {}
           /\ pc[r] # "upsert" => job[r].children = {}
           /\ \A f \in done : Of(f, stored \cup job[r].children) = chunk_document(f)

HealInv == \A r \in Runs : ~job[r].skip => Healing(r)

(* A run that has not begun.                                               *)
LEMMA NoJobIsOK == NoJob \in Job /\ \A at \in PCs \ {"delete", "chunk"} : JobOK(at, NoJob)
<1>1. [f \in Files |-> Unknown] \in Hashes
  BY DEF Hashes
<1>2. NoJob \in Job
  BY <1>1 DEF NoJob, Job
<1>3. NoJob.todo = {} /\ NoJob.selected = {} /\ NoJob.path = NoFile /\ NoJob.children = {}
  BY DEF NoJob
<1> QED
  BY <1>2, <1>3 DEF JobOK

(* One run takes a step.                                                   *)
LEMMA RunShapes ==
  ASSUME IngestShape, NEW r \in Runs, NEW to \in PCs, NEW new \in Job, JobOK(to, new),
         pc' = [pc EXCEPT ![r] = to], job' = [job EXCEPT ![r] = new]
  PROVE  /\ pc' \in [Runs -> PCs] /\ job' \in [Runs -> Job]
         /\ \A s \in Runs : JobOK(pc'[s], job'[s])
         /\ pc'[r] = to /\ job'[r] = new
         /\ \A s \in Runs : s # r => pc'[s] = pc[s] /\ job'[s] = job[s]
<1>1. /\ pc' \in [Runs -> PCs] /\ job' \in [Runs -> Job]
      /\ pc'[r] = to /\ job'[r] = new
      /\ \A s \in Runs : s # r => pc'[s] = pc[s] /\ job'[s] = job[s]
  BY DEF IngestShape
<1> QED
  BY <1>1 DEF IngestShape

(* What the steps of a run write, as the parts of the shape need it.       *)
RunOf(r, to, new) ==
  /\ to \in PCs /\ new \in Job /\ JobOK(to, new)
  /\ pc' = [pc EXCEPT ![r] = to]
  /\ job' = [job EXCEPT ![r] = new]

(* Reading the manifest and beginning.                                     *)
LEMMA StartRunShape ==
  ASSUME IngestShape, NEW r \in Runs, NEW selected \in Selections, NEW skip \in BOOLEAN,
         StartRun(r, selected, skip)
  PROVE  \E new : /\ RunOf(r, "next", new)
                  /\ new.selected = selected /\ new.todo = selected /\ new.skip = skip
                  /\ new.children = {} /\ new.path = NoFile
                  /\ skip => new.hashes = manifest
<1> DEFINE hashes == IF skip THEN manifest ELSE NoJob.hashes
           new == [NoJob EXCEPT !.selected = selected, !.todo = selected, !.skip = skip,
                                !.hashes = hashes]
<1>1. hashes \in Hashes /\ (skip => hashes = manifest)
  BY NoJobIsOK DEF IngestShape, Job
<1>2. selected \in SUBSET Files
  BY DEF Selections
<1>3. pc' = [pc EXCEPT ![r] = "next"] /\ job' = [job EXCEPT ![r] = new]
  BY DEF StartRun
<1> HIDE DEF hashes
<1>4. new \in Job
  BY <1>1, <1>2, NoJobIsOK, ZenonT(60) DEF Job
<1>5. /\ new.selected = selected /\ new.todo = selected /\ new.skip = skip
      /\ new.hashes = hashes /\ new.children = NoJob.children /\ new.path = NoJob.path
  BY NoJobIsOK, ZenonT(60) DEF Job
<1>6. NoJob.children = {} /\ NoJob.path = NoFile
  BY DEF NoJob
<1> HIDE DEF new
<1>7. JobOK("next", new)
  BY <1>5, <1>6 DEF JobOK
<1>8. "next" \in PCs
  BY DEF PCs
<1> QED
  BY <1>1, <1>3, <1>4, <1>5, <1>6, <1>7, <1>8 DEF RunOf

(* Hashing the next file.                                                  *)
LEMMA ReadDigestShape ==
  ASSUME IngestShape, NEW r \in Runs, NEW f \in Files, ReadDigest(r, f)
  PROVE  \E to, new :
           /\ RunOf(r, to, new)
           /\ \/ /\ to = "next" /\ job[r].skip /\ job[r].hashes[f] = files[f]
                 /\ new.todo = job[r].todo \ {f} /\ new.path = NoFile
              \/ /\ to = "delete" /\ ~(job[r].skip /\ job[r].hashes[f] = files[f])
                 /\ new.todo = job[r].todo /\ new.path = f
           /\ new.digest = files[f]
           /\ new.selected = job[r].selected /\ new.skip = job[r].skip
           /\ new.hashes = job[r].hashes /\ new.children = job[r].children
<1>1. /\ job[r] \in Job /\ JobOK(pc[r], job[r]) /\ pc[r] = "next" /\ f \in job[r].todo
      /\ files[f] \in Contents /\ DOMAIN pc = Runs
  BY DEF IngestShape, ReadDigest
<1>2. job[r].path = NoFile /\ job[r].todo \in SUBSET Files
  BY <1>1 DEF JobOK, Job
<1>3. CASE job[r].skip /\ job[r].hashes[f] = files[f]
  <2> DEFINE new == [job[r] EXCEPT !.todo = job[r].todo \ {f}, !.digest = files[f]]
  <2>1. job' = [job EXCEPT ![r] = new] /\ pc' = pc
    BY <1>3 DEF ReadDigest
  <2>2. new \in Job
    <3>1. job[r].todo \ {f} \in SUBSET Files /\ files[f] \in Contents \cup {Unknown}
      BY <1>1, <1>2
    <3> QED
      BY <1>1, <3>1, ZenonT(60) DEF Job
  <2>3. /\ new.todo = job[r].todo \ {f} /\ new.digest = files[f] /\ new.path = job[r].path
        /\ new.selected = job[r].selected /\ new.skip = job[r].skip
        /\ new.hashes = job[r].hashes /\ new.children = job[r].children
    BY <1>1, ZenonT(60) DEF Job
  <2> HIDE DEF new
  <2>4. JobOK("next", new)
    BY <1>1, <1>2, <2>3 DEF JobOK
  <2>5. "next" \in PCs /\ pc' = [pc EXCEPT ![r] = "next"]
    <3>1. pc \in [Runs -> PCs]
      BY DEF IngestShape
    <3> QED
      BY <1>1, <2>1, <3>1 DEF PCs
  <2>6. RunOf(r, "next", new)
    BY <2>1, <2>2, <2>4, <2>5 DEF RunOf
  <2> QED
    BY <1>2, <1>3, <2>3, <2>6
<1>4. CASE ~(job[r].skip /\ job[r].hashes[f] = files[f])
  <2> DEFINE new == [job[r] EXCEPT !.path = f, !.digest = files[f]]
  <2>1. job' = [job EXCEPT ![r] = new] /\ pc' = [pc EXCEPT ![r] = "delete"]
    BY <1>4 DEF ReadDigest
  <2>2. new \in Job
    <3>1. f \in Files \cup {NoFile} /\ files[f] \in Contents \cup {Unknown}
      BY <1>1
    <3> QED
      BY <1>1, <3>1, ZenonT(60) DEF Job
  <2>3. /\ new.todo = job[r].todo /\ new.digest = files[f] /\ new.path = f
        /\ new.selected = job[r].selected /\ new.skip = job[r].skip
        /\ new.hashes = job[r].hashes /\ new.children = job[r].children
    BY <1>1, ZenonT(60) DEF Job
  <2> HIDE DEF new
  <2>4. JobOK("delete", new) /\ "delete" \in PCs
    BY <1>1, <1>2, <2>3 DEF JobOK, PCs
  <2>6. RunOf(r, "delete", new)
    BY <2>1, <2>2, <2>4 DEF RunOf
  <2> QED
    BY <1>4, <2>3, <2>6
<1> QED
  BY <1>3, <1>4

(* Cutting the file that was deleted into chunks.                          *)
LEMMA ChunkFileShape ==
  ASSUME IngestShape, NEW r \in Runs, ChunkFile(r)
  PROVE  /\ job[r].path \in job[r].todo /\ job[r].path \in Files
         /\ \E new :
           /\ RunOf(r, "next", new)
           /\ new.children = job[r].children \cup chunk_document(job[r].path)
           /\ new.hashes = [job[r].hashes EXCEPT ![job[r].path] = job[r].digest]
           /\ new.todo = job[r].todo \ {job[r].path}
           /\ new.selected = job[r].selected /\ new.skip = job[r].skip
<1> DEFINE path == job[r].path
           chunks == job[r].children \cup chunk_document(path)
           hashes == [job[r].hashes EXCEPT ![path] = job[r].digest]
           new == [job[r] EXCEPT !.children = chunks, !.hashes = hashes,
                                 !.todo = job[r].todo \ {path}, !.path = NoFile]
<1>1. job[r] \in Job /\ JobOK(pc[r], job[r]) /\ pc[r] = "chunk"
  BY DEF IngestShape, ChunkFile
<1>2. path \in job[r].todo /\ path \in Files
  BY <1>1 DEF JobOK, Job
<1>3. chunks \in SUBSET Chunk
  BY <1>1 DEF Job, chunk_document
<1>4. hashes \in Hashes
  BY <1>1, <1>2 DEF Job, Hashes
<1>5. job[r].todo \ {path} \in SUBSET Files
  BY <1>1 DEF Job
<1>6. job' = [job EXCEPT ![r] = new] /\ pc' = [pc EXCEPT ![r] = "next"]
  BY DEF ChunkFile
<1>7. \A c \in chunks : c.path \in job[r].selected \ (job[r].todo \ {path})
  <2>1. path \in job[r].selected
    BY <1>1, <1>2 DEF JobOK
  <2>2. \A c \in chunk_document(path) : c.path = path
    BY DEF chunk_document
  <2>3. \A c \in job[r].children : c.path \in job[r].selected \ job[r].todo
    BY <1>1 DEF JobOK
  <2> QED
    BY <2>1, <2>2, <2>3
<1> HIDE DEF chunks, hashes
<1>8. new \in Job
  BY <1>1, <1>3, <1>4, <1>5, ZenonT(60) DEF Job
<1>9. /\ new.children = chunks /\ new.hashes = hashes /\ new.todo = job[r].todo \ {path}
      /\ new.path = NoFile /\ new.selected = job[r].selected /\ new.skip = job[r].skip
  BY <1>1, ZenonT(60) DEF Job
<1> HIDE DEF new
<1>10. JobOK("next", new) /\ "next" \in PCs
  <2>1. job[r].todo \subseteq job[r].selected
    BY <1>1 DEF JobOK
  <2> QED
    BY <1>7, <1>9, <2>1 DEF JobOK, PCs
<1> QED
  BY <1>2, <1>6, <1>8, <1>9, <1>10 DEF RunOf, chunks, hashes

(* Writing a batch.                                                        *)
LEMMA UpsertShape ==
  ASSUME IngestShape, NEW r \in Runs, NEW batch, UpsertBatch(r, batch)
  PROVE  \E new :
           /\ RunOf(r, "upsert", new)
           /\ new.children = job[r].children \ batch
           /\ new.hashes = job[r].hashes /\ new.todo = job[r].todo
           /\ new.selected = job[r].selected /\ new.skip = job[r].skip
<1> DEFINE new == [job[r] EXCEPT !.children = job[r].children \ batch]
<1>1. job[r] \in Job /\ JobOK(pc[r], job[r]) /\ pc[r] = "upsert" /\ pc \in [Runs -> PCs]
  BY DEF IngestShape, UpsertBatch
<1>2. job[r].children \ batch \in SUBSET Chunk
  BY <1>1 DEF Job
<1>3. job' = [job EXCEPT ![r] = new] /\ pc' = [pc EXCEPT ![r] = "upsert"]
  BY <1>1 DEF UpsertBatch
<1>4. new \in Job
  BY <1>1, <1>2, ZenonT(60) DEF Job
<1>5. /\ new.children = job[r].children \ batch /\ new.path = job[r].path
      /\ new.hashes = job[r].hashes /\ new.todo = job[r].todo
      /\ new.selected = job[r].selected /\ new.skip = job[r].skip
  BY <1>1, ZenonT(60) DEF Job
<1> HIDE DEF new
<1>6. JobOK("upsert", new) /\ "upsert" \in PCs
  BY <1>1, <1>5 DEF JobOK, PCs
<1> QED
  BY <1>3, <1>4, <1>5, <1>6 DEF RunOf

(* The steps that move on with the job as it is.                           *)
LEMMA MovesOnShape ==
  ASSUME IngestShape, NEW r \in Runs, NEW to \in PCs,
         pc' = [pc EXCEPT ![r] = to], job' = job,
         pc[r] \in {"delete", "chunk"} <=> to \in {"delete", "chunk"}
  PROVE  RunOf(r, to, job[r])
<1>1. job \in [Runs -> Job] /\ JobOK(pc[r], job[r])
  BY DEF IngestShape
<1>2. job' = [job EXCEPT ![r] = job[r]] /\ job[r] \in Job
  BY <1>1
<1>3. JobOK(to, job[r])
  BY <1>1 DEF JobOK
<1> QED
  BY <1>2, <1>3 DEF RunOf

(* A run that ends badly.                                                  *)
LEMMA EndsShape ==
  ASSUME IngestShape, NEW r \in Runs, Ends(r)
  PROVE  RunOf(r, "idle", NoJob) /\ NoJob.skip = TRUE
<1>1. NoJob \in Job /\ JobOK("idle", NoJob) /\ "idle" \in PCs
  BY NoJobIsOK DEF PCs
<1> QED
  BY <1>1 DEF Ends, RunOf, NoJob

(* The shape from its parts.                                               *)
LEMMA ShapeFromParts ==
  ASSUME IngestShape, NEW r \in Runs, NEW to, NEW new, RunOf(r, to, new),
         files' = files, stored' \subseteq Chunk, seen' \subseteq Chunk, manifest' \in Hashes,
         edited' \subseteq Files, sound' \in BOOLEAN
  PROVE  IngestShape'
BY RunShapes DEF RunOf, IngestShape

(* Every step keeps the shape.                                             *)
LEMMA ShapeStep == IngestShape /\ [IngestNext]_ingestVars => IngestShape'
<1> SUFFICES ASSUME IngestShape, [IngestNext]_ingestVars PROVE IngestShape'
  OBVIOUS
<1>0. /\ files \in [Files -> Contents] /\ stored \subseteq Chunk /\ seen \subseteq Chunk
      /\ manifest \in Hashes /\ edited \subseteq Files /\ sound \in BOOLEAN
      /\ \A r \in Runs : job[r] \in Job
  BY DEF IngestShape
<1>1. CASE UNCHANGED ingestVars
  BY <1>1 DEF ingestVars, IngestShape
<1>2. ASSUME NEW r \in Runs, RunStep(r) PROVE IngestShape'
  <2>0. /\ job[r].skip \in BOOLEAN /\ job[r].hashes \in Hashes /\ job[r].children \subseteq Chunk
    BY <1>0 DEF Job
  <2>1. ASSUME NEW selected \in Selections, NEW skip \in BOOLEAN, StartRun(r, selected, skip)
        PROVE  IngestShape'
    <3>1. PICK new : RunOf(r, "next", new)
      BY <2>1, StartRunShape
    <3>2. /\ files' = files /\ stored' = stored /\ seen' = seen /\ manifest' = manifest
          /\ edited' \subseteq Files /\ sound' \in BOOLEAN
      BY <1>0, <2>1 DEF StartRun
    <3> QED
      BY <1>0, <3>1, <3>2, ShapeFromParts
  <2>2. ASSUME NEW f \in Files, ReadDigest(r, f) PROVE IngestShape'
    <3>1. PICK to, new : RunOf(r, to, new)
      BY <2>2, ReadDigestShape
    <3>2. UNCHANGED <<files, stored, seen, manifest, edited, sound>>
      BY <2>2 DEF ReadDigest
    <3> QED
      BY <1>0, <3>1, <3>2, ShapeFromParts
  <2>3. CASE DeleteChunks(r)
    <3>1. RunOf(r, "chunk", job[r])
      BY <2>3, MovesOnShape DEF DeleteChunks, PCs
    <3>2. /\ files' = files /\ manifest' = manifest /\ edited' = edited /\ sound' = sound
          /\ stored' \subseteq Chunk /\ seen' \subseteq Chunk
      BY <1>0, <2>3 DEF DeleteChunks
    <3> QED
      BY <1>0, <3>1, <3>2, ShapeFromParts
  <2>4. CASE ChunkFile(r)
    <3>1. PICK new : RunOf(r, "next", new)
      BY <2>4, ChunkFileShape
    <3>2. UNCHANGED <<files, stored, seen, manifest, edited, sound>>
      BY <2>4 DEF ChunkFile
    <3> QED
      BY <1>0, <3>1, <3>2, ShapeFromParts
  <2>5. CASE EmbedChunks(r)
    <3>1. \E to : RunOf(r, to, job[r])
      BY <2>5, MovesOnShape DEF EmbedChunks, PCs
    <3>2. UNCHANGED <<files, stored, seen, manifest, edited, sound>>
      BY <2>5 DEF EmbedChunks
    <3> QED
      BY <1>0, <3>1, <3>2, ShapeFromParts
  <2>6. ASSUME NEW batch \in SUBSET job[r].children, UpsertBatch(r, batch) PROVE IngestShape'
    <3>1. PICK new : RunOf(r, "upsert", new)
      BY <2>6, UpsertShape
    <3>2. /\ UNCHANGED <<files, seen, manifest, edited, sound>>
          /\ stored' \subseteq Chunk
      BY <1>0, <2>0, <2>6 DEF UpsertBatch
    <3> QED
      BY <1>0, <3>1, <3>2, ShapeFromParts
  <2>7. CASE RefreshIndex(r)
    <3>1. RunOf(r, "save", job[r])
      BY <2>7, MovesOnShape DEF RefreshIndex, PCs
    <3>2. UNCHANGED <<files, stored, manifest, edited, sound>> /\ seen' = stored
      BY <2>7 DEF RefreshIndex
    <3> QED
      BY <1>0, <3>1, <3>2, ShapeFromParts
  <2>8. CASE SaveManifest(r)
    <3>1. RunOf(r, "done", job[r])
      BY <2>8, MovesOnShape DEF SaveManifest, PCs
    <3>2. UNCHANGED <<files, stored, seen, edited, sound>> /\ manifest' \in Hashes
      BY <1>0, <2>0, <2>8 DEF SaveManifest
    <3> QED
      BY <1>0, <3>1, <3>2, ShapeFromParts
  <2>9. ASSUME NEW written \in SUBSET job[r].children, BulkFails(r, written) PROVE IngestShape'
    <3>1. RunOf(r, "idle", NoJob)
      BY <2>9, EndsShape DEF BulkFails
    <3>2. /\ UNCHANGED <<files, seen, manifest, edited>>
          /\ stored' \subseteq Chunk /\ sound' \in BOOLEAN
      BY <1>0, <2>0, <2>9 DEF BulkFails, Ends
    <3> QED
      BY <1>0, <3>1, <3>2, ShapeFromParts
  <2>10. CASE EmbedFails(r) \/ KillRun(r)
    <3>1. RunOf(r, "idle", NoJob)
      BY <2>10, EndsShape DEF EmbedFails, KillRun
    <3>2. UNCHANGED <<files, stored, seen, manifest, edited>> /\ sound' \in BOOLEAN
      BY <1>0, <2>0, <2>10 DEF EmbedFails, KillRun, Ends
    <3> QED
      BY <1>0, <3>1, <3>2, ShapeFromParts
  <2>11. CASE RequestFails(r)
    <3>1. RunOf(r, "idle", NoJob)
      BY <2>11, EndsShape DEF RequestFails
    <3>2. /\ UNCHANGED <<files, manifest, edited>> /\ sound' \in BOOLEAN
          /\ stored' \subseteq stored /\ seen' \in {seen, stored'}
      BY <1>0, <2>0, <2>11 DEF RequestFails, Ends
    <3> QED
      BY <1>0, <3>1, <3>2, ShapeFromParts
  <2> QED
    BY <1>2, <2>1, <2>2, <2>3, <2>4, <2>5, <2>6, <2>7, <2>8, <2>9, <2>10, <2>11 DEF RunStep
<1>3. ASSUME NEW f \in Files, NEW content \in Contents, EditFile(f, content) PROVE IngestShape'
  BY <1>3 DEF EditFile, IngestShape
<1>4. CASE IndexInterval
  BY <1>4 DEF IndexInterval, IngestShape
<1>5. CASE LoseIndex
  <2>1. /\ pc' \in [Runs -> PCs] /\ job' \in [Runs -> Job]
        /\ \A r \in Runs : pc'[r] = "idle" /\ job'[r] = NoJob
    BY <1>5, NoJobIsOK DEF LoseIndex, PCs
  <2>2. JobOK("idle", NoJob)
    BY NoJobIsOK DEF PCs
  <2> QED
    BY <1>5, <2>1, <2>2 DEF LoseIndex, IngestShape
<1> QED
  BY <1>1, <1>2, <1>3, <1>4, <1>5 DEF IngestNext

(* The shape holds in the initial state.                                   *)
LEMMA ShapeInit == IngestInit => IngestShape
<1> SUFFICES ASSUME IngestInit PROVE IngestShape
  OBVIOUS
<1>1. files \in [Files -> Contents] /\ manifest \in Hashes
  BY IngestAssumption DEF IngestInit, Contents, Hashes
<1>2. pc \in [Runs -> PCs] /\ job \in [Runs -> Job] /\ \A r \in Runs : JobOK(pc[r], job[r])
  <2>1. JobOK("idle", NoJob) /\ "idle" \in PCs
    BY NoJobIsOK DEF PCs
  <2> QED
    BY <2>1, NoJobIsOK DEF IngestInit
<1> QED
  BY <1>1, <1>2 DEF IngestInit, IngestShape

(* The index, the manifest and the runs keep their shape, and a run keeps  *)
(* to its selection, whatever fails or overlaps.                           *)
THEOREM IngestTypeCorrect == IngestSpec => []IngestTypeOK
<1>1. IngestShape => IngestTypeOK
  <2> SUFFICES ASSUME IngestShape PROVE IngestTypeOK
    OBVIOUS
  <2>1. ASSUME NEW r \in Runs
        PROVE  /\ job[r].todo \subseteq job[r].selected /\ job[r].selected \subseteq Files
               /\ job[r].hashes \in Hashes /\ job[r].digest \in Contents \cup {Unknown}
               /\ IF pc[r] \in {"delete", "chunk"} THEN job[r].path \in job[r].todo
                                                   ELSE job[r].path = NoFile
               /\ {c.path : c \in job[r].children} \subseteq job[r].selected \ job[r].todo
    <3>1. job[r] \in Job /\ JobOK(pc[r], job[r])
      BY DEF IngestShape
    <3> QED
      BY <3>1 DEF Job, JobOK
  <2> QED
    BY <2>1 DEF IngestShape, IngestTypeOK, PCs
<1> QED
  BY <1>1, ShapeInit, ShapeStep, PTL DEF IngestSpec

(* Hashes are numbers.                                                     *)
LEMMA HashNumbers ==
  ASSUME IngestShape
  PROVE  /\ \A f \in Files : files[f] \in Nat /\ manifest[f] \in Nat
         /\ \A r \in Runs : job[r].digest \in Nat /\ \A f \in Files : job[r].hashes[f] \in Nat
<1>1. Contents \subseteq Nat /\ Contents \cup {Unknown} \subseteq Nat
  BY IngestAssumption DEF Contents, Unknown
<1>2. files \in [Files -> Contents] /\ manifest \in [Files -> Contents \cup {Unknown}]
  BY DEF IngestShape, Hashes
<1>3. \A r \in Runs : job[r].digest \in Contents \cup {Unknown}
                      /\ job[r].hashes \in [Files -> Contents \cup {Unknown}]
  BY DEF IngestShape, Job, Hashes
<1> QED
  BY <1>1, <1>2, <1>3

(* Deleting a file leaves none of its chunks and all of the others.        *)
LEMMA OfDeleted ==
  /\ \A f, A : Of(f, A \ Of(f, A)) = {}
  /\ \A f, g, A, B : f # g => Of(g, A \ Of(f, B)) = Of(g, A)
  BY DEF Of

(* The chunks of a document are its file's.                                *)
LEMMA OfDocument ==
  /\ \A f : Of(f, chunk_document(f)) = chunk_document(f)
  /\ \A f, g : f # g => Of(g, chunk_document(f)) = {}
  BY DEF Of, chunk_document

(* The step of the only run at work, or of one that begins when none is.   *)
LEMMA SoundFromParts ==
  ASSUME IngestInv, NEW r \in Runs, NEW to, NEW new, RunOf(r, to, new),
         sound, Busy(r) \/ Quiet,
         to \notin {"idle", "done"} => OnCourse(r)',
         to \in {"idle", "done"} \/ new.skip => \A f \in Files : Current(manifest[f], f, stored)'
  PROVE  SoundInv'
<1>1. /\ pc'[r] = to /\ job'[r] = new
      /\ \A s \in Runs : s # r => pc'[s] = pc[s]
  BY RunShapes DEF RunOf, IngestInv
<1>2. \A s \in Runs : s # r => ~Busy(s)
  BY DEF IngestInv, SoundInv, OneAtATime, Quiet, Busy
<1>3. \A s \in Runs : Busy(s)' => s = r /\ to \notin {"idle", "done"}
  BY <1>1, <1>2 DEF Busy
<1>4. OneAtATime'
  BY <1>3 DEF OneAtATime
<1>5. MayStop' => to \in {"idle", "done"} \/ new.skip
  BY <1>1 DEF MayStop, Busy
<1> QED
  BY <1>3, <1>4, <1>5 DEF SoundInv

(* What a sound state says of the run at work.                             *)
LEMMA AtWork ==
  ASSUME IngestInv, sound, NEW r \in Runs, Busy(r)
  PROVE  /\ OnCourse(r) /\ job[r] \in Job /\ JobOK(pc[r], job[r])
         /\ job[r].skip => \A f \in Files : Current(manifest[f], f, stored)
<1>1. \A s \in Runs : Busy(s) => s = r
  BY DEF IngestInv, SoundInv, OneAtATime
<1>2. job[r].skip => MayStop
  BY <1>1 DEF MayStop
<1> QED
  BY <1>2 DEF IngestInv, SoundInv, IngestShape

(* Beginning: nobody else is at work, so the index is as the manifest says.*)
LEMMA StartRunSound ==
  ASSUME IngestInv, NEW r \in Runs, NEW selected \in Selections, NEW skip \in BOOLEAN,
         StartRun(r, selected, skip)
  PROVE  SoundInv'
<1> SUFFICES ASSUME sound' PROVE SoundInv'
  BY DEF SoundInv
<1>1. /\ sound /\ Quiet /\ seen = stored
      /\ files' = files /\ stored' = stored /\ seen' = seen /\ manifest' = manifest
  BY DEF StartRun
<1>2. \A f \in Files : Current(manifest[f], f, stored)
  <2>1. MayStop
    BY <1>1 DEF MayStop, Busy, Quiet
  <2> QED
    BY <1>1, <2>1 DEF IngestInv, SoundInv
<1>3. PICK new : /\ RunOf(r, "next", new)
                 /\ new.todo = selected /\ new.skip = skip /\ new.children = {}
                 /\ skip => new.hashes = manifest
  BY StartRunShape DEF IngestInv
<1>4. pc'[r] = "next" /\ job'[r] = new
  BY <1>3, RunShapes DEF RunOf, IngestInv
<1>5. \A f \in Files : Current(manifest[f], f, stored)'
  BY <1>1, <1>2 DEF Current, chunk_document
<1>6. \A f \in Files : Current(Goal(r, f), f, stored \cup job[r].children)'
  <2>1. \A f : Goal(r, f)' = manifest[f]
    BY <1>1, <1>3, <1>4 DEF Goal
  <2>2. stored' \cup job'[r].children = stored
    BY <1>1, <1>3, <1>4
  <2> QED
    BY <1>1, <1>5, <2>1, <2>2 DEF Current
<1>7. selected \subseteq Files
  BY DEF Selections
<1>8. OnCourse(r)'
  BY <1>1, <1>3, <1>4, <1>6, <1>7 DEF OnCourse, Of
<1> QED
  BY <1>1, <1>3, <1>5, <1>8, SoundFromParts

(* A file is deleted only when its saved hash is outdated or the run does  *)
(* not skip.                                                               *)
LEMMA ReadDigestSound ==
  ASSUME IngestInv, NEW r \in Runs, NEW f \in Files, ReadDigest(r, f)
  PROVE  SoundInv'
<1> SUFFICES ASSUME sound' PROVE SoundInv'
  BY DEF SoundInv
<1>1. /\ sound /\ pc[r] = "next" /\ f \in job[r].todo
      /\ files' = files /\ stored' = stored /\ seen' = seen /\ manifest' = manifest
  BY DEF ReadDigest
<1>2. /\ OnCourse(r) /\ Busy(r)
      /\ job[r].skip => \A g \in Files : Current(manifest[g], g, stored)
  BY <1>1, AtWork DEF Busy
<1>3. PICK to, new :
        /\ RunOf(r, to, new)
        /\ \/ /\ to = "next" /\ job[r].skip /\ job[r].hashes[f] = files[f]
              /\ new.todo = job[r].todo \ {f} /\ new.path = NoFile
           \/ /\ to = "delete" /\ ~(job[r].skip /\ job[r].hashes[f] = files[f])
              /\ new.todo = job[r].todo /\ new.path = f
        /\ new.digest = files[f]
        /\ new.skip = job[r].skip /\ new.hashes = job[r].hashes /\ new.children = job[r].children
  BY ReadDigestShape DEF IngestInv
<1>4. pc'[r] = to /\ job'[r] = new
  BY <1>3, RunShapes DEF RunOf, IngestInv
<1>5. \A g \in Files : Current(Goal(r, g), g, stored \cup job[r].children)
  BY <1>1, <1>2 DEF OnCourse
<1>6. \A g : Goal(r, g)' = Goal(r, g)
  BY <1>1, <1>3, <1>4 DEF Goal
<1>7. \A g \in Files : Current(Goal(r, g), g, stored \cup job[r].children)'
  <2>1. stored' \cup job'[r].children = stored \cup job[r].children
    BY <1>1, <1>3, <1>4
  <2>2. \A g : chunk_document(g)' = chunk_document(g)
    BY <1>1 DEF chunk_document
  <2> QED
    BY <1>1, <1>5, <1>6, <2>1, <2>2 DEF Current
<1>8. /\ manifest[f] <= files[f] /\ files[f] <= files[f]
      /\ job[r].skip /\ job[r].hashes[f] # files[f] => manifest[f] < files[f]
  <2>1. files[f] \in Nat /\ manifest[f] \in Nat
    BY HashNumbers DEF IngestInv
  <2>2. Goal(r, f) <= files[f]
    BY <1>5 DEF Current
  <2>3. job[r].skip => job[r].hashes[f] = manifest[f]
    BY <1>1, <1>2 DEF OnCourse
  <2>4. Goal(r, f) = manifest[f]
    BY <2>3 DEF Goal
  <2> QED
    BY <2>1, <2>2, <2>3, <2>4
<1>9. OnCourse(r)'
  <2>1. /\ seen = stored
        /\ job[r].skip =>
             /\ \A g \in Files : manifest[g] = files[g] => Of(g, job[r].children) = {}
             /\ \A g \in job[r].todo : job[r].hashes[g] = manifest[g]
    BY <1>1, <1>2 DEF OnCourse
  <2> QED
    BY <1>1, <1>3, <1>4, <1>7, <1>8, <2>1 DEF OnCourse
<1>10. new.skip => \A g \in Files : Current(manifest[g], g, stored)'
  BY <1>1, <1>2, <1>3 DEF Current, chunk_document
<1>11. to \notin {"idle", "done"}
  BY <1>3
<1> QED
  BY <1>1, <1>2, <1>3, <1>9, <1>10, <1>11, SoundFromParts

(* The deletion is complete, because a search finds all that is stored.    *)
LEMMA DeleteChunksSound ==
  ASSUME IngestInv, NEW r \in Runs, DeleteChunks(r)
  PROVE  SoundInv'
<1> SUFFICES ASSUME sound' PROVE SoundInv'
  BY DEF SoundInv
<1> DEFINE p == job[r].path
<1>0. sound /\ pc[r] = "delete"
  BY DEF DeleteChunks
<1>a. Alone(r)
  BY <1>0 DEF Alone, IngestInv, SoundInv, OneAtATime, Busy
<1>1. /\ sound /\ pc[r] = "delete"
      /\ files' = files /\ manifest' = manifest /\ job' = job
      /\ stored' = stored \ Of(p, seen) /\ seen' = stored'
  BY <1>a DEF DeleteChunks
<1>2. /\ OnCourse(r) /\ Busy(r)
      /\ job[r].skip => \A g \in Files : Current(manifest[g], g, stored)
  BY <1>1, AtWork DEF Busy
<1>3. RunOf(r, "chunk", job[r])
  BY <1>1, MovesOnShape DEF DeleteChunks, PCs, IngestInv
<1>4. pc'[r] = "chunk"
  BY <1>3, RunShapes DEF RunOf, IngestInv
<1>5. \A g : chunk_document(g)' = chunk_document(g)
  BY <1>1 DEF chunk_document
<1>6. /\ seen = stored
      /\ job[r].digest <= files[p] /\ manifest[p] <= files[p]
      /\ job[r].skip => manifest[p] < files[p]
      /\ \A g \in Files : Current(Goal(r, g), g, stored \cup job[r].children)
      /\ job[r].skip =>
           /\ \A g \in Files : manifest[g] = files[g] => Of(g, job[r].children) = {}
           /\ \A g \in job[r].todo : job[r].hashes[g] = manifest[g]
  BY <1>1, <1>2 DEF OnCourse
<1>7. Of(p, stored') = {} /\ \A g : g # p => Of(g, stored') = Of(g, stored)
  BY <1>1, <1>6, OfDeleted
<1>8. \A g \in Files : g = p \/ Current(Goal(r, g), g, stored \cup job[r].children)'
  <2> SUFFICES ASSUME NEW g \in Files, g # p
               PROVE  Current(Goal(r, g), g, stored \cup job[r].children)'
    OBVIOUS
  <2>1. Goal(r, g)' = Goal(r, g)
    BY <1>1 DEF Goal
  <2>2. Of(g, stored' \cup job'[r].children) = Of(g, stored \cup job[r].children)
    <3>1. Of(g, stored' \cup job[r].children) = Of(g, stored') \cup Of(g, job[r].children)
      BY DEF Of
    <3>2. Of(g, stored \cup job[r].children) = Of(g, stored) \cup Of(g, job[r].children)
      BY DEF Of
    <3> QED
      BY <1>1, <1>7, <3>1, <3>2, Zenon
  <2>3. Current(Goal(r, g), g, stored \cup job[r].children)
    BY <1>6
  <2> QED
    BY <1>1, <1>5, <2>1, <2>2, <2>3 DEF Current
<1>9. OnCourse(r)'
  BY <1>1, <1>4, <1>6, <1>7, <1>8 DEF OnCourse
<1>10. job[r].skip => \A g \in Files : Current(manifest[g], g, stored)'
  <2> SUFFICES ASSUME job[r].skip, NEW g \in Files PROVE Current(manifest[g], g, stored)'
    OBVIOUS
  <2>1. Current(manifest[g], g, stored)
    BY <1>2
  <2>2. CASE g = p
    <3>1. files[g] \in Nat /\ manifest[g] \in Nat
      BY HashNumbers DEF IngestInv
    <3>2. manifest[g] < files[g]
      BY <1>6, <2>2
    <3>3. manifest[g] <= files[g] /\ manifest[g] # files[g]
      BY <3>1, <3>2
    <3> QED
      BY <1>1, <3>3 DEF Current
  <2>3. CASE g # p
    BY <1>1, <1>5, <1>7, <2>1, <2>3 DEF Current
  <2> QED
    BY <2>2, <2>3
<1> QED
  BY <1>1, <1>2, <1>3, <1>9, <1>10, SoundFromParts

(* The chunks are of the content at the second read, the hash is of the    *)
(* first: if the hash is still the current one, so is the content.         *)
LEMMA ChunkFileSound ==
  ASSUME IngestInv, NEW r \in Runs, ChunkFile(r)
  PROVE  SoundInv'
<1> SUFFICES ASSUME sound' PROVE SoundInv'
  BY DEF SoundInv
<1> DEFINE p == job[r].path
<1>1. /\ sound /\ pc[r] = "chunk"
      /\ files' = files /\ stored' = stored /\ seen' = seen /\ manifest' = manifest
  BY DEF ChunkFile
<1>2. /\ OnCourse(r) /\ Busy(r) /\ job[r] \in Job /\ JobOK(pc[r], job[r])
      /\ job[r].skip => \A g \in Files : Current(manifest[g], g, stored)
  BY <1>1, AtWork DEF Busy
<1>3. /\ p \in job[r].todo /\ p \in Files
      /\ \E new : /\ RunOf(r, "next", new)
                  /\ new.children = job[r].children \cup chunk_document(p)
                  /\ new.hashes = [job[r].hashes EXCEPT ![p] = job[r].digest]
                  /\ new.todo = job[r].todo \ {p} /\ new.skip = job[r].skip
  BY ChunkFileShape DEF IngestInv
<1>4. PICK new : /\ RunOf(r, "next", new)
                 /\ new.children = job[r].children \cup chunk_document(p)
                 /\ new.hashes = [job[r].hashes EXCEPT ![p] = job[r].digest]
                 /\ new.todo = job[r].todo \ {p} /\ new.skip = job[r].skip
  BY <1>3
<1>5. pc'[r] = "next" /\ job'[r] = new
  BY <1>4, RunShapes DEF RunOf, IngestInv
<1>6. \A g : chunk_document(g)' = chunk_document(g)
  BY <1>1 DEF chunk_document
<1>7. /\ seen = stored /\ Of(p, stored) = {}
      /\ job[r].digest <= files[p] /\ manifest[p] <= files[p]
      /\ job[r].skip => manifest[p] < files[p]
      /\ \A g \in Files : g # p => Current(Goal(r, g), g, stored \cup job[r].children)
      /\ job[r].skip =>
           /\ \A g \in Files : manifest[g] = files[g] => Of(g, job[r].children) = {}
           /\ \A g \in job[r].todo : job[r].hashes[g] = manifest[g]
  BY <1>1, <1>2 DEF OnCourse
<1>8. Of(p, job[r].children) = {}
  <2>1. \A c \in job[r].children : c.path # p
    BY <1>2, <1>3 DEF JobOK
  <2> QED
    BY <2>1 DEF Of
<1>9. /\ Of(p, new.children) = chunk_document(p)
      /\ \A g : g # p => Of(g, new.children) = Of(g, job[r].children)
  <2>1. \A g : Of(g, new.children) = Of(g, job[r].children) \cup Of(g, chunk_document(p))
    BY <1>4 DEF Of
  <2> HIDE DEF p
  <2>2. Of(p, new.children) = {} \cup chunk_document(p)
    BY <1>8, <2>1, OfDocument, Zenon
  <2>3. \A g : g # p => Of(g, new.children) = Of(g, job[r].children) \cup {}
    BY <2>1, OfDocument, Zenon
  <2> QED
    BY <2>2, <2>3
<1>10. new.hashes[p] = job[r].digest /\ \A g \in Files : g # p => new.hashes[g] = job[r].hashes[g]
  <2>1. job[r].hashes \in [Files -> Contents \cup {Unknown}]
    BY <1>2 DEF Job, Hashes
  <2> QED
    BY <1>3, <1>4, <2>1
<1>11. \A g \in Files : Current(Goal(r, g), g, stored \cup job[r].children)'
  <2> SUFFICES ASSUME NEW g \in Files PROVE Current(Goal(r, g), g, stored \cup job[r].children)'
    OBVIOUS
  <2>1. CASE g = p
    <3>1. Goal(r, g)' <= files'[g]
      BY <1>1, <1>4, <1>5, <1>7, <1>10, <2>1 DEF Goal
    <3>2. Of(g, stored' \cup job'[r].children) = chunk_document(g)'
      <4>1. Of(g, stored \cup new.children) = Of(g, stored) \cup Of(g, new.children)
        BY DEF Of
      <4>2. Of(g, stored) = {} /\ Of(g, new.children) = chunk_document(g)
        BY <1>7, <1>9, <2>1
      <4>3. Of(g, stored \cup new.children) = chunk_document(g)
        BY <4>1, <4>2
      <4> QED
        BY <1>1, <1>5, <1>6, <4>3, Zenon
    <3> QED
      BY <3>1, <3>2 DEF Current
  <2>2. CASE g # p
    <3>1. Goal(r, g)' = Goal(r, g)
      BY <1>1, <1>4, <1>5, <1>10, <2>2 DEF Goal
    <3>2. Of(g, stored' \cup job'[r].children) = Of(g, stored \cup job[r].children)
      <4>1. Of(g, stored \cup new.children) = Of(g, stored) \cup Of(g, new.children)
        BY DEF Of
      <4>2. Of(g, stored \cup job[r].children) = Of(g, stored) \cup Of(g, job[r].children)
        BY DEF Of
      <4>3. Of(g, new.children) = Of(g, job[r].children)
        BY <1>9, <2>2
      <4> QED
        BY <1>1, <1>5, <4>1, <4>2, <4>3, Zenon
    <3>3. Current(Goal(r, g), g, stored \cup job[r].children)
      BY <1>7, <2>2
    <3> QED
      BY <1>1, <1>6, <3>1, <3>2, <3>3 DEF Current
  <2> QED
    BY <2>1, <2>2
<1>12. job[r].skip => \A g \in Files : manifest[g] = files[g] => Of(g, new.children) = {}
  <2> SUFFICES ASSUME job[r].skip, NEW g \in Files, manifest[g] = files[g]
               PROVE  Of(g, new.children) = {}
    OBVIOUS
  <2>1. files[p] \in Nat /\ manifest[p] \in Nat
    BY <1>3, HashNumbers DEF IngestInv
  <2>2. manifest[p] # files[p]
    BY <1>7, <2>1
  <2>3. g # p
    BY <2>2
  <2> QED
    BY <1>7, <1>9, <2>3
<1>13. job[r].skip => \A g \in new.todo : new.hashes[g] = manifest[g]
  <2>1. job[r].todo \subseteq Files
    BY <1>2 DEF Job
  <2> QED
    BY <1>4, <1>7, <1>10, <2>1
<1>14. OnCourse(r)'
  BY <1>1, <1>4, <1>5, <1>7, <1>11, <1>12, <1>13 DEF OnCourse
<1>15. new.skip => \A g \in Files : Current(manifest[g], g, stored)'
  BY <1>1, <1>2, <1>4 DEF Current, chunk_document
<1> QED
  BY <1>1, <1>2, <1>4, <1>14, <1>15, SoundFromParts

(* The steps that write nothing, but move on to the writing or its end.    *)
LEMMA MovesOnSound ==
  ASSUME IngestInv, NEW r \in Runs, EmbedChunks(r) \/ RefreshIndex(r)
  PROVE  SoundInv'
<1> SUFFICES ASSUME sound' PROVE SoundInv'
  BY DEF SoundInv
<1>1. /\ sound /\ pc[r] \in {"next", "upsert"}
      /\ files' = files /\ stored' = stored /\ manifest' = manifest /\ job' = job
  BY DEF EmbedChunks, RefreshIndex
<1>2. /\ OnCourse(r) /\ Busy(r)
      /\ job[r].skip => \A g \in Files : Current(manifest[g], g, stored)
  BY <1>1, AtWork DEF Busy
<1>3. PICK to \in {"upsert", "save"} :
        /\ pc' = [pc EXCEPT ![r] = to]
        /\ to = "save" => job[r].children = {}
  BY DEF EmbedChunks, RefreshIndex
<1>4. RunOf(r, to, job[r])
  BY <1>1, <1>3, MovesOnShape DEF PCs, IngestInv
<1>5. pc'[r] = to
  BY <1>4, RunShapes DEF RunOf, IngestInv
<1>6. \A g : chunk_document(g)' = chunk_document(g)
  BY <1>1 DEF chunk_document
<1>7. \A g \in Files : Current(Goal(r, g), g, stored \cup job[r].children)
  BY <1>1, <1>2 DEF OnCourse
<1>8. \A g \in Files : Current(Goal(r, g), g, stored \cup job[r].children)'
  <2>1. \A g : Goal(r, g)' = Goal(r, g)
    BY <1>1 DEF Goal
  <2> QED
    BY <1>1, <1>6, <1>7, <2>1 DEF Current
<1>9. OnCourse(r)'
  BY <1>1, <1>2, <1>3, <1>5, <1>8 DEF OnCourse
<1>10. job[r].skip => \A g \in Files : Current(manifest[g], g, stored)'
  BY <1>1, <1>2, <1>6 DEF Current
<1> QED
  BY <1>1, <1>2, <1>3, <1>4, <1>9, <1>10, SoundFromParts

(* A batch, whole or in part: a run that skips has no chunks of a file     *)
(* whose saved hash is current.                                            *)
LEMMA WrittenSound ==
  ASSUME IngestInv, sound, NEW r \in Runs, pc[r] = "upsert",
         NEW batch \in SUBSET job[r].children,
         files' = files, stored' = stored \cup batch, manifest' = manifest
  PROVE  job[r].skip => \A g \in Files : Current(manifest[g], g, stored)'
<1> SUFFICES ASSUME job[r].skip, NEW g \in Files PROVE Current(manifest[g], g, stored)'
  OBVIOUS
<1>1. OnCourse(r) /\ Current(manifest[g], g, stored)
  BY AtWork DEF Busy
<1>2. manifest[g] = files[g] => Of(g, stored') = Of(g, stored)
  <2>1. manifest[g] = files[g] => Of(g, job[r].children) = {}
    BY <1>1 DEF OnCourse
  <2>2. Of(g, batch) \subseteq Of(g, job[r].children)
    BY DEF Of
  <2>3. Of(g, stored') = Of(g, stored) \cup Of(g, batch)
    BY DEF Of
  <2> QED
    BY <2>1, <2>2, <2>3
<1>3. chunk_document(g)' = chunk_document(g)
  BY DEF chunk_document
<1> QED
  BY <1>1, <1>2, <1>3 DEF Current

(* Writing a batch moves chunks from the run's hands to the index.         *)
LEMMA UpsertSound ==
  ASSUME IngestInv, NEW r \in Runs, NEW batch \in SUBSET job[r].children, UpsertBatch(r, batch)
  PROVE  SoundInv'
<1> SUFFICES ASSUME sound' PROVE SoundInv'
  BY DEF SoundInv
<1>1. /\ sound /\ pc[r] = "upsert"
      /\ files' = files /\ stored' = stored \cup batch /\ manifest' = manifest
  BY DEF UpsertBatch
<1>2. OnCourse(r) /\ Busy(r) /\ job[r] \in Job
  BY <1>1, AtWork DEF Busy
<1>3. PICK new : /\ RunOf(r, "upsert", new)
                 /\ new.children = job[r].children \ batch
                 /\ new.hashes = job[r].hashes /\ new.todo = job[r].todo
                 /\ new.skip = job[r].skip
  BY UpsertShape DEF IngestInv
<1>4. pc'[r] = "upsert" /\ job'[r] = new
  BY <1>3, RunShapes DEF RunOf, IngestInv
<1>5. stored' \cup job'[r].children = stored \cup job[r].children
  BY <1>1, <1>3, <1>4
<1>6. \A g \in Files : Current(Goal(r, g), g, stored \cup job[r].children)'
  <2>1. \A g : Goal(r, g)' = Goal(r, g)
    BY <1>1, <1>3, <1>4 DEF Goal
  <2>2. \A g \in Files : Current(Goal(r, g), g, stored \cup job[r].children)
    BY <1>1, <1>2 DEF OnCourse
  <2>3. \A g : chunk_document(g)' = chunk_document(g)
    BY <1>1 DEF chunk_document
  <2> QED
    BY <1>1, <1>5, <2>1, <2>2, <2>3 DEF Current
<1>7. \A g : Of(g, new.children) \subseteq Of(g, job[r].children)
  BY <1>3 DEF Of
<1>8. OnCourse(r)'
  <2>1. job[r].skip =>
             /\ \A g \in Files : manifest[g] = files[g] => Of(g, job[r].children) = {}
             /\ \A g \in job[r].todo : job[r].hashes[g] = manifest[g]
    BY <1>2 DEF OnCourse
  <2>2. job[r].skip => \A g \in Files : manifest[g] = files[g] => Of(g, new.children) = {}
    BY <1>7, <2>1
  <2> QED
    BY <1>1, <1>3, <1>4, <1>6, <2>1, <2>2 DEF OnCourse
<1>9. new.skip => \A g \in Files : Current(manifest[g], g, stored)'
  BY <1>1, <1>3, WrittenSound
<1> QED
  BY <1>1, <1>2, <1>3, <1>8, <1>9, SoundFromParts

(* The manifest gets the hashes the run was to end with.                   *)
LEMMA SaveManifestSound ==
  ASSUME IngestInv, NEW r \in Runs, SaveManifest(r)
  PROVE  SoundInv'
<1> SUFFICES ASSUME sound' PROVE SoundInv'
  BY DEF SoundInv
<1>1. /\ sound /\ pc[r] = "save" /\ pc' = [pc EXCEPT ![r] = "done"]
      /\ files' = files /\ stored' = stored /\ job' = job
      /\ manifest' = IF job[r].skip THEN job[r].hashes ELSE manifest
  BY DEF SaveManifest
<1>2. OnCourse(r) /\ Busy(r)
  BY <1>1, AtWork DEF Busy
<1>3. RunOf(r, "done", job[r])
  BY <1>1, MovesOnShape DEF PCs, IngestInv
<1>4. \A g \in Files : Current(manifest[g], g, stored)'
  <2>1. \A g : manifest'[g] = Goal(r, g)
    BY <1>1 DEF Goal
  <2>2. stored \cup job[r].children = stored
    BY <1>1, <1>2 DEF OnCourse
  <2>3. \A g \in Files : Current(Goal(r, g), g, stored)
    BY <1>1, <1>2, <2>2 DEF OnCourse
  <2> QED
    BY <1>1, <2>1, <2>3 DEF Current, chunk_document
<1> QED
  BY <1>1, <1>2, <1>3, <1>4, SoundFromParts

(* A run that fails or dies: sound only if it skips, and then it has not   *)
(* touched a file whose saved hash is current.                             *)
LEMMA EndsSound ==
  ASSUME IngestInv, NEW r \in Runs,
         \/ \E written \in SUBSET job[r].children : BulkFails(r, written)
         \/ EmbedFails(r) \/ RequestFails(r) \/ KillRun(r)
  PROVE  SoundInv'
<1> SUFFICES ASSUME sound' PROVE SoundInv'
  BY DEF SoundInv
<1>1. Ends(r) /\ files' = files /\ manifest' = manifest /\ Busy(r)
  BY DEF BulkFails, EmbedFails, RequestFails, KillRun, Busy
<1>2. sound /\ job[r].skip
  BY <1>1 DEF Ends
<1>3. OnCourse(r) /\ \A g \in Files : Current(manifest[g], g, stored)
  BY <1>1, <1>2, AtWork
<1>4. RunOf(r, "idle", NoJob)
  BY <1>1, EndsShape DEF IngestInv
<1>5. \A g : chunk_document(g)' = chunk_document(g)
  BY <1>1 DEF chunk_document
<1>6. \A g \in Files : Current(manifest[g], g, stored)'
  <2>1. ASSUME NEW written \in SUBSET job[r].children, BulkFails(r, written)
        PROVE  \A g \in Files : Current(manifest[g], g, stored)'
    BY <1>1, <1>2, <2>1, WrittenSound DEF BulkFails
  <2>2. CASE stored' = stored
    BY <1>1, <1>3, <1>5, <2>2 DEF Current
  <2>3. ASSUME pc[r] = "delete", NEW gone \in SUBSET Of(job[r].path, seen),
               stored' = stored \ gone, NEW g \in Files
        PROVE  Current(manifest[g], g, stored)'
    <3>1. CASE g = job[r].path
      <4>1. files[g] \in Nat /\ manifest[g] \in Nat
        BY HashNumbers DEF IngestInv
      <4>2. manifest[g] < files[g]
        BY <1>2, <1>3, <2>3, <3>1 DEF OnCourse
      <4>3. manifest[g] <= files[g] /\ manifest[g] # files[g]
        BY <4>1, <4>2
      <4> QED
        BY <1>1, <4>3 DEF Current
    <3>2. CASE g # job[r].path
      <4>1. Of(g, stored') = Of(g, stored)
        BY <2>3, <3>2 DEF Of
      <4> QED
        BY <1>1, <1>3, <1>5, <4>1 DEF Current
    <3> QED
      BY <3>1, <3>2
  <2>4. CASE RequestFails(r)
    <3>1. \/ stored' = stored
          \/ /\ pc[r] = "delete"
             /\ \E gone \in SUBSET Of(job[r].path, seen) : stored' = stored \ gone
      BY <2>4 DEF RequestFails
    <3> QED
      BY <2>2, <2>3, <3>1
  <2>5. CASE EmbedFails(r) \/ KillRun(r)
    BY <2>2, <2>5 DEF EmbedFails, KillRun
  <2> QED
    BY <2>1, <2>4, <2>5
<1> QED
  BY <1>1, <1>2, <1>4, <1>6, SoundFromParts

(* A content that comes next makes every hash of before outdated.          *)
LEMMA EditFileSound ==
  ASSUME IngestInv, NEW f \in Files, NEW content \in Contents, EditFile(f, content)
  PROVE  SoundInv'
<1> SUFFICES ASSUME sound' PROVE SoundInv'
  BY DEF SoundInv
<1>1. /\ sound /\ content = files[f] + 1 /\ files' = [files EXCEPT ![f] = content]
      /\ stored' = stored /\ seen' = seen /\ manifest' = manifest /\ pc' = pc /\ job' = job
  BY DEF EditFile
<1>2. \A g \in Files : files[g] \in Nat /\ manifest[g] \in Nat
  BY HashNumbers DEF IngestInv
<1>3. files'[f] = files[f] + 1 /\ \A g \in Files : g # f => files'[g] = files[g]
  BY <1>1 DEF IngestInv, IngestShape
<1>4. \A g \in Files : g # f => chunk_document(g)' = chunk_document(g)
  BY <1>3 DEF chunk_document
<1>5. ASSUME NEW hash \in Nat, NEW g \in Files, NEW chunks, Current(hash, g, chunks)
      PROVE  hash <= files'[g] /\ (hash = files'[g] => Of(g, chunks) = chunk_document(g)')
  <2>1. CASE g = f
    BY <1>2, <1>3, <1>5, <2>1 DEF Current
  <2>2. CASE g # f
    BY <1>3, <1>4, <1>5, <2>2 DEF Current
  <2> QED
    BY <2>1, <2>2
<1>6. ASSUME NEW r \in Runs, Busy(r) PROVE OnCourse(r)'
  <2>1. OnCourse(r) /\ job[r] \in Job /\ JobOK(pc[r], job[r])
    BY <1>1, <1>6, AtWork
  <2>2. \A g \in Files : Goal(r, g) \in Nat /\ Goal(r, g)' = Goal(r, g)
    BY <1>1, <1>2, HashNumbers DEF Goal, IngestInv
  <2>3. ASSUME NEW g \in Files
        PROVE  \/ pc'[r] = "chunk" /\ g = job'[r].path
               \/ Current(Goal(r, g), g, stored \cup job[r].children)'
    <3>1. CASE pc[r] = "chunk" /\ g = job[r].path
      BY <1>1, <3>1
    <3>2. CASE Current(Goal(r, g), g, stored \cup job[r].children)
      BY <1>1, <1>5, <2>2, <3>2 DEF Current
    <3> QED
      BY <2>1, <3>1, <3>2 DEF OnCourse
  <2>4. pc[r] \in {"delete", "chunk"} =>
          /\ job[r].digest <= files'[job[r].path] /\ manifest[job[r].path] <= files'[job[r].path]
          /\ job[r].skip => manifest[job[r].path] < files'[job[r].path]
    <3> SUFFICES ASSUME pc[r] \in {"delete", "chunk"}
                 PROVE  /\ job[r].digest <= files'[job[r].path]
                        /\ manifest[job[r].path] <= files'[job[r].path]
                        /\ job[r].skip => manifest[job[r].path] < files'[job[r].path]
      OBVIOUS
    <3>1. job[r].path \in Files
      BY <2>1 DEF JobOK, Job
    <3>2. job[r].digest \in Nat
      BY HashNumbers DEF IngestInv
    <3>3. /\ job[r].digest <= files[job[r].path] /\ manifest[job[r].path] <= files[job[r].path]
          /\ job[r].skip => manifest[job[r].path] < files[job[r].path]
      BY <2>1 DEF OnCourse
    <3>4. files'[job[r].path] \in {files[job[r].path], files[job[r].path] + 1}
      BY <1>3, <3>1
    <3> QED
      BY <1>2, <3>1, <3>2, <3>3, <3>4
  <2>5. job[r].skip => \A g \in Files : manifest[g] = files'[g] => Of(g, job[r].children) = {}
    <3> SUFFICES ASSUME job[r].skip, NEW g \in Files, manifest[g] = files'[g]
                 PROVE  Of(g, job[r].children) = {}
      OBVIOUS
    <3>1. Current(manifest[g], g, stored)
      BY <1>1, <1>6, AtWork
    <3>2. manifest[g] <= files[g]
      BY <3>1 DEF Current
    <3>3. g # f
      BY <1>2, <1>3, <3>2
    <3> QED
      BY <1>3, <2>1, <3>3 DEF OnCourse
  <2> QED
    BY <1>1, <2>1, <2>3, <2>4, <2>5 DEF OnCourse
<1>7. (\A g \in Files : Current(manifest[g], g, stored)) =>
        \A g \in Files : Current(manifest[g], g, stored)'
  BY <1>1, <1>2, <1>5 DEF Current
<1>8. OneAtATime' /\ (MayStop' => MayStop) /\ \A r \in Runs : Busy(r)' => Busy(r)
  BY <1>1 DEF OneAtATime, MayStop, Busy, IngestInv, SoundInv
<1> QED
  BY <1>1, <1>6, <1>7, <1>8 DEF IngestInv, SoundInv

(* Every step of the ingest and around it keeps SoundInv.                  *)
LEMMA SoundStep == IngestInv /\ [IngestNext]_ingestVars => SoundInv'
<1> SUFFICES ASSUME IngestInv, [IngestNext]_ingestVars PROVE SoundInv'
  OBVIOUS
<1>1. CASE IndexInterval \/ UNCHANGED ingestVars
  <2>1. /\ files' = files /\ stored' = stored /\ seen' \in {seen, stored} /\ manifest' = manifest
        /\ pc' = pc /\ job' = job /\ sound' = sound
    BY <1>1 DEF IndexInterval, ingestVars
  <2>2. \A g : chunk_document(g)' = chunk_document(g)
    BY <2>1 DEF chunk_document
  <2>3. \A r, g : Goal(r, g)' = Goal(r, g)
    BY <2>1 DEF Goal
  <2>4. \A r \in Runs : OnCourse(r) => OnCourse(r)'
    BY <2>1, <2>2, <2>3 DEF OnCourse, Current
  <2>5. (OneAtATime => OneAtATime') /\ (MayStop' => MayStop) /\ \A r \in Runs : Busy(r)' = Busy(r)
    BY <2>1 DEF OneAtATime, MayStop, Busy
  <2>6. \A g \in Files : Current(manifest[g], g, stored) => Current(manifest[g], g, stored)'
    BY <2>1, <2>2 DEF Current
  <2> QED
    BY <2>1, <2>4, <2>5, <2>6 DEF IngestInv, SoundInv
<1>2. ASSUME NEW r \in Runs, RunStep(r) PROVE SoundInv'
  BY <1>2, StartRunSound, ReadDigestSound, DeleteChunksSound, ChunkFileSound, MovesOnSound,
     UpsertSound, SaveManifestSound, EndsSound
  DEF RunStep
<1>3. ASSUME NEW f \in Files, NEW content \in Contents, EditFile(f, content) PROVE SoundInv'
  BY <1>3, EditFileSound
<1>4. CASE LoseIndex
  BY <1>4 DEF LoseIndex, SoundInv
<1> QED
  BY <1>1, <1>2, <1>3, <1>4 DEF IngestNext

(* IngestInv holds throughout every behaviour of the ingest.               *)
THEOREM IngestInvariance == IngestSpec => []IngestInv
<1>1. IngestInit => SoundInv
  <2> SUFFICES ASSUME IngestInit PROVE SoundInv
    OBVIOUS
  <2>1. \A r \in Runs : ~Busy(r)
    BY DEF IngestInit, Busy
  <2>2. \A f \in Files : manifest[f] = 0 /\ files[f] = 1
    BY DEF IngestInit, Unknown
  <2>3. \A f \in Files : Current(manifest[f], f, stored)
    BY <2>2 DEF Current
  <2> QED
    BY <2>1, <2>3 DEF SoundInv, OneAtATime
<1>2. IngestInit => IngestInv
  BY <1>1, ShapeInit DEF IngestInv
<1>3. IngestInv /\ [IngestNext]_ingestVars => IngestInv'
  BY ShapeStep, SoundStep DEF IngestInv
<1> QED
  BY <1>2, <1>3, PTL DEF IngestSpec

(* A file the next run would skip is completely and only in the index, for *)
(* any number of files, contents, pieces and runs that fail, die or are    *)
(* overtaken by edits (the order of delete, upsert and save in execute).   *)
THEOREM SkippingIsSafe == IngestSpec => []SkipIsSafe
<1>1. IngestInv => SkipIsSafe
  <2> SUFFICES ASSUME IngestInv, NEW f \in Files, sound, manifest[f] = files[f], Quiet
               PROVE  Of(f, stored) = chunk_document(f)
    BY DEF SkipIsSafe
  <2>1. MayStop
    BY DEF MayStop, Busy, Quiet
  <2> QED
    BY <2>1 DEF IngestInv, SoundInv, Current
<1> QED
  BY <1>1, IngestInvariance, PTL

---------------------------------------------------------------------------
(* ForcedRunHeals: one run at a time.  With a second one at work nothing   *)
(* keeps it from deleting what the first has written.                      *)

(* The edits of files that are not among those done, or the passing of     *)
(* time, leave a healing run as it is.                                     *)
LEMMA HealingAround ==
  ASSUME HealInv, job' = job, pc' = pc, stored' = stored, seen' = seen \/ seen' = stored,
         edited \subseteq edited', \A f \in Files \ edited' : files'[f] = files[f],
         IngestShape
  PROVE  HealInv'
<1> SUFFICES ASSUME NEW r \in Runs, ~job[r].skip PROVE Healing(r)'
  BY DEF HealInv
<1>1. Healing(r) /\ job[r].selected \subseteq Files
  BY DEF HealInv, IngestShape, Job
<1>2. \A f \in job[r].selected \ (job[r].todo \cup edited') :
         f \in job[r].selected \ (job[r].todo \cup edited) /\ chunk_document(f)' = chunk_document(f)
  BY <1>1 DEF chunk_document
<1> QED
  BY <1>1, <1>2 DEF Healing

(* The step of the one run.                                                *)
LEMMA HealingStep ==
  ASSUME IngestShape, HealInv, NEW r, Runs = {r}, RunStep(r)
  PROVE  HealInv'
<1>0. r \in Runs
  OBVIOUS
<1>1. job[r] \in Job /\ JobOK(pc[r], job[r])
  BY <1>0 DEF IngestShape
<1>2. ~job[r].skip => Healing(r)
  BY DEF HealInv
<1>3. SUFFICES ASSUME ~job'[r].skip PROVE Healing(r)'
  BY DEF HealInv
<1>4. ASSUME NEW selected \in Selections, NEW skip \in BOOLEAN, StartRun(r, selected, skip)
      PROVE  Healing(r)'
  <2>1. PICK new : RunOf(r, "next", new) /\ new.selected = selected /\ new.todo = selected
    BY <1>0, <1>4, StartRunShape
  <2>2. pc'[r] = "next" /\ job'[r] = new
    BY <1>0, <2>1, RunShapes DEF RunOf
  <2>3. seen' = stored'
    BY <1>4 DEF StartRun, Quiet
  <2> QED
    BY <2>1, <2>2, <2>3 DEF Healing
<1>5. ASSUME NEW f \in Files, ReadDigest(r, f) PROVE Healing(r)'
  <2>1. PICK to, new :
          /\ RunOf(r, to, new)
          /\ \/ to = "next" /\ job[r].skip
             \/ to = "delete" /\ new.todo = job[r].todo
          /\ new.selected = job[r].selected /\ new.skip = job[r].skip
          /\ new.children = job[r].children
    BY <1>0, <1>5, ReadDigestShape
  <2>2. pc'[r] = to /\ job'[r] = new
    BY <1>0, <2>1, RunShapes DEF RunOf
  <2>3. to = "delete" /\ Healing(r)
    BY <1>2, <1>3, <2>1, <2>2
  <2>4. /\ pc[r] = "next" /\ UNCHANGED <<files, stored, seen, edited>>
    BY <1>5 DEF ReadDigest
  <2>5. \A g : chunk_document(g)' = chunk_document(g)
    BY <2>4 DEF chunk_document
  <2> QED
    BY <2>1, <2>2, <2>3, <2>4, <2>5 DEF Healing
<1>6. CASE DeleteChunks(r)
  <2>1. /\ pc[r] = "delete" /\ pc' = [pc EXCEPT ![r] = "chunk"] /\ job' = job
        /\ stored' = stored \ Of(job[r].path, seen) /\ seen' = stored'
        /\ UNCHANGED <<files, edited>>
    <3>1. Alone(r)
      BY DEF Alone
    <3> QED
      BY <1>6, <3>1 DEF DeleteChunks
  <2>2. pc'[r] = "chunk"
    BY <1>0, <2>1 DEF IngestShape
  <2>3. Healing(r)
    BY <1>2, <1>3, <2>1
  <2>4. seen = stored
    BY <2>1, <2>3 DEF Healing
  <2>5. Of(job[r].path, stored') = {} /\ \A g : Of(g, stored') \subseteq Of(g, stored)
    BY <2>1, <2>4 DEF Of
  <2>6. \A g : chunk_document(g)' = chunk_document(g)
    BY <2>1 DEF chunk_document
  <2>7. \A g \in job[r].selected \ (job[r].todo \cup edited) :
          Of(g, stored) = {} /\ Of(g, job[r].children) = chunk_document(g)
    BY <2>1, <2>3 DEF Healing
  <2>8. \A g \in job[r].selected \ (job[r].todo \cup edited) : Of(g, stored') = {}
    BY <2>5, <2>7
  <2> QED
    BY <2>1, <2>2, <2>5, <2>6, <2>7, <2>8 DEF Healing
<1>7. CASE ChunkFile(r)
  <2> DEFINE p == job[r].path
  <2>1. /\ p \in job[r].todo /\ p \in Files
        /\ \E new : /\ RunOf(r, "next", new)
                    /\ new.children = job[r].children \cup chunk_document(p)
                    /\ new.todo = job[r].todo \ {p}
                    /\ new.selected = job[r].selected /\ new.skip = job[r].skip
    BY <1>0, <1>7, ChunkFileShape
  <2>2. PICK new : /\ RunOf(r, "next", new)
                   /\ new.children = job[r].children \cup chunk_document(p)
                   /\ new.todo = job[r].todo \ {p}
                   /\ new.selected = job[r].selected /\ new.skip = job[r].skip
    BY <2>1
  <2>3. pc'[r] = "next" /\ job'[r] = new
    BY <1>0, <2>2, RunShapes DEF RunOf
  <2>4. pc[r] = "chunk" /\ UNCHANGED <<files, stored, seen, edited>>
    BY <1>7 DEF ChunkFile
  <2>5. Healing(r)
    BY <1>2, <1>3, <2>2, <2>3
  <2>6. \A g : chunk_document(g)' = chunk_document(g)
    BY <2>4 DEF chunk_document
  <2>7. /\ seen = stored /\ Of(p, stored) = {}
        /\ \A g \in job[r].selected \ (job[r].todo \cup edited) :
             Of(g, stored) = {} /\ Of(g, job[r].children) = chunk_document(g)
    BY <2>4, <2>5 DEF Healing
  <2>8. \A c \in job[r].children : c.path # p
    BY <1>1, <2>1 DEF JobOK
  <2> HIDE DEF p
  <2>9. Of(p, new.children) = chunk_document(p)
    BY <2>2, <2>8 DEF Of, chunk_document
  <2>10. \A g : g # p => Of(g, new.children) = Of(g, job[r].children)
    BY <2>2 DEF Of, chunk_document
  <2>11. \A g \in new.selected \ (new.todo \cup edited) :
           Of(g, stored) = {} /\ Of(g, new.children) = chunk_document(g)
    <3> SUFFICES ASSUME NEW g \in new.selected \ (new.todo \cup edited)
                 PROVE  Of(g, stored) = {} /\ Of(g, new.children) = chunk_document(g)
      OBVIOUS
    <3>1. CASE g = p
      BY <2>7, <2>9, <3>1
    <3>2. CASE g # p
      BY <2>2, <2>7, <2>10, <3>2
    <3> QED
      BY <3>1, <3>2
  <2> QED
    BY <2>3, <2>4, <2>6, <2>7, <2>11 DEF Healing
<1>8. CASE EmbedChunks(r) \/ RefreshIndex(r) \/ SaveManifest(r)
  <2>1. /\ UNCHANGED <<files, stored, edited, job>>
        /\ pc[r] \in {"next", "upsert", "save"}
        /\ pc[r] = "next" => job[r].todo = {}
    BY <1>8 DEF EmbedChunks, RefreshIndex, SaveManifest
  <2>2. Healing(r)
    BY <1>2, <1>3, <2>1
  <2>3. /\ pc'[r] \in {"upsert", "save", "done"}
        /\ pc'[r] # "upsert" => pc[r] = "save" \/ job[r].children = {}
    BY <1>0, <1>8 DEF EmbedChunks, RefreshIndex, SaveManifest, IngestShape
  <2>4. /\ job[r].todo = {} /\ (pc[r] = "save" => job[r].children = {})
        /\ \A g \in job[r].selected \ (job[r].todo \cup edited) :
             Of(g, stored \cup job[r].children) = chunk_document(g)
    <3>1. CASE pc[r] = "next"
      <4>1. \A g \in job[r].selected \ (job[r].todo \cup edited) :
              Of(g, stored) = {} /\ Of(g, job[r].children) = chunk_document(g)
        BY <2>2, <3>1 DEF Healing
      <4>2. \A g : Of(g, stored \cup job[r].children) = Of(g, stored) \cup Of(g, job[r].children)
        BY DEF Of
      <4>3. \A g \in job[r].selected \ (job[r].todo \cup edited) :
              Of(g, stored \cup job[r].children) = chunk_document(g)
        BY <4>1, <4>2
      <4> QED
        BY <2>1, <3>1, <4>3
    <3>2. CASE pc[r] # "next"
      BY <2>1, <2>2, <3>2 DEF Healing
    <3> QED
      BY <3>1, <3>2
  <2>5. \A g : chunk_document(g)' = chunk_document(g)
    BY <2>1 DEF chunk_document
  <2> QED
    BY <2>1, <2>3, <2>4, <2>5 DEF Healing
<1>9. ASSUME NEW batch \in SUBSET job[r].children, UpsertBatch(r, batch) PROVE Healing(r)'
  <2>1. PICK new : /\ RunOf(r, "upsert", new)
                   /\ new.children = job[r].children \ batch /\ new.todo = job[r].todo
                   /\ new.selected = job[r].selected /\ new.skip = job[r].skip
    BY <1>0, <1>9, UpsertShape
  <2>2. pc'[r] = "upsert" /\ job'[r] = new
    BY <1>0, <2>1, RunShapes DEF RunOf
  <2>3. pc[r] = "upsert" /\ UNCHANGED <<files, edited>> /\ stored' = stored \cup batch
    BY <1>9 DEF UpsertBatch
  <2>4. Healing(r)
    BY <1>2, <1>3, <2>1, <2>2
  <2>5. stored' \cup new.children = stored \cup job[r].children
    BY <2>1, <2>3
  <2>6. \A g : chunk_document(g)' = chunk_document(g)
    BY <2>3 DEF chunk_document
  <2> QED
    BY <2>1, <2>2, <2>3, <2>4, <2>5, <2>6 DEF Healing
<1>10. CASE \/ \E written \in SUBSET job[r].children : BulkFails(r, written)
            \/ EmbedFails(r) \/ RequestFails(r) \/ KillRun(r)
  <2>1. Ends(r)
    BY <1>10 DEF BulkFails, EmbedFails, RequestFails, KillRun
  <2>2. pc'[r] = "idle"
    BY <1>0, <2>1 DEF Ends, IngestShape
  <2> QED
    BY <2>2 DEF Healing
<1> QED
  BY <1>4, <1>5, <1>6, <1>7, <1>8, <1>9, <1>10 DEF RunStep

(* A run with --no-skip that ends has made current the files that were not *)
(* edited meanwhile, from any state of the index and the manifest, when    *)
(* one process ingests at a time.                                          *)
THEOREM ForcedRunsHeal ==
  ASSUME NEW r, Runs = {r}
  PROVE  IngestSpec => []ForcedRunHeals
<1>1. IngestInit => HealInv
  BY DEF IngestInit, HealInv, NoJob
<1>2. IngestShape /\ HealInv /\ [IngestNext]_ingestVars => HealInv'
  <2> SUFFICES ASSUME IngestShape, HealInv, [IngestNext]_ingestVars PROVE HealInv'
    OBVIOUS
  <2>1. CASE UNCHANGED ingestVars
    BY <2>1, HealingAround DEF ingestVars
  <2>2. CASE \E s \in Runs : RunStep(s)
    BY <2>2, HealingStep
  <2>3. ASSUME NEW f \in Files, NEW content \in Contents, EditFile(f, content) PROVE HealInv'
    <3>1. \A g \in Files \ edited' : files'[g] = files[g]
      BY <2>3 DEF EditFile, IngestShape
    <3> QED
      BY <2>3, <3>1, HealingAround DEF EditFile
  <2>4. CASE IndexInterval
    BY <2>4, HealingAround DEF IndexInterval
  <2>5. CASE LoseIndex
    BY <2>5 DEF LoseIndex, HealInv, NoJob
  <2> QED
    BY <2>1, <2>2, <2>3, <2>4, <2>5 DEF IngestNext
<1>3. IngestShape /\ HealInv => ForcedRunHeals
  <2> SUFFICES ASSUME HealInv, NEW s \in Runs, pc[s] = "done", ~job[s].skip,
                      NEW f \in job[s].selected \ edited
               PROVE  Of(f, stored) = chunk_document(f)
    BY DEF ForcedRunHeals
  <2>1. Healing(s)
    BY DEF HealInv
  <2>2. job[s].todo = {} /\ job[s].children = {}
    BY <2>1 DEF Healing
  <2>3. Of(f, stored \cup job[s].children) = chunk_document(f)
    BY <2>1, <2>2 DEF Healing
  <2>4. stored \cup job[s].children = stored
    BY <2>2
  <2> QED
    BY <2>3, <2>4
<1> QED
  BY <1>1, <1>2, <1>3, ShapeInit, ShapeStep, PTL DEF IngestSpec

---------------------------------------------------------------------------
(***************************************************************************)
(* The chunker.                                                            *)
(*                                                                         *)
(* ChunksAreFaithful is about the children of a finished section; what     *)
(* happened to a character on the way is in ChunkingInv: it is unread, in  *)
(* the buffer, or in a window (AllIsKept), and a paragraph that is being   *)
(* cut apart is unread from start on.  The children are bounded because    *)
(* the buffer is (BufferOK), which takes the count the code keeps of it to *)
(* be right, through every overlap.                                        *)
(***************************************************************************)

(* A set of naturals that is not empty has a least element.                *)
LEMMA LeastNatural ==
  ASSUME NEW S \in SUBSET Nat, S # {}
  PROVE  \E x \in S : \A y \in S : x <= y
<1> DEFINE R == OpToRel(<, Nat)
<1>1. PICK x \in S : \A y \in S : <<y, x>> \notin R
  <2> HIDE DEF R
  <2>1. IsWellFoundedOn(R, Nat)
    BY NatLessThanWellFounded DEF R
  <2> QED
    BY <2>1, WFMin
<1>2. \A y \in S : ~(y < x)
  BY <1>1 DEF OpToRel
<1> QED
  BY <1>2

(* A set of naturals that is bounded and not empty has a maximum.          *)
LEMMA MaxOfBounded ==
  ASSUME NEW S \in SUBSET Nat, S # {}, NEW b \in Nat, \A x \in S : x <= b
  PROVE  Max(S) \in S /\ \A x \in S : x <= Max(S)
<1>1. PICK x \in {b - y : y \in S} : \A z \in {b - y : y \in S} : x <= z
  <2>1. {b - y : y \in S} \in SUBSET Nat
    OBVIOUS
  <2>2. {b - y : y \in S} # {}
    OBVIOUS
  <2> QED
    BY <2>1, <2>2, LeastNatural
<1>2. PICK m \in S : x = b - m
  BY <1>1
<1>3. ASSUME NEW y \in S PROVE m >= y
  <2>1. b - m <= b - y
    BY <1>1, <1>2
  <2> QED
    BY <2>1
<1> QED
  BY <1>2, <1>3 DEF Max

(* The later of two numbers.                                               *)
LEMMA MaxOfTwo ==
  ASSUME NEW a \in Int, NEW b \in Int
  PROVE  Max({a, b}) = IF a >= b THEN a ELSE b
<1>1. \E x \in {a, b} : \A y \in {a, b} : x >= y
  OBVIOUS
<1>2. Max({a, b}) \in {a, b} /\ \A y \in {a, b} : Max({a, b}) >= y
  BY <1>1 DEF Max
<1> QED
  BY <1>2

AllPieces == {piece \in [para : DOMAIN section, from : Nat, to : Nat] :
                piece.from < piece.to /\ piece.to <= section[piece.para]}

(* The characters of one piece.                                            *)
LEMMA PieceIsCounted ==
  ASSUME NEW i, NEW piece \in AllPieces
  PROVE  /\ IsFiniteSet({i} \X (piece.from + 1 .. piece.to))
         /\ Cardinality({i} \X (piece.from + 1 .. piece.to)) = Size(piece)
         /\ Size(piece) \in Nat \ {0}
<1>1. piece.from \in Nat /\ piece.to \in Nat /\ piece.from < piece.to
  BY DEF AllPieces
<1> DEFINE R == piece.from + 1 .. piece.to
<1>2. IsFiniteSet(R) /\ Cardinality(R) = piece.to - piece.from
  <2>1. piece.from + 1 \in Int /\ piece.to \in Int /\ ~(piece.from + 1 > piece.to)
    BY <1>1
  <2>2. IsFiniteSet(R) /\ Cardinality(R) = piece.to - (piece.from + 1) + 1
    BY <2>1, FS_Interval
  <2> QED
    BY <1>1, <2>2
<1>3. IsFiniteSet({i}) /\ Cardinality({i}) = 1
  BY FS_Singleton
<1> HIDE DEF R
<1>4. IsFiniteSet({i} \X R) /\ Cardinality({i} \X R) = 1 * Cardinality(R)
  BY <1>2, <1>3, FS_Product
<1> QED
  BY <1>1, <1>2, <1>4 DEF R, Size

(* A text has finitely many characters.                                    *)
LEMMA TextIsFinite ==
  ASSUME NEW pieces \in Seq(AllPieces)
  PROVE  IsFiniteSet(Characters(pieces)) /\ Joined(pieces) \in Nat
<1> DEFINE f == [i \in DOMAIN pieces |-> {i} \X (pieces[i].from + 1 .. pieces[i].to)]
           T == {{i} \X (pieces[i].from + 1 .. pieces[i].to) : i \in DOMAIN pieces}
<1>1. IsFiniteSet(DOMAIN pieces)
  BY FS_Interval, LenProperties
<1>2. f \in Surjection(DOMAIN pieces, T)
  BY DEF Surjection
<1>3. IsFiniteSet(T)
  BY <1>1, <1>2, FS_Surjection
<1>4. \A t \in T : IsFiniteSet(t)
  <2>1. ASSUME NEW i \in DOMAIN pieces
        PROVE  IsFiniteSet({i} \X (pieces[i].from + 1 .. pieces[i].to))
    <3>1. pieces[i] \in AllPieces
      BY ElementOfSeq, LenProperties
    <3> QED
      BY <3>1, PieceIsCounted
  <2> QED
    BY <2>1
<1>5. IsFiniteSet(UNION T)
  <2> HIDE DEF T
  <2> QED BY <1>3, <1>4, FS_UNION
<1>6. IsFiniteSet(Characters(pieces))
  BY <1>5 DEF Characters
<1>7. Cardinality(Characters(pieces)) \in Nat
  BY <1>6, FS_CardinalityType
<1>8. Len(pieces) \in Nat /\ (pieces # <<>> => Len(pieces) >= 1)
  BY LenProperties, EmptySeq
<1> QED
  BY <1>6, <1>7, <1>8 DEF Joined, Separator

(* The empty text.                                                         *)
LEMMA EmptyText == Joined(<<>>) = 0
<1>1. Characters(<<>>) = {}
  BY DEF Characters
<1> QED
  BY <1>1, FS_EmptySet DEF Joined

(* A text of some pieces has some characters.                              *)
LEMMA TextIsPositive ==
  ASSUME NEW pieces \in Seq(AllPieces), pieces # <<>>
  PROVE  Joined(pieces) > 0
<1>1. Len(pieces) \in Nat /\ Len(pieces) >= 1 /\ 1 \in DOMAIN pieces
  BY LenProperties, EmptySeq
<1>2. pieces[1].from \in Nat /\ pieces[1].to \in Nat /\ pieces[1].from < pieces[1].to
  BY <1>1, ElementOfSeq DEF AllPieces
<1>3. <<1, pieces[1].to>> \in Characters(pieces)
  BY <1>1, <1>2 DEF Characters
<1>4. IsFiniteSet(Characters(pieces)) /\ Characters(pieces) # {}
  BY <1>3, TextIsFinite
<1>5. Cardinality(Characters(pieces)) \in Nat /\ Cardinality(Characters(pieces)) # 0
  BY <1>4, FS_CardinalityType, FS_EmptySet
<1> QED
  BY <1>1, <1>5 DEF Joined, Separator

(* A piece at the end of a text adds its size and, unless it is the first, *)
(* a separator.                                                            *)
LEMMA TextGrows ==
  ASSUME NEW pieces \in Seq(AllPieces), NEW piece \in AllPieces
  PROVE  Joined(Append(pieces, piece)) =
           Joined(pieces) + Size(piece) + (IF pieces = <<>> THEN 0 ELSE Separator)
<1> DEFINE n == Len(pieces)
           new == {n + 1} \X (piece.from + 1 .. piece.to)
<1>1. n \in Nat /\ DOMAIN pieces = 1 .. n
  BY LenProperties
<1>2. /\ Append(pieces, piece) \in Seq(AllPieces) /\ Len(Append(pieces, piece)) = n + 1
      /\ DOMAIN Append(pieces, piece) = 1 .. n + 1
      /\ \A i \in 1 .. n : Append(pieces, piece)[i] = pieces[i]
      /\ Append(pieces, piece)[n + 1] = piece
  BY AppendProperties, <1>1
<1>3. Characters(Append(pieces, piece)) = Characters(pieces) \cup new
  <2>1. ASSUME NEW x
        PROVE  x \in Characters(Append(pieces, piece)) <=> x \in Characters(pieces) \cup new
    <3>1. x \in Characters(Append(pieces, piece)) <=>
            \E i \in 1 .. n + 1 : x \in {i} \X (Append(pieces, piece)[i].from + 1 .. Append(pieces, piece)[i].to)
      BY <1>2 DEF Characters
    <3>2. x \in Characters(pieces) <=>
            \E i \in 1 .. n : x \in {i} \X (pieces[i].from + 1 .. pieces[i].to)
      BY <1>1 DEF Characters
    <3>3. 1 .. n + 1 = (1 .. n) \cup {n + 1}
      BY <1>1
    <3> HIDE DEF n
    <3> QED
      BY <3>1, <3>2, <3>3, <1>2
  <2> QED
    BY <2>1
<1>4. Characters(pieces) \cap new = {}
  BY <1>1 DEF Characters
<1>5. IsFiniteSet(Characters(pieces)) /\ IsFiniteSet(new) /\ Cardinality(new) = Size(piece)
  BY TextIsFinite, PieceIsCounted
<1>6. Cardinality(Characters(pieces) \cup new) = Cardinality(Characters(pieces)) + Size(piece)
  <2> HIDE DEF new
  <2>1. Cardinality(Characters(pieces)) \in Nat /\ Size(piece) \in Nat
    BY <1>5, FS_CardinalityType
  <2>2. Cardinality(Characters(pieces) \cup new) =
          Cardinality(Characters(pieces)) + Cardinality(new) - Cardinality(Characters(pieces) \cap new)
    BY <1>5, FS_Union
  <2>3. Cardinality(Characters(pieces) \cap new) = 0
    BY <1>4, FS_EmptySet
  <2> QED
    BY <1>5, <2>1, <2>2, <2>3
<1>7. Append(pieces, piece) # <<>> /\ (pieces = <<>> <=> n = 0)
  BY <1>1, <1>2, EmptySeq
<1>8. Cardinality(Characters(pieces)) \in Nat /\ Size(piece) \in Nat
  BY <1>5, FS_CardinalityType
<1> HIDE DEF n, new
<1>9. Joined(Append(pieces, piece)) = Cardinality(Characters(pieces)) + Size(piece) + 2 * n
  BY <1>1, <1>2, <1>3, <1>6, <1>7, <1>8 DEF Joined, Separator
<1>10. Joined(pieces) = Cardinality(Characters(pieces)) + (IF n = 0 THEN 0 ELSE 2 * (n - 1))
  BY <1>7 DEF Joined, Separator, n
<1> QED
  BY <1>1, <1>7, <1>8, <1>9, <1>10 DEF Separator

---------------------------------------------------------------------------
Windows == Range(parents) \cup Range(children)

Holds(pieces, p, at) == \E piece \in Range(pieces) : piece.para = p /\ piece.from <= at /\ at < piece.to

(* What is still to be read: of a paragraph that is being cut apart, the   *)
(* part from start on.                                                     *)
Unread(p, at) ==
  \E i \in DOMAIN rest : /\ rest[i].para = p /\ at < rest[i].to
                         /\ (IF phase = "hard" /\ i = 1 THEN start ELSE rest[i].from) <= at

TextsOK ==
  /\ level \in Levels /\ phase \in {"text", "paras", "hard", "done"}
  /\ section \in Seq(Nat) /\ breaks \subseteq Nat /\ start \in Nat
  /\ rest \in Seq(AllPieces) /\ buf \in Seq(AllPieces)
  /\ parents \in Seq(Seq(AllPieces)) /\ children \in Seq(Seq(AllPieces))

PhaseOK ==
  /\ phase \in {"text", "done"} => buf = <<>>
  /\ phase = "done" => rest = <<>>
  /\ phase = "hard" => rest # <<>> /\ Head(rest).from <= start /\ start < Head(rest).to

Bound(l) == MaxChars[l] + Overlap[l] + Separator

BufferOK == buf_len = Joined(buf) /\ Joined(buf) <= Bound(level)

AllIsKept ==
  \A p \in DOMAIN section : \A at \in 0 .. section[p] - 1 :
    Unread(p, at) \/ Holds(buf, p, at) \/ \E window \in Windows : Holds(window, p, at)

ChunkingInv == TextsOK /\ PhaseOK /\ BufferOK /\ ChildrenAreBounded /\ AllIsKept

(* The constants are numbers.                                              *)
LEMMA LevelNumbers ==
  ASSUME NEW l \in Levels
  PROVE  /\ Target[l] \in Nat /\ MaxChars[l] \in Nat /\ Overlap[l] \in Nat /\ Bound(l) \in Nat
         /\ Overlap[l] + 2 <= Target[l] /\ Target[l] <= MaxChars[l]
BY ChunkingAssumption DEF Separator, Bound

(* What emit() keeps is pieces of the buffer, within the overlap.          *)
LEMMA OverlapFits ==
  ASSUME level \in Levels, NEW pieces \in Seq(AllPieces)
  PROVE  OverlapParts(pieces) \in Seq(AllPieces) /\ Joined(OverlapParts(pieces)) <= Overlap[level]
<1> DEFINE n == Max(Fits(pieces))
<1>1. Len(pieces) \in Nat
  BY LenProperties
<1>2. 0 \in Fits(pieces)
  <2>1. Last_(0, pieces) = <<>>
    BY <1>1, SubSeqProperties, EmptySeq DEF Last_
  <2> QED
    BY <1>1, <2>1, EmptyText, LevelNumbers DEF Fits
<1>3. n \in Fits(pieces)
  <2>1. Fits(pieces) \in SUBSET Nat /\ \A m \in Fits(pieces) : m <= Len(pieces)
    BY <1>1 DEF Fits
  <2> QED
    BY <1>1, <1>2, <2>1, MaxOfBounded
<1> HIDE DEF n
<1>4. n \in 0 .. Len(pieces) /\ Joined(Last_(n, pieces)) <= Overlap[level]
  BY <1>3 DEF Fits
<1>5. Last_(n, pieces) \in Seq(AllPieces)
  BY <1>1, <1>4, SubSeqProperties DEF Last_
<1> QED
  BY <1>4, <1>5 DEF OverlapParts, n

(* A piece of a long paragraph has a character and no more than the        *)
(* target, and ends within the paragraph.                                  *)
LEMMA PieceEnds ==
  ASSUME level \in Levels, breaks \subseteq Nat, start \in Nat,
         NEW para \in AllPieces, start < para.to
  PROVE  /\ PieceEnd(para) \in Nat /\ start < PieceEnd(para) /\ PieceEnd(para) <= para.to
         /\ PieceEnd(para) <= start + Target[level]
<1> DEFINE full == start + Target[level]
           late == {b \in breaks : start + (Target[level] \div 2) <= b /\ b < full}
<1>1. para.to \in Nat /\ Target[level] \in Nat /\ Target[level] >= 2
  BY LevelNumbers DEF AllPieces
<1>2. Target[level] \div 2 \in Nat /\ Target[level] \div 2 >= 1
  BY <1>1
<1>3. CASE full >= para.to
  BY <1>1, <1>3 DEF PieceEnd
<1>4. CASE ~(full >= para.to) /\ late = {}
  BY <1>1, <1>4 DEF PieceEnd
<1>5. CASE ~(full >= para.to) /\ late # {}
  <2>1. late \in SUBSET Nat /\ full \in Nat /\ \A b \in late : b <= full
    <3>1. full \in Nat
      BY <1>1
    <3> HIDE DEF full
    <3>2. late \in SUBSET Nat
      OBVIOUS
    <3> QED
      BY <3>1, <3>2
  <2>2. Max(late) \in late
    <3> HIDE DEF late, full
    <3> QED BY <1>5, <2>1, MaxOfBounded
  <2>3. PieceEnd(para) = Max(late)
    BY <1>5 DEF PieceEnd
  <2> HIDE DEF late
  <2>4. Max(late) \in Nat /\ start + (Target[level] \div 2) <= Max(late) /\ Max(late) < full
    BY <1>1, <2>2 DEF late
  <2> QED
    BY <1>1, <1>2, <1>5, <2>3, <2>4
<1> QED
  BY <1>3, <1>4, <1>5

(* A window that is put aside joins the windows, and a child that is not   *)
(* too long leaves the children bounded.                                   *)
LEMMA PutAdds ==
  ASSUME TextsOK, NEW window \in Seq(AllPieces), Put(window)
  PROVE  /\ parents' \in Seq(Seq(AllPieces)) /\ children' \in Seq(Seq(AllPieces))
         /\ Windows' = Windows \cup {window}
         /\ ChildrenAreBounded /\ Joined(window) <= Bound(level) => ChildrenAreBounded'
<1> USE DEF TextsOK
<1>1. ASSUME NEW ws \in Seq(Seq(AllPieces))
      PROVE  /\ Append(ws, window) \in Seq(Seq(AllPieces))
             /\ Range(Append(ws, window)) = Range(ws) \cup {window}
  <2>1. /\ DOMAIN ws = 1 .. Len(ws) /\ Len(ws) \in Nat
        /\ DOMAIN Append(ws, window) = 1 .. Len(ws) + 1
        /\ \A i \in 1 .. Len(ws) : Append(ws, window)[i] = ws[i]
        /\ Append(ws, window)[Len(ws) + 1] = window
    BY LenProperties, AppendProperties
  <2>2. 1 .. Len(ws) + 1 = (1 .. Len(ws)) \cup {Len(ws) + 1}
    BY <2>1
  <2>3. Range(Append(ws, window)) = Range(ws) \cup {window}
    BY <2>1, <2>2 DEF Range
  <2> QED
    BY <2>3, AppendProperties
<1>2. CASE level = "parent"
  <2>1. parents' = Append(parents, window) /\ children' = children
    BY <1>2 DEF Put
  <2> QED
    BY <2>1, <1>1 DEF Windows, ChildrenAreBounded
<1>3. CASE level # "parent"
  <2>1. parents' = parents /\ children' = Append(children, window) /\ level = "child"
    BY <1>3 DEF Put, Levels
  <2>2. Range(children') = Range(children) \cup {window}
    BY <2>1, <1>1
  <2> QED
    BY <2>1, <2>2, <1>1 DEF Windows, ChildrenAreBounded, Bound
<1> QED
  BY <1>2, <1>3

(* Of the first piece and the rest of a text.                              *)
LEMMA HeadAndTail ==
  ASSUME NEW pieces \in Seq(AllPieces), pieces # <<>>
  PROVE  /\ Head(pieces) \in AllPieces /\ Tail(pieces) \in Seq(AllPieces)
         /\ Head(pieces) = pieces[1] /\ 1 \in DOMAIN pieces
         /\ \A i \in DOMAIN pieces : i # 1 => i - 1 \in DOMAIN Tail(pieces) /\ pieces[i] = Tail(pieces)[i - 1]
<1>1. Len(pieces) \in Nat /\ Len(pieces) >= 1 /\ DOMAIN pieces = 1 .. Len(pieces)
  BY LenProperties, EmptySeq
<1>2. /\ Head(pieces) \in AllPieces /\ Tail(pieces) \in Seq(AllPieces)
      /\ Len(Tail(pieces)) = Len(pieces) - 1
      /\ \A i \in 1 .. Len(Tail(pieces)) : Tail(pieces)[i] = pieces[i + 1]
  BY HeadTailProperties
<1>3. DOMAIN Tail(pieces) = 1 .. Len(pieces) - 1
  BY <1>2, LenProperties
<1>4. Head(pieces) = pieces[1]
  OBVIOUS
<1> QED
  BY <1>1, <1>2, <1>3, <1>4

(* The section and its pieces stay the same while it is cut.               *)
LEMMA SectionStays ==
  ASSUME section' = section
  PROVE  AllPieces' = AllPieces /\ Seq(AllPieces)' = Seq(AllPieces)
BY DEF AllPieces

(* What a text holds, and what it holds with one more piece.               *)
LEMMA AppendHolds ==
  ASSUME NEW pieces \in Seq(AllPieces), NEW piece \in AllPieces, NEW p, NEW at
  PROVE  /\ Holds(pieces, p, at) => Holds(Append(pieces, piece), p, at)
         /\ piece.para = p /\ piece.from <= at /\ at < piece.to => Holds(Append(pieces, piece), p, at)
<1>1. /\ DOMAIN pieces = 1 .. Len(pieces) /\ Len(pieces) \in Nat
      /\ DOMAIN Append(pieces, piece) = 1 .. Len(pieces) + 1
      /\ \A i \in 1 .. Len(pieces) : Append(pieces, piece)[i] = pieces[i]
      /\ Append(pieces, piece)[Len(pieces) + 1] = piece
  BY LenProperties, AppendProperties
<1>2. 1 .. Len(pieces) + 1 = (1 .. Len(pieces)) \cup {Len(pieces) + 1}
  BY <1>1
<1>3. Range(pieces) \subseteq Range(Append(pieces, piece)) /\ piece \in Range(Append(pieces, piece))
  BY <1>1, <1>2 DEF Range
<1> QED
  BY <1>3 DEF Holds

(* A paragraph that was not put into the rest is the head or in the tail.  *)
LEMMA UnreadHead ==
  ASSUME rest \in Seq(AllPieces), rest # <<>>, NEW p, NEW at, Unread(p, at)
  PROVE  \/ /\ Head(rest).para = p /\ at < Head(rest).to
            /\ (IF phase = "hard" THEN start ELSE Head(rest).from) <= at
         \/ \E i \in DOMAIN Tail(rest) : Tail(rest)[i].para = p /\ Tail(rest)[i].from <= at
                                         /\ at < Tail(rest)[i].to
<1>1. PICK i \in DOMAIN rest :
        /\ rest[i].para = p /\ at < rest[i].to
        /\ (IF phase = "hard" /\ i = 1 THEN start ELSE rest[i].from) <= at
  BY DEF Unread
<1>2. CASE i = 1
  BY <1>1, <1>2, HeadAndTail
<1>3. CASE i # 1
  BY <1>1, <1>3, HeadAndTail
<1> QED
  BY <1>2, <1>3

---------------------------------------------------------------------------
(* A text within the maximum becomes a window as it is.                    *)
LEMMA ShortKeeps ==
  ASSUME ChunkingInv, Short
  PROVE  ChunkingInv'
<1> USE DEF ChunkingInv
<1>1. /\ phase = "text" /\ phase' = "done" /\ rest' = <<>> /\ section' = section /\ Put(rest)
      /\ breaks' = breaks /\ level' = level /\ start' = start /\ buf' = buf /\ buf_len' = buf_len
      /\ Joined(rest) <= MaxChars[level]
  BY DEF Short
<1>2. /\ parents' \in Seq(Seq(AllPieces)) /\ children' \in Seq(Seq(AllPieces))
      /\ Windows' = Windows \cup {rest}
      /\ Joined(rest) <= Bound(level) => ChildrenAreBounded'
  BY <1>1, PutAdds DEF TextsOK
<1>3. Joined(rest) <= Bound(level)
  BY <1>1, TextIsFinite, LevelNumbers DEF TextsOK, Bound, Separator
<1>4. TextsOK'
  BY <1>1, <1>2, SectionStays, EmptySeq DEF TextsOK
<1>5. PhaseOK' /\ BufferOK'
  BY <1>1 DEF PhaseOK, BufferOK, Bound
<1>6. AllIsKept'
  <2> SUFFICES ASSUME NEW p \in DOMAIN section, NEW at \in 0 .. section[p] - 1
               PROVE  Holds(buf, p, at) \/ \E window \in Windows' : Holds(window, p, at)
    BY <1>1 DEF AllIsKept, Holds
  <2>1. CASE Unread(p, at)
    <3>1. Holds(rest, p, at)
      BY <1>1, <2>1 DEF Unread, Holds, Range
    <3> QED
      BY <3>1, <1>2
  <2> QED
    BY <2>1, <1>2 DEF AllIsKept
<1> QED
  BY <1>2, <1>3, <1>4, <1>5, <1>6

(* A text above the maximum is read paragraph by paragraph.                *)
LEMMA LongKeeps ==
  ASSUME ChunkingInv, Long
  PROVE  ChunkingInv'
<1>1. /\ phase = "text" /\ phase' = "paras"
      /\ UNCHANGED <<section, breaks, level, rest, start, buf, buf_len, parents, children>>
  BY DEF Long
<1>2. TextsOK' /\ PhaseOK' /\ BufferOK' /\ ChildrenAreBounded'
  BY <1>1, SectionStays DEF ChunkingInv, TextsOK, PhaseOK, BufferOK, Bound, ChildrenAreBounded
<1>3. AllIsKept'
  BY <1>1 DEF ChunkingInv, AllIsKept, Unread, Holds, Windows
<1> QED
  BY <1>2, <1>3 DEF ChunkingInv

(* A window that is put aside or nothing: either way nothing is lost of    *)
(* the windows.                                                            *)
LEMMA PutNoneKeeps ==
  ASSUME TextsOK, ChildrenAreBounded, PutNone
  PROVE  /\ parents' \in Seq(Seq(AllPieces)) /\ children' \in Seq(Seq(AllPieces))
         /\ Windows' = Windows /\ ChildrenAreBounded'
BY DEF PutNone, TextsOK, Windows, ChildrenAreBounded

(* A paragraph goes into the buffer; when the buffer was full, it became a *)
(* window first and only an overlap of it stays, so the paragraph on top   *)
(* of that is within the bound.                                            *)
LEMMA AddParagraphKeeps ==
  ASSUME ChunkingInv, AddParagraph
  PROVE  ChunkingInv'
<1> DEFINE para == Head(rest)
           full == buf # <<>> /\ buf_len + Size(para) + Separator > Target[level]
           kept == IF full THEN OverlapParts(buf) ELSE buf
           len  == IF full THEN Joined(kept) ELSE buf_len
<1>1. /\ phase = "paras" /\ rest # <<>> /\ Size(para) <= MaxChars[level]
      /\ rest' = Tail(rest) /\ section' = section /\ breaks' = breaks /\ level' = level
      /\ start' = start /\ phase' = phase
  BY DEF AddParagraph
<1>2. /\ IF full THEN Put(buf) ELSE PutNone
      /\ buf' = Append(kept, para)
      /\ buf_len' = len + Size(para) + (IF len > 0 THEN Separator ELSE 0)
  BY DEF AddParagraph
<1>3. TextsOK /\ PhaseOK /\ BufferOK /\ ChildrenAreBounded /\ AllIsKept
  BY DEF ChunkingInv
<1>4. /\ rest \in Seq(AllPieces) /\ buf \in Seq(AllPieces) /\ level \in Levels
      /\ buf_len = Joined(buf) /\ Joined(buf) <= Bound(level) /\ Joined(buf) \in Nat
  BY <1>3, TextIsFinite DEF TextsOK, BufferOK
<1>5. /\ para \in AllPieces /\ Tail(rest) \in Seq(AllPieces) /\ Size(para) \in Nat \ {0}
  BY <1>1, <1>4, HeadAndTail, PieceIsCounted
<1>6. kept \in Seq(AllPieces) /\ len = Joined(kept) /\ Joined(kept) \in Nat
  BY <1>4, OverlapFits, TextIsFinite
<1>7. len > 0 <=> kept # <<>>
  BY <1>6, TextIsPositive, EmptyText
<1>8. /\ parents' \in Seq(Seq(AllPieces)) /\ children' \in Seq(Seq(AllPieces))
      /\ Windows \subseteq Windows' /\ (full => buf \in Windows') /\ ChildrenAreBounded'
  <2>1. CASE full
    BY <1>2, <1>3, <1>4, <2>1, PutAdds
  <2>2. CASE ~full
    BY <1>2, <1>3, <2>2, PutNoneKeeps
  <2> QED
    BY <2>1, <2>2
<1>9. buf' \in Seq(AllPieces) /\ buf_len' = Joined(buf')
  <2> HIDE DEF para, full, kept, len
  <2>1. Joined(buf') = Joined(kept) + Size(para) + (IF kept = <<>> THEN 0 ELSE Separator)
    BY <1>2, <1>5, <1>6, TextGrows
  <2>2. buf' \in Seq(AllPieces)
    BY <1>2, <1>5, <1>6, AppendProperties
  <2> QED
    BY <1>2, <1>6, <1>7, <2>1, <2>2
<1>10. Joined(buf') <= Bound(level)
  <2>1. Joined(buf') = Joined(kept) + Size(para) + (IF kept = <<>> THEN 0 ELSE Separator)
    <3> HIDE DEF para, full, kept, len
    <3> QED BY <1>2, <1>5, <1>6, TextGrows
  <2>2. CASE full
    <3>1. Joined(kept) <= Overlap[level]
      BY <1>4, <2>2, OverlapFits
    <3> HIDE DEF para, full, kept, len
    <3>2. MaxChars[level] \in Nat /\ Overlap[level] \in Nat /\ Size(para) <= MaxChars[level]
      BY <1>1, <1>4, LevelNumbers
    <3>3. Joined(buf') <= Joined(kept) + Size(para) + 2
      BY <1>5, <1>6, <2>1 DEF Separator
    <3> QED
      BY <1>5, <1>6, <1>9, <3>1, <3>2, <3>3, TextIsFinite DEF Bound, Separator
  <2>3. CASE ~full /\ buf = <<>>
    <3>1. Joined(kept) = 0 /\ kept = <<>>
      BY <2>3, EmptyText
    <3> HIDE DEF para, full, kept, len
    <3> QED
      BY <1>1, <1>4, <1>5, <2>1, <3>1, LevelNumbers DEF Bound, Separator
  <2>4. CASE ~full /\ buf # <<>>
    <3>1. kept = buf /\ Joined(buf) + Size(para) + Separator <= Target[level]
      <4> HIDE DEF para
      <4> QED BY <1>4, <1>5, <2>4, LevelNumbers DEF Separator
    <3> HIDE DEF para, full, kept, len
    <3> QED
      BY <1>4, <1>5, <2>1, <2>4, <3>1, LevelNumbers DEF Bound, Separator
  <2> QED
    BY <2>2, <2>3, <2>4
<1>11. TextsOK' /\ PhaseOK' /\ BufferOK'
  <2>1. TextsOK'
    <3> HIDE DEF para, full, kept, len
    <3> QED BY <1>1, <1>3, <1>5, <1>8, <1>9, SectionStays DEF TextsOK
  <2>2. PhaseOK'
    BY <1>1 DEF PhaseOK
  <2>3. BufferOK'
    BY <1>1, <1>9, <1>10 DEF BufferOK, Bound
  <2> QED
    BY <2>1, <2>2, <2>3
<1>12. AllIsKept'
  <2> SUFFICES ASSUME NEW p \in DOMAIN section, NEW at \in 0 .. section[p] - 1
               PROVE  Unread(p, at)' \/ Holds(buf', p, at) \/ \E window \in Windows' : Holds(window, p, at)
    BY <1>1 DEF AllIsKept, Holds, Unread
  <2>1. CASE Unread(p, at)
    <3>1. CASE para.para = p /\ para.from <= at /\ at < para.to
      <4> HIDE DEF para, full, kept, len
      <4> QED BY <1>2, <1>5, <1>6, <3>1, AppendHolds
    <3>2. CASE \E i \in DOMAIN Tail(rest) : Tail(rest)[i].para = p /\ Tail(rest)[i].from <= at
                                            /\ at < Tail(rest)[i].to
      BY <1>1, <3>2 DEF Unread
    <3> QED
      BY <1>1, <1>4, <2>1, <3>1, <3>2, UnreadHead
  <2>2. CASE Holds(buf, p, at)
    <3>1. CASE full
      BY <1>8, <2>2, <3>1
    <3>2. CASE ~full
      <4>1. kept = buf
        BY <3>2
      <4> HIDE DEF para, full, kept, len
      <4> QED BY <1>2, <1>4, <1>5, <2>2, <4>1, AppendHolds
    <3> QED
      BY <3>1, <3>2
  <2>3. CASE \E window \in Windows : Holds(window, p, at)
    BY <1>8, <2>3
  <2> QED
    BY <1>3, <2>1, <2>2, <2>3 DEF AllIsKept
<1> QED
  BY <1>8, <1>11, <1>12 DEF ChunkingInv

(* Before a paragraph is cut apart the buffer becomes a window; nothing of *)
(* the paragraph has been read yet.                                        *)
LEMMA LongParagraphKeeps ==
  ASSUME ChunkingInv, LongParagraph
  PROVE  ChunkingInv'
<1>1. /\ phase = "paras" /\ rest # <<>> /\ start' = Head(rest).from /\ phase' = "hard"
      /\ section' = section /\ breaks' = breaks /\ level' = level /\ rest' = rest
      /\ buf' = OverlapParts(buf) /\ buf_len' = Joined(OverlapParts(buf))
      /\ IF buf # <<>> THEN Put(buf) ELSE PutNone
  BY DEF LongParagraph
<1>2. TextsOK /\ PhaseOK /\ BufferOK /\ ChildrenAreBounded /\ AllIsKept
  BY DEF ChunkingInv
<1>3. /\ rest \in Seq(AllPieces) /\ buf \in Seq(AllPieces) /\ level \in Levels
      /\ Joined(buf) <= Bound(level)
  BY <1>2 DEF TextsOK, BufferOK
<1>4. /\ buf' \in Seq(AllPieces) /\ Joined(buf') <= Overlap[level] /\ Joined(buf') \in Nat
  BY <1>1, <1>3, OverlapFits, TextIsFinite
<1>5. Head(rest) \in AllPieces /\ Head(rest) = rest[1]
  BY <1>1, <1>3, HeadAndTail
<1>6. start' \in Nat /\ start' < Head(rest).to
  BY <1>1, <1>5 DEF AllPieces
<1>7. /\ parents' \in Seq(Seq(AllPieces)) /\ children' \in Seq(Seq(AllPieces))
      /\ Windows \subseteq Windows' /\ (buf # <<>> => buf \in Windows') /\ ChildrenAreBounded'
  <2>1. CASE buf # <<>>
    BY <1>1, <1>2, <1>3, <2>1, PutAdds
  <2>2. CASE buf = <<>>
    BY <1>1, <1>2, <2>2, PutNoneKeeps
  <2> QED
    BY <2>1, <2>2
<1>8. TextsOK'
  BY <1>1, <1>2, <1>4, <1>6, <1>7, SectionStays DEF TextsOK
<1>9. PhaseOK' /\ BufferOK'
  <2>1. PhaseOK'
    BY <1>1, <1>6, <1>5 DEF PhaseOK, AllPieces
  <2>2. BufferOK'
    BY <1>1, <1>3, <1>4, LevelNumbers DEF BufferOK, Bound, Separator
  <2> QED
    BY <2>1, <2>2
<1>10. AllIsKept'
  <2> SUFFICES ASSUME NEW p \in DOMAIN section, NEW at \in 0 .. section[p] - 1
               PROVE  Unread(p, at)' \/ Holds(buf', p, at) \/ \E window \in Windows' : Holds(window, p, at)
    BY <1>1 DEF AllIsKept, Holds, Unread
  <2>1. CASE Unread(p, at)
    BY <1>1, <1>5, <2>1 DEF Unread
  <2>2. CASE Holds(buf, p, at)
    <3>1. buf # <<>>
      BY <2>2 DEF Holds, Range
    <3> QED
      BY <1>7, <2>2, <3>1
  <2>3. CASE \E window \in Windows : Holds(window, p, at)
    BY <1>7, <2>3
  <2> QED
    BY <1>2, <2>1, <2>2, <2>3 DEF AllIsKept
<1> QED
  BY <1>7, <1>8, <1>9, <1>10 DEF ChunkingInv

(* A part of a piece.                                                      *)
LEMMA PartOfPiece ==
  ASSUME NEW D, NEW r \in [para : D, from : Nat, to : Nat], NEW a \in Nat, NEW b \in Nat
  PROVE  LET part == [r EXCEPT !.from = a, !.to = b]
         IN  /\ part \in [para : D, from : Nat, to : Nat]
             /\ part.para = r.para /\ part.from = a /\ part.to = b
<1>1. [r EXCEPT !.from = a, !.to = b] \in [para : D, from : Nat, to : Nat]
  BY ZenonT(60)
<1>2. [r EXCEPT !.from = a, !.to = b].para = r.para
  BY ZenonT(60)
<1>3. [r EXCEPT !.from = a, !.to = b].from = a
  BY ZenonT(60)
<1>4. [r EXCEPT !.from = a, !.to = b].to = b
  BY ZenonT(60)
<1> QED
  BY <1>1, <1>2, <1>3, <1>4

(* A piece of a long paragraph: the next one starts where this one ends or *)
(* earlier, so nothing between them is lost.                               *)
LEMMA HardSplitKeeps ==
  ASSUME ChunkingInv, HardSplit
  PROVE  ChunkingInv'
<1> DEFINE para == Head(rest)
           end == PieceEnd(para)
           piece == [para EXCEPT !.from = start, !.to = end]
<1>1. /\ phase = "hard" /\ Put(<<piece>>)
      /\ section' = section /\ breaks' = breaks /\ level' = level
      /\ buf' = buf /\ buf_len' = buf_len
  BY DEF HardSplit
<1>2. \/ end >= para.to /\ phase' = "paras" /\ rest' = Tail(rest) /\ start' = 0
      \/ /\ ~(end >= para.to) /\ phase' = phase /\ rest' = rest
         /\ start' = Max({end - Overlap[level], start + 1})
  BY DEF HardSplit
<1>3. TextsOK /\ PhaseOK /\ BufferOK /\ ChildrenAreBounded /\ AllIsKept
  BY DEF ChunkingInv
<1>4. /\ rest \in Seq(AllPieces) /\ rest # <<>> /\ start \in Nat /\ level \in Levels /\ breaks \subseteq Nat
      /\ para.from <= start /\ start < para.to
  BY <1>1, <1>3 DEF TextsOK, PhaseOK
<1>5. para \in AllPieces /\ Tail(rest) \in Seq(AllPieces) /\ para = rest[1]
  BY <1>4, HeadAndTail
<1>6. end \in Nat /\ start < end /\ end <= para.to /\ end <= start + Target[level]
  <2> HIDE DEF para
  <2> QED BY <1>4, <1>5, PieceEnds
<1> HIDE DEF para, end
<1>7. /\ piece \in AllPieces /\ piece.para = para.para /\ piece.from = start /\ piece.to = end
      /\ Size(piece) <= Target[level]
  <2>1. /\ para.para \in DOMAIN section /\ para.to \in Nat /\ para.to <= section[para.para]
        /\ para \in [para : DOMAIN section, from : Nat, to : Nat]
    BY <1>5 DEF AllPieces
  <2>2. /\ piece \in [para : DOMAIN section, from : Nat, to : Nat]
        /\ piece.para = para.para /\ piece.from = start /\ piece.to = end
    BY <1>4, <1>6, <2>1, PartOfPiece
  <2> HIDE DEF piece
  <2>3. section[para.para] \in Nat
    BY <1>3, <2>1, ElementOfSeq, LenProperties DEF TextsOK
  <2>5. end <= section[para.para]
    BY <1>6, <2>1, <2>3
  <2>6. piece \in AllPieces
    BY <1>4, <1>6, <2>1, <2>2, <2>5 DEF AllPieces
  <2>7. Target[level] \in Nat
    BY <1>4, LevelNumbers
  <2> QED
    BY <1>4, <1>6, <2>2, <2>6, <2>7 DEF Size
<1> HIDE DEF piece
<1>8. <<piece>> \in Seq(AllPieces) /\ Joined(<<piece>>) <= Bound(level)
  <2>1. <<piece>> = Append(<<>>, piece) /\ <<>> \in Seq(AllPieces)
    BY EmptySeq
  <2>2. Joined(<<piece>>) = 0 + Size(piece) + 0
    BY <1>7, <2>1, TextGrows, EmptyText
  <2>3. Size(piece) \in Nat
    BY <1>7, PieceIsCounted
  <2> QED
    BY <1>4, <1>7, <2>2, <2>3, LevelNumbers DEF Bound, Separator
<1>9. /\ parents' \in Seq(Seq(AllPieces)) /\ children' \in Seq(Seq(AllPieces))
      /\ Windows' = Windows \cup {<<piece>>} /\ ChildrenAreBounded'
  BY <1>1, <1>3, <1>8, PutAdds
<1>10. /\ start' \in Nat /\ rest' \in Seq(AllPieces)
       /\ phase' \in {"paras", "hard"}
       /\ phase' = "hard" =>
            /\ ~(end >= para.to) /\ rest' = rest
            /\ start' > start /\ start' <= end
  <2>1. CASE end >= para.to /\ phase' = "paras" /\ rest' = Tail(rest) /\ start' = 0
    BY <1>5, <2>1
  <2>2. CASE /\ ~(end >= para.to) /\ phase' = phase /\ rest' = rest
             /\ start' = Max({end - Overlap[level], start + 1})
    <3>1. Overlap[level] \in Nat
      BY <1>4, LevelNumbers
    <3>2. start' = IF end - Overlap[level] >= start + 1 THEN end - Overlap[level] ELSE start + 1
      <4>1. end - Overlap[level] \in Int /\ start + 1 \in Int
        BY <1>4, <1>6, <3>1
      <4>2. start' = Max({end - Overlap[level], start + 1})
        BY <2>2
      <4> QED
        BY <4>1, <4>2, MaxOfTwo
    <3>3. start' \in Nat /\ start' > start /\ start' <= end
      BY <1>4, <1>6, <3>1, <3>2
    <3> QED
      BY <1>1, <1>4, <2>2, <3>3
  <2> QED
    BY <1>2, <2>1, <2>2
<1>11. TextsOK'
  BY <1>1, <1>3, <1>9, <1>10, SectionStays DEF TextsOK
<1>12. PhaseOK'
  <2>1. para.to \in Nat
    BY <1>5 DEF AllPieces
  <2>2. para.from \in Nat
    BY <1>5 DEF AllPieces
  <2> QED
    BY <1>4, <1>6, <1>10, <2>1, <2>2 DEF PhaseOK, para
<1>13. BufferOK'
  BY <1>1, <1>3 DEF BufferOK, Bound
<1>14. AllIsKept'
  <2> SUFFICES ASSUME NEW p \in DOMAIN section, NEW at \in 0 .. section[p] - 1
               PROVE  Unread(p, at)' \/ Holds(buf, p, at) \/ \E window \in Windows' : Holds(window, p, at)
    BY <1>1 DEF AllIsKept, Holds, Unread
  <2>1. CASE para.para = p /\ at < para.to /\ start <= at /\ at < end
    <3>1. piece \in Range(<<piece>>)
      BY DEF Range
    <3>2. Holds(<<piece>>, p, at)
      BY <1>7, <2>1, <3>1 DEF Holds
    <3> QED
      BY <1>9, <3>2
  <2>2. CASE para.para = p /\ at < para.to /\ start <= at /\ ~(at < end)
    <3>1. at \in Nat /\ end <= at /\ para.to \in Nat
      <4>1. section[p] \in Nat
        BY <1>3, ElementOfSeq, LenProperties DEF TextsOK
      <4> QED
        BY <1>5, <1>6, <2>2, <4>1 DEF AllPieces
    <3>2. phase' = "hard" /\ rest' = rest /\ start' <= at
      BY <1>1, <1>2, <1>6, <1>10, <2>2, <3>1
    <3>3. 1 \in DOMAIN rest
      BY <1>4, HeadAndTail
    <3> QED
      BY <1>5, <2>2, <3>2, <3>3 DEF Unread
  <2>3. CASE \E i \in DOMAIN Tail(rest) : Tail(rest)[i].para = p /\ Tail(rest)[i].from <= at
                                          /\ at < Tail(rest)[i].to
    <3>1. CASE rest' = Tail(rest) /\ phase' = "paras"
      BY <2>3, <3>1 DEF Unread
    <3>2. CASE rest' = rest /\ phase' = "hard"
      <4>1. PICK i \in DOMAIN Tail(rest) : Tail(rest)[i].para = p /\ Tail(rest)[i].from <= at
                                           /\ at < Tail(rest)[i].to
        BY <2>3
      <4>2. i \in Nat \ {0} /\ i + 1 \in DOMAIN rest /\ rest[i + 1] = Tail(rest)[i]
        <5>1. /\ Len(Tail(rest)) = Len(rest) - 1
              /\ \A j \in 1 .. Len(Tail(rest)) : Tail(rest)[j] = rest[j + 1]
          BY <1>4, HeadTailProperties
        <5>2. DOMAIN Tail(rest) = 1 .. Len(Tail(rest)) /\ DOMAIN rest = 1 .. Len(rest) /\ Len(rest) \in Nat
          BY <1>4, <1>5, LenProperties
        <5> QED
          BY <4>1, <5>1, <5>2
      <4> QED
        BY <3>2, <4>1, <4>2 DEF Unread
    <3> QED
      BY <1>1, <1>2, <3>1, <3>2
  <2>4. CASE Unread(p, at)
    BY <1>1, <1>4, <2>1, <2>2, <2>3, <2>4, UnreadHead DEF para
  <2> QED
    BY <1>3, <1>9, <2>4 DEF AllIsKept
<1> QED
  BY <1>9, <1>10, <1>11, <1>12, <1>13, <1>14 DEF ChunkingInv

(* What is left in the buffer becomes the last window.                     *)
LEMMA LastEmitKeeps ==
  ASSUME ChunkingInv, LastEmit
  PROVE  ChunkingInv'
<1>1. /\ phase = "paras" /\ rest = <<>> /\ buf' = <<>> /\ buf_len' = 0 /\ phase' = "done"
      /\ section' = section /\ breaks' = breaks /\ level' = level /\ rest' = rest /\ start' = start
      /\ IF buf # <<>> THEN Put(buf) ELSE PutNone
  BY DEF LastEmit
<1>2. TextsOK /\ PhaseOK /\ BufferOK /\ ChildrenAreBounded /\ AllIsKept
  BY DEF ChunkingInv
<1>3. /\ parents' \in Seq(Seq(AllPieces)) /\ children' \in Seq(Seq(AllPieces))
      /\ Windows \subseteq Windows' /\ (buf # <<>> => buf \in Windows') /\ ChildrenAreBounded'
  <2>1. CASE buf # <<>>
    BY <1>1, <1>2, <2>1, PutAdds DEF TextsOK, BufferOK
  <2>2. CASE buf = <<>>
    BY <1>1, <1>2, <2>2, PutNoneKeeps
  <2> QED
    BY <2>1, <2>2
<1>4. TextsOK'
  BY <1>1, <1>2, <1>3, SectionStays, EmptySeq DEF TextsOK
<1>5. PhaseOK' /\ BufferOK'
  <2>1. Bound(level) \in Nat
    BY <1>2, LevelNumbers DEF TextsOK
  <2> QED
    BY <1>1, <2>1, EmptyText DEF PhaseOK, BufferOK, Bound
<1>6. AllIsKept'
  <2> SUFFICES ASSUME NEW p \in DOMAIN section, NEW at \in 0 .. section[p] - 1
               PROVE  \E window \in Windows' : Holds(window, p, at)
    BY <1>1 DEF AllIsKept, Holds, Unread
  <2>1. ~Unread(p, at)
    BY <1>1 DEF Unread
  <2>2. CASE Holds(buf, p, at)
    <3>1. buf # <<>>
      BY <2>2 DEF Holds, Range
    <3> QED
      BY <1>3, <2>2, <3>1
  <2> QED
    BY <1>2, <1>3, <2>1, <2>2 DEF AllIsKept
<1> QED
  BY <1>3, <1>4, <1>5, <1>6 DEF ChunkingInv

(* A parent window becomes the text to be cut into children.               *)
LEMMA NextParentKeeps ==
  ASSUME ChunkingInv, NextParent
  PROVE  ChunkingInv'
<1>1. /\ phase = "done" /\ parents # <<>> /\ level' = "child" /\ rest' = Head(parents)
      /\ parents' = Tail(parents) /\ phase' = "text"
      /\ section' = section /\ breaks' = breaks /\ start' = start /\ buf' = buf
      /\ buf_len' = buf_len /\ children' = children
  BY DEF NextParent
<1>2. TextsOK /\ PhaseOK /\ BufferOK /\ ChildrenAreBounded /\ AllIsKept
  BY DEF ChunkingInv
<1>3. rest = <<>> /\ buf = <<>>
  BY <1>1, <1>2 DEF PhaseOK
<1>4. /\ Head(parents) \in Seq(AllPieces) /\ Tail(parents) \in Seq(Seq(AllPieces))
      /\ Range(parents) = {Head(parents)} \cup Range(Tail(parents))
  <2>1. /\ Head(parents) \in Seq(AllPieces) /\ Tail(parents) \in Seq(Seq(AllPieces))
        /\ Len(Tail(parents)) = Len(parents) - 1
        /\ \A j \in 1 .. Len(Tail(parents)) : Tail(parents)[j] = parents[j + 1]
    BY <1>1, <1>2, HeadTailProperties DEF TextsOK
  <2>2. /\ DOMAIN parents = 1 .. Len(parents) /\ Len(parents) \in Nat /\ Len(parents) >= 1
        /\ DOMAIN Tail(parents) = 1 .. Len(parents) - 1
    BY <1>1, <1>2, <2>1, LenProperties, EmptySeq DEF TextsOK
  <2>3. Head(parents) = parents[1]
    BY <1>1, <1>2 DEF TextsOK
  <2>4. ASSUME NEW x PROVE x \in Range(parents) <=> x = Head(parents) \/ x \in Range(Tail(parents))
    <3>1. ASSUME NEW i \in DOMAIN parents, i # 1
          PROVE  i - 1 \in DOMAIN Tail(parents) /\ Tail(parents)[i - 1] = parents[i]
      BY <2>1, <2>2, <3>1
    <3>2. ASSUME NEW i \in DOMAIN Tail(parents)
          PROVE  i + 1 \in DOMAIN parents /\ Tail(parents)[i] = parents[i + 1]
      BY <2>1, <2>2
    <3>3. 1 \in DOMAIN parents
      BY <2>2
    <3>4. ASSUME x \in Range(parents) PROVE x = Head(parents) \/ x \in Range(Tail(parents))
      <4>1. PICK i \in DOMAIN parents : x = parents[i]
        BY <3>4 DEF Range
      <4>2. CASE i = 1
        BY <2>3, <4>1, <4>2
      <4>3. CASE i # 1
        BY <3>1, <4>1, <4>3 DEF Range
      <4> QED
        BY <4>2, <4>3
    <3>5. ASSUME x = Head(parents) \/ x \in Range(Tail(parents)) PROVE x \in Range(parents)
      BY <2>3, <3>2, <3>3, <3>5 DEF Range
    <3> QED
      BY <3>4, <3>5
  <2> QED
    BY <2>1, <2>4
<1>5. TextsOK'
  BY <1>1, <1>2, <1>4, SectionStays DEF TextsOK, Levels
<1>6. PhaseOK' /\ BufferOK' /\ ChildrenAreBounded'
  <2>1. Bound("child") \in Nat
    BY LevelNumbers DEF Levels
  <2> QED
    BY <1>1, <1>2, <1>3, <2>1, EmptyText DEF PhaseOK, BufferOK, Bound, ChildrenAreBounded
<1>7. AllIsKept'
  <2> SUFFICES ASSUME NEW p \in DOMAIN section, NEW at \in 0 .. section[p] - 1
               PROVE  Unread(p, at)' \/ \E window \in Windows' : Holds(window, p, at)
    BY <1>1 DEF AllIsKept, Holds, Unread
  <2>1. PICK window \in Windows : Holds(window, p, at)
    <3>1. ~Unread(p, at) /\ ~Holds(buf, p, at)
      BY <1>3 DEF Unread, Holds, Range
    <3> QED
      BY <1>2, <3>1 DEF AllIsKept
  <2>2. CASE window = Head(parents)
    BY <1>1, <2>1, <2>2 DEF Holds, Unread, Range
  <2>3. CASE window \in Range(Tail(parents)) \cup Range(children)
    BY <1>1, <2>1, <2>3 DEF Windows
  <2> QED
    BY <1>4, <2>1, <2>2, <2>3 DEF Windows
<1> QED
  BY <1>5, <1>6, <1>7 DEF ChunkingInv

(* At first all of the section is unread.                                  *)
LEMMA ChunkingInitially ==
  ASSUME ChunkingInit
  PROVE  ChunkingInv
<1>1. PICK n \in 1 .. MaxParas : section \in [1 .. n -> Lengths]
  BY DEF ChunkingInit, Sections
<1>2. n \in Nat /\ Lengths \subseteq Nat \ {0} /\ BreakAt \subseteq Nat
  BY <1>1, ChunkingAssumption
<1>3. section \in Seq(Nat) /\ Len(section) = n /\ DOMAIN section = 1 .. n
  <2>1. section \in [1 .. n -> Nat]
    BY <1>1, <1>2
  <2>2. section \in Seq(Nat)
    BY <1>2, <2>1, SeqDef
  <2> QED
    BY <1>2, <2>1, <2>2, LenProperties
<1>4. /\ rest = [p \in 1 .. n |-> [para |-> p, from |-> 0, to |-> section[p]]]
      /\ level = "parent" /\ breaks \subseteq BreakAt /\ start = 0 /\ buf = <<>> /\ buf_len = 0
      /\ phase = "text" /\ parents = <<>> /\ children = <<>>
  BY <1>3 DEF ChunkingInit, Paragraphs
<1>5. ASSUME NEW p \in 1 .. n PROVE [para |-> p, from |-> 0, to |-> section[p]] \in AllPieces
  <2>1. section[p] \in Nat /\ section[p] > 0
    <3>1. section[p] \in Lengths
      BY <1>1
    <3>2. section[p] \in Nat /\ section[p] # 0
      BY <1>2, <3>1
    <3> QED
      BY <3>2
  <2> QED
    BY <1>3, <2>1 DEF AllPieces
<1>6. rest \in Seq(AllPieces)
  <2>1. rest \in [1 .. n -> AllPieces]
    BY <1>4, <1>5
  <2> QED
    BY <1>2, <2>1, SeqDef
<1>7. TextsOK /\ PhaseOK
  BY <1>2, <1>3, <1>4, <1>6, EmptySeq DEF TextsOK, PhaseOK, Levels
<1>8. BufferOK
  <2>1. Bound("parent") \in Nat
    BY LevelNumbers DEF Levels
  <2> QED
    BY <1>4, <2>1, EmptyText DEF BufferOK
<1>9. ChildrenAreBounded
  BY <1>4 DEF ChildrenAreBounded, Range
<1>10. AllIsKept
  <2> SUFFICES ASSUME NEW p \in DOMAIN section, NEW at \in 0 .. section[p] - 1
               PROVE  Unread(p, at)
    BY DEF AllIsKept
  <2>1. p \in DOMAIN rest /\ rest[p].para = p /\ rest[p].from = 0 /\ rest[p].to = section[p]
    BY <1>3, <1>4
  <2>2. section[p] \in Nat
    BY <1>1, <1>2, <1>3
  <2> QED
    BY <1>4, <2>1, <2>2 DEF Unread
<1> QED
  BY <1>7, <1>8, <1>9, <1>10 DEF ChunkingInv

(* Every step of the chunker.                                              *)
LEMMA ChunkingStep ==
  ASSUME ChunkingInv, [ChunkingNext]_chunkingVars
  PROVE  ChunkingInv'
<1>1. CASE Short
  BY <1>1, ShortKeeps DEF Short
<1>2. CASE Long
  BY <1>2, LongKeeps DEF Long
<1>3. CASE AddParagraph
  BY <1>3, AddParagraphKeeps DEF AddParagraph
<1>4. CASE LongParagraph
  BY <1>4, LongParagraphKeeps DEF LongParagraph
<1>5. CASE HardSplit
  BY <1>5, HardSplitKeeps
<1>6. CASE LastEmit
  BY <1>6, LastEmitKeeps DEF LastEmit
<1>7. CASE NextParent
  BY <1>7, NextParentKeeps DEF NextParent
<1>8. CASE UNCHANGED chunkingVars
  <2>1. AllPieces' = AllPieces
    BY <1>8, SectionStays DEF chunkingVars
  <2> QED
    BY <1>8, <2>1 DEF ChunkingInv, TextsOK, PhaseOK, BufferOK, ChildrenAreBounded, AllIsKept, Unread,
                      Holds, Windows, Bound, chunkingVars
<1> QED
  BY <1>1, <1>2, <1>3, <1>4, <1>5, <1>6, <1>7, <1>8 DEF ChunkingNext, Step, Finished

(* Pieces are parts of the section with at least one character, and the    *)
(* count that _split_by_size keeps of its buffer is the length of the      *)
(* buffer, for any section, targets, maxima and overlaps.                  *)
THEOREM ChunkingTypeCorrect == ChunkingSpec => []ChunkingTypeOK
<1>1. ChunkingInv => ChunkingTypeOK
  <2> SUFFICES ASSUME ChunkingInv PROVE ChunkingTypeOK
    OBVIOUS
  <2>1. TextsOK /\ buf_len = Joined(buf)
    BY DEF ChunkingInv, BufferOK
  <2>2. ASSUME NEW window \in {rest, buf} \cup Range(parents) \cup Range(children)
        PROVE  window \in Seq(AllPieces)
    BY <2>1, ElementOfSeq, LenProperties DEF TextsOK, Range
  <2>3. ASSUME NEW window \in Seq(AllPieces), NEW i \in DOMAIN window
        PROVE  /\ window[i].para \in DOMAIN section
               /\ 0 <= window[i].from /\ window[i].from < window[i].to
               /\ window[i].to <= section[window[i].para]
    <3>1. window[i] \in AllPieces
      BY ElementOfSeq, LenProperties
    <3> QED
      BY <3>1 DEF AllPieces
  <2> QED
    BY <2>1, <2>2, <2>3 DEF ChunkingTypeOK, TextsOK
<1> QED
  BY <1>1, ChunkingInitially, ChunkingStep, PTL DEF ChunkingSpec

(* _split_by_size, applied to a section and then to each of its windows,   *)
(* loses no character of any section and makes no child longer than the    *)
(* maximum, the overlap and a separator, whatever the lengths of           *)
(* paragraphs and wherever their line breaks are.                          *)
THEOREM NothingIsLostInCutting == ChunkingSpec => []ChunksAreFaithful
<1>1. ChunkingInv => ChunksAreFaithful
  <2> SUFFICES ASSUME ChunkingInv PROVE ChunksAreFaithful
    OBVIOUS
  <2>1. ASSUME Complete, NEW p \in DOMAIN section, NEW at \in 0 .. section[p] - 1
        PROVE  \E c \in Range(children) : \E piece \in Range(c) :
                 piece.para = p /\ piece.from <= at /\ at < piece.to
    <3>1. rest = <<>> /\ buf = <<>> /\ parents = <<>>
      BY <2>1 DEF ChunkingInv, PhaseOK, Complete
    <3>2. ~Unread(p, at) /\ ~Holds(buf, p, at) /\ Windows = Range(children)
      BY <3>1 DEF Unread, Holds, Windows, Range
    <3> QED
      BY <3>2 DEF ChunkingInv, AllIsKept, Holds
  <2> QED
    BY <2>1 DEF ChunksAreFaithful, NothingIsLost, ChunkingInv
<1> QED
  BY <1>1, ChunkingInitially, ChunkingStep, PTL DEF ChunkingSpec

---------------------------------------------------------------------------
(***************************************************************************)
(* Retrieval.                                                              *)
(*                                                                         *)
(* RanksAreFused has two parts.  That the weights give the intended order  *)
(* is about fractions alone (WeightsOrder).  That cutting each doc type    *)
(* and then the union loses nothing is about order: the hits ahead of a    *)
(* hit determine its place, so the first m are those with fewer than m     *)
(* ahead of them (TopIsTop); RetrievalInv says that of every doc type      *)
(* asked for, what was found is among the hits so far or has a full answer *)
(* ahead of it there, and more hits only add to that.                      *)
(***************************************************************************)

(* Products of naturals keep the order of their factors.                   *)
LEMMA ProductIsMonotone ==
  ASSUME NEW x \in Nat, NEW y \in Nat, NEW d \in Nat, x <= y
  PROVE  x * d \in Nat /\ y * d \in Nat /\ x * d <= y * d
OBVIOUS

(* A factor other than zero does not change which product is smaller.      *)
LEMMA ProductCancels ==
  ASSUME NEW x \in Nat, NEW y \in Nat, NEW d \in Nat \ {0}
  PROVE  /\ x * d \in Nat /\ y * d \in Nat
         /\ (x * d < y * d) <=> (x < y)
OBVIOUS

(* Three factors in any order.                                             *)
LEMMA ProductsCommute ==
  ASSUME NEW x \in Nat, NEW y \in Nat, NEW z \in Nat
  PROVE  /\ x * y \in Nat /\ x * z \in Nat /\ y * z \in Nat /\ (x * y) * z \in Nat
         /\ (x * y) * z = (x * z) * y /\ (x * y) * z = (y * z) * x
OBVIOUS

(* Cross products of fractions.                                            *)
LEMMA CrossProducts ==
  ASSUME NEW A \in Nat, NEW p \in Nat \ {0}, NEW B \in Nat, NEW q \in Nat \ {0},
         NEW C \in Nat, NEW r \in Nat \ {0},
         A * q <= B * p, B * r <= C * q
  PROVE  /\ A * r <= C * p
         /\ A * q < B * p \/ B * r < C * q => A * r < C * p
<1> DEFINE Aq == A * q
           Bp == B * p
           Br == B * r
           Cq == C * q
           Ar == A * r
           Cp == C * p
<1>1. Aq \in Nat /\ Bp \in Nat /\ Br \in Nat /\ Cq \in Nat /\ Ar \in Nat /\ Cp \in Nat
  BY ProductsCommute
<1>2. Aq * r = Ar * q /\ Bp * r = Br * p /\ Cq * p = Cp * q
  BY ProductsCommute
<1>3. Aq <= Bp /\ Br <= Cq
  OBVIOUS
<1> HIDE DEF Aq, Bp, Br, Cq, Ar, Cp
<1>4. Aq * r \in Nat /\ Bp * r \in Nat /\ Aq * r <= Bp * r /\ (Aq < Bp => Aq * r < Bp * r)
  BY <1>1, <1>3, ProductIsMonotone, ProductCancels
<1>5. Br * p \in Nat /\ Cq * p \in Nat /\ Br * p <= Cq * p /\ (Br < Cq => Br * p < Cq * p)
  BY <1>1, <1>3, ProductIsMonotone, ProductCancels
<1>6. Ar * q <= Cp * q /\ (Aq < Bp \/ Br < Cq => Ar * q < Cp * q)
  BY <1>2, <1>4, <1>5
<1>7. (Ar * q < Cp * q) <=> (Ar < Cp)
  BY <1>1, ProductCancels
<1>8. (Cp * q < Ar * q) <=> (Cp < Ar)
  BY <1>1, ProductCancels
<1>9. Ar * q \in Nat /\ Cp * q \in Nat
  BY <1>1, ProductCancels
<1>10. Ar <= Cp /\ (Aq < Bp \/ Br < Cq => Ar < Cp)
  BY <1>1, <1>6, <1>7, <1>8, <1>9
<1> QED
  BY <1>10 DEF Aq, Bp, Br, Cq, Ar, Cp

Fractions == [n : Nat, d : Nat \ {0}]

(* At most as much is transitive, and so is less with it.                  *)
LEMMA LessIsTransitive ==
  ASSUME NEW a \in Fractions, NEW b \in Fractions, NEW c \in Fractions,
         ~Less(b, a), ~Less(c, b)
  PROVE  /\ ~Less(c, a)
         /\ Less(a, b) \/ Less(b, c) => Less(a, c)
<1>1. /\ a.n \in Nat /\ a.d \in Nat \ {0} /\ b.n \in Nat /\ b.d \in Nat \ {0}
      /\ c.n \in Nat /\ c.d \in Nat \ {0}
  BY DEF Fractions
<1>2. /\ a.n * b.d \in Nat /\ b.n * a.d \in Nat /\ b.n * c.d \in Nat /\ c.n * b.d \in Nat
      /\ a.n * c.d \in Nat /\ c.n * a.d \in Nat
  BY <1>1, ProductsCommute
<1>3. a.n * b.d <= b.n * a.d /\ b.n * c.d <= c.n * b.d
  BY <1>2 DEF Less
<1>4. /\ a.n * c.d <= c.n * a.d
      /\ a.n * b.d < b.n * a.d \/ b.n * c.d < c.n * b.d => a.n * c.d < c.n * a.d
  BY <1>1, <1>3, CrossProducts
<1> QED
  BY <1>2, <1>4 DEF Less

(* What a chunk earns, by the searches that found it.                      *)
LEMMA Scores ==
  ASSUME NEW c, text[c] \in Nat, vector[c] \in Nat
  PROVE  /\ Score(c) \in Fractions
         /\ text[c] # 0 /\ vector[c] # 0 =>
              /\ Score(c).n = 7 * (60 + vector[c]) + 3 * (60 + text[c])
              /\ Score(c).d = (60 + text[c]) * (60 + vector[c])
         /\ text[c] # 0 /\ vector[c] = 0 => Score(c).n = 7 /\ Score(c).d = 60 + text[c]
         /\ text[c] = 0 /\ vector[c] # 0 => Score(c).n = 3 /\ Score(c).d = 60 + vector[c]
         /\ text[c] = 0 /\ vector[c] = 0 => Score(c).n = 0 /\ Score(c).d = 1
<1> DEFINE t == IF text[c] = 0 THEN Fraction(0, 1) ELSE Fraction(7, 60 + text[c])
           v == IF vector[c] = 0 THEN Fraction(0, 1) ELSE Fraction(3, 60 + vector[c])
<1>1. Score(c) = Plus(t, v)
  BY DEF Score, Weight, RrfK
<1>2. /\ t.n = (IF text[c] = 0 THEN 0 ELSE 7) /\ t.d = (IF text[c] = 0 THEN 1 ELSE 60 + text[c])
      /\ v.n = (IF vector[c] = 0 THEN 0 ELSE 3) /\ v.d = (IF vector[c] = 0 THEN 1 ELSE 60 + vector[c])
  BY DEF Fraction
<1>3. t.n \in Nat /\ t.d \in Nat \ {0} /\ v.n \in Nat /\ v.d \in Nat \ {0}
  BY <1>2
<1> HIDE DEF t, v
<1>4. Score(c) = [n |-> t.n * v.d + v.n * t.d, d |-> t.d * v.d]
  BY <1>1 DEF Plus, Fraction
<1>5. t.n * v.d \in Nat /\ v.n * t.d \in Nat /\ t.d * v.d \in Nat \ {0}
  BY <1>3
<1>6. Score(c) \in Fractions /\ Score(c).n = t.n * v.d + v.n * t.d /\ Score(c).d = t.d * v.d
  BY <1>4, <1>5 DEF Fractions
<1>7. CASE text[c] # 0 /\ vector[c] # 0
  BY <1>2, <1>6, <1>7
<1>8. CASE text[c] # 0 /\ vector[c] = 0
  BY <1>2, <1>6, <1>8
<1>9. CASE text[c] = 0 /\ vector[c] # 0
  BY <1>2, <1>6, <1>9
<1>10. CASE text[c] = 0 /\ vector[c] = 0
  BY <1>2, <1>6, <1>10
<1> QED
  BY <1>6, <1>7, <1>8, <1>9, <1>10

(* Two ranks against one.  The weights give way at the 28th place.         *)
LEMMA TwoRanksBeatText ==
  ASSUME NEW x \in 61 .. 87, NEW y \in 61 .. 87, NEW z \in 61 .. 87
  PROVE  7 * (x * y) < (7 * y + 3 * x) * z
<1>1. (7 * y + 3 * x) * 61 <= (7 * y + 3 * x) * z
  OBVIOUS
<1>2. 7 * (x * y) < (7 * y + 3 * x) * 61
  <2>1. CASE x <= 61
    BY <2>1
  <2>2. CASE x > 61
    <3>1. y * (7 * x - 427) <= 87 * (7 * x - 427)
      BY <2>2
    <3> QED
      BY <3>1
  <2> QED
    BY <2>1, <2>2
<1> QED
  BY <1>1, <1>2

(* Two ranks against a vector rank alone, among any fifty candidates.      *)
LEMMA TwoRanksBeatVector ==
  ASSUME NEW x \in 61 .. 110, NEW y \in 61 .. 110, NEW z \in 61 .. 110
  PROVE  3 * (x * y) < (7 * y + 3 * x) * z
<1>1. (7 * y + 3 * x) * 61 <= (7 * y + 3 * x) * z
  OBVIOUS
<1>2. x * y <= 110 * y
  OBVIOUS
<1> QED
  BY <1>1, <1>2

(* The places among the candidates of a search.                            *)
LEMMA RanksAreSmall ==
  ASSUME text \in Rankings, vector \in Rankings, NEW c \in Chunks
  PROVE  /\ text[c] \in 0 .. 50 /\ vector[c] \in 0 .. 50
         /\ candidate_size(KnowledgeCap) <= 27 => text[c] \in 0 .. 27 /\ vector[c] \in 0 .. 27
<1>1. /\ text[c] \in 0 .. candidate_size(KnowledgeCap)
      /\ vector[c] \in 0 .. candidate_size(KnowledgeCap) /\ KnowledgeCap \in Nat \ {0}
  BY RetrievalAssumption
<1>2. candidate_size(KnowledgeCap) \in 20 .. 50
  BY <1>1 DEF candidate_size
<1> QED
  BY <1>1, <1>2

(* The order that the weights are meant to give.                           *)
LEMMA WeightsOrder ==
  ASSUME text \in Rankings, vector \in Rankings
  PROVE  TextBeatsVectorOnly /\ (candidate_size(KnowledgeCap) <= 27 => BothBeatsOne)
<1>1. ASSUME NEW a \in Chunks, NEW b \in Chunks, text[a] # 0, text[b] = 0
      PROVE  Less(Score(b), Score(a))
  <2>1. text[a] \in 1 .. 50 /\ vector[a] \in 0 .. 50 /\ vector[b] \in 0 .. 50
    BY <1>1, RanksAreSmall
  <2> DEFINE x == 60 + text[a]
             y == 60 + vector[a]
             z == 60 + vector[b]
  <2>2. x \in 61 .. 110 /\ y \in 60 .. 110 /\ z \in 60 .. 110
    BY <2>1
  <2>3. \/ vector[a] # 0 /\ y \in 61 .. 110 /\ Score(a).n = 7 * y + 3 * x /\ Score(a).d = x * y
        \/ vector[a] = 0 /\ Score(a).n = 7 /\ Score(a).d = x
    BY <1>1, <2>1, Scores
  <2>4. \/ vector[b] # 0 /\ z \in 61 .. 110 /\ Score(b).n = 3 /\ Score(b).d = z
        \/ vector[b] = 0 /\ Score(b).n = 0 /\ Score(b).d = 1
    BY <1>1, <2>1, Scores
  <2> HIDE DEF x, y, z
  <2>5. CASE Score(b).n = 0 /\ Score(b).d = 1
    <3>1. Score(a).d \in Nat /\ Score(a).n \in Nat \ {0}
      BY <2>2, <2>3
    <3> QED
      BY <2>5, <3>1 DEF Less
  <2>6. CASE z \in 61 .. 110 /\ Score(b).n = 3 /\ Score(b).d = z
    <3>1. CASE Score(a).n = 7 /\ Score(a).d = x
      BY <2>2, <2>6, <3>1 DEF Less
    <3>2. CASE y \in 61 .. 110 /\ Score(a).n = 7 * y + 3 * x /\ Score(a).d = x * y
      <4>1. 3 * (x * y) < (7 * y + 3 * x) * z
        BY <2>2, <2>6, <3>2, TwoRanksBeatVector
      <4> QED
        BY <2>6, <3>2, <4>1 DEF Less
    <3> QED
      BY <2>3, <3>1, <3>2
  <2> QED
    BY <2>4, <2>5, <2>6
<1>2. ASSUME candidate_size(KnowledgeCap) <= 27, NEW a \in Chunks, NEW b \in Chunks,
             text[a] # 0, vector[a] # 0, text[b] = 0 \/ vector[b] = 0
      PROVE  Less(Score(b), Score(a))
  <2>1. CASE text[b] = 0
    BY <1>1, <1>2, <2>1
  <2>2. CASE text[b] # 0
    <3>1. text[a] \in 1 .. 27 /\ vector[a] \in 1 .. 27 /\ text[b] \in 1 .. 27 /\ vector[b] = 0
      BY <1>2, <2>2, RanksAreSmall
    <3> DEFINE x == 60 + text[a]
               y == 60 + vector[a]
               z == 60 + text[b]
    <3>2. x \in 61 .. 87 /\ y \in 61 .. 87 /\ z \in 61 .. 87
      BY <3>1
    <3>3. Score(a).n = 7 * y + 3 * x /\ Score(a).d = x * y /\ Score(b).n = 7 /\ Score(b).d = z
      BY <3>1, Scores
    <3> HIDE DEF x, y, z
    <3>4. 7 * (x * y) < (7 * y + 3 * x) * z
      BY <3>2, TwoRanksBeatText
    <3> QED
      BY <3>3, <3>4 DEF Less
  <2> QED
    BY <2>1, <2>2
<1> QED
  BY <1>1, <1>2 DEF TextBeatsVectorOnly, BothBeatsOne

---------------------------------------------------------------------------
AllHits == [chunk : Nat, score : Fractions]
Rank(hit, hits) == Cardinality(Ahead(hit, hits))

(* A fraction is not less than itself, nor two less than each other.       *)
LEMMA LessIsStrict ==
  ASSUME NEW a \in Fractions, NEW b \in Fractions
  PROVE  ~Less(a, a) /\ (Less(a, b) => ~Less(b, a))
<1>1. a.n * b.d \in Nat /\ b.n * a.d \in Nat /\ a.n * a.d \in Nat
  BY DEF Fractions
<1> QED
  BY <1>1 DEF Less

(* No hit comes before itself, no two before each other, and of two chunks *)
(* one comes first.                                                        *)
LEMMA BeforeIsOrder ==
  ASSUME NEW a \in AllHits, NEW b \in AllHits
  PROVE  /\ ~Before(a, a)
         /\ ~(Before(a, b) /\ Before(b, a))
         /\ a.chunk # b.chunk => Before(a, b) \/ Before(b, a)
<1>1. a.score \in Fractions /\ b.score \in Fractions /\ a.chunk \in Nat /\ b.chunk \in Nat
  BY DEF AllHits
<1> QED
  BY <1>1, LessIsStrict DEF Before

(* Of three hits in a row the first comes before the last.                 *)
LEMMA BeforeIsTransitive ==
  ASSUME NEW a \in AllHits, NEW b \in AllHits, NEW c \in AllHits, Before(a, b), Before(b, c)
  PROVE  Before(a, c)
<1>1. /\ a.score \in Fractions /\ b.score \in Fractions /\ c.score \in Fractions
      /\ a.chunk \in Nat /\ b.chunk \in Nat /\ c.chunk \in Nat
  BY DEF AllHits
<1>2. ~Less(a.score, b.score) /\ ~Less(b.score, c.score)
  BY <1>1, LessIsStrict DEF Before
<1>3. /\ ~Less(a.score, c.score)
      /\ Less(c.score, b.score) \/ Less(b.score, a.score) => Less(c.score, a.score)
  BY <1>1, <1>2, LessIsTransitive
<1> QED
  BY <1>1, <1>3 DEF Before

(* A hit that comes before another has fewer ahead of it.                  *)
LEMMA RanksFollowOrder ==
  ASSUME NEW hits \in SUBSET AllHits, IsFiniteSet(hits), NEW a \in AllHits, NEW b \in AllHits
  PROVE  /\ Rank(a, hits) \in Nat /\ Rank(a, hits) <= Cardinality(hits)
         /\ a \in hits => Rank(a, hits) < Cardinality(hits)
         /\ Before(a, b) => Rank(a, hits) <= Rank(b, hits)
         /\ Before(a, b) /\ a \in hits => Rank(a, hits) < Rank(b, hits)
<1>1. Ahead(a, hits) \in SUBSET hits /\ Ahead(b, hits) \in SUBSET hits
  BY DEF Ahead
<1>2. IsFiniteSet(Ahead(a, hits)) /\ IsFiniteSet(Ahead(b, hits))
  BY <1>1, FS_Subset
<1>3. Rank(a, hits) \in Nat /\ Rank(b, hits) \in Nat /\ Cardinality(hits) \in Nat
  BY <1>2, FS_CardinalityType DEF Rank
<1>4. Rank(a, hits) <= Cardinality(hits)
  BY <1>1, FS_Subset DEF Rank
<1>5. ASSUME a \in hits PROVE Rank(a, hits) < Cardinality(hits)
  <2>1. a \notin Ahead(a, hits)
    BY BeforeIsOrder DEF Ahead
  <2>2. Rank(a, hits) # Cardinality(hits)
    BY <1>1, <1>5, <2>1, FS_Subset DEF Rank
  <2> QED
    BY <1>3, <1>4, <2>2
<1>6. ASSUME Before(a, b) PROVE Ahead(a, hits) \in SUBSET Ahead(b, hits)
  BY <1>6, BeforeIsTransitive DEF Ahead
<1>7. ASSUME Before(a, b) PROVE Rank(a, hits) <= Rank(b, hits)
  BY <1>2, <1>6, <1>7, FS_Subset DEF Rank
<1>8. ASSUME Before(a, b), a \in hits PROVE Rank(a, hits) < Rank(b, hits)
  <2>1. a \in Ahead(b, hits) /\ a \notin Ahead(a, hits)
    BY <1>8, BeforeIsOrder DEF Ahead
  <2>2. Rank(a, hits) # Rank(b, hits)
    BY <1>2, <1>6, <1>8, <2>1, FS_Subset DEF Rank
  <2> QED
    BY <1>3, <1>7, <1>8, <2>2
<1> QED
  BY <1>3, <1>4, <1>5, <1>7, <1>8

Distinct(hits) == \A a, b \in hits : a.chunk = b.chunk => a = b

(* Every place is taken, by one hit.                                       *)
LEMMA PlacesAreTaken ==
  ASSUME NEW hits \in SUBSET AllHits, IsFiniteSet(hits), Distinct(hits)
  PROVE  /\ \A a, b \in hits : Rank(a, hits) = Rank(b, hits) => a = b
         /\ \A k \in Nat : k < Cardinality(hits) => \E a \in hits : Rank(a, hits) = k
<1> DEFINE n == Cardinality(hits)
           T == 0 .. n - 1
           f == [a \in hits |-> Rank(a, hits)]
<1>1. n \in Nat
  BY FS_CardinalityType
<1>2. ASSUME NEW a \in hits, NEW b \in hits, Rank(a, hits) = Rank(b, hits) PROVE a = b
  <2>1. a \in AllHits /\ b \in AllHits /\ Rank(a, hits) \in Nat /\ Rank(b, hits) \in Nat
    BY RanksFollowOrder
  <2>2. ~Before(a, b) /\ ~Before(b, a)
    BY <1>2, <2>1, RanksFollowOrder
  <2> QED
    BY <2>1, <2>2, BeforeIsOrder DEF Distinct
<1>3. \A a \in hits : Rank(a, hits) \in Nat /\ Rank(a, hits) < n
  BY RanksFollowOrder
<1>4. \A a \in hits : Rank(a, hits) \in T
  <2> HIDE DEF n
  <2> QED BY <1>1, <1>3
<1>5. f \in Injection(hits, T)
  <2> HIDE DEF T
  <2> QED BY <1>2, <1>4 DEF Injection, IsInjective
<1>6. IsFiniteSet(T) /\ Cardinality(T) = n
  <2> HIDE DEF n
  <2>1. 0 \in Int /\ n - 1 \in Int
    BY <1>1
  <2>2. IsFiniteSet(0 .. n - 1) /\ Cardinality(0 .. n - 1) = IF 0 > n - 1 THEN 0 ELSE (n - 1) - 0 + 1
    BY <2>1, FS_Interval
  <2> QED
    BY <1>1, <2>2
<1>7. f \in Surjection(hits, T)
  <2> HIDE DEF T, f
  <2> QED BY <1>5, <1>6, FS_Injection
<1>8. ASSUME NEW k \in Nat, k < n PROVE \E a \in hits : Rank(a, hits) = k
  <2>1. k \in T
    <3> HIDE DEF n
    <3> QED BY <1>1, <1>8
  <2> HIDE DEF T
  <2> QED
    BY <1>7, <2>1 DEF Surjection
<1> QED
  BY <1>2, <1>8

(* The first m hits are those with fewer than m ahead of them.             *)
LEMMA TopIsTop ==
  ASSUME NEW hits \in SUBSET AllHits, IsFiniteSet(hits), Distinct(hits), NEW m \in Nat
  PROVE  /\ DOMAIN Top(m, hits) = 1 .. (IF Cardinality(hits) < m THEN Cardinality(hits) ELSE m)
         /\ \A i \in DOMAIN Top(m, hits) : Top(m, hits)[i] \in hits /\ Rank(Top(m, hits)[i], hits) = i - 1
         /\ \A a \in hits : Rank(a, hits) < m => \E i \in DOMAIN Top(m, hits) : Top(m, hits)[i] = a
<1> DEFINE n == Cardinality(hits)
           D == 1 .. (IF n < m THEN n ELSE m)
<1>1. n \in Nat
  BY FS_CardinalityType
<1>2. Top(m, hits) = [i \in D |-> CHOOSE hit \in hits : Rank(hit, hits) = i - 1]
  BY DEF Top, Rank
<1>3. ASSUME NEW i \in D PROVE i - 1 \in Nat /\ i - 1 < n
  <2> HIDE DEF n
  <2> QED BY <1>1
<1>4. ASSUME NEW i \in D
      PROVE  Top(m, hits)[i] \in hits /\ Rank(Top(m, hits)[i], hits) = i - 1
  <2>1. \E a \in hits : Rank(a, hits) = i - 1
    BY <1>3, PlacesAreTaken
  <2>2. Top(m, hits)[i] = CHOOSE hit \in hits : Rank(hit, hits) = i - 1
    <3> HIDE DEF D
    <3> QED BY <1>2
  <2> QED
    BY <2>1, <2>2
<1>5. ASSUME NEW a \in hits, Rank(a, hits) < m PROVE \E i \in D : Top(m, hits)[i] = a
  <2>1. Rank(a, hits) \in Nat /\ Rank(a, hits) < n
    BY RanksFollowOrder
  <2>2. Rank(a, hits) + 1 \in D
    <3> HIDE DEF n
    <3> QED BY <1>1, <1>5, <2>1
  <2>3. Rank(Top(m, hits)[Rank(a, hits) + 1], hits) = Rank(a, hits)
    BY <1>4, <2>1, <2>2
  <2>4. Top(m, hits)[Rank(a, hits) + 1] = a
    BY <1>4, <2>2, <2>3, PlacesAreTaken
  <2> QED
    BY <2>2, <2>4
<1>6. DOMAIN Top(m, hits) = D
  BY <1>2
<1> QED
  BY <1>4, <1>5, <1>6

(* A list without duplicates has as many members as places.                *)
LEMMA MembersAreCounted ==
  ASSUME NEW k \in Nat, NEW f, \A i, j \in 1 .. k : f[i] = f[j] => i = j,
         NEW S, S = {f[i] : i \in 1 .. k}
  PROVE  Cardinality(S) = k
<1> DEFINE g == [i \in 1 .. k |-> f[i]]
<1>1. g \in Bijection(1 .. k, S)
  BY DEF Bijection, Injection, Surjection, IsInjective
<1>2. ExistsBijection(1 .. k, S)
  <2> HIDE DEF g
  <2> QED BY <1>1 DEF ExistsBijection
<1> QED
  BY <1>2, FS_CountingElements

RetrievalInv ==
  /\ text \in Rankings /\ vector \in Rankings /\ todo \subseteq DocTypes
  /\ by_id \subseteq {Hit(c) : c \in Found}
  /\ \A c \in Found : TypeOf[c] \notin todo =>
       Hit(c) \in by_id \/ KnowledgeCap <= Rank(Hit(c), by_id)
  /\ result = <<>> \/ (todo = {} /\ result = Top(KnowledgeCap, by_id))

(* Hits of the index.                                                      *)
LEMMA HitsAreHits ==
  ASSUME text \in Rankings, vector \in Rankings, NEW hits, hits \subseteq {Hit(c) : c \in Chunks}
  PROVE  /\ \A c \in Chunks : Hit(c) \in AllHits /\ Hit(c).chunk = c
         /\ hits \in SUBSET AllHits /\ IsFiniteSet(hits) /\ Distinct(hits)
<1>1. ASSUME NEW c \in Chunks PROVE Hit(c) \in AllHits /\ Hit(c).chunk = c
  <2>1. c \in Nat /\ text[c] \in Nat /\ vector[c] \in Nat
    BY RanksAreSmall, RetrievalAssumption
  <2> QED
    BY <2>1, Scores DEF Hit, AllHits
<1> DEFINE all == {Hit(c) : c \in Chunks}
<1>2. IsFiniteSet(all)
  <2> DEFINE f == [c \in Chunks |-> Hit(c)]
  <2>1. f \in Surjection(Chunks, all)
    BY DEF Surjection
  <2> HIDE DEF f, all
  <2> QED
    BY <2>1, RetrievalAssumption, FS_Surjection
<1>3. IsFiniteSet(hits)
  <2> HIDE DEF all
  <2>1. hits \in SUBSET all
    BY DEF all
  <2> QED
    BY <1>2, <2>1, FS_Subset
<1> QED
  BY <1>1, <1>3 DEF Distinct

(* What the first cut of a doc type leaves out is beaten by a full answer. *)
LEMMA CutIsBeaten ==
  ASSUME NEW hits \in SUBSET AllHits, IsFiniteSet(hits), Distinct(hits), NEW m \in Nat,
         NEW a \in AllHits, m <= Rank(a, hits),
         \A b \in hits : b.chunk = a.chunk => b = a
  PROVE  /\ DOMAIN Top(m, hits) = 1 .. m
         /\ \A i \in 1 .. m : Before(Top(m, hits)[i], a)
         /\ \A i, j \in 1 .. m : Top(m, hits)[i] = Top(m, hits)[j] => i = j
<1>1. Rank(a, hits) \in Nat /\ Cardinality(hits) \in Nat /\ Rank(a, hits) <= Cardinality(hits)
  BY RanksFollowOrder, FS_CardinalityType
<1>2. DOMAIN Top(m, hits) = 1 .. m
  <2>1. ~(Cardinality(hits) < m)
    BY <1>1
  <2> QED
    BY <2>1, TopIsTop
<1>3. ASSUME NEW i \in 1 .. m
      PROVE  Top(m, hits)[i] \in hits /\ Rank(Top(m, hits)[i], hits) = i - 1
  BY <1>2, TopIsTop
<1>4. ASSUME NEW i \in 1 .. m PROVE Before(Top(m, hits)[i], a)
  <2> DEFINE t == Top(m, hits)[i]
  <2>1. t \in hits /\ t \in AllHits /\ Rank(t, hits) = i - 1
    BY <1>3
  <2> HIDE DEF t
  <2>2. ~(Rank(a, hits) <= Rank(t, hits))
    BY <1>1, <2>1
  <2>3. ~Before(a, t) /\ t # a
    BY <1>1, <2>1, <2>2, RanksFollowOrder
  <2> QED
    BY <2>1, <2>3, BeforeIsOrder DEF t
<1>5. ASSUME NEW i \in 1 .. m, NEW j \in 1 .. m, Top(m, hits)[i] = Top(m, hits)[j] PROVE i = j
  <2>1. i - 1 = j - 1
    BY <1>3, <1>5
  <2> QED
    BY <2>1
<1> QED
  BY <1>2, <1>4, <1>5

(* One doc type: what is found is kept or beaten by a full list.           *)
LEMMA ExecuteKeeps ==
  ASSUME Allowlisted = Chunks, RetrievalInv, NEW doc_type \in DocTypes, Execute(doc_type)
  PROVE  RetrievalInv'
<1> DEFINE found == search_text(doc_type) \cup search_knn(doc_type)
           hits == {Hit(c) : c \in found}
           top == Top(KnowledgeCap, hits)
<1>1. /\ doc_type \in todo /\ todo' = todo \ {doc_type}
      /\ text' = text /\ vector' = vector /\ result' = result
      /\ by_id' = by_id \cup {top[i] : i \in {j \in DOMAIN top : top[j].chunk \in Allowlisted}}
  BY DEF Execute, merge_hybrid_rankings
<1>2. KnowledgeCap \in Nat \ {0} /\ text \in Rankings /\ vector \in Rankings
  BY RetrievalAssumption DEF RetrievalInv
<1>3. found \subseteq Found /\ Found \subseteq Chunks
  BY DEF search_text, search_knn, Filtered, Found
<1>4. \A c \in Found : TypeOf[c] = doc_type => c \in found
  BY DEF search_text, search_knn, Filtered, Found
<1> HIDE DEF found
<1>5. /\ hits \in SUBSET AllHits /\ IsFiniteSet(hits) /\ Distinct(hits)
      /\ \A c \in Chunks : Hit(c) \in AllHits /\ Hit(c).chunk = c
  <2>1. hits \subseteq {Hit(c) : c \in Chunks}
    BY <1>3
  <2> HIDE DEF hits
  <2> QED
    BY <1>2, <2>1, HitsAreHits
<1>6. /\ \A i \in DOMAIN top : top[i] \in hits
      /\ \A a \in hits : Rank(a, hits) < KnowledgeCap => \E i \in DOMAIN top : top[i] = a
  <2> HIDE DEF hits
  <2> QED BY <1>2, <1>5, TopIsTop
<1>7. \A i \in DOMAIN top : top[i].chunk \in Allowlisted
  BY <1>3, <1>5, <1>6
<1> HIDE DEF top
<1>8. by_id' = by_id \cup {top[i] : i \in DOMAIN top}
  BY <1>1, <1>7
<1>9. by_id' \subseteq {Hit(c) : c \in Found}
  BY <1>3, <1>6, <1>8 DEF RetrievalInv
<1>10. /\ by_id' \in SUBSET AllHits /\ IsFiniteSet(by_id') /\ by_id \subseteq by_id'
  <2>1. by_id' \subseteq {Hit(c) : c \in Chunks}
    BY <1>3, <1>9
  <2> QED
    BY <1>2, <1>8, <2>1, HitsAreHits
<1>11. ASSUME NEW c \in Found, TypeOf[c] \notin todo'
       PROVE  Hit(c) \in by_id' \/ KnowledgeCap <= Rank(Hit(c), by_id')
  <2> DEFINE h == Hit(c)
  <2>1. h \in AllHits /\ h.chunk = c
    BY <1>3, <1>5
  <2>2. IsFiniteSet(Ahead(h, by_id')) /\ Rank(h, by_id') \in Nat
    <3>1. Ahead(h, by_id') \in SUBSET by_id'
      BY DEF Ahead
    <3>2. IsFiniteSet(Ahead(h, by_id'))
      BY <1>10, <3>1, FS_Subset
    <3> QED
      BY <3>2, FS_CardinalityType DEF Rank
  <2>3. CASE TypeOf[c] \notin todo
    <3>1. CASE h \in by_id
      BY <1>10, <3>1
    <3>2. CASE KnowledgeCap <= Rank(h, by_id)
      <4>1. Ahead(h, by_id) \in SUBSET Ahead(h, by_id')
        BY <1>10 DEF Ahead
      <4>2. Rank(h, by_id) <= Rank(h, by_id') /\ Rank(h, by_id) \in Nat
        BY <2>2, <4>1, FS_Subset, FS_CardinalityType DEF Rank
      <4> HIDE DEF h
      <4>3. KnowledgeCap <= Rank(h, by_id')
        BY <1>2, <2>2, <3>2, <4>2
      <4> QED
        BY <4>3 DEF h
    <3> QED
      BY <2>3, <3>1, <3>2 DEF RetrievalInv
  <2>4. CASE TypeOf[c] \in todo
    <3>1. TypeOf[c] = doc_type
      BY <1>1, <1>11, <2>4
    <3>2. h \in hits
      BY <1>4, <3>1
    <3>3. CASE Rank(h, hits) < KnowledgeCap
      BY <1>6, <1>8, <3>2, <3>3
    <3>4. CASE ~(Rank(h, hits) < KnowledgeCap)
      <4> HIDE DEF h, hits
      <4>1. KnowledgeCap <= Rank(h, hits)
        BY <1>2, <1>5, <2>1, <3>4, RanksFollowOrder
      <4>2. /\ DOMAIN top = 1 .. KnowledgeCap
            /\ \A i \in 1 .. KnowledgeCap : Before(top[i], h)
            /\ \A i, j \in 1 .. KnowledgeCap : top[i] = top[j] => i = j
        BY <1>2, <1>5, <2>1, <3>2, <4>1, CutIsBeaten DEF Distinct, top
      <4> DEFINE best == {top[i] : i \in 1 .. KnowledgeCap}
      <4>3. Cardinality(best) = KnowledgeCap
        <5>1. KnowledgeCap \in Nat /\ best = {top[i] : i \in 1 .. KnowledgeCap}
          BY <1>2
        <5> HIDE DEF best
        <5> QED
          BY <4>2, <5>1, MembersAreCounted
      <4>4. best \in SUBSET Ahead(h, by_id')
        BY <1>8, <4>2 DEF Ahead
      <4> HIDE DEF best
      <4>5. Cardinality(best) <= Rank(h, by_id')
        BY <2>2, <4>4, FS_Subset DEF Rank
      <4> QED
        BY <4>3, <4>5 DEF h
    <3> QED
      BY <3>3, <3>4
  <2> QED
    BY <2>3, <2>4
<1>12. result' = <<>>
  BY <1>1 DEF RetrievalInv
<1>13. Found' = Found /\ \A c : Hit(c)' = Hit(c)
  BY <1>1 DEF Found, Hit, Score
<1> QED
  BY <1>1, <1>2, <1>9, <1>11, <1>12, <1>13 DEF RetrievalInv

(* Every step of a retrieval.                                              *)
LEMMA RetrievalStep ==
  ASSUME Allowlisted = Chunks, RetrievalInv, [RetrievalNext]_retrievalVars
  PROVE  RetrievalInv'
<1>1. CASE \E doc_type \in DocTypes : Execute(doc_type)
  BY <1>1, ExecuteKeeps
<1>2. CASE Merge
  <2>1. /\ todo = {} /\ result' = Top(KnowledgeCap, by_id)
        /\ text' = text /\ vector' = vector /\ todo' = todo /\ by_id' = by_id
    BY <1>2 DEF Merge
  <2> QED
    BY <2>1 DEF RetrievalInv, Found, Hit, Score
<1>3. CASE UNCHANGED retrievalVars
  BY <1>3 DEF RetrievalInv, Found, Hit, Score, retrievalVars
<1> QED
  BY <1>1, <1>2, <1>3 DEF RetrievalNext

(* Before a doc type was asked for there is nothing to keep.               *)
LEMMA RetrievalInitially ==
  ASSUME RetrievalInit
  PROVE  RetrievalInv
BY RetrievalAssumption DEF RetrievalInit, RetrievalInv, Found

(* A chunk that is missing from the answer was cut, by its doc type or in  *)
(* the end: either way a full answer is ahead of it.                       *)
LEMMA NothingFoundIsLost ==
  ASSUME RetrievalInv
  PROVE  CutsLoseNothing
<1> SUFFICES ASSUME result # <<>> PROVE CutsLoseNothing
  BY DEF CutsLoseNothing
<1> DEFINE given == {result[i].chunk : i \in DOMAIN result}
<1>1. /\ KnowledgeCap \in Nat \ {0} /\ text \in Rankings /\ vector \in Rankings
      /\ todo = {} /\ result = Top(KnowledgeCap, by_id) /\ Found \subseteq Chunks
  BY RetrievalAssumption DEF RetrievalInv, Found
<1>2. /\ by_id \in SUBSET AllHits /\ IsFiniteSet(by_id) /\ Distinct(by_id)
      /\ \A c \in Chunks : Hit(c) \in AllHits /\ Hit(c).chunk = c
  <2>1. by_id \subseteq {Hit(c) : c \in Chunks}
    BY <1>1 DEF RetrievalInv
  <2> QED
    BY <1>1, <2>1, HitsAreHits
<1>3. /\ \A i \in DOMAIN result : result[i] \in by_id
      /\ \A a \in by_id : Rank(a, by_id) < KnowledgeCap => \E i \in DOMAIN result : result[i] = a
  BY <1>1, <1>2, TopIsTop
<1>4. \A a \in by_id : a.chunk \in Found /\ a = Hit(a.chunk)
  BY <1>1, <1>2 DEF RetrievalInv
<1>5. given \subseteq Found
  BY <1>3, <1>4
<1>6. ASSUME NEW c \in Found \ given
      PROVE  /\ Cardinality(given) = KnowledgeCap
             /\ \A i \in DOMAIN result : Before(result[i], Hit(c))
  <2> DEFINE h == Hit(c)
  <2>1. h \in AllHits /\ h.chunk = c /\ \A b \in by_id : b.chunk = h.chunk => b = h
    BY <1>1, <1>2, <1>4
  <2>2. Rank(h, by_id) \in Nat
    BY <1>2, <2>1, RanksFollowOrder
  <2>3. KnowledgeCap <= Rank(h, by_id)
    <3>1. CASE h \in by_id
      <4>1. \A i \in DOMAIN result : result[i] # h
        BY <1>6, <2>1
      <4>2. ~(Rank(h, by_id) < KnowledgeCap)
        BY <1>3, <3>1, <4>1
      <4> HIDE DEF h
      <4> QED
        BY <1>1, <2>2, <4>2
    <3>2. CASE h \notin by_id
      BY <1>1, <3>2 DEF RetrievalInv
    <3> QED
      BY <3>1, <3>2
  <2> HIDE DEF h
  <2>4. /\ DOMAIN result = 1 .. KnowledgeCap
        /\ \A i \in 1 .. KnowledgeCap : Before(result[i], h)
        /\ \A i, j \in 1 .. KnowledgeCap : result[i] = result[j] => i = j
    BY <1>1, <1>2, <2>1, <2>3, CutIsBeaten
  <2>5. Cardinality(given) = KnowledgeCap
    <3>1. PICK f \in [1 .. KnowledgeCap -> given] :
            \A i \in 1 .. KnowledgeCap : f[i] = result[i].chunk
      <4>1. [i \in 1 .. KnowledgeCap |-> result[i].chunk] \in [1 .. KnowledgeCap -> given]
        BY <2>4
      <4> QED
        BY <4>1
    <3>2. \A i, j \in 1 .. KnowledgeCap : f[i] = f[j] => i = j
      <4>1. \A i \in 1 .. KnowledgeCap : result[i] = Hit(f[i])
        <5>1. ASSUME NEW i \in 1 .. KnowledgeCap PROVE result[i] = Hit(f[i])
          <6>1. result[i] \in by_id
            BY <1>3, <2>4
          <6>2. result[i] = Hit(result[i].chunk)
            BY <1>4, <6>1
          <6> QED
            BY <3>1, <6>2
        <5> QED
          BY <5>1
      <4>2. ASSUME NEW i \in 1 .. KnowledgeCap, NEW j \in 1 .. KnowledgeCap, f[i] = f[j]
            PROVE  i = j
        <5>1. result[i] = result[j]
          BY <4>1, <4>2
        <5> QED
          BY <2>4, <5>1
      <4> QED
        BY <4>2
    <3>3. KnowledgeCap \in Nat /\ given = {f[i] : i \in 1 .. KnowledgeCap}
      <4>1. given = {result[i].chunk : i \in 1 .. KnowledgeCap}
        BY <2>4
      <4>2. {result[i].chunk : i \in 1 .. KnowledgeCap} = {f[i] : i \in 1 .. KnowledgeCap}
        BY <3>1
      <4> QED
        BY <1>1, <4>1, <4>2
    <3> HIDE DEF given
    <3> QED
      BY <3>2, <3>3, MembersAreCounted
  <2> QED
    BY <2>4, <2>5 DEF h
<1> HIDE DEF given
<1> QED
  BY <1>5, <1>6 DEF CutsLoseNothing, given

(* What retrieve_runbooks_and_incidents answers is the best of what both   *)
(* searches found, for any index and any rankings: cutting per doc type    *)
(* and again in the end loses nothing, and the weights give the intended   *)
(* order. It holds while every document in the index is on the allowlist,  *)
(* which is looked at after the first cut, and up to 27 candidates per     *)
(* search (KNOWLEDGE_CAP is 4, which asks for 20; from the 28th place on   *)
(* one good rank beats two poor ones).                                     *)
THEOREM FusionLosesNothing ==
  ASSUME Allowlisted = Chunks, candidate_size(KnowledgeCap) <= 27
  PROVE  RetrievalSpec => []RanksAreFused
<1>1. RetrievalInv => RanksAreFused
  BY NothingFoundIsLost, WeightsOrder DEF RetrievalInv, RanksAreFused
<1>2. RetrievalInv /\ [RetrievalNext]_retrievalVars => RetrievalInv'
  BY RetrievalStep
<1> QED
  BY <1>1, <1>2, RetrievalInitially, PTL DEF RetrievalSpec

===========================================================================
