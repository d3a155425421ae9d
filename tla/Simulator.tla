----------------------------- MODULE Simulator -----------------------------
(***************************************************************************)
(* The production simulator: one process whose endpoints run in threads    *)
(* over shared memory without locks.  A scenario is activated by setting   *)
(* service statuses one by one; a tick takes its bias from the active      *)
(* scenario and is appended to a ring buffer; emit posts the active        *)
(* scenario to AEGIS.  The observability client of AEGIS lists the buffer, *)
(* and when there is nothing in it ticks the service and lists it again:   *)
(* three requests, which the threads of the simulator serve.               *)
(*                                                                         *)
(* A tick stands for its rows (log, metric, span, ...), its scenario for   *)
(* the bias of their numbers and texts.                                    *)
(***************************************************************************)
EXTENDS Naturals, Sequences, FiniteSets

CONSTANTS
  Services, Scenarios,
  Affected,       \* ScenarioSpec.affected, the services of its statuses
  Off,            \* no scenario
  Admins,         \* threads that serve POST and DELETE /scenarios
  Tickers,        \* threads that serve POST /signals/tick
  Emitters,       \* threads that serve POST /emit
  Readers,        \* AEGIS specialists reading signals
  BufferSize,     \* maxlen of the ring buffer
  Cap,            \* ticks the client asks for, and rows it keeps of them
  MaxIndex        \* ticks of one activation (bound)

ASSUME SimulatorAssumption ==
  /\ Affected \in [Scenarios -> (SUBSET Services) \ {{}}]
  /\ Off \notin Scenarios
  /\ BufferSize \in Nat \ {0} /\ Cap \in Nat \ {0} /\ MaxIndex \in Nat

Threads == Admins \cup Tickers \cup Emitters \cup Readers
Tick == [service : Services, scenario : Scenarios \cup {Off}]

VARIABLES
  active,       \* ScenarioEngine._active
  tick_index,   \* ScenarioEngine._tick_index
  status,       \* services that are not HEALTHY
  ticks,        \* SignalBuffer._ticks
  req           \* the request each thread serves

vars == <<active, tick_index, status, ticks, req>>

Idle == [pc |-> "idle", scenario |-> Off, todo |-> {}, index |-> 0, since |-> Off,
         service |-> CHOOSE s \in Services : TRUE, rows |-> {}, code |-> 0, left |-> FALSE]

NoScenarioRequest == \A t \in Admins : req[t].pc = "idle"

Goes(t, pc) == req' = [req EXCEPT ![t].pc = pc]
Low(a, b) == IF a < b THEN a ELSE b

---------------------------------------------------------------------------
(* activate and deactivate: both reset every service; the one before it    *)
(* sets the scenario's statuses and the scenario, the other after it has   *)
(* cleared the scenario.                                                   *)
BeginActivate(t, scenario) ==
  /\ req[t].pc = "idle"
  /\ req' = [req EXCEPT ![t] =
       [Idle EXCEPT !.pc = "reset", !.scenario = scenario, !.todo = Services]]
  /\ UNCHANGED <<active, tick_index, status, ticks>>

BeginDeactivate(t) ==
  /\ req[t].pc = "idle"
  /\ active' = Off
  /\ req' = [req EXCEPT ![t] = [Idle EXCEPT !.pc = "zero", !.todo = Services]]
  /\ UNCHANGED <<tick_index, status, ticks>>

ResetService(t, s) ==
  /\ req[t].pc = "reset" /\ s \in req[t].todo
  /\ status' = status \ {s}
  /\ req' = [req EXCEPT ![t].todo = @ \ {s}]
  /\ UNCHANGED <<active, tick_index, ticks>>

ResetDone(t) ==
  /\ req[t].pc = "reset" /\ req[t].todo = {}
  /\ req' = [req EXCEPT ![t] =
       IF req[t].scenario = Off THEN Idle
       ELSE [@ EXCEPT !.pc = "set", !.todo = Affected[req[t].scenario]]]
  /\ UNCHANGED <<active, tick_index, status, ticks>>

SetStatus(t, s) ==
  /\ req[t].pc = "set" /\ s \in req[t].todo
  /\ status' = status \cup {s}
  /\ req' = [req EXCEPT ![t].todo = @ \ {s}]
  /\ UNCHANGED <<active, tick_index, ticks>>

SetActive(t) ==
  /\ req[t].pc = "set" /\ req[t].todo = {}
  /\ active' = req[t].scenario
  /\ Goes(t, "zero")
  /\ UNCHANGED <<tick_index, status, ticks>>

ZeroIndex(t) ==
  /\ req[t].pc = "zero"
  /\ tick_index' = 0
  /\ req' = [req EXCEPT ![t] = IF req[t].scenario = Off THEN [@ EXCEPT !.pc = "reset"] ELSE Idle]
  /\ UNCHANGED <<active, status, ticks>>

---------------------------------------------------------------------------
(* POST /signals/tick.  bias_for reads the scenario once; a service it     *)
(* does not affect gets a healthy tick and leaves the count alone.         *)
Suffered(s) == IF active # Off /\ s \in Affected[active] THEN active ELSE Off

AfterBias(s) == IF Suffered(s) = Off THEN "append" ELSE "load"

BeginTick(t, s) ==
  /\ req[t].pc = "idle"
  /\ req' = [req EXCEPT ![t] = [Idle EXCEPT !.pc = AfterBias(s), !.service = s,
                                            !.scenario = Suffered(s)]]
  /\ UNCHANGED <<active, tick_index, status, ticks>>

(* _tick_index += 1 is a load and a store.  The count only sets how far a  *)
(* bias has grown.                                                         *)
LoadIndex(t) ==
  /\ req[t].pc = "load"
  /\ tick_index < MaxIndex
  /\ req' = [req EXCEPT ![t].pc = "store", ![t].index = tick_index + 1]
  /\ UNCHANGED <<active, tick_index, status, ticks>>

(* Mutant: the bias is of the scenario that is active now.                 *)
StoreIndex_BiasNow(t) ==
  /\ req[t].pc = "store"
  /\ tick_index' = req[t].index
  /\ req' = [req EXCEPT ![t].pc = "append", ![t].index = 0, ![t].scenario = active]
  /\ UNCHANGED <<active, status, ticks>>

StoreIndex(t) ==
  /\ req[t].pc = "store"
  /\ tick_index' = req[t].index
  /\ req' = [req EXCEPT ![t].pc = "append", ![t].index = 0]
  /\ UNCHANGED <<active, status, ticks>>

Pushed(tick) ==
  LET all == Append(ticks, tick)
  IN  SubSeq(all, Len(all) - Low(Len(all), BufferSize) + 1, Len(all))

(* A reader that still waits for its tick goes on to list it.              *)
AppendTick(t) ==
  /\ req[t].pc = "append"
  /\ ticks' = Pushed([service |-> req[t].service, scenario |-> req[t].scenario])
  /\ req' = [req EXCEPT ![t] = IF t \in Readers /\ ~req[t].left
                                 THEN [@ EXCEPT !.pc = "list", !.scenario = Off] ELSE Idle]
  /\ UNCHANGED <<active, tick_index, status>>

---------------------------------------------------------------------------
(* POST /emit: refused without a scenario, or when the settings name no    *)
(* AEGIS or no secret; the scenario to post is read again, after that.     *)
Refused(code) == [Idle EXCEPT !.pc = "answered", !.code = code]

BeginEmit(t) ==
  /\ req[t].pc = "idle"
  /\ \E next \in IF active = Off THEN {Refused(409)}
                 ELSE {Refused(503), [Idle EXCEPT !.pc = "emit"]} :
       req' = [req EXCEPT ![t] = next]
  /\ UNCHANGED <<active, tick_index, status, ticks>>

PostCodes == {201, 502}

(* SCENARIOS[None] raises; otherwise the signal is posted, and the answer  *)
(* is the one of AEGIS, or 502 when AEGIS is not reached.                  *)
PostSignal(t) ==
  /\ req[t].pc = "emit"
  /\ \E code \in IF active = Off THEN {500} ELSE PostCodes :
       req' = [req EXCEPT ![t].pc = "answered", ![t].code = code, ![t].scenario = active]
  /\ UNCHANGED <<active, tick_index, status, ticks>>

Answered(t) ==
  /\ req[t].pc = "answered"
  /\ req' = [req EXCEPT ![t] = Idle]
  /\ UNCHANGED <<active, tick_index, status, ticks>>

---------------------------------------------------------------------------
(* GET /signals: the last ticks of a service, oldest first.                *)
recent(s, limit) ==
  LET mine == SelectSeq(ticks, LAMBDA tick : tick.service = s)
  IN  SubSeq(mine, Len(mine) - Low(Len(mine), limit) + 1, Len(mine))

(* fetch_signals for an incident's service: the scenario it is also given  *)
(* is not used.  since notes the scenario the service suffers from all the *)
(* while (history).                                                        *)
BeginFetch(t, s) ==
  /\ req[t].pc = "idle"
  /\ req' = [req EXCEPT ![t] =
       [Idle EXCEPT !.pc = "first", !.service = s,
                    !.since = IF NoScenarioRequest THEN Suffered(s) ELSE Off]]
  /\ UNCHANGED <<active, tick_index, status, ticks>>

(* The first list was empty: the tick, as the simulator begins to serve it. *)
AskTick(t) ==
  /\ req[t].pc = "ask"
  /\ req' = [req EXCEPT ![t].pc = AfterBias(req[t].service),
                        ![t].scenario = Suffered(req[t].service)]
  /\ UNCHANGED <<active, tick_index, status, ticks>>

(* _tick: a simulator that is not reached, or answers with an error, is    *)
(* ignored.  A connection that breaks later counts as one that broke       *)
(* before the tick or after it.                                            *)
TickLost(t) ==
  /\ req[t].pc = "ask"
  /\ Goes(t, "list")
  /\ UNCHANGED <<active, tick_index, status, ticks>>

(* What ends the fetch: a list that fails, and any answer that does not    *)
(* come in time (TimeoutError is no ConnectionError, so _tick lets it by). *)
FetchFails(t) ==
  /\ req[t].pc \in {"first", "ask", "list"}
  /\ req' = [req EXCEPT ![t] = Idle]
  /\ UNCHANGED <<active, tick_index, status, ticks>>

(* The simulator goes on with a tick nobody waits for any more.            *)
TickTimesOut(t) ==
  /\ req[t].pc \in {"load", "store", "append"} /\ ~req[t].left
  /\ req' = [req EXCEPT ![t].left = TRUE]
  /\ UNCHANGED <<active, tick_index, status, ticks>>

(* Every tick has a log, a metric and a span at least: the first third of  *)
(* the listed ticks, the oldest ones, fill the rows that are kept.         *)
RowsPerTick == 3
KeptTicks == (Cap + RowsPerTick - 1) \div RowsPerTick

EmptyFirst(t) ==
  /\ req[t].pc = "first" /\ recent(req[t].service, Cap) = <<>>
  /\ Goes(t, "ask")
  /\ UNCHANGED <<active, tick_index, status, ticks>>

Listed(t) ==
  /\ req[t].pc \in {"first", "list"}
  /\ req[t].pc = "first" => recent(req[t].service, Cap) # <<>>
  /\ LET listed == recent(req[t].service, Cap)
         kept == SubSeq(listed, 1, Low(Len(listed), KeptTicks))
     IN  req' = [req EXCEPT ![t].pc = "answered", ![t].since = IF active = @ THEN @ ELSE Off,
                            ![t].rows = {kept[i].scenario : i \in DOMAIN kept}]
  /\ UNCHANGED <<active, tick_index, status, ticks>>

---------------------------------------------------------------------------
(* A scenario may be active from the start (config).                       *)
Init ==
  /\ active \in Scenarios \cup {Off}
  /\ tick_index = 0
  /\ status = IF active = Off THEN {} ELSE Affected[active]
  /\ ticks = <<>>
  /\ req = [t \in Threads |-> Idle]

ScenarioStep(t) ==
  \/ \E scenario \in Scenarios : BeginActivate(t, scenario)
  \/ BeginDeactivate(t)
  \/ \E s \in Services : ResetService(t, s) \/ SetStatus(t, s)
  \/ ResetDone(t) \/ SetActive(t) \/ ZeroIndex(t)

TickStep(t) == LoadIndex(t) \/ StoreIndex(t) \/ AppendTick(t)

Next ==
  \/ \E t \in Admins : ScenarioStep(t)
  \/ \E t \in Tickers : (\E s \in Services : BeginTick(t, s)) \/ TickStep(t)
  \/ \E t \in Emitters : BeginEmit(t) \/ PostSignal(t) \/ Answered(t)
  \/ \E t \in Readers :
       \/ \E s \in Services : BeginFetch(t, s)
       \/ EmptyFirst(t) \/ AskTick(t) \/ TickStep(t) \/ Listed(t) \/ Answered(t)
       \/ TickLost(t) \/ FetchFails(t) \/ TickTimesOut(t)

Spec == Init /\ [][Next]_vars

---------------------------------------------------------------------------
(* Properties.                                                             *)

(* The buffer holds ticks, and no more than its size.                      *)
SimulatorTypeOK ==
  /\ active \in Scenarios \cup {Off}
  /\ tick_index \in 0 .. MaxIndex
  /\ status \subseteq Services
  /\ ticks \in Seq(Tick) /\ Len(ticks) <= BufferSize
  /\ \A t \in Threads : req[t].todo \subseteq Services /\ req[t].index \in 0 .. MaxIndex

(* A failing tick is of a scenario that affects its service, although the  *)
(* scenario may be switched while the tick is being made.                  *)
BiasFitsService ==
  \A i \in DOMAIN ticks :
    ticks[i].scenario # Off => ticks[i].service \in Affected[ticks[i].scenario]

---------------------------------------------------------------------------
(* What the repository says and the code does not keep.                    *)

(* test_scenarios.py:163: after a deactivation all services are healthy.   *)
(* With two scenario requests at once the services that fail need not be   *)
(* those of the active scenario.                                           *)
StatusTellsScenario ==
  NoScenarioRequest => status = IF active = Off THEN {} ELSE Affected[active]

(* test_aegis_client.py:78: an emit without an active scenario is answered *)
(* with 409; it is not an error of the server.                             *)
EmitIsAnswered == \A t \in Emitters : req[t].code # 500

(* implementation-guide.md:2939: the observability agent collects "given   *)
(* `service` + `scenario` + time window": while the scenario lasts, what   *)
(* is collected of its service shows it.                                   *)
EvidenceShowsScenario ==
  \A t \in Readers :
    req[t].pc = "answered" /\ req[t].since # Off /\ req[t].rows # {} =>
      req[t].since \in req[t].rows
===========================================================================
