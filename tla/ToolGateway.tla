---------------------------- MODULE ToolGateway ----------------------------
(***************************************************************************)
(* The guardrail around every tool call of a process (InvokeTool with the  *)
(* runners of harden_tool): a call is classified and decided by the rules  *)
(* of that moment, paced, refused if its dependency has been failing, run  *)
(* in a thread under a timeout, and stamped with the policy version that   *)
(* is current when the decision is recorded.  Specialists of one fan-out   *)
(* call at the same time; the worker replaces its rules between messages.  *)
(*                                                                         *)
(* Pacing refuses any call here: RateLimiter says which ones it does.      *)
(***************************************************************************)
EXTENDS PolicyRules, FiniteSets

CONSTANTS
  Agents,      \* the identities that call, one call each at a time
  Asked,       \* the tools they ask for
  Services,    \* the services their parameters name, NoService when none
  Retriever,   \* whether the process was given a retriever
  RuleSets,    \* rule tables the cache is filled with, the seed among them
  DenyAll,     \* the values of the break-glass switch
  Together,    \* sets of agents that run at the same time
  Threshold,   \* failures in a row that open a circuit
  Cooldown     \* ticks a circuit stays open

ASSUME GatewayAssumption ==
  /\ {Threshold, Cooldown} \subseteq Nat \ {0}
  /\ DenyAll \subseteq BOOLEAN
  /\ Retriever \in BOOLEAN

READ_TOOLS == {"retrieve_knowledge", "fetch_signals", "search_code", "list_deploys"}
DESTRUCTIVE_TOOLS == {"drop_database", "delete_rds", "kubectl_delete", "restart_service"}
HIGH_RISK_WRITE_TOOLS == {"restart_payment", "gh_pr_create"}

classify(tool) ==
  IF tool \in READ_TOOLS THEN READ
  ELSE IF tool \in DESTRUCTIVE_TOOLS THEN DESTRUCTIVE
  ELSE IF tool \in HIGH_RISK_WRITE_TOOLS THEN "high-risk-write"
  ELSE NoClass

AGENT_TOOL_GRANTS ==
  [agent \in {"knowledge", "observability", "code", "commander", "rca", "mcp_client"} |->
     CASE agent \in {"knowledge", "mcp_client"} -> {"retrieve_knowledge"}
       [] agent = "observability"               -> {"fetch_signals"}
       [] agent = "code"                        -> {"search_code", "list_deploys"}
       [] OTHER                                 -> {}]

agent_may_invoke(agent, tool) ==
  agent \in DOMAIN AGENT_TOOL_GRANTS /\ tool \in AGENT_TOOL_GRANTS[agent]

TOOL_DEPENDENCY ==
  [tool \in READ_TOOLS |->
     CASE tool = "fetch_signals"      -> "simulator"
       [] tool = "retrieve_knowledge" -> "opensearch"
       [] OTHER                       -> "code"]

Dependencies == {TOOL_DEPENDENCY[t] : t \in READ_TOOLS}

(* runners_for_ports binds the read tools; without a retriever it leaves   *)
(* out the one that needs it.                                              *)
Registered(tool) ==
  tool \in READ_TOOLS /\ (tool = "retrieve_knowledge" => Retriever)

seed == SeedRules(READ_TOOLS)

VARIABLES
  call,       \* each agent's call
  rules,      \* the process's policy rules
  breaker,    \* per dependency: failures in a row, ticks until calls may go on
  late,       \* dependencies with an abandoned thread still at work
  strikes,    \* history: failed calls since the last answer (up to Threshold)
  quiet       \* history: ticks since the last failure (up to Cooldown)

gatewayVars == <<call, rules, breaker, late, strikes, quiet>>
health == <<breaker, late, strikes, quiet>>

NoCall == [pc |-> "done", tool |-> "none", service |-> NoService, denyAll |-> FALSE,
           by |-> seed, reason |-> "none"]

Closed == [failures |-> 0, wait |-> 0]

Busy == {a \in Agents : call[a].pc # "done"}
Dep(a) == TOOL_DEPENDENCY[call[a].tool]

---------------------------------------------------------------------------
(* Mutant: an agent's grants are left to the policy rules.                 *)
HardStop_NoScope(agent, tool, denyAll) ==
  IF denyAll THEN "denied:kill_switch"
  ELSE IF agent \notin DOMAIN AGENT_TOOL_GRANTS  THEN "denied:unknown_agent"
  ELSE IF classify(tool) = DESTRUCTIVE           THEN "denied:destructive"
  ELSE IF classify(tool) = "high-risk-write"     THEN "denied:high_risk_write"
  ELSE "none"

(* _decide, what no rule can change.                                       *)
HardStop(agent, tool, denyAll) ==
  IF denyAll THEN "denied:kill_switch"
  ELSE IF agent \notin DOMAIN AGENT_TOOL_GRANTS  THEN "denied:unknown_agent"
  ELSE IF classify(tool) = DESTRUCTIVE           THEN "denied:destructive"
  ELSE IF classify(tool) = "high-risk-write"     THEN "denied:high_risk_write"
  ELSE IF classify(tool) = READ /\ ~agent_may_invoke(agent, tool) THEN "denied:agent_scope"
  ELSE "none"

(* _decide, up to the call of the runner: why it is denied, or "run".      *)
Screened(agent, tool, denyAll, verdict) ==
  LET stop == HardStop(agent, tool, denyAll)
      resolved == IF classify(tool) = NoClass THEN verdict.class ELSE classify(tool)
  IN  IF stop # "none"             THEN stop
      ELSE IF ~verdict.allowed     THEN "denied:policy"
      ELSE IF resolved # READ      THEN "denied:unknown_tool"
      ELSE IF ~Registered(tool)    THEN "denied:not_registered"
      ELSE "run"

Request(agent, tool, service) ==
  [tool |-> tool, class |-> classify(tool), agent |-> agent, service |-> service]

SetCall(a, new) == call' = [call EXCEPT ![a] = new]
Deny(a, reason) == SetCall(a, [call[a] EXCEPT !.pc = "stamp", !.reason = reason])

(* invoke: the switch and the rules are read once, here.                   *)
Ask(a) ==
  /\ call[a].pc = "done"
  /\ \E group \in Together : Busy \cup {a} \subseteq group
  /\ \E tool \in Asked, service \in Services, denyAll \in DenyAll :
       \E verdict \in evaluate_policy(rules, Request(a, tool, service)) :
         LET reason == Screened(a, tool, denyAll, verdict)
         IN  SetCall(a, [NoCall EXCEPT !.pc = IF reason = "run" THEN "pace" ELSE "stamp",
                                       !.tool = tool, !.service = service,
                                       !.denyAll = denyAll, !.by = rules, !.reason = reason])
  /\ UNCHANGED <<rules, health>>

(* The rate limiter admits the call or not, or cannot tell.                *)
Pace(a) ==
  /\ call[a].pc = "pace"
  /\ \/ SetCall(a, [call[a] EXCEPT !.pc = "start"])
     \/ \E reason \in {"denied:rate_limited", "denied:rate_unavailable"} : Deny(a, reason)
  /\ UNCHANGED <<rules, health>>

---------------------------------------------------------------------------
(* The circuit breaker of a dependency.                                    *)

allow(d) == breaker[d].failures < Threshold \/ breaker[d].wait = 0

record_success(d) ==
  /\ breaker' = [breaker EXCEPT ![d] = Closed]
  /\ strikes' = [strikes EXCEPT ![d] = 0]
  /\ UNCHANGED quiet

(* Failures past the threshold tell nothing more and are not counted.      *)
record_failure(d) ==
  LET reached == breaker[d].failures + 1 >= Threshold
  IN  /\ breaker' = [breaker EXCEPT ![d] =
                       [failures |-> IF reached THEN Threshold ELSE @.failures + 1,
                        wait     |-> IF reached THEN Cooldown ELSE @.wait]]
      /\ strikes' = [strikes EXCEPT ![d] = IF @ = Threshold THEN @ ELSE @ + 1]
      /\ quiet' = [quiet EXCEPT ![d] = 0]

(* Mutant: a refused call counts as a failure.                             *)
Start_CountsRefusal(a) ==
  /\ call[a].pc = "start"
  /\ \/ Deny(a, "denied:invalid_params") /\ UNCHANGED health
     \/ allow(Dep(a)) /\ SetCall(a, [call[a] EXCEPT !.pc = "running"]) /\ UNCHANGED health
     \/ /\ ~allow(Dep(a)) /\ Deny(a, "denied:dependency_unavailable")
        /\ record_failure(Dep(a)) /\ UNCHANGED late
  /\ UNCHANGED rules

(* harden_tool: the parameters may be refused, then the breaker may.       *)
Start(a) ==
  /\ call[a].pc = "start"
  /\ \/ Deny(a, "denied:invalid_params")
     \/ allow(Dep(a)) /\ SetCall(a, [call[a] EXCEPT !.pc = "running"])
     \/ ~allow(Dep(a)) /\ Deny(a, "denied:dependency_unavailable")
  /\ UNCHANGED <<rules, health>>

(* The tool answers; its output may still be too large.                    *)
Return(a) ==
  /\ call[a].pc = "running"
  /\ \E reason \in {"allowed:read", "denied:output_too_large"} : Deny(a, reason)
  /\ record_success(Dep(a))
  /\ UNCHANGED <<rules, late>>

(* The tool refuses its parameters: no matter of the dependency's health.  *)
Refuses(a) ==
  /\ call[a].pc = "running"
  /\ Deny(a, "denied:invalid_params")
  /\ UNCHANGED <<rules, health>>

Fails(a) ==
  /\ call[a].pc = "running"
  /\ Deny(a, "denied:dependency_unavailable")
  /\ record_failure(Dep(a))
  /\ UNCHANGED <<rules, late>>

(* run_with_timeout gives up; the thread goes on.                          *)
TimesOut(a) ==
  /\ call[a].pc = "running"
  /\ Deny(a, "denied:timeout")
  /\ record_failure(Dep(a))
  /\ late' = late \cup {Dep(a)}
  /\ UNCHANGED rules

(* Mutant: the thread itself records that it got an answer.                *)
LateReturn_Records(d) ==
  /\ d \in late
  /\ late' = late \ {d}
  /\ breaker' = [breaker EXCEPT ![d] = Closed]
  /\ UNCHANGED <<call, rules, strikes, quiet>>

(* An abandoned thread ends, with an answer or not: nobody listens.        *)
LateReturn(d) ==
  /\ d \in late
  /\ late' = late \ {d}
  /\ UNCHANGED <<call, rules, breaker, strikes, quiet>>

(* The decision is stamped with the version of the cached rules, recorded  *)
(* and returned.                                                           *)
Stamp(a) ==
  /\ call[a].pc = "stamp"
  /\ SetCall(a, NoCall)
  /\ UNCHANGED <<rules, health>>

---------------------------------------------------------------------------
(* Mutant: the rules may be replaced while calls are in progress.          *)
RefreshRules_AnyTime ==
  /\ rules' \in RuleSets
  /\ UNCHANGED <<call, health>>

(* The worker's refresh between messages.                                  *)
RefreshRules ==
  /\ Busy = {}
  /\ rules' \in RuleSets
  /\ UNCHANGED <<call, health>>

Tick ==
  /\ breaker' = [d \in Dependencies |-> [breaker[d] EXCEPT !.wait = IF @ = 0 THEN 0 ELSE @ - 1]]
  /\ quiet' = [d \in Dependencies |-> IF quiet[d] = Cooldown THEN Cooldown ELSE quiet[d] + 1]
  /\ UNCHANGED <<call, rules, late, strikes>>

Fresh ==
  [call    |-> [a \in Agents |-> NoCall],
   rules   |-> seed,
   breaker |-> [d \in Dependencies |-> Closed],
   late    |-> {},
   strikes |-> [d \in Dependencies |-> 0],
   quiet   |-> [d \in Dependencies |-> Cooldown]]

(* A new process: the seed rules, and no memory of failures.               *)
GatewayInit ==
  /\ call = Fresh.call /\ rules = Fresh.rules /\ breaker = Fresh.breaker
  /\ late = Fresh.late /\ strikes = Fresh.strikes /\ quiet = Fresh.quiet

Restart ==
  /\ call' = Fresh.call /\ rules' = Fresh.rules /\ breaker' = Fresh.breaker
  /\ late' = Fresh.late /\ strikes' = Fresh.strikes /\ quiet' = Fresh.quiet

CallStep(a) ==
  \/ Ask(a) \/ Pace(a) \/ Start(a)
  \/ Return(a) \/ Refuses(a) \/ Fails(a) \/ TimesOut(a)
  \/ Stamp(a)

GatewayNext ==
  \/ \E a \in Agents : CallStep(a)
  \/ \E d \in Dependencies : LateReturn(d)
  \/ RefreshRules
  \/ Tick
  \/ Restart

GatewaySpec == GatewayInit /\ [][GatewayNext]_gatewayVars

(* The caller's own thread takes every step of a call and waits no longer  *)
(* than the timeout; clocks run.  A tool need not answer.                  *)
GatewayFairness ==
  /\ \A a \in Agents : /\ WF_gatewayVars(Pace(a)) /\ WF_gatewayVars(Start(a))
                       /\ WF_gatewayVars(TimesOut(a)) /\ WF_gatewayVars(Stamp(a))
  /\ WF_gatewayVars(Tick)

FairGatewaySpec == GatewaySpec /\ GatewayFairness

---------------------------------------------------------------------------
(* Properties.                                                             *)

(* Calls, rules and breaker states have the shapes the code gives them.    *)
GatewayTypeOK ==
  /\ \A a \in Agents :
       /\ call[a].pc \in {"done", "pace", "start", "running", "stamp"}
       /\ call[a].pc \in {"pace", "start", "running"} => call[a].tool \in READ_TOOLS
       /\ call[a].by \in RuleSets
  /\ rules \in RuleSets
  /\ breaker \in [Dependencies -> [failures : 0 .. Threshold, wait : 0 .. Cooldown]]
  /\ late \subseteq Dependencies
  /\ strikes \in [Dependencies -> 0 .. Threshold]
  /\ quiet \in [Dependencies -> 0 .. Cooldown]

(* A tool that runs was granted to its agent, allowed by the rules in      *)
(* force and not switched off, whatever rules admins wrote: a wildcard     *)
(* rule does not reach past the registry or another agent's grants.        *)
ExecutedWasGranted ==
  \A a \in Agents :
    call[a].pc = "running" =>
      /\ agent_may_invoke(a, call[a].tool)
      /\ MayAllow(call[a].by, Request(a, call[a].tool, call[a].service))
      /\ ~call[a].denyAll

(* The policy version a decision is recorded with is that of the rules     *)
(* that made it, although it is read again after the tool has run: rules   *)
(* are replaced only between messages.                                     *)
StampDecides ==
  \A a \in Agents : call[a].pc = "stamp" => call[a].by = rules

(* The breaker lets a call through exactly if the dependency has not just  *)
(* failed Threshold times in a row for its callers: answers that come      *)
(* after their timeout, refused calls and bad parameters change nothing.   *)
BreakerTellsHealth ==
  \A d \in Dependencies :
    allow(d) <=> ~(strikes[d] = Threshold /\ quiet[d] < Cooldown)

(* No circuit stays open for good, however often the refused callers ask.  *)
CircuitReopens == \A d \in Dependencies : ~allow(d) ~> allow(d)
===========================================================================
