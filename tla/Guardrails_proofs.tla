-------------------------- MODULE Guardrails_proofs -------------------------
(***************************************************************************)
(* What guards and records a tool call: the promises of the gateway, of    *)
(* its rate limiter and of the audit log, for every set of agents, tools,  *)
(* rule tables and incidents, every threshold, cooldown, capacity and      *)
(* window, and any number of workers, specialists and decisions.  The      *)
(* three share no variable; each part has its own specification and its    *)
(* own invariant.                                                          *)
(***************************************************************************)
EXTENDS ToolGateway, RateLimiter, AuditChain, TLAPS

---------------------------------------------------------------------------
(***************************************************************************)
(* The gateway's promises, for every set of agents, tools and rule tables, *)
(* every threshold and every cooldown.                                     *)
(*                                                                         *)
(* What a running call was granted is decided when it is asked for, two    *)
(* steps earlier, and the rules it is stamped with are read two steps      *)
(* later: Screening carries the grant along, and ByCurrentRules the rules. *)
(* For the breaker, Counted ties its two numbers to the history: an open   *)
(* circuit has waited exactly as long as its dependency has been quiet.    *)
(***************************************************************************)

Granted(a, c) ==
  /\ c.tool \in READ_TOOLS
  /\ agent_may_invoke(a, c.tool)
  /\ MayAllow(c.by, Request(a, c.tool, c.service))
  /\ ~c.denyAll

Screening == \A a \in Agents : call[a].pc \in {"pace", "start", "running"} => Granted(a, call[a])

ByCurrentRules == \A a \in Agents : call[a].pc # "done" => call[a].by = rules

(* What a call may have been told so far.                                  *)
CallReasons ==
  {"none", "run", "allowed:read", "denied:kill_switch", "denied:unknown_agent",
   "denied:destructive", "denied:high_risk_write", "denied:agent_scope", "denied:policy",
   "denied:unknown_tool", "denied:not_registered", "denied:rate_limited",
   "denied:rate_unavailable", "denied:invalid_params", "denied:dependency_unavailable", "denied:timeout",
   "denied:output_too_large"}

CallRecord == [pc      : {"done", "pace", "start", "running", "stamp"},
               tool    : Asked \cup {"none"},
               service : Services \cup {NoService},
               denyAll : BOOLEAN,
               by      : RuleSets \cup {seed},
               reason  : CallReasons]

Counted(d) ==
  /\ strikes[d] = breaker[d].failures
  /\ breaker[d].failures = Threshold => breaker[d].wait + quiet[d] = Cooldown

Shapes ==
  /\ call \in [Agents -> CallRecord]
  /\ rules \in RuleSets \cup {seed}
  /\ breaker \in [Dependencies -> [failures : 0 .. Threshold, wait : 0 .. Cooldown]]
  /\ late \subseteq Dependencies
  /\ strikes \in [Dependencies -> 0 .. Threshold]
  /\ quiet \in [Dependencies -> 0 .. Cooldown]

CallInv == Screening /\ ByCurrentRules
BreakerInv == \A d \in Dependencies : Counted(d)
GatewayInv == Shapes /\ CallInv /\ BreakerInv

HealthShapes ==
  /\ breaker \in [Dependencies -> [failures : 0 .. Threshold, wait : 0 .. Cooldown]]
  /\ late \subseteq Dependencies
  /\ strikes \in [Dependencies -> 0 .. Threshold]
  /\ quiet \in [Dependencies -> 0 .. Cooldown]

---------------------------------------------------------------------------
(* A call that _decide lets through is for a read tool its agent was       *)
(* granted, the switch is off, and some rule's verdict allowed it.         *)
LEMMA ScreenedIsGranted ==
  ASSUME NEW a, NEW tool, NEW service, NEW denyAll \in BOOLEAN,
         NEW verdict \in evaluate_policy(rules, Request(a, tool, service)),
         Screened(a, tool, denyAll, verdict) = "run"
  PROVE  /\ tool \in READ_TOOLS
         /\ agent_may_invoke(a, tool)
         /\ MayAllow(rules, Request(a, tool, service))
         /\ ~denyAll
<1>1. HardStop(a, tool, denyAll) = "none"
  BY DEF Screened, HardStop
<1>2. verdict.allowed /\ Registered(tool)
  BY <1>1 DEF Screened
<1>3. tool \in READ_TOOLS
  BY <1>2 DEF Registered
<1>4. ~denyAll
  BY <1>1 DEF HardStop
<1>5. classify(tool) = READ
  BY <1>3 DEF classify
<1>6. agent_may_invoke(a, tool)
  BY <1>1, <1>4, <1>5 DEF HardStop, READ, DESTRUCTIVE
<1> QED
  BY <1>2, <1>3, <1>4, <1>6 DEF MayAllow

(* Every read tool has a dependency.                                       *)
LEMMA DepIsKnown ==
  ASSUME NEW a \in Agents, Screening, call[a].pc \in {"pace", "start", "running"}
  PROVE  Dep(a) \in Dependencies
BY DEF Screening, Granted, Dep, Dependencies

(* The breaker's two parameters.                                           *)
LEMMA Numbers == Threshold \in Nat \ {0} /\ Cooldown \in Nat \ {0}
BY GatewayAssumption

(* An agent without a call has the type of one with.                       *)
LEMMA NoCallIsACall == NoCall \in CallRecord
BY SMT DEF NoCall, CallRecord, CallReasons

(* A fresh process.                                                        *)
LEMMA FreshCalls ==
  ASSUME call = Fresh.call, rules = Fresh.rules
  PROVE  call \in [Agents -> CallRecord] /\ rules \in RuleSets \cup {seed} /\ CallInv
<1>1. NoCall \in CallRecord
  BY NoCallIsACall
<1>2. \A a \in Agents : call[a] = NoCall
  BY DEF Fresh
<1>3. call \in [Agents -> CallRecord]
  BY <1>1 DEF Fresh
<1>4. rules = seed
  BY DEF Fresh
<1> QED
  BY <1>2, <1>3, <1>4 DEF CallInv, Screening, ByCurrentRules, NoCall

(* New breakers have a history that is counted.                            *)
LEMMA FreshHealth ==
  ASSUME breaker = Fresh.breaker, late = Fresh.late, strikes = Fresh.strikes,
         quiet = Fresh.quiet
  PROVE  HealthShapes /\ BreakerInv
<1>1. /\ breaker = [d \in Dependencies |-> Closed] /\ late = {}
      /\ strikes = [d \in Dependencies |-> 0] /\ quiet = [d \in Dependencies |-> Cooldown]
  BY DEF Fresh
<1> QED
  BY <1>1, Numbers DEF HealthShapes, BreakerInv, Counted, Closed

---------------------------------------------------------------------------
(* A step that replaces one call by an acceptable one and keeps the rules. *)
LEMMA OneCallStep ==
  ASSUME GatewayInv, NEW a \in Agents, NEW new \in CallRecord, SetCall(a, new), rules' = rules,
         new.pc \in {"pace", "start", "running"} => Granted(a, new),
         new.pc # "done" => new.by = rules
  PROVE  call' \in [Agents -> CallRecord] /\ CallInv'
<1>1. call' \in [Agents -> CallRecord]
  BY DEF GatewayInv, Shapes, SetCall
<1>2. \A b \in Agents : call'[b] = IF b = a THEN new ELSE call[b]
  BY DEF GatewayInv, Shapes, SetCall
<1>3. Screening'
  <2> SUFFICES ASSUME NEW b \in Agents, call'[b].pc \in {"pace", "start", "running"}
               PROVE  Granted(b, call'[b])
    BY DEF Screening, Granted
  <2> QED
    BY <1>2 DEF GatewayInv, CallInv, Screening
<1>4. ByCurrentRules'
  BY <1>2 DEF GatewayInv, CallInv, ByCurrentRules
<1> QED
  BY <1>1, <1>3, <1>4 DEF CallInv

(* A call that moves on within its grant.                                  *)
LEMMA MovesOn ==
  ASSUME GatewayInv, NEW a \in Agents, NEW to \in {"start", "running", "stamp"},
         NEW reason \in CallReasons,
         call[a].pc \in {"pace", "start", "running"}, rules' = rules,
         SetCall(a, [call[a] EXCEPT !.pc = to, !.reason = reason])
  PROVE  call' \in [Agents -> CallRecord] /\ CallInv'
<1> DEFINE new == [call[a] EXCEPT !.pc = to, !.reason = reason]
<1>0. call[a] \in CallRecord
  BY DEF GatewayInv, Shapes
<1>1. new \in CallRecord
  BY <1>0, ZenonT(60) DEF CallRecord
<1>2. /\ new.pc = to /\ new.tool = call[a].tool /\ new.by = call[a].by
      /\ new.denyAll = call[a].denyAll /\ new.service = call[a].service
  BY <1>0 DEF CallRecord
<1>3. Granted(a, call[a]) /\ call[a].by = rules
  BY DEF GatewayInv, CallInv, Screening, ByCurrentRules
<1>4. Granted(a, new)
  BY <1>2, <1>3 DEF Granted
<1> HIDE DEF new
<1> QED
  BY <1>1, <1>2, <1>3, <1>4, OneCallStep DEF new

(* A call goes on to its next step under the grant it has.                 *)
LEMMA MovesOnKeepingReason ==
  ASSUME GatewayInv, NEW a \in Agents, NEW to \in {"start", "running", "stamp"},
         call[a].pc \in {"pace", "start", "running"}, rules' = rules,
         SetCall(a, [call[a] EXCEPT !.pc = to])
  PROVE  call' \in [Agents -> CallRecord] /\ CallInv'
<1>0. call[a] \in CallRecord
  BY DEF GatewayInv, Shapes
<1>1. [call[a] EXCEPT !.pc = to] = [call[a] EXCEPT !.pc = to, !.reason = call[a].reason]
  BY <1>0 DEF CallRecord
<1>2. call[a].reason \in CallReasons
  BY <1>0 DEF CallRecord
<1> QED
  BY <1>1, <1>2, MovesOn DEF SetCall

(* A denied call goes on to be stamped.                                    *)
LEMMA DenyStep ==
  ASSUME GatewayInv, NEW a \in Agents, NEW reason \in CallReasons,
         call[a].pc \in {"pace", "start", "running"}, rules' = rules, Deny(a, reason)
  PROVE  call' \in [Agents -> CallRecord] /\ CallInv'
BY MovesOn DEF Deny

(* Asking: the decision is taken on the rules of this moment.              *)
LEMMA AskStep ==
  ASSUME GatewayInv, NEW a \in Agents, Ask(a)
  PROVE  call' \in [Agents -> CallRecord] /\ CallInv'
<1>1. PICK tool \in Asked, service \in Services, denyAll \in DenyAll :
        \E verdict \in evaluate_policy(rules, Request(a, tool, service)) :
         LET reason == Screened(a, tool, denyAll, verdict)
         IN  SetCall(a, [NoCall EXCEPT !.pc = IF reason = "run" THEN "pace" ELSE "stamp",
                                       !.tool = tool, !.service = service,
                                       !.denyAll = denyAll, !.by = rules, !.reason = reason])
  BY DEF Ask
<1>2. PICK verdict \in evaluate_policy(rules, Request(a, tool, service)) :
         LET reason == Screened(a, tool, denyAll, verdict)
         IN  SetCall(a, [NoCall EXCEPT !.pc = IF reason = "run" THEN "pace" ELSE "stamp",
                                       !.tool = tool, !.service = service,
                                       !.denyAll = denyAll, !.by = rules, !.reason = reason])
  BY <1>1
<1> DEFINE reason == Screened(a, tool, denyAll, verdict)
           to == IF reason = "run" THEN "pace" ELSE "stamp"
           new == [NoCall EXCEPT !.pc = to, !.tool = tool, !.service = service,
                                 !.denyAll = denyAll, !.by = rules, !.reason = reason]
<1>3. SetCall(a, new)
  BY <1>2
<1>4. denyAll \in BOOLEAN
  BY GatewayAssumption
<1>5. reason \in CallReasons
  <2>1. HardStop(a, tool, denyAll) \in CallReasons
    BY DEF HardStop, CallReasons
  <2> QED
    BY <2>1 DEF Screened, CallReasons
<1>6. rules \in RuleSets \cup {seed} /\ rules' = rules
  BY DEF GatewayInv, Shapes, Ask
<1>7. new \in CallRecord
  <2>1. /\ to \in {"done", "pace", "start", "running", "stamp"} /\ tool \in Asked \cup {"none"}
        /\ service \in Services \cup {NoService}
    OBVIOUS
  <2> HIDE DEF reason, to
  <2> QED
    BY <2>1, <1>4, <1>5, <1>6, NoCallIsACall, ZenonT(60) DEF CallRecord
<1>8. /\ new.pc = to /\ new.tool = tool /\ new.service = service
      /\ new.denyAll = denyAll /\ new.by = rules
  <2> HIDE DEF reason, to
  <2> QED
    BY NoCallIsACall DEF CallRecord
<1> HIDE DEF new
<1>9. new.pc \in {"pace", "start", "running"} => Granted(a, new)
  <2> SUFFICES ASSUME reason = "run" PROVE Granted(a, new)
    BY <1>8
  <2> QED
    BY <1>4, <1>8, ScreenedIsGranted DEF Granted
<1> QED
  BY <1>3, <1>6, <1>7, <1>8, <1>9, OneCallStep

---------------------------------------------------------------------------
(* record_success closes the circuit and forgets the strikes.              *)
LEMMA SuccessStep ==
  ASSUME Shapes, BreakerInv, NEW d \in Dependencies, record_success(d), late' \subseteq Dependencies
  PROVE  HealthShapes' /\ BreakerInv'
<1>1. /\ breaker' = [breaker EXCEPT ![d] = [failures |-> 0, wait |-> 0]]
      /\ strikes' = [strikes EXCEPT ![d] = 0] /\ quiet' = quiet
  BY DEF record_success, Closed
<1>2. HealthShapes'
  BY <1>1, Numbers DEF Shapes, HealthShapes
<1>3. BreakerInv'
  BY <1>1, Numbers DEF Shapes, BreakerInv, Counted
<1> QED
  BY <1>2, <1>3

(* A failure: at the threshold the circuit opens for a whole cooldown, and *)
(* the quiet time starts anew.                                             *)
LEMMA FailureStep ==
  ASSUME Shapes, BreakerInv, NEW d \in Dependencies, record_failure(d), late' \subseteq Dependencies
  PROVE  HealthShapes' /\ BreakerInv'
<1> DEFINE f == breaker[d].failures
           reached == f + 1 >= Threshold
           new == [failures |-> IF reached THEN Threshold ELSE f + 1,
                   wait     |-> IF reached THEN Cooldown ELSE breaker[d].wait]
<1>1. /\ breaker' = [breaker EXCEPT ![d] = new]
      /\ strikes' = [strikes EXCEPT ![d] = IF @ = Threshold THEN @ ELSE @ + 1]
      /\ quiet' = [quiet EXCEPT ![d] = 0]
  BY DEF record_failure
<1>2. /\ f \in 0 .. Threshold /\ breaker[d].wait \in 0 .. Cooldown
      /\ strikes[d] = f
  BY DEF Shapes, BreakerInv, Counted
<1>3. new.failures \in 0 .. Threshold /\ new.wait \in 0 .. Cooldown
  BY <1>2, Numbers
<1>4. new \in [failures : 0 .. Threshold, wait : 0 .. Cooldown]
  BY <1>3
<1>5. (IF strikes[d] = Threshold THEN strikes[d] ELSE strikes[d] + 1) = new.failures
  BY <1>2, Numbers
<1>6. new.failures = Threshold => new.wait + 0 = Cooldown
  BY <1>2, Numbers
<1> HIDE DEF new
<1>7. strikes' = [strikes EXCEPT ![d] = new.failures]
  BY <1>1, <1>5 DEF Shapes
<1>8. HealthShapes'
  BY <1>1, <1>3, <1>4, <1>7, Numbers DEF Shapes, HealthShapes
<1>9. BreakerInv'
  <2> SUFFICES ASSUME NEW e \in Dependencies PROVE Counted(e)'
    BY DEF BreakerInv
  <2>1. CASE e = d
    BY <2>1, <1>1, <1>6, <1>7 DEF Shapes, Counted
  <2>2. CASE e # d
    BY <2>2, <1>1, <1>7 DEF Shapes, BreakerInv, Counted
  <2> QED
    BY <2>1, <2>2
<1> QED
  BY <1>8, <1>9

(* Time passes for every open circuit and every quiet dependency alike.    *)
LEMMA TickStep ==
  ASSUME GatewayInv, Tick
  PROVE  HealthShapes' /\ BreakerInv'
<1>1. /\ breaker' = [d \in Dependencies |->
                       [breaker[d] EXCEPT !.wait = IF @ = 0 THEN 0 ELSE @ - 1]]
      /\ quiet' = [d \in Dependencies |-> IF quiet[d] = Cooldown THEN Cooldown ELSE quiet[d] + 1]
      /\ late' = late /\ strikes' = strikes
  BY DEF Tick
<1>2. ASSUME NEW d \in Dependencies
      PROVE  /\ breaker[d] \in [failures : 0 .. Threshold, wait : 0 .. Cooldown]
             /\ breaker'[d].failures = breaker[d].failures
             /\ breaker'[d].wait = IF breaker[d].wait = 0 THEN 0 ELSE breaker[d].wait - 1
             /\ breaker'[d] \in [failures : 0 .. Threshold, wait : 0 .. Cooldown]
             /\ quiet[d] \in 0 .. Cooldown
             /\ quiet'[d] = IF quiet[d] = Cooldown THEN Cooldown ELSE quiet[d] + 1
             /\ quiet'[d] \in 0 .. Cooldown
  <2> DEFINE w == IF breaker[d].wait = 0 THEN 0 ELSE breaker[d].wait - 1
  <2>1. /\ breaker[d] \in [failures : 0 .. Threshold, wait : 0 .. Cooldown]
        /\ quiet[d] \in 0 .. Cooldown
    BY DEF GatewayInv, Shapes
  <2>2. breaker'[d] = [breaker[d] EXCEPT !.wait = w]
    BY <1>1
  <2>3. w \in 0 .. Cooldown
    BY <2>1, Numbers
  <2> HIDE DEF w
  <2>4. /\ breaker'[d].failures = breaker[d].failures /\ breaker'[d].wait = w
        /\ breaker'[d] \in [failures : 0 .. Threshold, wait : 0 .. Cooldown]
    BY <2>1, <2>2, <2>3
  <2>5. quiet'[d] = IF quiet[d] = Cooldown THEN Cooldown ELSE quiet[d] + 1
    BY <1>1
  <2>6. quiet'[d] \in 0 .. Cooldown
    BY <2>1, <2>5, Numbers
  <2> QED
    BY <2>1, <2>4, <2>5, <2>6 DEF w
<1>3. HealthShapes'
  <2>1. breaker' \in [Dependencies -> [failures : 0 .. Threshold, wait : 0 .. Cooldown]]
    BY <1>1, <1>2
  <2>2. quiet' \in [Dependencies -> 0 .. Cooldown]
    BY <1>1, <1>2
  <2> QED
    BY <1>1, <2>1, <2>2 DEF GatewayInv, Shapes, HealthShapes
<1>4. BreakerInv'
  <2> SUFFICES ASSUME NEW d \in Dependencies PROVE Counted(d)'
    BY DEF BreakerInv
  <2>1. /\ strikes[d] = breaker[d].failures
        /\ breaker[d].failures = Threshold => breaker[d].wait + quiet[d] = Cooldown
    BY DEF GatewayInv, BreakerInv, Counted
  <2>2. strikes'[d] = breaker'[d].failures
    BY <1>1, <1>2, <2>1
  <2>3. breaker'[d].failures = Threshold => breaker'[d].wait + quiet'[d] = Cooldown
    <3>1. breaker[d].wait \in 0 .. Cooldown /\ quiet[d] \in 0 .. Cooldown
      BY <1>2
    <3> QED
      BY <1>2, <2>1, <3>1, Numbers
  <2> QED
    BY <2>2, <2>3 DEF Counted
<1> QED
  BY <1>3, <1>4

(* A step that leaves the breakers alone.                                  *)
LEMMA QuietHealth ==
  ASSUME GatewayInv, UNCHANGED <<breaker, strikes, quiet>>, late' \subseteq Dependencies
  PROVE  HealthShapes' /\ BreakerInv'
BY DEF GatewayInv, Shapes, HealthShapes, BreakerInv, Counted

(* The rules and the calls that a step leaves alone.                       *)
LEMMA QuietCalls ==
  ASSUME GatewayInv, UNCHANGED <<call, rules>>
  PROVE  call' \in [Agents -> CallRecord] /\ CallInv'
BY DEF GatewayInv, Shapes, CallInv, Screening, ByCurrentRules, Granted

(* GatewayInv, put together from what a step shows of its parts.           *)
LEMMA InvFromParts ==
  ASSUME call' \in [Agents -> CallRecord], rules' \in RuleSets \cup {seed}, CallInv',
         HealthShapes', BreakerInv'
  PROVE  GatewayInv'
BY DEF GatewayInv, Shapes, HealthShapes

---------------------------------------------------------------------------
(* GatewayInv holds in the initial states.                                 *)
LEMMA InitGateway == GatewayInit => GatewayInv
BY FreshCalls, FreshHealth DEF GatewayInit, GatewayInv, Shapes, HealthShapes

(* Every step of a call preserves GatewayInv.                              *)
LEMMA StepOfCall ==
  ASSUME GatewayInv, NEW a \in Agents, CallStep(a)
  PROVE  GatewayInv'
<1>0. rules' = rules /\ rules \in RuleSets \cup {seed} /\ late \subseteq Dependencies
  BY DEF CallStep, Ask, Pace, Start, Return, Refuses, Fails, TimesOut, Stamp, GatewayInv, Shapes
<1>1. CASE Ask(a)
  <2>1. HealthShapes' /\ BreakerInv'
    BY <1>0, <1>1, QuietHealth DEF Ask, health
  <2> QED
    BY <1>0, <1>1, <2>1, AskStep, InvFromParts
<1>2. CASE Pace(a)
  <2>1. call' \in [Agents -> CallRecord] /\ CallInv'
    BY <1>0, <1>2, MovesOnKeepingReason, DenyStep DEF Pace, CallReasons
  <2>2. HealthShapes' /\ BreakerInv'
    BY <1>0, <1>2, QuietHealth DEF Pace, health
  <2> QED
    BY <1>0, <2>1, <2>2, InvFromParts
<1>3. CASE Start(a)
  <2>1. call' \in [Agents -> CallRecord] /\ CallInv'
    BY <1>0, <1>3, MovesOnKeepingReason, DenyStep DEF Start, CallReasons
  <2>2. HealthShapes' /\ BreakerInv'
    BY <1>0, <1>3, QuietHealth DEF Start, health
  <2> QED
    BY <1>0, <2>1, <2>2, InvFromParts
<1>4. CASE Return(a)
  <2>1. call' \in [Agents -> CallRecord] /\ CallInv'
    BY <1>0, <1>4, DenyStep DEF Return, CallReasons
  <2>2. Dep(a) \in Dependencies
    BY <1>4, DepIsKnown DEF Return, GatewayInv, CallInv
  <2>3. HealthShapes' /\ BreakerInv'
    BY <1>0, <1>4, <2>2, SuccessStep DEF Return, GatewayInv
  <2> QED
    BY <1>0, <2>1, <2>3, InvFromParts
<1>5. CASE Refuses(a)
  <2>1. call' \in [Agents -> CallRecord] /\ CallInv'
    BY <1>0, <1>5, DenyStep DEF Refuses, CallReasons
  <2>2. HealthShapes' /\ BreakerInv'
    BY <1>0, <1>5, QuietHealth DEF Refuses, health
  <2> QED
    BY <1>0, <2>1, <2>2, InvFromParts
<1>6. CASE Fails(a) \/ TimesOut(a)
  <2>1. call' \in [Agents -> CallRecord] /\ CallInv'
    BY <1>0, <1>6, DenyStep DEF Fails, TimesOut, CallReasons
  <2>2. Dep(a) \in Dependencies
    BY <1>6, DepIsKnown DEF Fails, TimesOut, GatewayInv, CallInv
  <2>3. late' \subseteq Dependencies
    BY <1>0, <1>6, <2>2 DEF Fails, TimesOut
  <2>4. HealthShapes' /\ BreakerInv'
    BY <1>6, <2>2, <2>3, FailureStep DEF Fails, TimesOut, GatewayInv
  <2> QED
    BY <1>0, <2>1, <2>4, InvFromParts
<1>7. CASE Stamp(a)
  <2>1. NoCall \in CallRecord
    BY NoCallIsACall
  <2>2. NoCall.pc = "done"
    BY DEF NoCall
  <2>3. call' \in [Agents -> CallRecord] /\ CallInv'
    BY <1>0, <1>7, <2>1, <2>2, OneCallStep DEF Stamp
  <2>4. HealthShapes' /\ BreakerInv'
    BY <1>0, <1>7, QuietHealth DEF Stamp, health
  <2> QED
    BY <1>0, <2>3, <2>4, InvFromParts
<1> QED
  BY <1>1, <1>2, <1>3, <1>4, <1>5, <1>6, <1>7 DEF CallStep

(* Every step preserves GatewayInv.                                        *)
LEMMA StepGateway == GatewayInv /\ [GatewayNext]_gatewayVars => GatewayInv'
<1> SUFFICES ASSUME GatewayInv, [GatewayNext]_gatewayVars PROVE GatewayInv'
  OBVIOUS
<1>1. CASE \E a \in Agents : CallStep(a)
  BY <1>1, StepOfCall
<1>2. CASE \E d \in Dependencies : LateReturn(d)
  <2>1. UNCHANGED <<call, rules, breaker, strikes, quiet>> /\ late' \subseteq Dependencies
    BY <1>2 DEF LateReturn, GatewayInv, Shapes
  <2> QED
    BY <2>1, QuietCalls, QuietHealth, InvFromParts DEF GatewayInv, Shapes
<1>3. CASE RefreshRules
  <2>1. /\ \A a \in Agents : call[a].pc = "done"
        /\ rules' \in RuleSets \cup {seed} /\ UNCHANGED <<call, health>>
    BY <1>3 DEF RefreshRules, Busy
  <2>2. CallInv'
    BY <2>1 DEF CallInv, Screening, ByCurrentRules
  <2>3. HealthShapes' /\ BreakerInv'
    BY <2>1, QuietHealth DEF GatewayInv, Shapes, health
  <2> QED
    BY <2>1, <2>2, <2>3, InvFromParts DEF GatewayInv, Shapes
<1>4. CASE Tick
  <2>1. UNCHANGED <<call, rules>>
    BY <1>4 DEF Tick
  <2> QED
    BY <1>4, <2>1, TickStep, QuietCalls, InvFromParts DEF GatewayInv, Shapes
<1>5. CASE Restart
  <2>1. GatewayInit'
    BY <1>5 DEF Restart, GatewayInit, Fresh
  <2> QED
    BY <2>1, InitGateway, PTL
<1>6. CASE UNCHANGED gatewayVars
  BY <1>6, QuietCalls, QuietHealth, InvFromParts DEF gatewayVars, GatewayInv, Shapes
<1> QED
  BY <1>1, <1>2, <1>3, <1>4, <1>5, <1>6 DEF GatewayNext

(* GatewayInv holds throughout every behaviour of the gateway.             *)
LEMMA GatewayInvariant == GatewaySpec => []GatewayInv
BY InitGateway, StepGateway, PTL DEF GatewaySpec

---------------------------------------------------------------------------
(* Calls, rules, breakers and abandoned threads keep their shapes, provided *)
(* that the seed rules a process starts with are one of the rule tables.   *)
THEOREM GatewayTypeCorrect ==
  ASSUME seed \in RuleSets
  PROVE  GatewaySpec => []GatewayTypeOK
<1>1. ASSUME GatewayInv PROVE GatewayTypeOK
  <2>1. RuleSets \cup {seed} = RuleSets
    OBVIOUS
  <2>2. ASSUME NEW a \in Agents
        PROVE  /\ call[a].pc \in {"done", "pace", "start", "running", "stamp"}
               /\ call[a].pc \in {"pace", "start", "running"} => call[a].tool \in READ_TOOLS
               /\ call[a].by \in RuleSets
    <3>1. call[a] \in CallRecord
      BY <1>1 DEF GatewayInv, Shapes
    <3> QED
      BY <1>1, <2>1, <3>1 DEF CallRecord, GatewayInv, CallInv, Screening, Granted
  <2> QED
    BY <1>1, <2>1, <2>2 DEF GatewayInv, Shapes, GatewayTypeOK
<1> QED
  BY <1>1, GatewayInvariant, PTL

(* Whatever rules admins write and whenever the worker loads them, a tool  *)
(* runs only for an agent that was granted it in code, allowed by the      *)
(* rules the call was decided by, and with the break-glass switch off.     *)
THEOREM RunningCallsWereGranted == GatewaySpec => []ExecutedWasGranted
<1>1. GatewayInv => ExecutedWasGranted
  BY DEF GatewayInv, CallInv, Screening, Granted, ExecutedWasGranted
<1> QED
  BY <1>1, GatewayInvariant, PTL

(* The policy version a decision is stamped with after the tool has run is *)
(* that of the rules that decided it before.                               *)
THEOREM StampsTellTheRules == GatewaySpec => []StampDecides
<1>1. GatewayInv => StampDecides
  BY DEF GatewayInv, CallInv, ByCurrentRules, StampDecides
<1> QED
  BY <1>1, GatewayInvariant, PTL

(* For every threshold and cooldown the breaker refuses a call exactly     *)
(* while the dependency has failed Threshold times in a row, the last time *)
(* less than Cooldown ago: no order of concurrent answers, failures, late  *)
(* threads and refused calls makes it forget or remember more.             *)
THEOREM BreakersTellHealth == GatewaySpec => []BreakerTellsHealth
<1>1. ASSUME GatewayInv PROVE BreakerTellsHealth
  <2> SUFFICES ASSUME NEW d \in Dependencies
               PROVE  allow(d) <=> ~(strikes[d] = Threshold /\ quiet[d] < Cooldown)
    BY DEF BreakerTellsHealth
  <2>1. /\ breaker[d].failures \in 0 .. Threshold /\ breaker[d].wait \in 0 .. Cooldown
        /\ strikes[d] = breaker[d].failures /\ quiet[d] \in 0 .. Cooldown
        /\ breaker[d].failures = Threshold => breaker[d].wait + quiet[d] = Cooldown
    BY <1>1 DEF GatewayInv, Shapes, BreakerInv, Counted
  <2> QED
    BY <2>1, Numbers DEF allow
<1> QED
  BY <1>1, GatewayInvariant, PTL

---------------------------------------------------------------------------
(***************************************************************************)
(* The rate limiter's promises, for every number of agents, tools and      *)
(* incidents, all capacities and every window.                             *)
(*                                                                         *)
(* BurstIsBounded is not inductive: it does not say that tokens were given *)
(* for the calls admitted.  What a step preserves is a balance: the level  *)
(* and the tokens spent add up to at most the level at the first moment    *)
(* and what came in since (NothingFromNowhere), and to at least that, up   *)
(* to the capacity (RefusalsAreFree).                                      *)
(***************************************************************************)

NothingFromNowhere ==
  \A k \in Keys :
    /\ watch[k].from <= Full(k)
    /\ tokens[k] + watch[k].spent * Window <= watch[k].from + Capacity(k) * watch[k].age

RateInv == RateTypeOK /\ NothingFromNowhere /\ RefusalsAreFree

---------------------------------------------------------------------------
(* Arithmetic of one bucket: level t, s calls since a moment a ticks ago   *)
(* when it was f; capacity c, window w.                                    *)

Balanced(t, s, f, a, c, w) ==
  /\ t \in Nat /\ s \in Nat /\ f \in Nat /\ a \in Nat
  /\ t <= c * w /\ f <= c * w
  /\ t + s * w <= f + c * a
  /\ t + s * w >= LessOf(c * w, f + c * a)

(* Taking a token and counting the call keeps the balance.                 *)
LEMMA TakeKeepsBalance ==
  ASSUME NEW t, NEW s, NEW f, NEW a, NEW c \in Nat, NEW w \in Nat,
         Balanced(t, s, f, a, c, w), t >= w
  PROVE  Balanced(t - w, s + 1, f, a, c, w)
<1> DEFINE full == c * w   in == c * a   out == s * w
<1>1. t \in Nat /\ s \in Nat /\ f \in Nat /\ a \in Nat
  BY DEF Balanced
<1>2. full \in Nat /\ in \in Nat /\ out \in Nat
  BY <1>1
<1>3. (s + 1) * w = out + w
  BY <1>1
<1>4. /\ t <= full /\ f <= full
      /\ t + out <= f + in
      /\ t + out >= LessOf(full, f + in)
  BY DEF Balanced
<1> HIDE DEF full, in, out
<1>5. t - w \in Nat /\ s + 1 \in Nat /\ t - w <= full
  BY <1>1, <1>2, <1>4
<1>6. (t - w) + (out + w) = t + out
  BY <1>1, <1>2
<1> QED
  BY <1>1, <1>3, <1>4, <1>5, <1>6 DEF Balanced, full, in, out

(* A tick that refills and is counted keeps the balance.                   *)
LEMMA TickKeepsBalance ==
  ASSUME NEW t, NEW s, NEW f, NEW a, NEW c \in Nat, NEW w \in Nat,
         Balanced(t, s, f, a, c, w)
  PROVE  Balanced(LessOf(c * w, t + c), s, f, a + 1, c, w)
<1> DEFINE full == c * w   in == c * a   out == s * w
<1>1. t \in Nat /\ s \in Nat /\ f \in Nat /\ a \in Nat
  BY DEF Balanced
<1>2. full \in Nat /\ in \in Nat /\ out \in Nat
  BY <1>1
<1>3. c * (a + 1) = in + c
  BY <1>1
<1>4. /\ t <= full /\ f <= full
      /\ t + out <= f + in
      /\ t + out >= LessOf(full, f + in)
  BY DEF Balanced
<1> HIDE DEF full, in, out
<1>5. LessOf(full, t + c) \in Nat /\ LessOf(full, t + c) <= full
  BY <1>1, <1>2 DEF LessOf
<1>6. LessOf(full, t + c) + out <= f + (in + c)
  BY <1>1, <1>2, <1>4 DEF LessOf
<1>7. LessOf(full, t + c) + out >= LessOf(full, f + (in + c))
  BY <1>1, <1>2, <1>4 DEF LessOf
<1>8. a + 1 \in Nat
  BY <1>1
<1> QED
  BY <1>1, <1>3, <1>4, <1>5, <1>6, <1>7, <1>8 DEF Balanced, full, in, out

(* A watch that starts now is balanced.                                    *)
LEMMA FreshIsBalanced ==
  ASSUME NEW t \in Nat, NEW c \in Nat, NEW w \in Nat, t <= c * w
  PROVE  Balanced(t, 0, t, 0, c, w)
<1>1. 0 * w = 0 /\ c * 0 = 0 /\ c * w \in Nat
  OBVIOUS
<1> QED
  BY <1>1 DEF Balanced, LessOf

---------------------------------------------------------------------------
Bucket(k) ==
  Balanced(tokens[k], watch[k].spent, watch[k].from, watch[k].age, Capacity(k), Window)

BucketsOK ==
  /\ tokens \in [Keys -> Nat]
  /\ watch \in [Keys -> [from : Nat, spent : Nat, age : 0 .. MaxWatch, unmetered : BOOLEAN]]
  /\ \A k \in Keys : Bucket(k)

(* Windows, bounds and capacities are numbers.                             *)
LEMMA Parameters ==
  /\ Window \in Nat /\ MaxWatch \in Nat
  /\ \A k \in Keys : Capacity(k) \in Nat
BY RateAssumption DEF Capacity

(* The invariant, bucket by bucket.                                        *)
LEMMA BucketsAreTheInvariant == BucketsOK <=> RateInv
<1>1. ASSUME RateTypeOK \/ BucketsOK, NEW k \in Keys
      PROVE  /\ tokens[k] \in Nat
             /\ watch[k].spent \in Nat /\ watch[k].from \in Nat /\ watch[k].age \in Nat
  BY <1>1, Parameters DEF RateTypeOK, BucketsOK
<1>2. ASSUME NEW k \in Keys PROVE Full(k) = Capacity(k) * Window
  BY DEF Full
<1>3. ASSUME BucketsOK PROVE RateInv
  BY <1>2, <1>3 DEF RateInv, RateTypeOK, NothingFromNowhere, RefusalsAreFree,
                    BucketsOK, Bucket, Balanced
<1>4. ASSUME RateInv PROVE BucketsOK
  BY <1>1, <1>2, <1>4 DEF RateInv, RateTypeOK, NothingFromNowhere, RefusalsAreFree,
                          BucketsOK, Bucket, Balanced
<1> QED
  BY <1>3, <1>4

(* New buckets are full and balanced.                                      *)
LEMMA InitBuckets == RateInit => BucketsOK
<1> SUFFICES ASSUME RateInit PROVE BucketsOK
  OBVIOUS
<1>1. ASSUME NEW k \in Keys PROVE Full(k) \in Nat /\ Full(k) <= Capacity(k) * Window
  BY Parameters DEF Full
<1>2. tokens \in [Keys -> Nat]
  BY <1>1 DEF RateInit
<1>3. 0 \in 0 .. MaxWatch /\ 0 \in Nat
  BY Parameters
<1>4. watch \in [Keys -> [from : Nat, spent : Nat, age : 0 .. MaxWatch, unmetered : BOOLEAN]]
  BY <1>1, <1>3, ZenonT(60) DEF RateInit, WatchFrom
<1>5. ASSUME NEW k \in Keys PROVE Bucket(k)
  <2>1. /\ tokens[k] = Full(k)
        /\ watch[k] = [from |-> Full(k), spent |-> 0, age |-> 0, unmetered |-> FALSE]
    BY DEF RateInit, WatchFrom
  <2>2. Balanced(Full(k), 0, Full(k), 0, Capacity(k), Window)
    BY <1>1, Parameters, FreshIsBalanced
  <2> QED
    BY <2>1, <2>2 DEF Bucket
<1> QED
  BY <1>2, <1>4, <1>5 DEF BucketsOK

(* The invariant after a step, bucket by bucket.                           *)
LEMMA StepBuckets == BucketsOK /\ [RateNext]_rateVars => BucketsOK'
<1> SUFFICES ASSUME BucketsOK, [RateNext]_rateVars PROVE BucketsOK'
  OBVIOUS
<1> DEFINE Watches == [from : Nat, spent : Nat, age : 0 .. MaxWatch, unmetered : BOOLEAN]
<1>1. ASSUME NEW k \in Keys
      PROVE  /\ tokens[k] \in Nat /\ watch[k] \in Watches
             /\ watch[k].spent \in Nat /\ watch[k].from \in Nat /\ watch[k].age \in 0 .. MaxWatch
             /\ Capacity(k) \in Nat /\ Window \in Nat /\ MaxWatch \in Nat
             /\ Bucket(k)
  BY Parameters DEF BucketsOK
<1>2. ASSUME NEW key \in IncidentKeys, Admit(key) PROVE BucketsOK'
  <2> DEFINE paid == {key, AgentKey(key)}
  <2>1. /\ tokens' = [k \in Keys |-> IF k \in paid THEN tokens[k] - Window ELSE tokens[k]]
        /\ watch' = [k \in Keys |-> IF k \in paid
                                      THEN [watch[k] EXCEPT !.spent = @ + 1] ELSE watch[k]]
        /\ \A k \in paid : tokens[k] >= Window
    BY <1>2 DEF Admit, TakenFrom, CanAcquire, HasToken
  <2> HIDE DEF paid
  <2>2. ASSUME NEW k \in Keys
        PROVE  tokens'[k] \in Nat /\ watch'[k] \in Watches /\ Bucket(k)'
    <3>1. CASE k \in paid
      <4>1. tokens'[k] = tokens[k] - Window /\ watch'[k] = [watch[k] EXCEPT !.spent = @ + 1]
        BY <2>1, <3>1
      <4>2. tokens[k] >= Window
        BY <2>1, <3>1
      <4>3. /\ watch'[k].spent = watch[k].spent + 1 /\ watch'[k].from = watch[k].from
            /\ watch'[k].age = watch[k].age
        BY <4>1, <1>1
      <4>4. Balanced(tokens[k] - Window, watch[k].spent + 1, watch[k].from, watch[k].age,
                     Capacity(k), Window)
        BY <1>1, <4>2, TakeKeepsBalance DEF Bucket
      <4>5. tokens[k] - Window \in Nat /\ watch[k].spent + 1 \in Nat
        BY <4>4 DEF Balanced
      <4> QED
        BY <1>1, <4>1, <4>3, <4>4, <4>5 DEF Bucket, Capacity
    <3>2. CASE k \notin paid
      BY <1>1, <2>1, <3>2 DEF Bucket, Capacity
    <3> QED
      BY <3>1, <3>2
  <2> QED
    BY <2>1, <2>2 DEF BucketsOK
<1>3. ASSUME NEW key \in IncidentKeys, Refuse(key) PROVE BucketsOK'
  BY <1>3 DEF Refuse, rateVars, BucketsOK, Bucket, Capacity
<1>4. ASSUME Elapse PROVE BucketsOK'
  <2>1. ASSUME NEW k \in Keys
        PROVE  tokens'[k] \in Nat /\ watch'[k] \in Watches /\ Bucket(k)'
    <3> DEFINE r == LessOf(Capacity(k) * Window, tokens[k] + Capacity(k))
    <3>1. tokens'[k] = r
      BY <1>4 DEF Elapse, Refilled, Full
    <3>2. Balanced(r, watch[k].spent, watch[k].from, watch[k].age + 1, Capacity(k), Window)
      BY <1>1, TickKeepsBalance DEF Bucket
    <3>3. r \in Nat /\ r <= Capacity(k) * Window
      BY <3>2 DEF Balanced
    <3>4. CASE watch[k].age < MaxWatch
      <4>1. watch'[k] = [watch[k] EXCEPT !.age = @ + 1]
        BY <1>4, <3>4 DEF Elapse
      <4>2. watch[k].age + 1 \in 0 .. MaxWatch
        BY <1>1, <3>4
      <4>3. /\ watch'[k].spent = watch[k].spent /\ watch'[k].from = watch[k].from
            /\ watch'[k].age = watch[k].age + 1
        BY <4>1, <1>1
      <4> HIDE DEF r
      <4> QED
        BY <1>1, <3>1, <3>2, <3>3, <4>1, <4>2, <4>3 DEF Bucket, Capacity
    <3>5. CASE ~(watch[k].age < MaxWatch)
      <4>1. watch'[k] = [from |-> r, spent |-> 0, age |-> 0, unmetered |-> FALSE]
        BY <1>4, <3>5 DEF Elapse, Refilled, Full, WatchFrom
      <4>2. Balanced(r, 0, r, 0, Capacity(k), Window)
        BY <1>1, <3>3, FreshIsBalanced
      <4>3. 0 \in 0 .. MaxWatch
        BY <1>1
      <4> HIDE DEF r
      <4> QED
        BY <3>1, <3>3, <4>1, <4>2, <4>3 DEF Bucket, Capacity
    <3> QED
      BY <3>4, <3>5
  <2>2. tokens' = [k \in Keys |-> tokens'[k]] /\ watch' = [k \in Keys |-> watch'[k]]
    BY <1>4 DEF Elapse
  <2> QED
    BY <2>1, <2>2 DEF BucketsOK
<1>5. ASSUME StartWatch PROVE BucketsOK'
  <2>1. /\ tokens' = tokens
        /\ watch' = [k \in Keys |-> [from |-> tokens[k], spent |-> 0, age |-> 0, unmetered |-> FALSE]]
    BY <1>5 DEF StartWatch, WatchFrom
  <2>2. ASSUME NEW k \in Keys
        PROVE  tokens'[k] \in Nat /\ watch'[k] \in Watches /\ Bucket(k)'
    <3>1. tokens[k] <= Capacity(k) * Window
      BY <1>1 DEF Bucket, Balanced
    <3>2. Balanced(tokens[k], 0, tokens[k], 0, Capacity(k), Window)
      BY <1>1, <3>1, FreshIsBalanced
    <3>3. 0 \in 0 .. MaxWatch
      BY <1>1
    <3> QED
      BY <1>1, <2>1, <3>2, <3>3 DEF Bucket, Capacity
  <2> QED
    BY <2>1, <2>2 DEF BucketsOK
<1>6. ASSUME NEW key \in IncidentKeys, StoreFails(key) PROVE BucketsOK'
  <2>1. ASSUME NEW k \in Keys
        PROVE  /\ watch'[k] \in Watches
               /\ watch'[k].spent = watch[k].spent /\ watch'[k].from = watch[k].from
               /\ watch'[k].age = watch[k].age
    <3>1. watch'[k] \in {watch[k], [watch[k] EXCEPT !.unmetered = @ \/ ~FailClosed]}
      BY <1>6 DEF StoreFails
    <3>2. watch[k] \in Watches /\ (watch[k].unmetered \/ ~FailClosed) \in BOOLEAN
      BY <1>1
    <3>3. [watch[k] EXCEPT !.unmetered = @ \/ ~FailClosed] \in Watches
      BY <3>2, ZenonT(60)
    <3> QED
      BY <3>1, <3>2, <3>3
  <2>2. tokens' = tokens /\ watch' = [k \in Keys |-> watch'[k]]
    BY <1>6 DEF StoreFails
  <2>3. \A k \in Keys : Bucket(k)'
    BY <1>1, <2>1, <2>2 DEF Bucket, Capacity
  <2> QED
    BY <2>1, <2>2, <2>3 DEF BucketsOK
<1>7. CASE UNCHANGED rateVars
  BY <1>7 DEF rateVars, BucketsOK, Bucket, Capacity
<1> QED
  BY <1>2, <1>3, <1>4, <1>5, <1>6, <1>7 DEF RateNext

(* RateInv holds throughout every behaviour of the limiter.                *)
LEMMA RateInvariant == RateSpec => []RateInv
<1>1. RateSpec => []BucketsOK
  BY InitBuckets, StepBuckets, PTL DEF RateSpec
<1> QED
  BY <1>1, BucketsAreTheInvariant, PTL

---------------------------------------------------------------------------
(* MemoryTokenBucket keeps every level between empty and full.             *)
THEOREM RateTypeCorrect == RateSpec => []RateTypeOK
BY RateInvariant, PTL DEF RateInv

(* In every stretch of time in which no call passes on a store failure,    *)
(* the calls try_acquire_all admits under a key are at most the capacity   *)
(* and the refill of that time.                                            *)
THEOREM BurstsAreBounded == RateSpec => []BurstIsBounded
<1>1. RateInv => BurstIsBounded
  <2> SUFFICES ASSUME RateInv, NEW k \in Keys
               PROVE  watch[k].spent * Window
                        <= Capacity(k) * Window + Capacity(k) * watch[k].age
    BY DEF BurstIsBounded
  <2> DEFINE full == Capacity(k) * Window
             in == Capacity(k) * watch[k].age
             out == watch[k].spent * Window
  <2>1. /\ tokens[k] \in Nat /\ watch[k].from \in Nat
        /\ watch[k].spent \in Nat /\ watch[k].age \in Nat
    BY Parameters DEF RateInv, RateTypeOK
  <2>2. full \in Nat /\ in \in Nat /\ out \in Nat
    BY <2>1, Parameters
  <2>3. watch[k].from <= full /\ tokens[k] + out <= watch[k].from + in
    BY DEF RateInv, NothingFromNowhere, Full
  <2> HIDE DEF full, in, out
  <2>4. out <= full + in
    BY <2>1, <2>2, <2>3
  <2> QED
    BY <2>4 DEF full, in, out
<1> QED
  BY <1>1, RateInvariant, PTL

(* A refused call costs no bucket anything and holds back no refill.       *)
THEOREM RefusalsCostNothing == RateSpec => []RefusalsAreFree
BY RateInvariant, PTL DEF RateInv

---------------------------------------------------------------------------
(***************************************************************************)
(* The audit log's promises for every number of workers, specialists and   *)
(* decisions.                                                              *)
(*                                                                         *)
(* PredecessorIsStored speaks of committed rows, and a row is committed    *)
(* long after its predecessor was read.  The invariant follows the entries *)
(* from memory to the table: in memory, and in the transaction, a set of   *)
(* entries contains every predecessor it names (Rooted), a call in         *)
(* progress builds on an entry that is still in memory, and the log is     *)
(* empty while its entries are being inserted.  For StoredOnce it adds     *)
(* that what two processes hold, and what is committed, are different      *)
(* entries.                                                                *)
(***************************************************************************)

Names(entries) == {entry.id : entry \in entries}
Rooted(entries) == \A entry \in entries : entry.prev \in {Genesis} \cup Names(entries)
Held(p) == Entries(log[p]) \cup Entries(drained[p]) \cup written[p]

Local(p) ==
  /\ Names(Held(p)) \subseteq 1 .. made
  /\ Rooted(Entries(log[p]))
  /\ Rooted(Entries(drained[p]) \cup written[p])
  /\ \A s \in Specialists :
       base[p][s] # Nothing =>
         pc[p] = "graph" /\ base[p][s] \in {Genesis} \cup Names(Entries(log[p]))
  /\ pc[p] = "persist" => log[p] = <<>>

Apart ==
  /\ \A p \in Processes : Names(Held(p)) \cap Names(table) = {}
  /\ \A p, q \in Processes : p # q => Names(Held(p)) \cap Names(Held(q)) = {}

AuditInv ==
  /\ AuditTypeOK
  /\ \A p \in Processes : Local(p)
  /\ Rooted(table) /\ Names(table) \subseteq 1 .. made
  /\ Apart

---------------------------------------------------------------------------
(* Entries of the sequences the log is handled with.                       *)

(* An empty log has no entries.                                            *)
LEMMA EntriesOfEmpty == Entries(<<>>) = {}
BY DEF Entries

(* append adds one entry.                                                  *)
LEMMA EntriesOfAppend ==
  ASSUME NEW S, NEW seq \in Seq(S), NEW e \in S
  PROVE  Append(seq, e) \in Seq(S) /\ Entries(Append(seq, e)) = Entries(seq) \cup {e}
<1>1. /\ Append(seq, e) \in Seq(S)
      /\ Len(Append(seq, e)) = Len(seq) + 1 /\ Len(seq) \in Nat
      /\ DOMAIN Append(seq, e) = 1 .. Len(seq) + 1 /\ DOMAIN seq = 1 .. Len(seq)
      /\ \A i \in 1 .. Len(seq) : Append(seq, e)[i] = seq[i]
      /\ Append(seq, e)[Len(seq) + 1] = e
  OBVIOUS
<1>2. 1 .. Len(seq) + 1 = 1 .. Len(seq) \cup {Len(seq) + 1}
  BY <1>1
<1>3. Entries(Append(seq, e)) \subseteq Entries(seq) \cup {e}
  BY <1>1, <1>2 DEF Entries
<1>4. Entries(seq) \cup {e} \subseteq Entries(Append(seq, e))
  <2>1. Len(seq) + 1 \in DOMAIN Append(seq, e) /\ DOMAIN seq \subseteq DOMAIN Append(seq, e)
    BY <1>1, <1>2
  <2> QED
    BY <1>1, <2>1 DEF Entries
<1> QED
  BY <1>1, <1>3, <1>4

(* A log is its first entry and the rest.                                  *)
LEMMA EntriesOfTail ==
  ASSUME NEW S, NEW seq \in Seq(S), seq # <<>>
  PROVE  /\ Head(seq) \in S /\ Tail(seq) \in Seq(S)
         /\ Entries(seq) = {Head(seq)} \cup Entries(Tail(seq))
<1>1. /\ Head(seq) = seq[1] /\ Tail(seq) \in Seq(S) /\ Head(seq) \in S
      /\ Len(seq) \in Nat \ {0} /\ Len(Tail(seq)) = Len(seq) - 1
      /\ DOMAIN seq = 1 .. Len(seq) /\ DOMAIN Tail(seq) = 1 .. Len(seq) - 1
      /\ \A i \in 1 .. Len(seq) - 1 : Tail(seq)[i] = seq[i + 1]
  OBVIOUS
<1>2. Entries(seq) \subseteq {Head(seq)} \cup Entries(Tail(seq))
  <2> SUFFICES ASSUME NEW i \in 1 .. Len(seq)
               PROVE  seq[i] \in {Head(seq)} \cup Entries(Tail(seq))
    BY <1>1 DEF Entries
  <2>1. CASE i = 1
    BY <1>1, <2>1
  <2>2. CASE i # 1
    <3>1. i - 1 \in 1 .. Len(seq) - 1 /\ (i - 1) + 1 = i
      BY <1>1, <2>2
    <3>2. Tail(seq)[i - 1] = seq[i] /\ i - 1 \in DOMAIN Tail(seq)
      BY <1>1, <3>1
    <3> QED
      BY <3>2 DEF Entries
  <2> QED
    BY <2>1, <2>2
<1>3. {Head(seq)} \cup Entries(Tail(seq)) \subseteq Entries(seq)
  <2>1. 1 \in 1 .. Len(seq) /\ \A i \in 1 .. Len(seq) - 1 : i + 1 \in 1 .. Len(seq)
    BY <1>1
  <2> QED
    BY <1>1, <2>1 DEF Entries
<1> QED
  BY <1>1, <1>2, <1>3

(* latest_hash names an entry of the log, or genesis.                      *)
LEMMA LatestIsInTheLog ==
  ASSUME AuditTypeOK, NEW p \in Processes
  PROVE  latest_hash(p) \in {Genesis} \cup Names(Entries(log[p])) /\ latest_hash(p) \in Hash
<1>1. log[p] \in Seq(Entry)
  BY DEF AuditTypeOK
<1>2. CASE log[p] = <<>>
  BY <1>2 DEF latest_hash, Hash
<1>3. CASE log[p] # <<>>
  <2>1. Len(log[p]) \in DOMAIN log[p] /\ log[p][Len(log[p])] \in Entry
    BY <1>1, <1>3
  <2> QED
    BY <1>3, <2>1 DEF latest_hash, Names, Entries, Entry, Hash
<1> QED
  BY <1>2, <1>3

(* Two rooted sets make a rooted set.                                      *)
LEMMA RootedUnion ==
  ASSUME NEW A, NEW B, Rooted(A), Rooted(B)
  PROVE  Rooted(A \cup B)
BY DEF Rooted, Names

---------------------------------------------------------------------------
(* A step that adds no entry and commits none.                             *)
LEMMA QuietStep ==
  ASSUME AuditInv, AuditTypeOK', NEW p \in Processes,
         made' = made, table' = table, Held(p)' \subseteq Held(p), Local(p)',
         \A q \in Processes \ {p} :
           /\ log'[q] = log[q] /\ drained'[q] = drained[q] /\ written'[q] = written[q]
           /\ base'[q] = base[q] /\ pc'[q] = pc[q]
  PROVE  AuditInv'
<1>1. ASSUME NEW q \in Processes \ {p} PROVE Local(q)' /\ Held(q)' = Held(q)
  BY DEF AuditInv, Local, Held
<1>2. \A q \in Processes : Names(Held(q)') \subseteq Names(Held(q))
  BY <1>1 DEF Names
<1>3. Apart'
  BY <1>2, ZenonT(60) DEF AuditInv, Apart, Names
<1> QED
  BY <1>1, <1>3 DEF AuditInv

(* Another decision is appended.                                           *)
LEMMA AppendStep ==
  ASSUME AuditInv, NEW p \in Processes, NEW s \in Specialists, AppendEntry(p, s)
  PROVE  AuditInv'
<1> DEFINE e == [id |-> made + 1, prev |-> base[p][s]]
<1>1. /\ log[p] \in Seq(Entry) /\ made \in Nat /\ made + 1 \in Ids
      /\ base[p][s] \in Hash
    BY AuditAssumption DEF AuditInv, AuditTypeOK, AppendEntry, Ids
<1>2. e \in Entry /\ e.id = made + 1 /\ e.prev = base[p][s]
  BY <1>1 DEF Entry
<1>3. /\ log' = [log EXCEPT ![p] = Append(@, e)] /\ made' = made + 1
      /\ base' = [base EXCEPT ![p][s] = Nothing]
      /\ UNCHANGED <<pc, drained, written, table>> /\ base[p][s] # Nothing
  BY DEF AppendEntry
<1> HIDE DEF e
<1>4. /\ log'[p] = Append(log[p], e) /\ log'[p] \in Seq(Entry)
      /\ Entries(log'[p]) = Entries(log[p]) \cup {e}
  BY <1>1, <1>2, <1>3, EntriesOfAppend DEF AuditInv, AuditTypeOK
<1>5. ASSUME NEW q \in Processes \ {p} PROVE log'[q] = log[q] /\ base'[q] = base[q]
  BY <1>3 DEF AuditInv, AuditTypeOK
<1>6. pc[p] = "graph" /\ base[p][s] \in {Genesis} \cup Names(Entries(log[p]))
  BY <1>3 DEF AuditInv, Local
<1>7. AuditTypeOK'
  <2>1. log' \in [Processes -> Seq(Entry)]
    BY <1>3, <1>4, <1>5 DEF AuditInv, AuditTypeOK
  <2>2. base' \in [Processes -> [Specialists -> Hash \cup {Nothing}]]
    BY <1>3 DEF AuditInv, AuditTypeOK
  <2>3. made' \in 0 .. MaxEntries
    BY <1>1, <1>3, AuditAssumption DEF Ids
  <2> QED
    BY <1>3, <2>1, <2>2, <2>3 DEF AuditInv, AuditTypeOK
<1>8. 1 .. made \subseteq 1 .. made + 1 /\ made + 1 \in 1 .. made + 1 /\ made + 1 \notin 1 .. made
  BY <1>1
<1>9. Names(Entries(log'[p])) = Names(Entries(log[p])) \cup {made + 1}
  BY <1>2, <1>4 DEF Names
<1>10. Held(p)' = Held(p) \cup {e} /\ Names(Held(p)') = Names(Held(p)) \cup {made + 1}
  BY <1>2, <1>3, <1>4 DEF Held, Names
<1>11. Local(p)'
  <2>1. Rooted(Entries(log'[p]))
    BY <1>2, <1>4, <1>6, <1>9, ZenonT(60) DEF AuditInv, Local, Rooted
  <2>2. ASSUME NEW r \in Specialists, base'[p][r] # Nothing
        PROVE  base'[p][r] = base[p][r]
    BY <1>3, <2>2 DEF AuditInv, AuditTypeOK
  <2>3. \A r \in Specialists :
          base'[p][r] # Nothing =>
            pc'[p] = "graph" /\ base'[p][r] \in {Genesis} \cup Names(Entries(log'[p]))
    BY <1>3, <1>9, <2>2, ZenonT(60) DEF AuditInv, Local
  <2>4. Names(Held(p)') \subseteq 1 .. made'
    BY <1>3, <1>8, <1>10 DEF AuditInv, Local
  <2>5. Rooted(Entries(drained'[p]) \cup written'[p])
    BY <1>3 DEF AuditInv, Local
  <2>6. pc'[p] # "persist"
    BY <1>3, <1>6
  <2> QED
    BY <2>1, <2>3, <2>4, <2>5, <2>6 DEF Local
<1>12. ASSUME NEW q \in Processes \ {p} PROVE Local(q)' /\ Held(q)' = Held(q)
  <2>1. Held(q)' = Held(q)
    BY <1>3, <1>5 DEF Held
  <2>2. Names(Held(q)) \subseteq 1 .. made'
    BY <1>3, <1>8 DEF AuditInv, Local
  <2> QED
    BY <1>3, <1>5, <2>1, <2>2 DEF AuditInv, Local
<1>13. made + 1 \notin Names(table) /\ \A q \in Processes : made + 1 \notin Names(Held(q))
  BY <1>8 DEF AuditInv, Local
<1>14. Apart'
  <2>1. \A q \in Processes \ {p} : Names(Held(q)') = Names(Held(q))
    BY <1>12
  <2>2. Names(table') = Names(table)
    BY <1>3
  <2>3. ASSUME NEW q \in Processes PROVE Names(Held(q)') \cap Names(table') = {}
    <3>1. CASE q = p
      BY <1>10, <1>13, <2>2, <3>1 DEF AuditInv, Apart
    <3>2. CASE q # p
      BY <2>1, <2>2, <3>2 DEF AuditInv, Apart
    <3> QED
      BY <3>1, <3>2
  <2>4. ASSUME NEW q \in Processes, NEW r \in Processes, q # r
        PROVE  Names(Held(q)') \cap Names(Held(r)') = {}
    <3>0. Names(Held(q)) \cap Names(Held(r)) = {}
      BY <2>4 DEF AuditInv, Apart
    <3>1. CASE q = p
      BY <1>10, <1>13, <2>1, <2>4, <3>0, <3>1
    <3>2. CASE r = p
      BY <1>10, <1>13, <2>1, <2>4, <3>0, <3>2
    <3>3. CASE q # p /\ r # p
      BY <2>1, <3>0, <3>3
    <3> QED
      BY <3>1, <3>2, <3>3
  <2> QED
    BY <2>3, <2>4 DEF Apart
<1>15. Rooted(table') /\ Names(table') \subseteq 1 .. made'
  BY <1>3, <1>8 DEF AuditInv
<1> QED
  BY <1>7, <1>11, <1>12, <1>14, <1>15 DEF AuditInv

(* The transaction's entries become rows.                                  *)
LEMMA CommitStep ==
  ASSUME AuditInv, NEW p \in Processes, CommitAudit(p)
  PROVE  AuditInv'
<1>1. /\ pc[p] = "persist" /\ drained[p] = <<>> /\ log[p] = <<>>
      /\ table' = table \cup written[p] /\ written' = [written EXCEPT ![p] = {}]
      /\ pc' = [pc EXCEPT ![p] = "idle"]
      /\ made' = made /\ base' = base /\ log' = log /\ drained' = drained
  BY DEF CommitAudit, AuditInv, Local
<1>2. AuditTypeOK'
  BY <1>1 DEF AuditInv, AuditTypeOK
<1>3. /\ Held(p) = written[p] /\ written'[p] = {} /\ pc'[p] = "idle" /\ Held(p)' = {}
  BY <1>1, EntriesOfEmpty DEF AuditInv, AuditTypeOK, Held
<1>4. Rooted(written[p])
  BY <1>1, EntriesOfEmpty DEF AuditInv, Local
<1>5. Rooted(table')
  BY <1>1, <1>4, RootedUnion DEF AuditInv
<1>6. Names(table') = Names(table) \cup Names(Held(p))
  BY <1>1, <1>3 DEF Names
<1>7. Names(table') \subseteq 1 .. made'
  BY <1>1, <1>6 DEF AuditInv, Local
<1>8. ASSUME NEW q \in Processes \ {p} PROVE Local(q)' /\ Held(q)' = Held(q)
  <2>1. written'[q] = written[q] /\ pc'[q] = pc[q]
    BY <1>1 DEF AuditInv, AuditTypeOK
  <2> QED
    BY <1>1, <2>1 DEF AuditInv, Local, Held
<1>9. Local(p)'
  <2>1. Names(Held(p)') = {}
    BY <1>3 DEF Names
  <2>2. Rooted(Entries(log'[p])) /\ Rooted(Entries(drained'[p]) \cup written'[p])
    BY <1>1, <1>3, EntriesOfEmpty DEF Rooted
  <2>3. \A s \in Specialists : base'[p][s] = Nothing
    BY <1>1 DEF AuditInv, Local
  <2>4. pc'[p] # "persist"
    BY <1>3
  <2> QED
    BY <2>1, <2>2, <2>3, <2>4 DEF Local
<1>10. Apart'
  <2>1. Names(Held(p)') = {} /\ \A q \in Processes \ {p} : Names(Held(q)') = Names(Held(q))
    BY <1>3, <1>8 DEF Names
  <2> QED
    BY <1>6, <2>1, ZenonT(60) DEF AuditInv, Apart
<1> QED
  BY <1>2, <1>5, <1>7, <1>8, <1>9, <1>10 DEF AuditInv

---------------------------------------------------------------------------
(* AuditInv holds in the initial states.                                   *)
LEMMA InitAudit == Init => AuditInv
<1> SUFFICES ASSUME Init PROVE AuditInv
  OBVIOUS
<1>1. AuditTypeOK
  BY AuditAssumption DEF Init, AuditTypeOK
<1>2. ASSUME NEW p \in Processes PROVE Held(p) = {} /\ Names(Held(p)) = {}
  BY EntriesOfEmpty DEF Init, Held, Names
<1>3. ASSUME NEW p \in Processes PROVE Local(p)
  BY <1>2, EntriesOfEmpty DEF Init, Local, Rooted
<1>4. Names(table) = {} /\ Rooted(table)
  BY DEF Init, Names, Rooted
<1> QED
  BY <1>1, <1>2, <1>3, <1>4 DEF AuditInv, Apart

(* Every step preserves AuditInv.                                          *)
LEMMA StepAudit == AuditInv /\ [Next]_vars => AuditInv'
<1> SUFFICES ASSUME AuditInv, [Next]_vars PROVE AuditInv'
  OBVIOUS
<1> USE DEF AuditInv
<1>1. ASSUME NEW p \in Processes, StartGraph(p) PROVE AuditInv'
  <2>1. /\ pc' = [pc EXCEPT ![p] = "graph"] /\ pc[p] = "idle"
        /\ UNCHANGED <<made, base, log, drained, written, table>>
    BY <1>1 DEF StartGraph
  <2>2. AuditTypeOK'
    BY <2>1 DEF AuditTypeOK
  <2>3. pc'[p] = "graph" /\ \A q \in Processes \ {p} : pc'[q] = pc[q]
    BY <2>1 DEF AuditTypeOK
  <2>4. Local(p)' /\ Held(p)' \subseteq Held(p)
    BY <2>1, <2>3 DEF Local, Held
  <2> QED
    BY <2>1, <2>2, <2>3, <2>4, QuietStep
<1>2. ASSUME NEW p \in Processes, NEW s \in Specialists, ReadHash(p, s) PROVE AuditInv'
  <2>1. /\ base' = [base EXCEPT ![p][s] = latest_hash(p)] /\ pc[p] = "graph"
        /\ UNCHANGED <<made, pc, log, drained, written, table>>
    BY <1>2 DEF ReadHash
  <2>2. latest_hash(p) \in {Genesis} \cup Names(Entries(log[p])) /\ latest_hash(p) \in Hash
    BY LatestIsInTheLog
  <2>3. AuditTypeOK'
    BY <2>1, <2>2 DEF AuditTypeOK
  <2>4. /\ \A r \in Specialists : base'[p][r] \in {latest_hash(p), base[p][r]}
        /\ \A q \in Processes \ {p} : base'[q] = base[q]
    BY <2>1 DEF AuditTypeOK
  <2>5. \A r \in Specialists :
          base'[p][r] # Nothing =>
            pc'[p] = "graph" /\ base'[p][r] \in {Genesis} \cup Names(Entries(log'[p]))
    BY <2>1, <2>2, <2>4 DEF Local
  <2>6. Local(p)' /\ Held(p)' \subseteq Held(p)
    BY <2>1, <2>5 DEF Local, Held
  <2> QED
    BY <2>1, <2>3, <2>4, <2>6, QuietStep
<1>3. ASSUME NEW p \in Processes, NEW s \in Specialists, AppendEntry(p, s) PROVE AuditInv'
  BY <1>3, AppendStep
<1>4. ASSUME NEW p \in Processes, DrainLog(p) PROVE AuditInv'
  <2>1. /\ pc[p] = "graph" /\ Quiet(p) /\ pc' = [pc EXCEPT ![p] = "persist"]
        /\ drained' = [drained EXCEPT ![p] = log[p]]
        /\ log' = [log EXCEPT ![p] = <<>>]
        /\ UNCHANGED <<made, base, written, table>>
    BY <1>4 DEF DrainLog
  <2>2. /\ pc'[p] = "persist" /\ drained'[p] = log[p] /\ log'[p] = <<>>
        /\ drained[p] = <<>> /\ written[p] = {}
        /\ \A q \in Processes \ {p} :
             pc'[q] = pc[q] /\ drained'[q] = drained[q] /\ log'[q] = log[q]
    BY <2>1 DEF AuditTypeOK
  <2>3. AuditTypeOK'
    BY <2>1, <2>2 DEF AuditTypeOK
  <2>4. Held(p)' = Held(p)
    BY <2>1, <2>2, EntriesOfEmpty DEF Held
  <2>5. Rooted(Entries(log'[p])) /\ Rooted(Entries(drained'[p]) \cup written'[p])
    <3>1. Rooted({}) /\ Entries(drained'[p]) \cup written'[p] = Entries(log[p])
      BY <2>1, <2>2 DEF Rooted
    <3> QED
      BY <2>2, <3>1, EntriesOfEmpty DEF Local
  <2>6. Local(p)'
    BY <2>1, <2>2, <2>4, <2>5 DEF Local, Quiet
  <2> QED
    BY <2>1, <2>2, <2>3, <2>4, <2>6, QuietStep
<1>5. ASSUME NEW p \in Processes, PersistEntry(p) PROVE AuditInv'
  <2>1. /\ pc[p] = "persist" /\ drained[p] # <<>> /\ drained[p] \in Seq(Entry)
        /\ written' = [written EXCEPT ![p] = @ \cup {Head(drained[p])}]
        /\ drained' = [drained EXCEPT ![p] = Tail(@)]
        /\ UNCHANGED <<made, pc, base, log, table>>
    BY <1>5 DEF PersistEntry, AuditTypeOK
  <2>2. /\ Head(drained[p]) \in Entry /\ Tail(drained[p]) \in Seq(Entry)
        /\ Entries(drained[p]) = {Head(drained[p])} \cup Entries(Tail(drained[p]))
    BY <2>1, EntriesOfTail
  <2>3. /\ written'[p] = written[p] \cup {Head(drained[p])} /\ drained'[p] = Tail(drained[p])
        /\ \A q \in Processes \ {p} : written'[q] = written[q] /\ drained'[q] = drained[q]
    BY <2>1 DEF AuditTypeOK
  <2>4. AuditTypeOK'
    BY <2>1, <2>2, <2>3 DEF AuditTypeOK
  <2>5. Entries(drained'[p]) \cup written'[p] = Entries(drained[p]) \cup written[p]
    BY <2>2, <2>3
  <2>6. Held(p)' = Held(p)
    BY <2>1, <2>5 DEF Held
  <2>7. Local(p)'
    BY <2>1, <2>5, <2>6 DEF Local
  <2> QED
    BY <2>1, <2>3, <2>4, <2>6, <2>7, QuietStep
<1>6. ASSUME NEW p \in Processes, CommitAudit(p) PROVE AuditInv'
  BY <1>6, CommitStep
<1>7. ASSUME NEW p \in Processes, RollbackAudit(p) PROVE AuditInv'
  <2>1. /\ Quiet(p) /\ written' = [written EXCEPT ![p] = {}]
        /\ drained' = [drained EXCEPT ![p] = <<>>] /\ pc' = [pc EXCEPT ![p] = "idle"]
        /\ UNCHANGED <<made, base, log, table>>
    BY <1>7 DEF RollbackAudit
  <2>2. /\ written'[p] = {} /\ drained'[p] = <<>> /\ pc'[p] = "idle"
        /\ \A q \in Processes \ {p} :
             written'[q] = written[q] /\ drained'[q] = drained[q] /\ pc'[q] = pc[q]
    BY <2>1 DEF AuditTypeOK
  <2>3. AuditTypeOK'
    BY <2>1, <2>2 DEF AuditTypeOK
  <2>4. Held(p)' \subseteq Held(p) /\ Names(Held(p)') \subseteq Names(Held(p))
    BY <2>1, <2>2, EntriesOfEmpty DEF Held, Names
  <2>5. Rooted(Entries(drained'[p]) \cup written'[p])
    BY <2>2, EntriesOfEmpty DEF Rooted
  <2>6. Local(p)'
    BY <2>1, <2>2, <2>4, <2>5 DEF Local, Quiet
  <2> QED
    BY <2>1, <2>2, <2>3, <2>4, <2>6, QuietStep
<1>8. ASSUME NEW p \in Processes, CrashProcess(p) PROVE AuditInv'
  <2>1. /\ pc' = [pc EXCEPT ![p] = "idle"]
        /\ base' = [base EXCEPT ![p] = [s \in Specialists |-> Nothing]]
        /\ log' = [log EXCEPT ![p] = <<>>] /\ drained' = [drained EXCEPT ![p] = <<>>]
        /\ written' = [written EXCEPT ![p] = {}] /\ UNCHANGED <<made, table>>
    BY <1>8 DEF CrashProcess
  <2>2. /\ pc'[p] = "idle" /\ log'[p] = <<>> /\ drained'[p] = <<>> /\ written'[p] = {}
        /\ \A s \in Specialists : base'[p][s] = Nothing
        /\ \A q \in Processes \ {p} :
             /\ log'[q] = log[q] /\ drained'[q] = drained[q] /\ written'[q] = written[q]
             /\ base'[q] = base[q] /\ pc'[q] = pc[q]
    BY <2>1 DEF AuditTypeOK
  <2>3. AuditTypeOK'
    BY <2>1, <2>2 DEF AuditTypeOK
  <2>4. Held(p)' = {} /\ Names(Held(p)') = {}
    BY <2>2, EntriesOfEmpty DEF Held, Names
  <2>5. Rooted(Entries(log'[p])) /\ Rooted(Entries(drained'[p]) \cup written'[p])
    BY <2>2, EntriesOfEmpty DEF Rooted
  <2>6. Local(p)'
    BY <2>2, <2>4, <2>5 DEF Local
  <2> QED
    BY <2>1, <2>2, <2>3, <2>4, <2>6, QuietStep
<1>9. CASE UNCHANGED vars
  BY <1>9 DEF vars, AuditTypeOK, Local, Held, Apart
<1> QED
  BY <1>1, <1>2, <1>3, <1>4, <1>5, <1>6, <1>7, <1>8, <1>9 DEF Next, ProcessStep

(* AuditInv holds throughout every behaviour of the log.                   *)
LEMMA AuditInvariant == Spec => []AuditInv
BY InitAudit, StepAudit, PTL DEF Spec

---------------------------------------------------------------------------
(* AppendAudit and MemoryAuditRepository.drain keep logs of entries, and   *)
(* nothing is drained or inserted outside a handler.                       *)
THEOREM AuditTypeCorrect == Spec => []AuditTypeOK
BY AuditInvariant, PTL DEF AuditInv

(* Every prev_hash of a committed audit_log row is Genesis or the hash of  *)
(* a committed row, whatever raced, failed or crashed.                     *)
THEOREM PredecessorsAreStored == Spec => []PredecessorIsStored
<1>1. AuditInv => PredecessorIsStored
  BY DEF AuditInv, PredecessorIsStored, Rooted, Names
<1> QED
  BY <1>1, AuditInvariant, PTL

(* No committed entry is still in memory or in an open transaction, so     *)
(* persist never inserts it a second time.                                 *)
THEOREM EntriesAreStoredOnce == Spec => []StoredOnce
<1>1. AuditInv => StoredOnce
  <2> SUFFICES ASSUME AuditInv, NEW p \in Processes
               PROVE  {row.id : row \in table} \cap
                        ({entry.id : entry \in Entries(log[p]) \cup Entries(drained[p])}
                           \cup {row.id : row \in written[p]}) = {}
    BY DEF StoredOnce
  <2>1. Names(Held(p)) \cap Names(table) = {}
    BY DEF AuditInv, Apart
  <2> QED
    BY <2>1, ZenonT(60) DEF Names, Held
<1> QED
  BY <1>1, AuditInvariant, PTL

===========================================================================
