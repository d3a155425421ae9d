--------------------------- MODULE MC_Guardrails ---------------------------
(***************************************************************************)
(* What guards and records a tool call, in one instance: the gateway, its  *)
(* rate limiter and the audit log.  As modelled the three share no         *)
(* variable, so each is explored while the other two are in their first    *)
(* state.                                                                  *)
(***************************************************************************)
EXTENDS ToolGateway, RateLimiter, AuditChain

CONSTANTS i1, i2, p1, p2, s1, s2

Rule(tool, class, scope, allowed) ==
  [tool |-> tool, class |-> class, scope |-> scope, allowed |-> allowed]

(* The seed, a table that opens everything it can, and one that closes: a  *)
(* tool for all, one for an agent and one for a service.                   *)
Tables ==
  {seed,
   {Rule(WILDCARD, c, WILDCARD, TRUE) : c \in ActionClass \ {DESTRUCTIVE}},
   seed \cup {Rule("fetch_signals", READ, WILDCARD, FALSE),
              Rule("list_deploys", READ, "code", FALSE),
              Rule("search_code", READ, "payment", FALSE)}}

FanOut == {{"observability", "knowledge"}, {"code"}, {"rca"}}

(* The gateway in two situations.  Any agents, tools and tables while      *)
(* every dependency is healthy; or dependencies that fail, for the one     *)
(* agent with two tools of the same dependency under the seed rules.       *)
Healthy == health = <<Fresh.breaker, Fresh.late, Fresh.strikes, Fresh.quiet>>
CodeAlone == rules = seed /\ \A a \in Agents \ {"code"} : call[a] = NoCall
Situation == Healthy \/ CodeAlone

GatewayAtRest ==
  call = Fresh.call /\ rules = Fresh.rules /\ Healthy

GuardrailInit == GatewayInit /\ RateInit /\ Init

GuardrailNext ==
  \/ RateInit /\ Init /\ GatewayNext /\ Situation' /\ UNCHANGED <<rateVars, vars>>
  \/ GatewayAtRest /\ Init /\ RateNext /\ UNCHANGED <<gatewayVars, vars>>
  \/ GatewayAtRest /\ RateInit /\ Next /\ UNCHANGED <<gatewayVars, rateVars>>

GuardrailSpec ==
  GuardrailInit /\ [][GuardrailNext]_<<gatewayVars, rateVars, vars>> /\ GatewayFairness
===========================================================================
