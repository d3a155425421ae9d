-------------------------- MODULE CommanderPlan --------------------------
(***************************************************************************)
(* The commander policy of application/investigation/plan.py: a function   *)
(* from what the thread knows to the next graph node.  The evidence of a   *)
(* thread is the set of collectors that contributed to it (each brings at  *)
(* least one item, so ENOUGH_EVIDENCE = 1 item is a nonempty set), and its *)
(* clock is whether MAX_DURATION has passed since started_at.              *)
(***************************************************************************)
EXTENDS Naturals

OBSERVABILITY == "observability"
KNOWLEDGE     == "knowledge"
CODE          == "code"
FANOUT        == "fanout"
SYNTHESIZE    == "synthesize"
ESCALATE      == "escalate"

Collectors == {OBSERVABILITY, KNOWLEDGE, CODE}
NextAction == Collectors \cup {FANOUT, SYNTHESIZE, ESCALATE}

MAX_HOPS == 4

EscalateReason == {"max_hops", "max_duration", "agent_failure", "dependency_failure",
                   "low_confidence", "rca_rejected"}

OBS_FIRST   == {"latency_spike", "memory_leak", "queue_backlog"}
DB_REQUIRED == {OBSERVABILITY, KNOWLEDGE}

(* A decision; an empty reason stands for None.                            *)
PlanDecision(next, reason) == [next |-> next, reason |-> reason]

enough_evidence(scenario, evidence) ==
  IF scenario = "db_exhaustion" THEN DB_REQUIRED \subseteq evidence ELSE evidence # {}

first_specialist(scenario) ==
  CASE scenario = "dependency_failure" -> ESCALATE
    [] scenario = "db_exhaustion"      -> FANOUT
    [] scenario = "bad_deployment"     -> CODE
    [] scenario \in OBS_FIRST          -> OBSERVABILITY
    [] OTHER                           -> KNOWLEDGE

(* Only the missing half of a fan-out is sent again.                       *)
fanout_or_remaining(evidence) ==
  LET missing == DB_REQUIRED \ evidence
  IN  CASE missing = {}              -> SYNTHESIZE
        [] missing = {KNOWLEDGE}     -> KNOWLEDGE
        [] missing = {OBSERVABILITY} -> OBSERVABILITY
        [] OTHER                     -> FANOUT

(* Mutant: failed steps are not looked at.                                 *)
failure_blocks_Never(specialist, failed, evidence) == FALSE

failure_blocks(specialist, failed, evidence) ==
  IF specialist = FANOUT THEN (DB_REQUIRED \ evidence) \cap failed # {}
                         ELSE specialist \in failed

(* The first match wins.                                                   *)
next_action(scenario, hops, evidence, late, failed) ==
  LET specialist == first_specialist(scenario)
  IN  IF hops > MAX_HOPS                           THEN PlanDecision(ESCALATE, "max_hops")
      ELSE IF late                                 THEN PlanDecision(ESCALATE, "max_duration")
      ELSE IF enough_evidence(scenario, evidence)  THEN PlanDecision(SYNTHESIZE, "")
      ELSE IF failure_blocks(specialist, failed, evidence)
                                                   THEN PlanDecision(ESCALATE, "agent_failure")
      ELSE IF specialist = ESCALATE                THEN PlanDecision(ESCALATE, "dependency_failure")
      ELSE IF specialist = FANOUT                  THEN PlanDecision(fanout_or_remaining(evidence), "")
      ELSE IF specialist \in evidence              THEN PlanDecision(SYNTHESIZE, "")
      ELSE PlanDecision(specialist, "")

===========================================================================
