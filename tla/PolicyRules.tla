---------------------------- MODULE PolicyRules ----------------------------
(***************************************************************************)
(* A tool policy rule and its deterministic evaluation: default deny, the  *)
(* most specific matching rule wins, and among equally specific ones a     *)
(* denial wins.  A request is [tool, class, agent, service]; its class is  *)
(* NoClass when the registry does not know the tool.                       *)
(***************************************************************************)
EXTENDS Integers

READ == "read"
DESTRUCTIVE == "destructive"
ActionClass == {READ, "low-risk-write", "high-risk-write", DESTRUCTIVE}
NoClass == "no class"
NoService == ""

WILDCARD == "*"

(* What PolicyRule's constructor accepts: never an allowed destructive.    *)
ValidRule(r) == ~(r.allowed /\ r.class = DESTRUCTIVE)

(* The three specialists' read tools and list_deploys, for every scope.    *)
SeedRules(readTools) ==
  {[tool |-> t, class |-> READ, scope |-> WILDCARD, allowed |-> TRUE] : t \in readTools}

---------------------------------------------------------------------------
Matches(r, q) ==
  /\ q.class # NoClass => r.class = q.class
  /\ r.tool \in {q.tool, WILDCARD}
  /\ \/ r.scope \in {q.agent, WILDCARD}
     \/ q.service # NoService /\ r.scope = q.service

ToolPoints(r, q) == IF r.tool = q.tool THEN 4 ELSE 1

ScopePoints(r, q) ==
  IF r.scope = q.agent THEN 3
  ELSE IF q.service # NoService /\ r.scope = q.service THEN 2
  ELSE 1

(* Mutant: the scope counts more than the tool.                            *)
Specificity_ScopeFirst(r, q) == ToolPoints(r, q) + ScopePoints(r, q) * 10

Specificity(r, q) == ToolPoints(r, q) * 10 + ScopePoints(r, q)

Matching(rules, q) == {r \in rules : Matches(r, q)}

(* The tied list: every rule of the best score.                            *)
Tied(rules, q) ==
  {r \in Matching(rules, q) :
     \A o \in Matching(rules, q) : Specificity(o, q) <= Specificity(r, q)}

(* Mutant: any of the tied rules decides.                                  *)
Winners_AnyTied(rules, q) == Tied(rules, q)

(* The rules that may decide.  The first denial does when there is one;    *)
(* otherwise the first row does, and the order of rows that differ in no   *)
(* more than their class is that of their random ids.                      *)
Winners(rules, q) ==
  LET denies == {r \in Tied(rules, q) : ~r.allowed}
  IN  IF denies # {} THEN denies ELSE Tied(rules, q)

Verdict(allowed, reason, class) == [allowed |-> allowed, reason |-> reason, class |-> class]

WinnerVerdict(r) ==
  IF r.class = DESTRUCTIVE THEN Verdict(FALSE, "destructive", r.class)
  ELSE IF r.allowed        THEN Verdict(TRUE, "policy", r.class)
  ELSE                          Verdict(FALSE, "policy", r.class)

(* The verdicts the row order can produce for a request: one, unless rules *)
(* of several classes tie for a tool the registry does not know.           *)
evaluate_policy(rules, q) ==
  IF q.class = DESTRUCTIVE THEN {Verdict(FALSE, "destructive", q.class)}
  ELSE IF Matching(rules, q) = {}
    THEN {Verdict(FALSE, IF q.class = NoClass THEN "unknown_tool" ELSE "default", q.class)}
  ELSE {WinnerVerdict(r) : r \in Winners(rules, q)}

MayAllow(rules, q) == \E v \in evaluate_policy(rules, q) : v.allowed

---------------------------------------------------------------------------
(* The reference: what "most specific wins, deny on a tie" means, without  *)
(* points.  An exact tool beats a wildcard; for equal tools the agent's    *)
(* scope beats the service's, which beats the wildcard.                    *)
ScopeBeats(r, o, q) ==
  \/ r.scope = q.agent /\ o.scope # q.agent
  \/ /\ q.service # NoService /\ r.scope = q.service
     /\ o.scope \notin {q.agent, q.service}

Beats(r, o, q) ==
  \/ r.tool = q.tool /\ o.tool # q.tool
  \/ (r.tool = q.tool <=> o.tool = q.tool) /\ ScopeBeats(r, o, q)

SomeAllowBeatsEveryDeny(rules, q) ==
  \E r \in Matching(rules, q) :
    /\ r.allowed
    /\ \A d \in Matching(rules, q) : ~d.allowed => Beats(r, d, q)
===========================================================================
