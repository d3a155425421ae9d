-------------------------- MODULE MC_PolicyAdmin ---------------------------
EXTENDS PolicyAdmin, TLC

CONSTANTS a1, a2, r1, r2, r3, w1

Symmetry == Permutations({a1, a2}) \cup Permutations({r1, r2, r3})

(* Requests for a tool the registry knows, and for one it does not.        *)
AllRequests ==
  [tool : {"fetch", "other"}, class : {READ, "high-risk-write", NoClass},
   agent : {"agent"}, service : {"svc", NoService}]

Used == {i \in RuleIds : trail[i] # "none" \/ \E s \in Admins : ses[s].id = i}
Written == RulesOf(rules) \cup ({ses[s].entity : s \in Admins} \ {NoRow})
OneTarget == \A r \in Written : r.tool = "fetch" /\ r.scope = WILDCARD
Offline == \A w \in Workers : worker[w].pc = "down"

(* Two admins race for two rules of one tool and scope; or for one rule,   *)
(* beside a worker; or one admin builds any table of three rules.          *)
Race   == OneTarget /\ Offline /\ Cardinality(Used) <= 2
Beside == OneTarget /\ Cardinality(Used) <= 1
Builds ==
  /\ Offline
  /\ \E s \in Admins : \A o \in Admins \ {s} : ses[o].pc = "idle"
  /\ \A r \in Written : r.class = READ /\ r.version = 1

MCSpec == Init /\ [][Next /\ (Race \/ Beside \/ Builds)']_vars
===========================================================================
