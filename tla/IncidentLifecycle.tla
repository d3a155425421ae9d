------------------------ MODULE IncidentLifecycle ------------------------
(***************************************************************************)
(* The incident aggregate of domain/incidents: its states, the transition  *)
(* table and the two domain operations that move an incident.  There is no *)
(* state here; the modules that store and process incidents use these      *)
(* operators.                                                              *)
(***************************************************************************)

OPEN          == "open"
INVESTIGATING == "investigating"
IDENTIFIED    == "identified"
REMEDIATING   == "remediating"
RESOLVED      == "resolved"
CLOSED        == "closed"

IncidentState ==
  {OPEN, INVESTIGATING, IDENTIFIED, REMEDIATING, RESOLVED, CLOSED}

(* The table as a relation: the pair <<current, target>> is in it exactly  *)
(* when target is in the code's ALLOWED_TRANSITIONS[current].              *)
ALLOWED_TRANSITIONS ==
  { <<OPEN, INVESTIGATING>>,       <<OPEN, CLOSED>>,
    <<INVESTIGATING, IDENTIFIED>>, <<INVESTIGATING, CLOSED>>,
    <<IDENTIFIED, REMEDIATING>>,   <<IDENTIFIED, CLOSED>>,
    <<REMEDIATING, RESOLVED>>,     <<REMEDIATING, CLOSED>>,
    <<RESOLVED, CLOSED>> }

can_transition(current, target) == <<current, target>> \in ALLOWED_TRANSITIONS

===========================================================================
