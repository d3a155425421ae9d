---------------------- MODULE OnceOnlyInvestigation ----------------------
(***************************************************************************)
(* What the investigation worker promises, with no queue, no transactions  *)
(* and no processes: the opened event of an incident takes effect at most  *)
(* once, and it either starts the incident's one investigation or, when    *)
(* the incident has already left open, does nothing.                       *)
(***************************************************************************)
EXTENDS Naturals

CONSTANT Incidents

VARIABLES
  handled,   \* incidents whose opened event has taken effect
  runs       \* how many investigations of each incident are on record

vars == <<handled, runs>>

Init == handled = {} /\ runs = [i \in Incidents |-> 0]

(* The event starts the investigation of an incident that was open.        *)
Investigate(i) ==
  /\ i \notin handled
  /\ handled' = handled \cup {i}
  /\ runs' = [runs EXCEPT ![i] = 1]

(* The event finds an incident that had already left open.                 *)
Skip(i) ==
  /\ i \notin handled
  /\ handled' = handled \cup {i}
  /\ UNCHANGED runs

Next == \E i \in Incidents : Investigate(i) \/ Skip(i)

Spec == Init /\ [][Next]_vars
===========================================================================
