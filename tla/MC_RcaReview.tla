-------------------------- MODULE MC_RcaReview ---------------------------
(***************************************************************************)
(* One incident, its worker and two interchangeable request sessions.  A   *)
(* PATCH writes the incident's row, as the first accept does; a pause      *)
(* writes the progress row and an amendment the reports': a PATCH is       *)
(* explored beside neither of them.                                        *)
(***************************************************************************)
EXTENDS RcaReview, TLC

CONSTANTS s1, s2

Symmetry == Permutations({s1, s2})

Amending ==
  \/ \E s \in ApiSessions : rv[s].op = "amend"
  \/ \E i \in Incidents : Len(reports[i]) > 1
Controlling == \E s \in ApiSessions : rv[s].op \in Controls
Patching ==
  \/ \E s \in ApiSessions : rv[s].pc = "idle" /\ tx[s].pc # "idle"
  \/ \E i \in Incidents : Exists(i) /\ rows[i].state = CLOSED

MCSpec == Init /\ [][Next /\ (Patching => ~Controlling /\ ~Amending)']_vars
===========================================================================
