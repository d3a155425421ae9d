------------------------- MODULE MC_IncidentViews -------------------------
(* One incident, its worker, one reviewer at a time and one reader.        *)
EXTENDS IncidentViews

===========================================================================
