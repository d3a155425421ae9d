-------------------- MODULE MC_InvestigationDelivery ---------------------
(* One incident, two workers, a poison message and one request session     *)
(* that can close the incident while its event is being consumed.          *)
EXTENDS InvestigationDelivery

CONSTANTS w1, w2

===========================================================================
