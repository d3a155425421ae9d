------------------------ MODULE MC_IncidentStore -------------------------
(* Two concurrent request sessions, reused for any number of requests, on  *)
(* two incidents that share a fingerprint or are created by hand.          *)
EXTENDS IncidentStore, TLC

CONSTANTS s1, s2

Symmetry == Permutations({s1, s2})
===========================================================================
