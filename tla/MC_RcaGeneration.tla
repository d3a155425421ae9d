-------------------------- MODULE MC_RcaGeneration --------------------------
(***************************************************************************)
(* Two incidents, one with a fan-out; packs of three items stand for the   *)
(* code's eight.                                                           *)
(***************************************************************************)
EXTENDS RcaGeneration

MCIncidents == {"db", "deploy"}
MCScenario == [i \in MCIncidents |-> IF i = "db" THEN "db_exhaustion" ELSE "bad_deployment"]

(* The last deploy is found by both code tools.                            *)
MCResults == [k \in Collectors |->
  CASE k = OBSERVABILITY -> {<<1, 2>>, <<1, 2, 3, 4>>}
    [] k = KNOWLEDGE     -> {<<1>>}
    [] k = CODE          -> {<<1, 1, 2>>}]
===========================================================================
