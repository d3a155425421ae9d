--------------------- MODULE MC_InvestigationRunner ----------------------
(* Two incidents handled by one worker process.  The first is of any       *)
(* scenario; the second needs no collection of its own, so what its        *)
(* transaction stores of evidence was left by the first.                   *)
EXTENDS InvestigationRunner

CONSTANTS i1, i2

MCInit == Init /\ scenario[i2] = "dependency_failure"

MCSpec == MCInit /\ [][Next]_vars /\ WF_vars(AttemptStep)
===========================================================================
