--------------------------- MODULE MCOrchestrator ---------------------------
(***************************************************************************)
(* Values for TLC.  A planner may ask for a senseless number of attempts,  *)
(* which the driver raises to one, or for more than the depth allows,      *)
(* which it cuts.                                                          *)
(***************************************************************************)
EXTENDS Orchestrator

MCAsked == {-1, 3}
MCFree  == {0}
MCCosts == {0, 1}
=============================================================================
