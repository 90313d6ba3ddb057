--------------------------- MODULE MCBreakerFleet ---------------------------
(***************************************************************************)
(* Values for TLC.  Three slots with a threshold of two: one run can trip  *)
(* the breaker with another while a third is still in flight.              *)
(***************************************************************************)
EXTENDS BreakerFleet

MCRuns    == 1 .. 4
MCPair    == 1 .. 2
MCIntents == {"coding", "research"}
MCOne     == {"coding"}
=============================================================================
