----------------------------- MODULE MCLifecycle -----------------------------
(***************************************************************************)
(* Values for TLC: two passes and one request over four memories.  The     *)
(* bounds of the SELECTs are three, so that the fourth is compared with    *)
(* none, and one utility in four is not read.  The near duplicates form a  *)
(* chain that reaches beyond the bound, or a triangle within it.           *)
(***************************************************************************)
EXTENDS Lifecycle

CONSTANTS p1, p2

MCPasses == {p1, p2}
MCClusters == {{{1, 2}, {1, 3}, {2, 4}}, {{1, 2}, {1, 3}, {2, 3}}}
Symmetric == Permutations(MCPasses)
=============================================================================
