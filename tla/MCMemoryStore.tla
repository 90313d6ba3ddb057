---------------------------- MODULE MCMemoryStore ----------------------------
(***************************************************************************)
(* Values for TLC.  Three requests, so that one can archive or insert what *)
(* the two others are contending for; two contents, so that two chat runs  *)
(* can lock them in opposite orders.                                       *)
(***************************************************************************)
EXTENDS MemoryStore

CONSTANTS r1, r2, r3, ann, bob, x, y

MCRequests == {r1, r2, r3}
MCPair     == {r1, r2}
MCUsers    == {ann, bob}
MCOneUser  == {ann}
MCContents == {x, y}
=============================================================================
