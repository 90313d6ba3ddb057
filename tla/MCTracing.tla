------------------------------ MODULE MCTracing ------------------------------
(***************************************************************************)
(* Values for TLC: two runs and two spans, a queue of two events and       *)
(* batches of one, so that a flush leaves events behind, the queue         *)
(* overflows and a name goes into the common bucket.                       *)
(***************************************************************************)
EXTENDS Tracing

CONSTANTS run1, run2, coder

MCTraces == {run1, run2}
MCNames  == {coder}
=============================================================================
