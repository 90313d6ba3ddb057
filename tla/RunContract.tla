----------------------------- MODULE RunContract -----------------------------
(***************************************************************************)
(* What one run of the orchestrator promises to its surroundings: the      *)
(* client that reads its events, the episode row and the circuit breaker.  *)
(* How the work is done is not said here, only what the others can see of  *)
(* it.  Orchestrator implements this specification; BreakerFleet composes  *)
(* several such runs with the breaker they share.                          *)
(*                                                                         *)
(* - A verdict is reached once and never revised.                          *)
(* - The breaker hears of a run at most once, after the verdict, and only  *)
(*   of a run that got as far as driving subtasks.                         *)
(* - An episode, once opened, stays pending or takes the outcome of the    *)
(*   verdict; a refused run opens none.                                    *)
(* - A run may be lost at any moment before it closes: it announces no     *)
(*   verdict, casts no vote and leaves its episode as it is.               *)
(***************************************************************************)

VARIABLES
    stage,      \* how far the run is, as its surroundings see it
    verdict,    \* the final RunStatus, "none" before there is one
    episode,    \* outcome of the episode row, "none" without one
    vote        \* what the breaker heard

vars == <<stage, verdict, episode, vote>>

Stages   == {"admission", "planning", "working", "reporting", "closed", "lost"}
Verdicts == {"none", "success", "partial", "failed", "aborted"}

EpisodeOutcome(v) == CASE v = "success" -> "success"
                       [] v = "partial" -> "partial"
                       [] OTHER         -> "failure"
VoteFor(v) == IF v \in {"success", "partial"} THEN "success" ELSE "failure"

TypeOK ==
    /\ stage \in Stages
    /\ verdict \in Verdicts
    /\ episode \in {"none", "pending", "success", "partial", "failure"}
    /\ vote \in {"none", "success", "failure"}

-----------------------------------------------------------------------------
Init ==
    /\ stage = "admission" /\ verdict = "none"
    /\ episode = "none" /\ vote = "none"

Refuse ==
    /\ stage = "admission"
    /\ stage' = "closed" /\ verdict' = "aborted"
    /\ UNCHANGED <<episode, vote>>

Begin ==
    /\ stage = "admission"
    /\ stage' = "planning"
    /\ UNCHANGED <<verdict, episode, vote>>

OpenEpisode ==
    /\ stage = "planning" /\ episode = "none"
    /\ episode' = "pending"
    /\ UNCHANGED <<stage, verdict, vote>>

PlanFails ==
    /\ stage = "planning"
    /\ stage' = "closed" /\ verdict' = "failed"
    /\ UNCHANGED <<episode, vote>>

Accept ==
    /\ stage = "planning"
    /\ stage' = "working"
    /\ UNCHANGED <<verdict, episode, vote>>

Conclude ==
    /\ stage = "working"
    /\ stage' = "reporting"
    /\ verdict' \in {"success", "partial", "failed"}
    /\ UNCHANGED <<episode, vote>>

CloseEpisode ==
    /\ stage = "reporting" /\ episode = "pending"
    /\ episode' = EpisodeOutcome(verdict)
    /\ UNCHANGED <<stage, verdict, vote>>

Report ==
    /\ stage = "reporting"
    /\ stage' = "closed" /\ vote' = VoteFor(verdict)
    /\ UNCHANGED <<verdict, episode>>

Lose ==
    /\ stage \notin {"closed", "lost"}
    /\ stage' = "lost" /\ verdict' = "none"
    /\ UNCHANGED <<episode, vote>>

Next ==
    \/ Refuse \/ Begin \/ OpenEpisode \/ PlanFails \/ Accept
    \/ Conclude \/ CloseEpisode \/ Report \/ Lose

Spec == Init /\ [][Next]_vars
=============================================================================
