---------------------------- MODULE Orchestrator ----------------------------
(***************************************************************************)
(* One run of Orchestrator.run_stream: classify, admit, plan, drive the    *)
(* subtasks with reflection and retries, finalise, write memories, close   *)
(* the episode and report to the circuit breaker.                          *)
(*                                                                         *)
(* A run is a single coroutine.  It can be suspended only where it awaits  *)
(* an agent, a store or the client that reads its events, so an action     *)
(* here is the code between two such points, and pc names the await the    *)
(* run is about to make.  What an agent answers is nondeterministic: an    *)
(* LLM decides the size of the plan, whether a subtask passes and how many *)
(* subtasks a reflection proposes.                                         *)
(*                                                                         *)
(* The ids of the subtasks are numbers in order of creation where the code *)
(* draws uuid4 strings: all the driver does is compare them.               *)
(***************************************************************************)
EXTENDS Integers, Sequences, FiniteSets

CONSTANTS
    MaxRecursionDepth,       \* settings.safety_max_recursion_depth
    MaxConsecutiveFailures,  \* RunState.max_consecutive_failures
    TokenBudget,             \* settings.llm_max_tokens_per_task
    MaxPlan,                 \* bound: subtasks in a plan
    MaxProposed,             \* bound: subtasks one reflection proposes
    AskedAttempts,           \* bound: the max_attempts a planner may write
    TokenCosts               \* bound: tokens one specialist call may use

ASSUME SettingsAssumption ==
    /\ MaxRecursionDepth \in Nat
    /\ MaxConsecutiveFailures \in Nat \ {0}
    /\ TokenBudget \in Nat

ASSUME BoundsAssumption ==
    /\ MaxPlan \in Nat \ {0}
    /\ MaxProposed \in Nat
    /\ AskedAttempts \subseteq Int /\ AskedAttempts # {}
    /\ TokenCosts \subseteq Nat /\ TokenCosts # {}

VARIABLES
    pc,                    \* the await the run has reached
    status,                \* RunState.status
    planned,               \* len(state.plan.subtasks), 0 before the plan
    order,                 \* RunState.subtasks, as a list of ids
    state,                 \* SubtaskState.status of each id
    attempts,              \* SubtaskState.attempts of each id
    asked,                 \* Subtask.max_attempts of each id
    completed,             \* completed_ids
    current,               \* the subtask in hand, None between subtasks
    iterations,            \* RunState.iterations
    insertionsRemaining,   \* RunState.insertions_remaining
    streak,                \* RunState.consecutive_subtask_failures
    tokensUsed,            \* RunState.tokens_used
    withMemory,            \* memory is wired and the request names a user
    episode,               \* outcome of the episode row, "none" without one
    vote,                  \* what the run told the circuit breaker
    stream,                \* how the event stream of the client ended
    ran,                   \* history: the ids in the order they were driven
    metered                \* history: tokens the specialists really used

driverVars  == <<completed, current, iterations, streak, ran>>
subtaskVars == <<order, state, attempts, asked, insertionsRemaining>>
tokenVars   == <<tokensUsed, metered>>
outcomeVars == <<episode, vote, stream>>
vars == <<pc, status, planned, withMemory, driverVars, subtaskVars,
          tokenVars, outcomeVars>>

-----------------------------------------------------------------------------
None == 0
Closed == {"done", "crashed", "cancelled"}

RunStatus == {"pending", "planning", "running", "reflecting",
              "success", "partial", "failed", "aborted"}
SubtaskStatus == {"pending", "running", "passed", "failed"}

Larger(a, b)  == IF a >= b THEN a ELSE b
Smaller(a, b) == IF a <= b THEN a ELSE b

\* The caps the driver derives from the settings when it starts.
InsertionBudget == Larger(1, 2 * MaxRecursionDepth)
\* Mutant: a cap that forgets the insertions.
CapOnPlan       == Larger(1, planned + MaxRecursionDepth)
MaxIterations   == Larger(8, 2 * planned + 2 * MaxRecursionDepth)

DefaultAttempts == 2
AttemptLimit(id) == Larger(1, Smaller(asked[id], MaxRecursionDepth))

Ids == 1 .. Len(order)
\* Mutant: a subtask waits until it has passed.
NotPassed == {i \in Ids : state[order[i]] # "passed"}
\* The positions whose subtask is not yet completed.
Waiting == {i \in Ids : order[i] \notin completed}
First(S) == CHOOSE i \in S : \A j \in S : i <= j
PositionOf(id) == CHOOSE i \in Ids : order[i] = id
IdsIn(s) == {id \in Ids : state[id] = s}

\* Mutant: the new subtasks replace the one they should precede.
InsertInstead(i, new) ==
    SubSeq(order, 1, i - 1) \o new \o SubSeq(order, i + 1, Len(order))
\* list.insert: the list with new ids put in front of position i.
InsertBefore(i, new) ==
    SubSeq(order, 1, i - 1) \o new \o SubSeq(order, i, Len(order))

\* Mutant: a tie counts as a failure.
TieFails ==
    LET passed == Cardinality(IdsIn("passed"))
        failed == Cardinality(IdsIn("failed"))
    IN  IF failed = 0 /\ passed = Len(order) THEN "success"
        ELSE IF passed > failed THEN "partial" ELSE "failed"

\* Mutant: the status is left as the driver set it.
StatusAsIs == status

FinalStatus ==
    LET passed == Cardinality(IdsIn("passed"))
        failed == Cardinality(IdsIn("failed"))
    IN  IF failed = 0 /\ passed = Len(order) THEN "success"
        ELSE IF passed > 0 /\ passed >= failed THEN "partial"
        ELSE "failed"

OutcomeFor(s) == CASE s = "success" -> "success"
                   [] s = "partial" -> "partial"
                   [] OTHER         -> "failure"

-----------------------------------------------------------------------------
Init ==
    /\ pc = "classify" /\ status = "pending" /\ planned = 0
    /\ order = << >> /\ state = << >> /\ attempts = << >> /\ asked = << >>
    /\ completed = {} /\ current = None /\ iterations = 0 /\ streak = 0
    /\ insertionsRemaining = 0 /\ tokensUsed = 0 /\ metered = 0
    /\ withMemory \in BOOLEAN
    /\ episode = "none" /\ vote = "none" /\ stream = "open"
    /\ ran = << >>

\* The router answers; it falls back on its heuristic when the LLM fails.
Classify ==
    /\ pc = "classify"
    /\ pc' = "admit" /\ status' = "planning"
    /\ UNCHANGED <<planned, withMemory, driverVars, subtaskVars, tokenVars,
                   outcomeVars>>

\* The breaker is open for this intent: the run is refused.
Refuse ==
    /\ pc = "admit"
    /\ pc' = "done" /\ status' = "aborted" /\ stream' = "done"
    /\ UNCHANGED <<planned, withMemory, driverVars, subtaskVars, tokenVars,
                   episode, vote>>

Admit ==
    /\ pc = "admit"
    /\ pc' = IF withMemory THEN "open_episode" ELSE "plan"
    /\ UNCHANGED <<status, planned, withMemory, driverVars, subtaskVars,
                   tokenVars, outcomeVars>>

OpenEpisode ==
    /\ pc = "open_episode"
    /\ pc' = "plan" /\ episode' = "pending"
    /\ UNCHANGED <<status, planned, withMemory, driverVars, subtaskVars,
                   tokenVars, vote, stream>>

\* The planner raised, or its graph is missing or empty.
PlanFails ==
    /\ pc = "plan"
    /\ pc' = "done" /\ status' = "failed" /\ stream' = "done"
    /\ UNCHANGED <<planned, withMemory, driverVars, subtaskVars, tokenVars,
                   episode, vote>>

\* A plan of n subtasks arrives; the driver sets its caps and starts.
Plan ==
    /\ pc = "plan"
    /\ \E n \in 1 .. MaxPlan :
         /\ planned' = n
         /\ order' = [i \in 1 .. n |-> i]
         /\ state' = [i \in 1 .. n |-> "pending"]
         /\ attempts' = [i \in 1 .. n |-> 0]
         /\ asked' \in [1 .. n -> AskedAttempts]
    /\ insertionsRemaining' = InsertionBudget
    /\ pc' = "drive" /\ status' = "running"
    /\ UNCHANGED <<withMemory, driverVars, tokenVars, outcomeVars>>

-----------------------------------------------------------------------------
(* The driver loop.                                                        *)

StopDriving(s) ==
    /\ pc' = "finalize" /\ status' = s
    /\ UNCHANGED <<driverVars, state, attempts>>

StartSubtask(id) ==
    /\ current' = id /\ ran' = Append(ran, id)
    /\ iterations' = iterations + 1
    /\ state' = [state EXCEPT ![id] = "running"]
    /\ attempts' = [attempts EXCEPT ![id] = 1]
    /\ pc' = "context"
    /\ UNCHANGED <<status, completed, streak>>

\* The first subtask of the list that is not completed, unless there is
\* none left or the iteration cap is reached.
NextSubtask ==
    /\ pc = "drive"
    /\ IF Waiting = {} THEN StopDriving(status)
       ELSE IF iterations >= MaxIterations THEN StopDriving("partial")
       ELSE StartSubtask(order[First(Waiting)])
    /\ UNCHANGED <<planned, order, asked, insertionsRemaining, withMemory,
                   tokenVars, outcomeVars>>

BuildContext ==
    /\ pc = "context"
    /\ pc' = "specialist"
    /\ UNCHANGED <<status, planned, withMemory, driverVars, subtaskVars,
                   tokenVars, outcomeVars>>

\* The specialist answers.  Its tool calls run only when the registry is
\* wired and its confidence reaches the floor; either way the evaluator is
\* next.  RunState.add_tokens has no caller: tokensUsed stays as it is.
SpecialistAnswers ==
    /\ pc = "specialist"
    /\ \E t \in TokenCosts : metered' = metered + t
    /\ pc' \in {"tools", "evaluate"}
    /\ UNCHANGED <<status, planned, withMemory, driverVars, subtaskVars,
                   tokensUsed, outcomeVars>>

\* The specialist raised: the subtask fails at once, whatever attempts are
\* left, without evaluation or reflection.
SpecialistRaises ==
    /\ pc = "specialist"
    /\ state' = [state EXCEPT ![current] = "failed"]
    /\ pc' = "settle"
    /\ UNCHANGED <<status, planned, withMemory, driverVars, order, attempts,
                   asked, insertionsRemaining, tokenVars, outcomeVars>>

RunTools ==
    /\ pc = "tools"
    /\ pc' = "evaluate"
    /\ UNCHANGED <<status, planned, withMemory, driverVars, subtaskVars,
                   tokenVars, outcomeVars>>

EvaluatePasses ==
    /\ pc = "evaluate"
    /\ state' = [state EXCEPT ![current] = "passed"]
    /\ pc' = "settle"
    /\ UNCHANGED <<status, planned, withMemory, driverVars, order, attempts,
                   asked, insertionsRemaining, tokenVars, outcomeVars>>

EvaluateFails ==
    /\ pc = "evaluate"
    /\ IF attempts[current] < AttemptLimit(current)
       THEN /\ pc' = "reflect" /\ status' = "reflecting"
            /\ UNCHANGED state
       ELSE /\ pc' = "settle" /\ UNCHANGED status
            /\ state' = [state EXCEPT ![current] = "failed"]
    /\ UNCHANGED <<planned, withMemory, driverVars, order, attempts, asked,
                   insertionsRemaining, tokenVars, outcomeVars>>

\* Mutant: every proposal is accepted.
AcceptAll(k) == k

\* The proposals the budget lets in, the first ones of the list.
Accepted(k) == Smaller(k, insertionsRemaining)

\* Mutant: the SubtaskStates are built anew from the subtasks.
ForgetOld(f, n, default) == [i \in 1 .. Len(order) + n |-> default]

\* f with entries for n more subtasks.
Grown(f, n, default) ==
    [i \in 1 .. Len(order) + n |-> IF i \in Ids THEN f[i] ELSE default]

\* _insert_subtasks: the accepted ones of k proposals go in front of the
\* current subtask, and the current subtask starts its next attempt.
InsertAndRetry(k) ==
    LET n == Accepted(k)
    IN  /\ insertionsRemaining' = insertionsRemaining - n
        /\ order' = InsertBefore(PositionOf(current),
                                 [i \in 1 .. n |-> Len(order) + i])
        /\ state' = Grown(state, n, "pending")
        /\ asked' = Grown(asked, n, DefaultAttempts)
        /\ attempts' = Grown([attempts EXCEPT ![current] = @ + 1], n, 0)

\* Mutant: the retry does not count as an attempt.
RetryForFree ==
    /\ pc = "reflect"
    /\ pc' = "context" /\ status' = "running"
    /\ UNCHANGED <<planned, withMemory, driverVars, subtaskVars, tokenVars,
                   outcomeVars>>

\* The reflection is read; whatever it says, the subtask is retried.
Reflect ==
    /\ pc = "reflect"
    /\ \E k \in 0 .. MaxProposed : InsertAndRetry(k)
    /\ pc' = "context" /\ status' = "running"
    /\ UNCHANGED <<planned, withMemory, driverVars, tokenVars, outcomeVars>>

\* Mutant: a pass does not reset the streak.
StreakKept == IF state[current] = "passed" THEN streak ELSE streak + 1

StreakAfter == IF state[current] = "passed" THEN 0 ELSE streak + 1

\* Back in the driver: the subtask is completed, the failure streak and the
\* token budget may abort the run.
SettleSubtask ==
    /\ pc = "settle"
    /\ completed' = completed \cup {current} /\ current' = None
    /\ streak' = StreakAfter
    /\ IF StreakAfter >= MaxConsecutiveFailures \/ tokensUsed > TokenBudget
       THEN pc' = "finalize" /\ status' = "partial"
       ELSE pc' = "drive" /\ UNCHANGED status
    /\ UNCHANGED <<planned, withMemory, iterations, ran, subtaskVars,
                   tokenVars, outcomeVars>>

-----------------------------------------------------------------------------
(* The way out.                                                            *)

Finalize ==
    /\ pc = "finalize"
    /\ status' = IF status \in {"partial", "failed"} THEN status
                 ELSE FinalStatus
    /\ pc' = IF withMemory THEN "memory" ELSE "report"
    /\ UNCHANGED <<planned, withMemory, driverVars, subtaskVars, tokenVars,
                   outcomeVars>>

\* Memory writes: every failure of theirs is caught and logged.
ExtractMemories ==
    /\ pc = "memory"
    /\ pc' = "close_episode"
    /\ UNCHANGED <<status, planned, withMemory, driverVars, subtaskVars,
                   tokenVars, outcomeVars>>

\* finish_episode, whose failure is caught and logged.
CloseEpisode ==
    /\ pc = "close_episode"
    /\ episode' \in {episode, OutcomeFor(status)}
    /\ pc' = "report"
    /\ UNCHANGED <<status, planned, withMemory, driverVars, subtaskVars,
                   tokenVars, vote, stream>>

Report ==
    /\ pc = "report"
    /\ vote' = IF status \in {"success", "partial"} THEN "success"
               ELSE "failure"
    /\ pc' = "done" /\ stream' = "done"
    /\ UNCHANGED <<status, planned, withMemory, driverVars, subtaskVars,
                   tokenVars, episode>>

\* An exception no handler of the run catches: the chat route turns it into
\* a closing "error" event, and the rest of the run never happens.
AgentRaises ==
    /\ pc \in {"open_episode", "context", "tools", "evaluate", "reflect"}
    /\ pc' = "crashed" /\ stream' = "error"
    /\ UNCHANGED <<status, planned, withMemory, driverVars, subtaskVars,
                   tokenVars, episode, vote>>

\* The client goes away: the generator is closed at its next yield or await.
Disconnect ==
    /\ pc \notin Closed
    /\ pc' = "cancelled" /\ stream' = "lost"
    /\ UNCHANGED <<status, planned, withMemory, driverVars, subtaskVars,
                   tokenVars, episode, vote>>

Ended == pc \in Closed /\ UNCHANGED vars

Progress ==
    \/ Classify \/ Refuse \/ Admit \/ OpenEpisode \/ PlanFails \/ Plan
    \/ NextSubtask \/ BuildContext \/ SpecialistAnswers \/ SpecialistRaises
    \/ RunTools \/ EvaluatePasses \/ EvaluateFails \/ Reflect
    \/ SettleSubtask \/ Finalize \/ ExtractMemories \/ CloseEpisode
    \/ Report \/ AgentRaises

Next == Progress \/ Disconnect \/ Ended

Spec == Init /\ [][Next]_vars

\* Agents and stores answer or raise: every await returns.
FairSpec == Spec /\ WF_vars(Progress)
-----------------------------------------------------------------------------
(* Properties.                                                             *)

TypeOK ==
    /\ pc \in {"classify", "admit", "open_episode", "plan", "drive",
               "context", "specialist", "tools", "evaluate", "reflect",
               "settle", "finalize", "memory", "close_episode", "report"}
              \cup Closed
    /\ status \in RunStatus
    /\ planned \in Nat
    /\ order \in Seq(Ids)
    /\ state \in [Ids -> SubtaskStatus]
    /\ attempts \in [Ids -> Nat]
    /\ asked \in [Ids -> Int]
    /\ completed \subseteq Ids
    /\ current \in Ids \cup {None}
    /\ ran \in Seq(Ids)
    /\ iterations \in Nat /\ insertionsRemaining \in Nat /\ streak \in Nat
    /\ tokensUsed \in Nat /\ metered \in Nat
    /\ withMemory \in BOOLEAN
    /\ episode \in {"none", "pending", "success", "partial", "failure"}
    /\ vote \in {"none", "success", "failure"}
    /\ stream \in {"open", "done", "error", "lost"}

HasPlan == planned > 0
Driving == {"drive", "context", "specialist", "tools", "evaluate",
            "reflect", "settle"}

\* The list of subtasks grows only out of the insertion budget, whatever
\* the reflector proposes and however often it is asked, and no subtask
\* enters the list twice or leaves it.
BudgetConserved ==
    HasPlan => /\ Len(order) + insertionsRemaining = planned + InsertionBudget
               /\ insertionsRemaining >= 0
               /\ \A i, j \in Ids : order[i] = order[j] => i = j

\* "Each subtask is processed at most once", also when the list changes
\* under the driver; and the run drives no more subtasks than the plan and
\* the insertion budget allow.
ProcessedOnce ==
    /\ \A i, j \in DOMAIN ran : ran[i] = ran[j] => i = j
    /\ iterations = Len(ran)
    /\ HasPlan => iterations <= planned + InsertionBudget

\* While a subtask waits, the iteration cap is never reached: the cap that
\* guards the loop is slack, the insertion budget alone bounds the run.
CapIsSlack ==
    pc = "drive" /\ Waiting # {} => iterations < MaxIterations

\* The failure streak is the number of failures since the last pass, and
\* the run never drives another subtask once it has reached the limit.
Settled == IF current = None THEN Len(ran) ELSE Len(ran) - 1
StreakIsTrailingFailures ==
    /\ streak <= Settled
    /\ \A i \in Settled - streak + 1 .. Settled : state[ran[i]] = "failed"
    /\ streak < Settled => state[ran[Settled - streak]] = "passed"
    /\ pc \in Driving => streak < MaxConsecutiveFailures

\* What the final status says of the work: success when every subtask
\* passed, failure when all were tried and the failures prevail, and a
\* subtask is left untried only by a run the streak aborted.
VerdictMatchesWork ==
    pc \in {"memory", "close_episode", "report"} \/ (pc = "done" /\ HasPlan) =>
        /\ (status = "success") <=> (IdsIn("passed") = Ids)
        /\ status = "failed" =>
             /\ IdsIn("passed") \cup IdsIn("failed") = Ids
             /\ \/ IdsIn("passed") = {}
                \/ Cardinality(IdsIn("passed")) < Cardinality(IdsIn("failed"))
        /\ Waiting # {} => streak >= MaxConsecutiveFailures
                           /\ status = "partial"

\* A subtask that was settled keeps its verdict and its attempts, and the
\* list keeps the relative order of what it holds.
SettledStays ==
    [][/\ \A id \in completed : state'[id] = state[id]
                                /\ attempts'[id] = attempts[id]
       /\ \A i, j \in Ids : i < j =>
            \E k, l \in DOMAIN order' : /\ k < l
                                        /\ order'[k] = order[i]
                                        /\ order'[l] = order[j]]_vars

\* Every run ends, if the agents and stores it awaits answer or raise.
Terminates == <>(pc \in Closed)

\* The run as its surroundings see it implements RunContract.
Stage == CASE pc \in {"classify", "admit"}                 -> "admission"
           [] pc \in {"open_episode", "plan"}              -> "planning"
           [] pc \in Driving \cup {"finalize"}             -> "working"
           [] pc \in {"memory", "close_episode", "report"} -> "reporting"
           [] pc = "done"                                  -> "closed"
           [] OTHER                                        -> "lost"
Verdict == IF Stage \in {"reporting", "closed"} THEN status ELSE "none"
Contract == INSTANCE RunContract WITH stage <- Stage, verdict <- Verdict
ImplementsContract == Contract!Spec

-----------------------------------------------------------------------------
(* Claims of the code's comments that its behaviours refute.               *)

\* "LLM_MAX_TOKENS_PER_TASK bounds total tokens; we abort with PARTIAL": no
\* subtask is started once the tokens metered exceed the budget.
TokensBounded ==
    pc = "context" /\ attempts[current] = 1 => metered <= TokenBudget

\* The breaker "trips after repeated failures [...] the last line of defense
\* against runaway reflection loops surviving across requests": a run none
\* of whose subtasks passed is not reported to it as a success.
StuckRunIsAFailure ==
    vote = "success" => IdsIn("passed") # {}
=============================================================================
