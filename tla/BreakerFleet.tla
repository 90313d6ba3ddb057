---------------------------- MODULE BreakerFleet ----------------------------
(***************************************************************************)
(* Many runs of one process and the circuit breaker they share.            *)
(*                                                                         *)
(* Every chat request is a run of its own (see RunContract for what a run  *)
(* shows to its surroundings); the Orchestrator object holds one           *)
(* CircuitBreaker keyed by intent.  A run asks it once, when it is         *)
(* admitted, and tells it the outcome once, on the way out.  Between the   *)
(* two lie all the awaits of the run, so runs admitted before a trip       *)
(* report after it: the breaker hears failures and successes of work it    *)
(* has already decided to refuse.                                          *)
(*                                                                         *)
(* A slot of Runs is reused: after a run closes, the slot takes the next   *)
(* request.  Of the wall clock only the seconds an intent stays closed to  *)
(* new runs are kept: cool[k] is open_until - now, not below 0.            *)
(***************************************************************************)
EXTENDS Integers, FiniteSets

CONSTANTS
    Runs,        \* requests in flight at a time
    Intents,     \* the intents of the router
    Threshold,   \* CircuitBreaker._threshold
    Cooldown     \* CircuitBreaker._cooldown, in ticks

ASSUME BreakerAssumption ==
    /\ Threshold \in Nat \ {0}
    /\ Cooldown \in Nat \ {0}

VARIABLES
    stage,        \* how far each run is (RunContract)
    verdict,      \* its final status (RunContract)
    vote,         \* what it told the breaker (RunContract)
    intent,       \* what the router made of its request
    cool,         \* per intent: time left until open_until
    consecutive,  \* per intent: _BreakerState.consecutive
    fails,        \* history: failures reported since the last success
    overtaken     \* history: the breaker tripped since the run was admitted,
                  \* while it is in flight

runVars     == <<stage, verdict, vote, intent>>
breakerVars == <<cool, consecutive>>
historyVars == <<fails, overtaken>>
vars == <<runVars, breakerVars, historyVars>>

-----------------------------------------------------------------------------
InFlight == {"planning", "working", "reporting"}
Open(k) == cool[k] > 0

\* A count of failures, of which only whether it has reached the threshold
\* and the remainder by the threshold matter: it wraps above.
OneMore(n)   == IF n + 1 = 2 * Threshold THEN Threshold ELSE n + 1
Remainder(n) == IF n < Threshold THEN n ELSE n - Threshold

\* Mutant: the breaker trips one failure late.
FailureTripsLate(k) ==
    IF consecutive[k] + 1 > Threshold
    THEN /\ cool' = [cool EXCEPT ![k] = Cooldown]
         /\ consecutive' = [consecutive EXCEPT ![k] = 0]
    ELSE /\ consecutive' = [consecutive EXCEPT ![k] = @ + 1]
         /\ UNCHANGED cool

RecordFailure(k) ==
    IF consecutive[k] + 1 >= Threshold
    THEN /\ cool' = [cool EXCEPT ![k] = Cooldown]
         /\ consecutive' = [consecutive EXCEPT ![k] = 0]
    ELSE /\ consecutive' = [consecutive EXCEPT ![k] = @ + 1]
         /\ UNCHANGED cool

\* Mutant: a success closes the breaker and keeps the count.
SuccessKeepsCount(k) ==
    /\ cool' = [cool EXCEPT ![k] = 0]
    /\ UNCHANGED consecutive

RecordSuccess(k) ==
    /\ cool' = [cool EXCEPT ![k] = 0]
    /\ consecutive' = [consecutive EXCEPT ![k] = 0]

Move(r, s) == stage' = [stage EXCEPT ![r] = s]
Rule(r, v) == verdict' = [verdict EXCEPT ![r] = v]
Land(r) == overtaken' = [overtaken EXCEPT ![r] = FALSE]

-----------------------------------------------------------------------------
Init ==
    /\ stage = [r \in Runs |-> "admission"]
    /\ verdict = [r \in Runs |-> "none"]
    /\ vote = [r \in Runs |-> "none"]
    /\ intent \in [Runs -> Intents]
    /\ cool = [k \in Intents |-> 0]
    /\ consecutive = [k \in Intents |-> 0]
    /\ fails = [k \in Intents |-> 0]
    /\ overtaken = [r \in Runs |-> FALSE]

\* The slot takes a new request and the router names its intent.
Arrive(r) ==
    /\ stage[r] \in {"closed", "lost"}
    /\ \E k \in Intents : intent' = [intent EXCEPT ![r] = k]
    /\ Move(r, "admission") /\ Rule(r, "none")
    /\ vote' = [vote EXCEPT ![r] = "none"]
    /\ UNCHANGED <<breakerVars, historyVars>>

\* Mutant: a refused run is reported as a failure.
RefusalCounts(r) ==
    /\ stage[r] = "admission" /\ Open(intent[r])
    /\ Move(r, "closed") /\ Rule(r, "aborted")
    /\ RecordFailure(intent[r])
    /\ UNCHANGED <<vote, intent, historyVars>>

Refuse(r) ==
    /\ stage[r] = "admission" /\ Open(intent[r])
    /\ Move(r, "closed") /\ Rule(r, "aborted")
    /\ UNCHANGED <<vote, intent, breakerVars, historyVars>>

\* Mutant: the run starts without asking the breaker.
BeginUnasked(r) ==
    /\ stage[r] = "admission"
    /\ Move(r, "planning")
    /\ UNCHANGED <<verdict, vote, intent, breakerVars, historyVars>>

Begin(r) ==
    /\ stage[r] = "admission" /\ ~Open(intent[r])
    /\ Move(r, "planning")
    /\ UNCHANGED <<verdict, vote, intent, breakerVars, historyVars>>

\* Mutant: a run without a plan is reported too.
PlanFailureVotes(r) ==
    /\ stage[r] = "planning"
    /\ Move(r, "closed") /\ Rule(r, "failed")
    /\ vote' = [vote EXCEPT ![r] = "failure"]
    /\ RecordFailure(intent[r])
    /\ Land(r)
    /\ UNCHANGED <<intent, fails>>

\* The planner fails: the run returns without a word to the breaker.
PlanFails(r) ==
    /\ stage[r] = "planning"
    /\ Move(r, "closed") /\ Rule(r, "failed")
    /\ Land(r)
    /\ UNCHANGED <<vote, intent, breakerVars, fails>>

Accept(r) ==
    /\ stage[r] = "planning"
    /\ Move(r, "working")
    /\ UNCHANGED <<verdict, vote, intent, breakerVars, historyVars>>

Conclude(r) ==
    /\ stage[r] = "working"
    /\ \E v \in {"success", "partial", "failed"} : Rule(r, v)
    /\ Move(r, "reporting")
    /\ UNCHANGED <<vote, intent, breakerVars, historyVars>>

ReportSuccess(r) ==
    /\ stage[r] = "reporting" /\ verdict[r] \in {"success", "partial"}
    /\ RecordSuccess(intent[r])
    /\ vote' = [vote EXCEPT ![r] = "success"]
    /\ fails' = [fails EXCEPT ![intent[r]] = 0]
    /\ Move(r, "closed") /\ Land(r)
    /\ UNCHANGED <<verdict, intent>>

ReportFailure(r) ==
    /\ stage[r] = "reporting" /\ verdict[r] = "failed"
    /\ RecordFailure(intent[r])
    /\ vote' = [vote EXCEPT ![r] = "failure"]
    /\ fails' = [fails EXCEPT ![intent[r]] = OneMore(@)]
    /\ overtaken' = [s \in Runs |->
         /\ s # r
         /\ \/ overtaken[s]
            \/ /\ Remainder(fails'[intent[r]]) = 0
               /\ stage[s] \in InFlight /\ intent[s] = intent[r]]
    /\ Move(r, "closed")
    /\ UNCHANGED <<verdict, intent>>

\* The client disconnects, or an exception reaches the chat route.
Lose(r) ==
    /\ stage[r] \in InFlight \cup {"admission"}
    /\ Move(r, "lost") /\ Rule(r, "none") /\ Land(r)
    /\ UNCHANGED <<vote, intent, breakerVars, fails>>

\* A unit of the wall clock passes.
Tick ==
    /\ \E k \in Intents : Open(k)
    /\ cool' = [k \in Intents |-> IF Open(k) THEN cool[k] - 1 ELSE 0]
    /\ UNCHANGED <<runVars, consecutive, historyVars>>

Step(r) ==
    \/ Arrive(r) \/ Refuse(r) \/ Begin(r) \/ PlanFails(r) \/ Accept(r)
    \/ Conclude(r) \/ ReportSuccess(r) \/ ReportFailure(r) \/ Lose(r)

Next == Tick \/ \E r \in Runs : Step(r)

Spec == Init /\ [][Next]_vars

\* Time passes; no run need ever move.
FairSpec == Spec /\ WF_vars(Tick)
-----------------------------------------------------------------------------
(* Properties.                                                             *)

TypeOK ==
    /\ stage \in [Runs -> {"admission", "closed", "lost"} \cup InFlight]
    /\ verdict \in [Runs -> {"none", "success", "partial", "failed",
                             "aborted"}]
    /\ vote \in [Runs -> {"none", "success", "failure"}]
    /\ intent \in [Runs -> Intents]
    /\ cool \in [Intents -> 0 .. Cooldown]
    /\ consecutive \in [Intents -> 0 .. Threshold - 1]
    /\ fails \in [Intents -> 0 .. 2 * Threshold - 1]
    /\ overtaken \in [Runs -> BOOLEAN]

\* However the reports of overlapping runs interleave, also those of runs
\* admitted before a trip, the counter is the number of failures reported
\* since the last success or trip, and an intent is closed to new runs only
\* after the threshold of failures with no success between or since.
TripIsEarned ==
    \A k \in Intents :
        /\ consecutive[k] = Remainder(fails[k])
        /\ Open(k) => fails[k] >= Threshold

\* While an intent is refused, the only runs of it in flight were admitted
\* before the trip: no run slips in, so nothing that starts after a trip
\* can close the breaker early or trip it again.
OnlyEarlierRunsInFlight ==
    \A r \in Runs :
        stage[r] \in InFlight /\ Open(intent[r]) => overtaken[r]

\* Each run, seen alone, keeps the contract of a run; only a slot whose run
\* is over takes a new one.
Contract(r) == INSTANCE RunContract
                 WITH stage <- stage[r], verdict <- verdict[r],
                      vote <- vote[r], episode <- "none"
Renewed(r) == stage[r] \in {"closed", "lost"} /\ stage'[r] = "admission"
RunsKeepContract ==
    [][\A r \in Runs :
         Renewed(r) \/ [Contract(r)!Next]_<<stage[r], verdict[r], vote[r]>>]_vars

\* Refusal is never for ever: the runs in flight at a trip can trip the
\* breaker again only finitely often, so every intent is accepted again and
\* again, whatever the clients do.
AcceptedAgain == \A k \in Intents : []<>~Open(k)

-----------------------------------------------------------------------------
(* A claim of the documentation that the behaviours refute.                *)

\* "circuit breaker stops orchestration on repeated failure": an intent
\* whose runs end FAILED again and again, and never otherwise, is refused
\* again and again.
FailsForEver(r, k) ==
    /\ []<>(stage[r] = "closed" /\ verdict[r] = "failed" /\ intent[r] = k)
    /\ []<>(stage[r] = "admission")
NeverSucceeds(k) ==
    []~\E r \in Runs : /\ intent[r] = k /\ stage[r] = "reporting"
                       /\ verdict[r] \in {"success", "partial"}
RepeatedFailureStops ==
    \A r \in Runs, k \in Intents :
        FailsForEver(r, k) /\ NeverSucceeds(k) => []<>Open(k)
=============================================================================
