------------------------- MODULE BreakerFleetProofs -------------------------
(***************************************************************************)
(* Theorems about BreakerFleet for any number of runs and intents, every   *)
(* threshold and every cooldown.  The three invariants together are        *)
(* inductive: OnlyEarlierRunsInFlight needs the counter to see a trip as   *)
(* the history does, and TripIsEarned needs the types.                     *)
(***************************************************************************)
EXTENDS BreakerFleet, TLAPS

IInv == TypeOK /\ TripIsEarned /\ OnlyEarlierRunsInFlight

LEMMA InitInv == Init => IInv
BY BreakerAssumption
DEF Init, IInv, TypeOK, TripIsEarned, OnlyEarlierRunsInFlight, Open, InFlight,
    Remainder

\* A reported failure raises the counter and the history alike: both see a
\* trip at the same failure.
LEMMA OneMoreFact ==
    ASSUME NEW n \in 0 .. 2 * Threshold - 1
    PROVE  /\ OneMore(n) \in 0 .. 2 * Threshold - 1
           /\ Remainder(n) \in 0 .. Threshold - 1
           /\ Remainder(OneMore(n)) = IF Remainder(n) + 1 >= Threshold THEN 0
                                      ELSE Remainder(n) + 1
           /\ Remainder(n) + 1 >= Threshold => OneMore(n) >= Threshold
           /\ n >= Threshold => OneMore(n) >= Threshold
BY BreakerAssumption DEF OneMore, Remainder

\* Steps that leave the breaker and its history as they are: the run neither
\* enters the flight of a refused intent nor changes intent in flight.
LEMMA QuietStep ==
    ASSUME IInv, NEW r \in Runs,
           Arrive(r) \/ Refuse(r) \/ Begin(r) \/ PlanFails(r) \/ Accept(r)
             \/ Conclude(r) \/ Lose(r)
    PROVE  IInv'
<1> USE DEF IInv, Move, Rule, Land, breakerVars, historyVars
<1>1. TypeOK'
    <2>1. CASE Arrive(r)
        BY <2>1 DEF Arrive, TypeOK, InFlight
    <2>2. CASE Refuse(r)
        BY <2>2 DEF Refuse, TypeOK, InFlight
    <2>3. CASE Begin(r)
        BY <2>3 DEF Begin, TypeOK, InFlight
    <2>4. CASE PlanFails(r)
        BY <2>4 DEF PlanFails, TypeOK, InFlight
    <2>5. CASE Accept(r)
        BY <2>5 DEF Accept, TypeOK, InFlight
    <2>6. CASE Conclude(r)
        BY <2>6 DEF Conclude, TypeOK, InFlight
    <2>7. CASE Lose(r)
        BY <2>7 DEF Lose, TypeOK, InFlight
    <2> QED
        BY <2>1, <2>2, <2>3, <2>4, <2>5, <2>6, <2>7
<1>2. UNCHANGED <<cool, consecutive, fails>>
    BY DEF Arrive, Refuse, Begin, PlanFails, Accept, Conclude, Lose
<1>3. TripIsEarned'
    BY <1>2 DEF TripIsEarned, Open
<1>4. OnlyEarlierRunsInFlight'
    <2>1. CASE Arrive(r)
        BY <1>2, <2>1
        DEF Arrive, TypeOK, InFlight, OnlyEarlierRunsInFlight, Open
    <2>2. CASE Refuse(r)
        BY <1>2, <2>2
        DEF Refuse, TypeOK, InFlight, OnlyEarlierRunsInFlight, Open
    <2>3. CASE Begin(r)
        BY <1>2, <2>3
        DEF Begin, TypeOK, InFlight, OnlyEarlierRunsInFlight, Open
    <2>4. CASE PlanFails(r)
        BY <1>2, <2>4
        DEF PlanFails, TypeOK, InFlight, OnlyEarlierRunsInFlight, Open
    <2>5. CASE Accept(r)
        BY <1>2, <2>5
        DEF Accept, TypeOK, InFlight, OnlyEarlierRunsInFlight, Open
    <2>6. CASE Conclude(r)
        BY <1>2, <2>6
        DEF Conclude, TypeOK, InFlight, OnlyEarlierRunsInFlight, Open
    <2>7. CASE Lose(r)
        BY <1>2, <2>7
        DEF Lose, TypeOK, InFlight, OnlyEarlierRunsInFlight, Open
    <2> QED
        BY <2>1, <2>2, <2>3, <2>4, <2>5, <2>6, <2>7
<1> QED
    BY <1>1, <1>3, <1>4

LEMMA SuccessStep ==
    ASSUME IInv, NEW r \in Runs, ReportSuccess(r)
    PROVE  IInv'
<1> USE BreakerAssumption DEF IInv, ReportSuccess, RecordSuccess, Move, Land
<1>1. TypeOK'
    BY DEF TypeOK, InFlight
<1>2. TripIsEarned'
    BY DEF TypeOK, TripIsEarned, Open, Remainder
<1>3. OnlyEarlierRunsInFlight'
    BY DEF TypeOK, OnlyEarlierRunsInFlight, Open, InFlight
<1> QED
    BY <1>1, <1>2, <1>3

\* The failure that trips the breaker overtakes every run of its intent
\* that is in flight.
LEMMA FailureStep ==
    ASSUME IInv, NEW r \in Runs, ReportFailure(r)
    PROVE  IInv'
<1> DEFINE k == intent[r]
           trips == consecutive[k] + 1 >= Threshold
<1> USE BreakerAssumption DEF IInv
<1>1. k \in Intents /\ fails[k] \in 0 .. 2 * Threshold - 1
      /\ consecutive[k] = Remainder(fails[k])
    BY DEF TypeOK, TripIsEarned
<1>2. /\ OneMore(fails[k]) \in 0 .. 2 * Threshold - 1
      /\ consecutive[k] \in 0 .. Threshold - 1
      /\ Remainder(OneMore(fails[k])) = IF trips THEN 0 ELSE consecutive[k] + 1
      /\ trips => OneMore(fails[k]) >= Threshold
      /\ fails[k] >= Threshold => OneMore(fails[k]) >= Threshold
    BY <1>1, OneMoreFact
<1>3. /\ cool' = IF trips THEN [cool EXCEPT ![k] = Cooldown] ELSE cool
      /\ consecutive' = [consecutive EXCEPT
                            ![k] = IF trips THEN 0 ELSE consecutive[k] + 1]
      /\ fails' = [fails EXCEPT ![k] = OneMore(fails[k])]
      /\ stage' = [stage EXCEPT ![r] = "closed"]
      /\ vote' = [vote EXCEPT ![r] = "failure"]
      /\ UNCHANGED <<verdict, intent>>
    BY DEF ReportFailure, RecordFailure, Move
<1>4. overtaken' = [s \in Runs |->
         /\ s # r
         /\ \/ overtaken[s]
            \/ /\ Remainder(fails'[k]) = 0
               /\ stage[s] \in InFlight /\ intent[s] = k]
    BY DEF ReportFailure
<1>5. TypeOK'
    <2>1. overtaken' \in [Runs -> BOOLEAN]
        BY <1>4 DEF TypeOK
    <2>2. cool' \in [Intents -> 0 .. Cooldown]
        BY <1>1, <1>3 DEF TypeOK
    <2>3. consecutive' \in [Intents -> 0 .. Threshold - 1]
        BY <1>1, <1>2, <1>3 DEF TypeOK
    <2>4. fails' \in [Intents -> 0 .. 2 * Threshold - 1]
        BY <1>1, <1>2, <1>3 DEF TypeOK
    <2> QED
        BY <1>3, <2>1, <2>2, <2>3, <2>4 DEF TypeOK
<1>6. TripIsEarned'
    BY <1>1, <1>2, <1>3 DEF TypeOK, TripIsEarned, Open
<1>7. OnlyEarlierRunsInFlight'
    <2> SUFFICES ASSUME NEW s \in Runs, stage'[s] \in InFlight,
                        cool'[intent[s]] > 0
                 PROVE  overtaken'[s]
        BY <1>3 DEF OnlyEarlierRunsInFlight, Open
    <2>1. s # r /\ stage[s] \in InFlight
        BY <1>3 DEF TypeOK, InFlight
    <2>2. CASE intent[s] = k /\ trips
        <3>1. Remainder(fails'[k]) = 0
            BY <1>1, <1>2, <1>3, <2>2 DEF TypeOK
        <3> QED
            BY <1>4, <2>1, <2>2, <3>1
    <2>3. CASE ~(intent[s] = k /\ trips)
        <3>1. cool[intent[s]] > 0
            BY <1>1, <1>3, <2>3 DEF TypeOK
        <3> QED
            BY <1>4, <2>1, <3>1 DEF OnlyEarlierRunsInFlight, Open
    <2> QED
        BY <2>2, <2>3
<1> QED
    BY <1>5, <1>6, <1>7

LEMMA TickStep == IInv /\ Tick => IInv'
<1> SUFFICES ASSUME IInv, Tick PROVE IInv'
    OBVIOUS
<1>1. \A k \in Intents : cool'[k] \in 0 .. Cooldown /\ cool'[k] <= cool[k]
    BY BreakerAssumption DEF Tick, IInv, TypeOK, Open
<1>2. cool' \in [Intents -> 0 .. Cooldown]
    BY <1>1 DEF Tick
<1> QED
    BY <1>1, <1>2
    DEF Tick, IInv, TypeOK, TripIsEarned, OnlyEarlierRunsInFlight, Open,
        runVars, historyVars

LEMMA InvStep == IInv /\ [Next]_vars => IInv'
<1> SUFFICES ASSUME IInv, [Next]_vars PROVE IInv'
    OBVIOUS
<1>1. CASE Tick
    BY <1>1, TickStep
<1>2. ASSUME NEW r \in Runs, Step(r) PROVE IInv'
    BY <1>2, QuietStep, SuccessStep, FailureStep DEF Step
<1>3. CASE UNCHANGED vars
    BY <1>3 DEF vars, runVars, breakerVars, historyVars, IInv, TypeOK,
                TripIsEarned, OnlyEarlierRunsInFlight, Open
<1> QED
    BY <1>1, <1>2, <1>3 DEF Next

LEMMA Invariant == Spec => []IInv
BY InitInv, InvStep, PTL DEF Spec

\* With any number of overlapping runs the counter is the number of failures
\* reported since the last success or trip, and an intent is refused only
\* after the threshold of failures in a row.
THEOREM TripAlwaysEarned == Spec => []TripIsEarned
<1>1. IInv => TripIsEarned
    BY DEF IInv
<1> QED
    BY <1>1, Invariant, PTL

\* While an intent is refused, every run of it in flight was admitted before
\* the trip.
THEOREM NoRunSlipsIn == Spec => []OnlyEarlierRunsInFlight
<1>1. IInv => OnlyEarlierRunsInFlight
    BY DEF IInv
<1> QED
    BY <1>1, Invariant, PTL

\* Every variable keeps its type: in particular no counter leaves the range
\* the breaker compares it in.
THEOREM TypeCorrect == Spec => []TypeOK
<1>1. IInv => TypeOK
    BY DEF IInv
<1> QED
    BY <1>1, Invariant, PTL

-----------------------------------------------------------------------------
(* Each run keeps the contract of a run.                                   *)

\* A step of one slot leaves the other runs as they are.
LEMMA OthersStay ==
    ASSUME TypeOK, NEW r \in Runs, Step(r), NEW s \in Runs, s # r
    PROVE  /\ stage'[s] = stage[s] /\ verdict'[s] = verdict[s]
           /\ vote'[s] = vote[s]
BY DEF TypeOK, Step, Arrive, Refuse, Begin, PlanFails, Accept, Conclude,
       ReportSuccess, ReportFailure, Lose, Move, Rule

\* A step of a slot is a step of its run, or takes a new request when the
\* old one is over.
LEMMA SlotStep ==
    ASSUME TypeOK, NEW r \in Runs, Step(r)
    PROVE  Renewed(r) \/ Contract(r)!Next
<1> USE DEF TypeOK, Move, Rule, InFlight
<1>1. CASE Arrive(r)
    BY <1>1 DEF Arrive, Renewed
<1>2. CASE Refuse(r)
    BY <1>2 DEF Refuse, Contract!Next, Contract!Refuse
<1>3. CASE Begin(r)
    BY <1>3 DEF Begin, Contract!Next, Contract!Begin
<1>4. CASE PlanFails(r)
    BY <1>4 DEF PlanFails, Contract!Next, Contract!PlanFails
<1>5. CASE Accept(r)
    BY <1>5 DEF Accept, Contract!Next, Contract!Accept
<1>6. CASE Conclude(r)
    BY <1>6 DEF Conclude, Contract!Next, Contract!Conclude
<1>7. CASE ReportSuccess(r)
    BY <1>7 DEF ReportSuccess, Contract!Next, Contract!Report, Contract!VoteFor
<1>8. CASE ReportFailure(r)
    BY <1>8 DEF ReportFailure, Contract!Next, Contract!Report, Contract!VoteFor
<1>9. CASE Lose(r)
    BY <1>9 DEF Lose, Contract!Next, Contract!Lose
<1> QED
    BY <1>1, <1>2, <1>3, <1>4, <1>5, <1>6, <1>7, <1>8, <1>9 DEF Step

LEMMA ContractStep ==
    ASSUME TypeOK, [Next]_vars, NEW r \in Runs
    PROVE  Renewed(r) \/ [Contract(r)!Next]_<<stage[r], verdict[r], vote[r]>>
<1>1. CASE Tick \/ UNCHANGED vars
    BY <1>1 DEF Tick, vars, runVars
<1>2. ASSUME NEW s \in Runs, Step(s)
      PROVE  Renewed(r) \/ [Contract(r)!Next]_<<stage[r], verdict[r], vote[r]>>
    <2>1. CASE s = r
        BY <1>2, <2>1, SlotStep
    <2>2. CASE s # r
        BY <1>2, <2>2, OthersStay
    <2> QED
        BY <2>1, <2>2
<1> QED
    BY <1>1, <1>2 DEF Next

\* However the runs overlap, each keeps the contract of a run: one verdict,
\* never revised, and at most one word to the breaker, after it; only the
\* slot of a run that is over takes a new request.
THEOREM EachRunKeepsContract == Spec => RunsKeepContract
<1>1. IInv /\ [Next]_vars =>
        [\A r \in Runs :
           Renewed(r) \/ [Contract(r)!Next]_<<stage[r], verdict[r], vote[r]>>]_vars
    BY ContractStep DEF IInv
<1> QED
    BY <1>1, Invariant, PTL DEF Spec, RunsKeepContract
-----------------------------------------------------------------------------
(* The way out of a refusal.  That an intent is accepted again needs time  *)
(* to pass and is TLC's; that nothing can put it off for ever is safety.   *)

Flying(k) == {r \in Runs : stage[r] \in InFlight /\ intent[r] = k}

\* Fewer runs of the intent are in flight; or the same, and what is left of
\* its cooldown does not grow, and falls when the step is not a run's but
\* time that passes.
Shrinks(k) ==
    \/ Flying(k)' \subseteq Flying(k) /\ Flying(k)' # Flying(k)
    \/ /\ Flying(k)' = Flying(k)
       /\ cool'[k] <= cool[k]
       /\ stage' = stage => cool'[k] < cool[k]

LEMMA StepShrinks ==
    ASSUME TypeOK, NEW r \in Runs, Step(r), NEW k \in Intents, Open(k)
    PROVE  Shrinks(k)
<1>0. /\ stage \in [Runs -> {"admission", "closed", "lost"} \cup InFlight]
      /\ intent \in [Runs -> Intents] /\ cool \in [Intents -> 0 .. Cooldown]
      /\ cool[k] \in Nat
    BY BreakerAssumption DEF TypeOK
<1>1. \/ /\ intent[r] # k /\ intent' = intent /\ cool'[k] = cool[k]
         /\ \A s \in Runs \ {r} : stage'[s] = stage[s]
      \/ /\ r \in Flying(k) /\ intent' = intent /\ stage'[r] \notin InFlight
         /\ \A s \in Runs \ {r} : stage'[s] = stage[s]
      \/ /\ r \in Flying(k) /\ stage'[r] \in InFlight
         /\ intent' = intent /\ cool' = cool
         /\ \A s \in Runs \ {r} : stage'[s] = stage[s]
      \/ /\ stage[r] \notin InFlight /\ stage'[r] \notin InFlight /\ cool' = cool
         /\ \A s \in Runs \ {r} : stage'[s] = stage[s] /\ intent'[s] = intent[s]
    <2> USE <1>0 DEF Move, Rule, Land, breakerVars, historyVars, Flying, InFlight
    <2>1. CASE Arrive(r)
        BY <2>1 DEF Arrive
    <2>2. CASE Refuse(r)
        BY <2>2 DEF Refuse
    <2>3. CASE Begin(r)
        BY <2>3 DEF Begin
    <2>4. CASE PlanFails(r)
        BY <2>4 DEF PlanFails
    <2>5. CASE Accept(r)
        BY <2>5 DEF Accept
    <2>6. CASE Conclude(r)
        BY <2>6 DEF Conclude
    <2>7. CASE ReportSuccess(r)
        BY <2>7 DEF ReportSuccess, RecordSuccess
    <2>8. CASE ReportFailure(r)
        BY <2>8 DEF ReportFailure, RecordFailure
    <2>9. CASE Lose(r)
        BY <2>9 DEF Lose
    <2> QED
        BY <2>1, <2>2, <2>3, <2>4, <2>5, <2>6, <2>7, <2>8, <2>9 DEF Step
<1>2. stage' # stage
    <2>1. stage'[r] # stage[r]
        BY <1>0 DEF Step, Arrive, Refuse, Begin, PlanFails, Accept, Conclude,
                    ReportSuccess, ReportFailure, Lose, Move, InFlight
    <2> QED
        BY <2>1
<1>3. CASE intent[r] # k
    <2>1. Flying(k)' = Flying(k) /\ cool'[k] = cool[k]
        BY <1>1, <1>3 DEF Flying
    <2> QED
        BY <1>0, <1>2, <2>1 DEF Shrinks
<1> QED
    BY <1>0, <1>1, <1>2, <1>3 DEF Shrinks, Flying

LEMMA TickShrinks ==
    ASSUME TypeOK, Tick, NEW k \in Intents, Open(k)
    PROVE  Shrinks(k)
<1>1. cool'[k] = cool[k] - 1 /\ cool[k] \in Nat
    BY BreakerAssumption DEF Tick, Open, TypeOK
<1>2. Flying(k)' = Flying(k)
    BY DEF Tick, runVars, Flying
<1> QED
    BY <1>1, <1>2 DEF Shrinks

\* While an intent is refused, whatever the clients and the other runs do,
\* each step leaves fewer of its runs in flight, or the same runs and no
\* longer a cooldown, and a shorter one when time passes: no step adds to
\* what can still put its return off.
THEOREM RefusalAlwaysShrinks ==
    Spec => [][\A k \in Intents : Open(k) => Shrinks(k)]_vars
<1>1. IInv /\ [Next]_vars => [\A k \in Intents : Open(k) => Shrinks(k)]_vars
    BY StepShrinks, TickShrinks DEF IInv, Next
<1> QED
    BY <1>1, Invariant, PTL DEF Spec
=============================================================================
