------------------------- MODULE OrchestratorProofs -------------------------
(***************************************************************************)
(* Theorems about Orchestrator for every plan, every depth, every failure  *)
(* limit and every reflector.  Types alone are not inductive: that a       *)
(* specialist's answer is written to an existing subtask needs Shape, which*)
(* couples the control point to the data.  The two together, IShape, are   *)
(* the first layer of the invariant.  The next layers each use the ones    *)
(* before: BudgetConserved is about the list, Once about what was driven,  *)
(* Streak about the run of failures, Work about the status and the work.   *)
(* At the end a settled subtask is shown never to be touched again, the    *)
(* run as its surroundings see it to implement RunContract, and each of    *)
(* its steps to leave less to do.                                          *)
(***************************************************************************)
EXTENDS Orchestrator, FiniteSetTheorems, SequenceTheorems,
        WellFoundedInduction, TLAPS

BeforePlan == {"classify", "admit", "open_episode", "plan"}
InHand     == {"context", "specialist", "tools", "evaluate", "reflect",
               "settle"}
Ending     == {"finalize", "memory", "close_episode", "report"}

Shape ==
    /\ pc \in BeforePlan => planned = 0
    /\ pc \in InHand \cup {"drive"} \cup Ending => planned > 0
    /\ planned = 0 => /\ order = << >> /\ ran = << >> /\ completed = {}
                      /\ current = None /\ iterations = 0 /\ streak = 0
    /\ pc \in InHand => current # None
    /\ pc \in {"drive"} \cup Ending => current = None
    /\ current # None => /\ current \notin completed
                         /\ \E i \in Ids : order[i] = current

IShape == TypeOK /\ Shape

-----------------------------------------------------------------------------
(* The operators of the list.                                              *)

\* The position of an id in the list is one where the list holds it.
LEMMA PositionFact ==
    ASSUME NEW id, \E i \in Ids : order[i] = id
    PROVE  PositionOf(id) \in Ids /\ order[PositionOf(id)] = id
BY DEF PositionOf

\* A non-empty set of positions has a first one.
LEMMA FirstFact ==
    ASSUME NEW S, S \subseteq Nat, S # {}
    PROVE  First(S) \in S /\ \A j \in S : First(S) <= j
<1> DEFINE R == OpToRel(<, Nat)
<1>1. IsWellFoundedOn(R, Nat)
    BY NatLessThanWellFounded
<1>2. PICK i \in S : \A j \in S : ~(<<j, i>> \in R)
    BY <1>1, WFMin
<1>3. \A j \in S : ~(j < i)
    BY <1>2 DEF OpToRel
<1>4. \A j \in S : i <= j
    BY <1>3
<1> QED
    BY <1>4 DEF First

\* The elements of three sequences put together.
LEMMA ConcatThree ==
    ASSUME NEW S, NEW a \in Seq(S), NEW b \in Seq(S), NEW c \in Seq(S)
    PROVE  /\ a \o b \o c \in Seq(S)
           /\ Len(a \o b \o c) = Len(a) + Len(b) + Len(c)
           /\ \A i \in 1 .. Len(a) + Len(b) + Len(c) :
                (a \o b \o c)[i] =
                   IF i <= Len(a) THEN a[i]
                   ELSE IF i <= Len(a) + Len(b) THEN b[i - Len(a)]
                   ELSE c[i - Len(a) - Len(b)]
<1>1. /\ a \o b \in Seq(S) /\ Len(a \o b) = Len(a) + Len(b)
      /\ \A i \in 1 .. Len(a) + Len(b) :
           (a \o b)[i] = IF i <= Len(a) THEN a[i] ELSE b[i - Len(a)]
    BY ConcatProperties
<1> DEFINE ab == a \o b
           s  == ab \o c
<1>2. /\ ab \in Seq(S) /\ Len(ab) = Len(a) + Len(b)
      /\ \A i \in 1 .. Len(a) + Len(b) :
           ab[i] = IF i <= Len(a) THEN a[i] ELSE b[i - Len(a)]
    BY <1>1
<1> HIDE DEF ab
<1>3. /\ s \in Seq(S) /\ Len(s) = Len(ab) + Len(c)
      /\ \A i \in 1 .. Len(ab) + Len(c) :
           s[i] = IF i <= Len(ab) THEN ab[i] ELSE c[i - Len(ab)]
    <2>1. ab \in Seq(S)
        BY <1>2
    <2> QED
        BY <2>1, ConcatProperties, Zenon
<1> HIDE DEF s
<1>4. Len(a) \in Nat /\ Len(b) \in Nat /\ Len(c) \in Nat
    BY LenProperties
<1>5. ASSUME NEW i \in 1 .. Len(a) + Len(b) + Len(c)
      PROVE  s[i] = IF i <= Len(a) THEN a[i]
                    ELSE IF i <= Len(a) + Len(b) THEN b[i - Len(a)]
                    ELSE c[i - Len(a) - Len(b)]
    <2>1. s[i] = IF i <= Len(a) + Len(b) THEN ab[i]
                 ELSE c[i - (Len(a) + Len(b))]
        BY <1>2, <1>3
    <2>2. i <= Len(a) + Len(b) =>
            ab[i] = IF i <= Len(a) THEN a[i] ELSE b[i - Len(a)]
        BY <1>2, <1>4
    <2>3. i - (Len(a) + Len(b)) = i - Len(a) - Len(b)
        BY <1>4
    <2>4. i <= Len(a) => i <= Len(a) + Len(b)
        BY <1>4
    <2> QED
        BY <2>1, <2>2, <2>3, <2>4, Zenon
<1> QED
    BY <1>2, <1>3, <1>5 DEF s, ab

\* What list.insert makes of the list: k new ids in front of position p.
LEMMA InsertFact ==
    ASSUME NEW n \in Nat, order \in Seq(1 .. n), n = Len(order),
           NEW p \in 1 .. n, NEW k \in Nat
    PROVE  LET s == InsertBefore(p, [i \in 1 .. k |-> n + i])
           IN  /\ s \in Seq(1 .. n + k)
               /\ Len(s) = n + k
               /\ \A i \in 1 .. n + k :
                    s[i] = IF i < p THEN order[i]
                           ELSE IF i < p + k THEN n + (i - p + 1)
                           ELSE order[i - k]
<1> DEFINE a == SubSeq(order, 1, p - 1)
           b == [i \in 1 .. k |-> n + i]
           c == SubSeq(order, p, n)
           s == a \o b \o c
           q == n - p + 1
<1>1. /\ a \in Seq(1 .. n + k) /\ Len(a) = p - 1
      /\ \A i \in 1 .. p - 1 : a[i] = order[i]
    OBVIOUS
<1>2. /\ b \in Seq(1 .. n + k) /\ Len(b) = k
      /\ \A i \in 1 .. k : b[i] = n + i
    OBVIOUS
<1>3. /\ c \in Seq(1 .. n + k) /\ Len(c) = q
      /\ \A i \in 1 .. q : c[i] = order[p + i - 1]
    OBVIOUS
<1>4. InsertBefore(p, b) = s
    BY DEF InsertBefore
<1> HIDE DEF a, b, c, s
<1>5. /\ s \in Seq(1 .. n + k)
      /\ Len(s) = Len(a) + Len(b) + Len(c)
      /\ \A i \in 1 .. Len(a) + Len(b) + Len(c) :
           s[i] = IF i <= Len(a) THEN a[i]
                  ELSE IF i <= Len(a) + Len(b) THEN b[i - Len(a)]
                  ELSE c[i - Len(a) - Len(b)]
    <2> DEFINE T == 1 .. n + k
    <2>1. a \in Seq(T)
        BY <1>1
    <2>2. b \in Seq(T)
        BY <1>2
    <2>3. c \in Seq(T)
        BY <1>3
    <2> HIDE DEF T
    <2>4. /\ a \o b \o c \in Seq(T)
          /\ Len(a \o b \o c) = Len(a) + Len(b) + Len(c)
          /\ \A i \in 1 .. Len(a) + Len(b) + Len(c) :
               (a \o b \o c)[i] =
                  IF i <= Len(a) THEN a[i]
                  ELSE IF i <= Len(a) + Len(b) THEN b[i - Len(a)]
                  ELSE c[i - Len(a) - Len(b)]
        BY ONLY <2>1, <2>2, <2>3, ConcatThree
    <2> QED
        BY <2>4 DEF s, T
<1>6. Len(a) + Len(b) + Len(c) = n + k
    BY <1>1, <1>2, <1>3
<1>7. ASSUME NEW i \in 1 .. n + k
      PROVE  s[i] = IF i < p THEN order[i]
                    ELSE IF i < p + k THEN n + (i - p + 1)
                    ELSE order[i - k]
    <2>1. s[i] = IF i <= p - 1 THEN a[i]
                 ELSE IF i <= p - 1 + k THEN b[i - (p - 1)]
                 ELSE c[i - (p - 1) - k]
        BY <1>1, <1>2, <1>5, <1>6
    <2>2. CASE i < p
        BY <2>1, <2>2, <1>1
    <2>3. CASE i >= p /\ i < p + k
        BY <2>1, <2>3, <1>2
    <2>4. CASE i >= p + k
        <3>1. s[i] = c[i - (p - 1) - k] /\ i - (p - 1) - k \in 1 .. q
            <4>1. ~(i <= p - 1) /\ ~(i <= p - 1 + k)
                BY <2>4
            <4>2. i - (p - 1) - k \in 1 .. q
                BY <4>1
            <4> QED
                BY <2>1, <4>1, <4>2
        <3>2. c[i - (p - 1) - k] = order[p + (i - (p - 1) - k) - 1]
            BY <3>1, <1>3
        <3>3. p + (i - (p - 1) - k) - 1 = i - k
            OBVIOUS
        <3> QED
            BY <3>1, <3>2, <3>3, <2>4
    <2> QED
        BY <2>2, <2>3, <2>4
<1>8. /\ InsertBefore(p, b) \in Seq(1 .. n + k)
      /\ Len(InsertBefore(p, b)) = n + k
      /\ \A i \in 1 .. n + k :
           InsertBefore(p, b)[i] = IF i < p THEN order[i]
                                   ELSE IF i < p + k THEN n + (i - p + 1)
                                   ELSE order[i - k]
    BY <1>4, <1>5, <1>6, <1>7
<1> QED
    BY <1>8 DEF b
-----------------------------------------------------------------------------
(* Layer 1: types and shape.                                               *)

\* The accepted proposals: no more than proposed, no more than the budget.
LEMMA AcceptedFact ==
    ASSUME TypeOK, NEW k \in Nat
    PROVE  /\ Accepted(k) \in Nat
           /\ Accepted(k) <= insertionsRemaining
BY DEF TypeOK, Accepted, Smaller

\* A plan has types and shape.
LEMMA PlanShape == IShape /\ Plan => IShape'
<1> SUFFICES ASSUME IShape, Plan PROVE IShape'
    OBVIOUS
<1>1. PICK n \in 1 .. MaxPlan :
        /\ planned' = n
        /\ order' = [i \in 1 .. n |-> i]
        /\ state' = [i \in 1 .. n |-> "pending"]
        /\ attempts' = [i \in 1 .. n |-> 0]
        /\ asked' \in [1 .. n -> AskedAttempts]
    BY DEF Plan
<1>2. n \in Nat \ {0}
    BY BoundsAssumption
<1>3. order' \in Seq(1 .. n) /\ Len(order') = n
    BY <1>1, <1>2
<1>4. Ids' = 1 .. n
    BY <1>3 DEF Ids
<1>5. InsertionBudget \in Nat
    BY SettingsAssumption DEF InsertionBudget, Larger
<1>6. /\ ran = << >> /\ completed = {} /\ current = None
      /\ pc' = "drive" /\ status' = "running"
      /\ insertionsRemaining' = InsertionBudget
    BY DEF IShape, Shape, Plan, BeforePlan
<1>7. TypeOK'
    <2>1. state' \in [Ids' -> SubtaskStatus] /\ attempts' \in [Ids' -> Nat]
          /\ asked' \in [Ids' -> Int]
        BY <1>1, <1>4, BoundsAssumption DEF SubtaskStatus
    <2>2. ran' \in Seq(Ids') /\ completed' \subseteq Ids'
          /\ current' \in Ids' \cup {None}
        BY <1>6 DEF Plan, driverVars
    <2>3. order' \in Seq(Ids')
        BY <1>3, <1>4
    <2> QED
        BY <1>1, <1>2, <1>5, <1>6, <2>1, <2>2, <2>3
        DEF IShape, TypeOK, Plan, driverVars, tokenVars, outcomeVars, RunStatus
<1>8. Shape'
    BY <1>1, <1>2, <1>6
    DEF Plan, Shape, BeforePlan, InHand, Ending, driverVars
<1> QED
    BY <1>7, <1>8 DEF IShape

\* The next subtask is in the list and not completed.
LEMMA NextShape == IShape /\ NextSubtask => IShape'
<1> SUFFICES ASSUME IShape, NextSubtask PROVE IShape'
    OBVIOUS
<1> USE DEF IShape
<1>1. Ids' = Ids
    BY DEF NextSubtask, Ids
<1>2. pc = "drive" /\ current = None
    BY DEF NextSubtask, Shape
<1>3. CASE Waiting = {} \/ iterations >= MaxIterations
    <2>1. /\ pc' = "finalize" /\ status' \in {status, "partial"}
          /\ UNCHANGED <<driverVars, state, attempts>>
        BY <1>3 DEF NextSubtask, StopDriving
    <2>2. TypeOK'
        BY <1>1, <2>1 DEF TypeOK, NextSubtask, driverVars, tokenVars,
                          outcomeVars, RunStatus
    <2>3. Shape'
        BY <1>1, <1>2, <2>1
        DEF Shape, NextSubtask, driverVars, BeforePlan, InHand, Ending
    <2> QED
        BY <2>2, <2>3
<1>4. CASE ~(Waiting = {} \/ iterations >= MaxIterations)
    <2> DEFINE id == order[First(Waiting)]
    <2>1. StartSubtask(id)
        BY <1>4 DEF NextSubtask
    <2>2. First(Waiting) \in Waiting
        BY <1>4, FirstFact DEF Waiting, Ids
    <2>3. id \in Ids /\ id \notin completed /\ \E i \in Ids : order[i] = id
        <3>1. First(Waiting) \in Ids /\ id \notin completed
            BY <2>2 DEF Waiting
        <3>2. order \in Seq(Ids)
            BY DEF TypeOK
        <3>3. order \in [Ids -> Ids]
            BY <3>2 DEF Ids
        <3> QED
            BY <3>1, <3>3
    <2> HIDE DEF id
    <2>4. id # None
        BY <2>3 DEF Ids, None, TypeOK
    <2>5. ran' \in Seq(Ids)
        BY <2>1, <2>3 DEF StartSubtask, TypeOK
    <2>6. /\ state' \in [Ids -> SubtaskStatus]
          /\ attempts' \in [Ids -> Nat]
        BY <2>1, <2>3 DEF StartSubtask, TypeOK, SubtaskStatus
    <2>7. TypeOK'
        <3>1. /\ pc' = "context" /\ current' = id
              /\ iterations' = iterations + 1
              /\ UNCHANGED <<status, completed, streak>>
            BY <2>1 DEF StartSubtask
        <3>2. UNCHANGED <<planned, order, asked, insertionsRemaining,
                          withMemory, tokensUsed, metered, episode, vote,
                          stream>>
            BY DEF NextSubtask, tokenVars, outcomeVars
        <3>3. TypeOK
            OBVIOUS
        <3>4. iterations' \in Nat /\ current' \in Ids' \cup {None}
              /\ ran' \in Seq(Ids') /\ completed' \subseteq Ids'
            BY <1>1, <2>3, <2>5, <3>1, <3>3 DEF TypeOK
        <3>5. /\ order' \in Seq(Ids') /\ asked' \in [Ids' -> Int]
              /\ state' \in [Ids' -> SubtaskStatus]
              /\ attempts' \in [Ids' -> Nat]
            BY <1>1, <2>6, <3>2, <3>3 DEF TypeOK
        <3> QED
            BY ONLY <3>1, <3>2, <3>3, <3>4, <3>5 DEF TypeOK
    <2>8. Shape'
        BY <1>1, <1>2, <2>1, <2>3, <2>4
        DEF Shape, NextSubtask, StartSubtask, BeforePlan, InHand, Ending
    <2> QED
        BY <2>7, <2>8
<1> QED
    BY <1>3, <1>4

\* What a reflection does: n accepted proposals, with ids nobody had, in
\* front of the current subtask, which stood at p.
Reflected(n, p) ==
    /\ n <= insertionsRemaining
    /\ insertionsRemaining' = insertionsRemaining - n
    /\ Ids' = 1 .. Len(order) + n
    /\ Len(order') = Len(order) + n
    /\ order' \in Seq(1 .. Len(order) + n)
    /\ order[p] = current
    /\ \A i \in 1 .. Len(order) + n :
         order'[i] = IF i < p THEN order[i]
                     ELSE IF i < p + n THEN Len(order) + (i - p + 1)
                     ELSE order[i - n]
    /\ state' = Grown(state, n, "pending")
    /\ asked' = Grown(asked, n, DefaultAttempts)
    /\ attempts' = Grown([attempts EXCEPT ![current] = @ + 1], n, 0)

LEMMA ReflectFact ==
    ASSUME IShape, Reflect
    PROVE  \E n \in Nat, p \in Ids : Reflected(n, p)
<1> USE DEF IShape
<1>1. PICK k \in 0 .. MaxProposed : InsertAndRetry(k)
    BY DEF Reflect
<1> DEFINE n == Accepted(k)
           m == Len(order)
           p == PositionOf(current)
<1>2. n \in Nat /\ n <= insertionsRemaining
    BY AcceptedFact, BoundsAssumption
<1>3. p \in Ids /\ order[p] = current
    <2>1. \E i \in Ids : order[i] = current
        BY DEF Reflect, Shape, InHand
    <2> QED
        BY <2>1, PositionFact
<1>4. m \in Nat /\ Ids = 1 .. m /\ order \in Seq(1 .. m)
    BY DEF TypeOK, Ids
<1>5. /\ insertionsRemaining' = insertionsRemaining - n
      /\ order' = InsertBefore(p, [i \in 1 .. n |-> m + i])
      /\ state' = Grown(state, n, "pending")
      /\ asked' = Grown(asked, n, DefaultAttempts)
      /\ attempts' = Grown([attempts EXCEPT ![current] = @ + 1], n, 0)
    BY <1>1 DEF InsertAndRetry
<1> HIDE DEF n, p
<1>6. /\ order' \in Seq(1 .. m + n) /\ Len(order') = m + n
      /\ \A i \in 1 .. m + n :
           order'[i] = IF i < p THEN order[i]
                       ELSE IF i < p + n THEN m + (i - p + 1)
                       ELSE order[i - n]
    BY <1>2, <1>3, <1>4, <1>5, InsertFact
<1>7. Ids' = 1 .. m + n
    BY <1>6 DEF Ids
<1> QED
    <2>1. Reflected(n, p)
        BY <1>2, <1>3, <1>5, <1>6, <1>7 DEF Reflected
    <2> QED
        BY <1>2, <1>3, <2>1

LEMMA ReflectShape == IShape /\ Reflect => IShape'
<1> SUFFICES ASSUME IShape, Reflect PROVE IShape'
    OBVIOUS
<1>1. PICK n \in Nat, p \in Ids : Reflected(n, p)
    BY ReflectFact
<1>2. Len(order) \in Nat /\ Ids = 1 .. Len(order) /\ current \in Ids
    BY DEF IShape, TypeOK, Ids, Reflect, Shape, InHand
<1>3. Ids' = 1 .. Len(order) + n /\ order' \in Seq(Ids')
    BY <1>1 DEF Reflected
<1>4. Ids \subseteq Ids'
    BY <1>2, <1>3
<1>5. order'[p + n] = current /\ p + n \in Ids'
    <2> DEFINE q == p + n
    <2>1. q \in 1 .. Len(order) + n /\ q - n = p /\ ~(q < p) /\ ~(q < p + n)
        BY <1>2
    <2> HIDE DEF q
    <2>2. order'[q] = order[q - n]
        BY <1>1, <2>1, Zenon DEF Reflected
    <2>3. order[p] = current
        BY <1>1 DEF Reflected
    <2> QED
        BY <1>3, <2>1, <2>2, <2>3 DEF q
<1>6. TypeOK'
    <2>1. /\ state \in [Ids -> SubtaskStatus] /\ asked \in [Ids -> Int]
          /\ [attempts EXCEPT ![current] = @ + 1] \in [Ids -> Nat]
        <3>1. /\ state \in [Ids -> SubtaskStatus] /\ asked \in [Ids -> Int]
              /\ attempts \in [Ids -> Nat]
            BY DEF IShape, TypeOK
        <3> QED
            BY <1>2, <3>1
    <2>2. /\ state' = Grown(state, n, "pending")
          /\ asked' = Grown(asked, n, DefaultAttempts)
          /\ attempts' = Grown([attempts EXCEPT ![current] = @ + 1], n, 0)
        BY <1>1 DEF Reflected
    <2>3. state' \in [Ids' -> SubtaskStatus]
        BY <1>3, <2>1, <2>2 DEF Grown, SubtaskStatus
    <2>4. asked' \in [Ids' -> Int]
        BY <1>3, <2>1, <2>2 DEF Grown, DefaultAttempts
    <2>5. attempts' \in [Ids' -> Nat]
        BY <1>3, <2>1, <2>2 DEF Grown
    <2>6. /\ completed' \subseteq Ids' /\ current' \in Ids' \cup {None}
        BY <1>4 DEF IShape, TypeOK, Reflect, driverVars
    <2>7. ran' \in Seq(Ids')
        <3>1. ran' = ran /\ ran \in Seq(Ids)
            BY DEF IShape, TypeOK, Reflect, driverVars
        <3> QED
            BY <1>4, <3>1
    <2>8. insertionsRemaining' \in Nat
        <3>1. insertionsRemaining' = insertionsRemaining - n
              /\ n <= insertionsRemaining
            BY <1>1 DEF Reflected
        <3>2. insertionsRemaining \in Nat
            BY DEF IShape, TypeOK
        <3> QED
            BY <3>1, <3>2
    <2> QED
        BY <1>3, <2>3, <2>4, <2>5, <2>6, <2>7, <2>8
        DEF IShape, TypeOK, Reflect, driverVars, tokenVars, outcomeVars,
            RunStatus
<1>7. Shape'
    BY <1>5 DEF IShape, Shape, Reflect, driverVars, BeforePlan, InHand, Ending
<1> QED
    BY <1>6, <1>7 DEF IShape

\* The other steps leave the list alone.
LEMMA OtherList ==
    ASSUME Next, ~Plan, ~Reflect
    PROVE  /\ UNCHANGED <<order, asked, planned, insertionsRemaining>>
           /\ Ids' = Ids
<1>1. UNCHANGED <<order, asked, planned, insertionsRemaining>>
    BY DEF Next, Progress, subtaskVars, vars, Classify, Refuse, Admit,
       OpenEpisode, PlanFails, NextSubtask, BuildContext,
       SpecialistAnswers, SpecialistRaises, RunTools, EvaluatePasses,
       EvaluateFails, SettleSubtask, Finalize, ExtractMemories,
       CloseEpisode, Report, AgentRaises, Disconnect, Ended
<1> QED
    BY <1>1 DEF Ids

LEMMA OtherTypes ==
    ASSUME TypeOK, Shape, Next, ~Plan, ~NextSubtask, ~Reflect
    PROVE  TypeOK'
<1>1. UNCHANGED <<order, asked, planned, insertionsRemaining>> /\ Ids' = Ids
    BY OtherList
<1> USE <1>1 DEF TypeOK, driverVars, subtaskVars, tokenVars, outcomeVars
<1>2. CASE Classify
    BY <1>2 DEF Classify, RunStatus
<1>3. CASE Refuse
    BY <1>3 DEF Refuse, RunStatus, Closed
<1>4. CASE Admit
    BY <1>4 DEF Admit
<1>5. CASE OpenEpisode
    BY <1>5 DEF OpenEpisode
<1>6. CASE PlanFails
    BY <1>6 DEF PlanFails, RunStatus, Closed
<1>7. CASE BuildContext
    BY <1>7 DEF BuildContext
<1>8. CASE SpecialistAnswers
    BY <1>8, BoundsAssumption DEF SpecialistAnswers
<1>9. CASE SpecialistRaises
    BY <1>9 DEF SpecialistRaises, SubtaskStatus
<1>10. CASE RunTools
    BY <1>10 DEF RunTools
<1>11. CASE EvaluatePasses
    BY <1>11 DEF EvaluatePasses, SubtaskStatus
<1>12. CASE EvaluateFails
    <2>1. /\ pc' \in {"reflect", "settle"} /\ status' \in RunStatus
          /\ state' \in {state, [state EXCEPT ![current] = "failed"]}
        BY <1>12 DEF EvaluateFails, RunStatus
    <2>2. state' \in [Ids -> SubtaskStatus]
        BY <2>1 DEF SubtaskStatus
    <2>3. UNCHANGED <<planned, completed, current, iterations, streak, ran,
                      attempts, withMemory, tokensUsed, metered, episode,
                      vote, stream>>
        BY <1>12 DEF EvaluateFails
    <2> QED
        BY <1>1, <2>1, <2>2, <2>3
<1>13. CASE SettleSubtask
    <2>1. StreakAfter \in Nat
        BY DEF StreakAfter
    <2>2. completed' \subseteq Ids /\ current' = None
        BY <1>13 DEF SettleSubtask, Shape, InHand
    <2>3. status' \in RunStatus
        BY <1>13 DEF SettleSubtask, RunStatus
    <2> QED
        BY <1>13, <2>1, <2>2, <2>3 DEF SettleSubtask
<1>14. CASE Finalize
    <2>1. status' \in RunStatus
        BY <1>14 DEF Finalize, FinalStatus, RunStatus
    <2> QED
        BY <1>14, <2>1 DEF Finalize
<1>15. CASE ExtractMemories
    BY <1>15 DEF ExtractMemories
<1>16. CASE CloseEpisode
    BY <1>16 DEF CloseEpisode, OutcomeFor
<1>17. CASE Report
    BY <1>17 DEF Report, Closed
<1>18. CASE AgentRaises
    BY <1>18 DEF AgentRaises, Closed
<1>19. CASE Disconnect
    BY <1>19 DEF Disconnect, Closed
<1>20. CASE Ended
    BY <1>20 DEF Ended, vars
<1> QED
    BY <1>2, <1>3, <1>4, <1>5, <1>6, <1>7, <1>8, <1>9, <1>10, <1>11,
       <1>12, <1>13, <1>14, <1>15, <1>16, <1>17, <1>18, <1>19, <1>20 DEF Next, Progress

LEMMA OtherShape ==
    ASSUME TypeOK, Shape, Next, ~Plan, ~NextSubtask, ~Reflect
    PROVE  Shape'
<1>1. UNCHANGED <<order, asked, planned, insertionsRemaining>> /\ Ids' = Ids
    BY OtherList
<1> USE <1>1 DEF Shape, BeforePlan, InHand, Ending,
                 driverVars, subtaskVars, tokenVars, outcomeVars
<1>2. CASE Classify
    BY <1>2 DEF Classify
<1>3. CASE Refuse
    BY <1>3 DEF Refuse, Closed
<1>4. CASE Admit
    BY <1>4 DEF Admit
<1>5. CASE OpenEpisode
    BY <1>5 DEF OpenEpisode
<1>6. CASE PlanFails
    BY <1>6 DEF PlanFails, Closed
<1>7. CASE BuildContext
    BY <1>7 DEF BuildContext
<1>8. CASE SpecialistAnswers
    BY <1>8 DEF SpecialistAnswers
<1>9. CASE SpecialistRaises
    BY <1>9 DEF SpecialistRaises
<1>10. CASE RunTools
    BY <1>10 DEF RunTools
<1>11. CASE EvaluatePasses
    BY <1>11 DEF EvaluatePasses
<1>12. CASE EvaluateFails
    BY <1>12 DEF EvaluateFails
<1>13. CASE SettleSubtask
    BY <1>13 DEF SettleSubtask
<1>14. CASE Finalize
    BY <1>14 DEF Finalize
<1>15. CASE ExtractMemories
    BY <1>15 DEF ExtractMemories
<1>16. CASE CloseEpisode
    BY <1>16 DEF CloseEpisode
<1>17. CASE Report
    BY <1>17 DEF Report, Closed
<1>18. CASE AgentRaises
    BY <1>18 DEF AgentRaises, Closed
<1>19. CASE Disconnect
    BY <1>19 DEF Disconnect, Closed
<1>20. CASE Ended
    BY <1>20 DEF Ended, vars
<1> QED
    BY <1>2, <1>3, <1>4, <1>5, <1>6, <1>7, <1>8, <1>9, <1>10, <1>11,
       <1>12, <1>13, <1>14, <1>15, <1>16, <1>17, <1>18, <1>19, <1>20 DEF Next, Progress

LEMMA InitShape == Init => IShape
<1> SUFFICES ASSUME Init PROVE IShape
    OBVIOUS
<1>1. Ids = {}
    BY DEF Init, Ids
<1>2. order \in Seq(Ids) /\ ran \in Seq(Ids)
    BY <1>1 DEF Init
<1>3. /\ state \in [Ids -> SubtaskStatus]
      /\ attempts \in [Ids -> Nat] /\ asked \in [Ids -> Int]
    BY <1>1 DEF Init
<1> QED
    BY <1>1, <1>2, <1>3 DEF Init, IShape, TypeOK, Shape, BeforePlan, InHand,
                            Ending, RunStatus, None

LEMMA StutterShape == IShape /\ UNCHANGED vars => IShape'
BY DEF IShape, TypeOK, Shape, Ids, vars, driverVars, subtaskVars, tokenVars,
       outcomeVars

LEMMA ShapeStep == IShape /\ [Next]_vars => IShape'
<1> SUFFICES ASSUME IShape, [Next]_vars PROVE IShape'
    OBVIOUS
<1>1. CASE Plan
    BY <1>1, PlanShape
<1>2. CASE NextSubtask
    BY <1>2, NextShape
<1>3. CASE Reflect
    BY <1>3, ReflectShape
<1>4. CASE Next /\ ~Plan /\ ~NextSubtask /\ ~Reflect
    BY <1>4, OtherTypes, OtherShape DEF IShape
<1>5. CASE UNCHANGED vars
    BY <1>5, StutterShape
<1> QED
    BY <1>1, <1>2, <1>3, <1>4, <1>5

\* In every reachable state each variable has its type: in particular the
\* list, the states and the attempts always speak of the same subtasks,
\* although a reflection grows all of them while a subtask is in hand.
THEOREM TypeCorrect == Spec => []TypeOK
<1>1. IShape => TypeOK
    BY DEF IShape
<1> QED
    BY <1>1, InitShape, ShapeStep, PTL DEF Spec

-----------------------------------------------------------------------------
(* Layer 2: the list and its budget.                                       *)

LEMMA BudgetInit == Init => BudgetConserved
BY DEF Init, BudgetConserved, HasPlan

LEMMA PlanBudget == IShape /\ Plan => BudgetConserved'
<1> SUFFICES ASSUME IShape, Plan PROVE BudgetConserved'
    OBVIOUS
<1>1. PICK n \in 1 .. MaxPlan :
        planned' = n /\ order' = [i \in 1 .. n |-> i]
    BY DEF Plan
<1>2. n \in Nat
    BY BoundsAssumption
<1>3. Len(order') = n /\ Ids' = 1 .. n
    BY <1>1, <1>2 DEF Ids
<1>4. insertionsRemaining' = InsertionBudget /\ InsertionBudget' = InsertionBudget
    BY DEF Plan, InsertionBudget
<1>5. InsertionBudget \in Nat
    BY SettingsAssumption DEF InsertionBudget, Larger
<1>6. \A i, j \in Ids' : order'[i] = order'[j] => i = j
    BY <1>1, <1>3
<1> QED
    BY <1>1, <1>2, <1>3, <1>4, <1>5, <1>6 DEF BudgetConserved

\* New ids are larger than all old ones, and the old ones move without
\* meeting: the list stays without repetition.
LEMMA ReflectBudget == IShape /\ BudgetConserved /\ Reflect => BudgetConserved'
<1> SUFFICES ASSUME IShape, BudgetConserved, Reflect PROVE BudgetConserved'
    OBVIOUS
<1>1. PICK n \in Nat, p \in Ids : Reflected(n, p)
    BY ReflectFact
<1> DEFINE m == Len(order)
<1>2. m \in Nat /\ Ids = 1 .. m /\ p \in 1 .. m
    BY DEF IShape, TypeOK, Ids
<1>3. \A i \in 1 .. m : order[i] \in 1 .. m
    <2>1. order \in Seq(1 .. m)
        BY <1>2 DEF IShape, TypeOK
    <2> QED
        BY <2>1
<1>4. HasPlan
    BY DEF HasPlan, IShape, TypeOK, Shape, InHand, Reflect
<1>5. \A i, j \in 1 .. m : order[i] = order[j] => i = j
    BY <1>2, <1>4 DEF BudgetConserved
<1>6. /\ Len(order') = m + n /\ Ids' = 1 .. m + n
      /\ insertionsRemaining' = insertionsRemaining - n
      /\ n <= insertionsRemaining
      /\ \A i \in 1 .. m + n :
           order'[i] = IF i < p THEN order[i]
                       ELSE IF i < p + n THEN m + (i - p + 1)
                       ELSE order[i - n]
    BY <1>1 DEF Reflected
<1> HIDE DEF m
<1>7. ASSUME NEW i \in 1 .. m + n, NEW j \in 1 .. m + n, i < j
      PROVE  order'[i] # order'[j]
    <2>1. CASE j < p
        BY <1>2, <1>5, <1>6, <1>7, <2>1
    <2>2. CASE j >= p /\ j < p + n
        <3>1. order'[j] = m + (j - p + 1)
            BY <1>2, <1>6, <2>2
        <3>2. i < p => order'[i] \in 1 .. m
            BY <1>2, <1>3, <1>6
        <3>3. i >= p => order'[i] = m + (i - p + 1)
            BY <1>2, <1>6, <1>7, <2>2
        <3> QED
            BY <1>2, <1>7, <2>2, <3>1, <3>2, <3>3
    <2>3. CASE j >= p + n
        <3>1. order'[j] = order[j - n] /\ j - n \in 1 .. m
            BY <1>2, <1>6, <2>3
        <3>2. CASE i < p
            BY <1>2, <1>5, <1>6, <2>3, <3>1, <3>2
        <3>3. CASE i >= p /\ i < p + n
            BY <1>2, <1>3, <1>6, <3>1, <3>3
        <3>4. CASE i >= p + n
            <4>1. order'[i] = order[i - n] /\ i - n \in 1 .. m /\ i - n # j - n
                BY <1>2, <1>6, <1>7, <3>4
            <4> QED
                BY <1>5, <3>1, <4>1
        <3> QED
            BY <1>2, <3>2, <3>3, <3>4
    <2> QED
        BY <1>2, <2>1, <2>2, <2>3
<1>8. \A i, j \in Ids' : order'[i] = order'[j] => i = j
    BY <1>2, <1>6, <1>7
<1>9. /\ planned' = planned /\ InsertionBudget' = InsertionBudget
      /\ InsertionBudget \in Nat /\ insertionsRemaining \in Nat
      /\ planned \in Nat
    BY SettingsAssumption
    DEF Reflect, InsertionBudget, Larger, IShape, TypeOK
<1>10. m + insertionsRemaining = planned + InsertionBudget
    BY <1>4 DEF BudgetConserved, m
<1> QED
    BY <1>2, <1>6, <1>8, <1>9, <1>10 DEF BudgetConserved

LEMMA BudgetStep == IShape /\ BudgetConserved /\ [Next]_vars => BudgetConserved'
<1> SUFFICES ASSUME IShape, BudgetConserved, [Next]_vars PROVE BudgetConserved'
    OBVIOUS
<1>1. CASE Plan
    BY <1>1, PlanBudget
<1>2. CASE Reflect
    BY <1>2, ReflectBudget
<1>3. CASE Next /\ ~Plan /\ ~Reflect
    <2>1. UNCHANGED <<order, planned, insertionsRemaining>>
        BY <1>3, OtherList
    <2> QED
        BY <2>1 DEF BudgetConserved, HasPlan, Ids, InsertionBudget
<1>4. CASE UNCHANGED vars
    BY <1>4 DEF vars, subtaskVars, BudgetConserved, HasPlan, Ids,
                InsertionBudget
<1> QED
    BY <1>1, <1>2, <1>3, <1>4

\* The list grows by exactly what the insertion budget loses and holds no
\* subtask twice, for every plan, depth and reflector: what keeps a run
\* finite when an LLM proposes subtasks.
THEOREM BudgetAlwaysConserved == Spec => []BudgetConserved
BY InitShape, ShapeStep, BudgetInit, BudgetStep, PTL DEF Spec

-----------------------------------------------------------------------------
(* Layer 3: what was driven.                                               *)

\* The subtasks the driver took up: those completed and the one in hand.
Started == completed \cup ({current} \ {None})

Once ==
    /\ \A i, j \in DOMAIN ran : ran[i] = ran[j] => i = j
    /\ iterations = Len(ran)
    /\ \A i \in DOMAIN ran : ran[i] \in Started
    /\ IsFiniteSet(Started) /\ Cardinality(Started) = iterations

LEMMA OnceInit == Init => Once
<1> SUFFICES ASSUME Init PROVE Once
    OBVIOUS
<1>1. Started = {} /\ ran = << >> /\ iterations = 0
    BY DEF Init, Started
<1> QED
    BY <1>1, FS_EmptySet DEF Once

\* The subtask taken up is new to the history: it was not completed and
\* none was in hand.
LEMMA NextOnce == IShape /\ Once /\ NextSubtask => Once'
<1> SUFFICES ASSUME IShape, Once, NextSubtask PROVE Once'
    OBVIOUS
<1>1. current = None
    BY DEF IShape, Shape, NextSubtask
<1>2. CASE Waiting = {} \/ iterations >= MaxIterations
    <2>1. UNCHANGED driverVars
        BY <1>2 DEF NextSubtask, StopDriving
    <2> QED
        BY <2>1 DEF driverVars, Once, Started
<1>3. CASE ~(Waiting = {} \/ iterations >= MaxIterations)
    <2> DEFINE id == order[First(Waiting)]
    <2>1. /\ current' = id /\ ran' = Append(ran, id)
          /\ iterations' = iterations + 1 /\ completed' = completed
        BY <1>3 DEF NextSubtask, StartSubtask
    <2>2. First(Waiting) \in Waiting
        BY <1>3, FirstFact DEF Waiting, Ids
    <2>3. id \notin completed
        BY <2>2 DEF Waiting
    <2>4. id \in Ids
        <3>1. First(Waiting) \in Ids
            BY <2>2 DEF Waiting
        <3>2. order \in Seq(Ids)
            BY DEF IShape, TypeOK
        <3>3. \A S : \A s \in Seq(S) : \A i \in 1 .. Len(s) : s[i] \in S
            BY ElementOfSeq
        <3> QED
            BY <3>1, <3>2, <3>3, Zenon DEF Ids
    <2>5. id # None
        BY <2>4 DEF Ids, None
    <2> HIDE DEF id
    <2>6. Started = completed /\ Started' = Started \cup {id} /\ id \notin Started
        BY <1>1, <2>1, <2>3, <2>5 DEF Started
    <2>7. /\ IsFiniteSet(Started')
          /\ Cardinality(Started') = Cardinality(Started) + 1
        BY <2>6, FS_AddElement DEF Once
    <2>8. ran \in Seq(Ids) /\ Len(ran) \in Nat
        BY DEF IShape, TypeOK
    <2>9. /\ Len(ran') = Len(ran) + 1
          /\ \A i \in 1 .. Len(ran) : ran'[i] = ran[i]
          /\ ran'[Len(ran) + 1] = id
          /\ DOMAIN ran' = 1 .. Len(ran) + 1
          /\ DOMAIN ran = 1 .. Len(ran)
        BY <2>1, <2>4, <2>8
    <2>10. \A i \in DOMAIN ran' : ran'[i] \in Started'
        BY <2>6, <2>8, <2>9 DEF Once
    <2>11. \A i, j \in DOMAIN ran' : ran'[i] = ran'[j] => i = j
        BY <2>6, <2>8, <2>9 DEF Once
    <2> QED
        BY <2>1, <2>7, <2>8, <2>9, <2>10, <2>11 DEF Once
<1> QED
    BY <1>2, <1>3

LEMMA OnceStep == IShape /\ Once /\ [Next]_vars => Once'
<1> SUFFICES ASSUME IShape, Once, [Next]_vars PROVE Once'
    OBVIOUS
<1>1. CASE NextSubtask
    BY <1>1, NextOnce
<1>2. CASE SettleSubtask
    <2>1. current # None
        BY <1>2 DEF IShape, Shape, SettleSubtask, InHand
    <2>2. Started' = Started /\ ran' = ran /\ iterations' = iterations
        BY <1>2, <2>1 DEF SettleSubtask, Started
    <2> QED
        BY <2>2 DEF Once
<1>3. CASE (Next /\ ~NextSubtask /\ ~SettleSubtask) \/ UNCHANGED vars
    <2>1. UNCHANGED driverVars
        BY <1>3 DEF Next, Progress, Classify, Refuse, Admit, OpenEpisode,
           PlanFails, Plan, BuildContext, SpecialistAnswers,
           SpecialistRaises, RunTools, EvaluatePasses, EvaluateFails,
           Reflect, Finalize, ExtractMemories, CloseEpisode, Report,
           AgentRaises, Disconnect, Ended, vars
    <2> QED
        BY <2>1 DEF driverVars, Once, Started
<1> QED
    BY <1>1, <1>2, <1>3

LEMMA IdsCounted == TypeOK => IsFiniteSet(Ids) /\ Cardinality(Ids) = Len(order)
<1> SUFFICES ASSUME TypeOK PROVE IsFiniteSet(Ids) /\ Cardinality(Ids) = Len(order)
    OBVIOUS
<1>1. Len(order) \in Nat /\ Ids = 1 .. Len(order)
    BY DEF TypeOK, Ids
<1>2. (IF 1 > Len(order) THEN 0 ELSE Len(order) - 1 + 1) = Len(order)
    BY <1>1
<1>3. \A a, b \in Int : /\ IsFiniteSet(a .. b)
                         /\ Cardinality(a .. b) = IF a > b THEN 0 ELSE b - a + 1
    BY FS_Interval
<1>4. 1 \in Int /\ Len(order) \in Int
    BY <1>1
<1>5. IsFiniteSet(1 .. Len(order))
      /\ Cardinality(1 .. Len(order)) = IF 1 > Len(order) THEN 0 ELSE Len(order) - 1 + 1
    BY <1>3, <1>4, Zenon
<1> QED
    BY <1>1, <1>2, <1>5, Zenon

\* Every subtask driven is in the list, so the list bounds the run.
LEMMA DrivenBound ==
    ASSUME IShape, Once
    PROVE  /\ iterations <= Len(order)
           /\ Started # Ids => iterations < Len(order)
<1>1. Len(order) \in Nat /\ Ids = 1 .. Len(order) /\ iterations \in Nat
    BY DEF IShape, TypeOK, Ids
<1>2. Started \subseteq Ids
    BY DEF Started, IShape, TypeOK
<1>3. IsFiniteSet(Ids) /\ Cardinality(Ids) = Len(order)
    BY IdsCounted DEF IShape
<1>4. /\ Cardinality(Started) <= Cardinality(Ids)
      /\ Cardinality(Started) = Cardinality(Ids) => Started = Ids
    BY <1>2, <1>3, FS_Subset
<1> QED
    BY <1>1, <1>3, <1>4 DEF Once

LEMMA OnceImplies ==
    ASSUME IShape, BudgetConserved, Once
    PROVE  ProcessedOnce
<1>1. HasPlan => iterations <= planned + InsertionBudget
    BY DrivenBound, SettingsAssumption
    DEF BudgetConserved, IShape, TypeOK, InsertionBudget, Larger
<1> QED
    BY <1>1 DEF Once, ProcessedOnce

LEMMA CapImplies ==
    ASSUME IShape, BudgetConserved, Once
    PROVE  CapIsSlack
<1> SUFFICES ASSUME pc = "drive", Waiting # {}
             PROVE  iterations < MaxIterations
    BY DEF CapIsSlack
<1>1. HasPlan /\ current = None
    BY DEF HasPlan, IShape, Shape
<1>2. Started # Ids
    <2>1. PICK i \in Ids : order[i] \notin completed
        BY DEF Waiting
    <2>2. order[i] \in Ids
        <3>1. order \in Seq(Ids)
            BY DEF IShape, TypeOK
        <3> QED
            BY <3>1 DEF Ids
    <2> QED
        BY <1>1, <2>1, <2>2 DEF Started
<1>3. iterations < Len(order)
    BY <1>2, DrivenBound
<1>4. Len(order) <= planned + InsertionBudget
    BY <1>1, SettingsAssumption
    DEF BudgetConserved, IShape, TypeOK, InsertionBudget, Larger
<1>5. planned + InsertionBudget <= MaxIterations
    BY <1>1, SettingsAssumption
    DEF HasPlan, IShape, TypeOK, InsertionBudget, MaxIterations, Larger
<1> QED
    BY <1>3, <1>4, <1>5, SettingsAssumption
    DEF IShape, TypeOK, InsertionBudget, MaxIterations, Larger

\* No subtask is driven twice, and a run drives at most as many as its plan
\* holds and its insertion budget admits.
THEOREM AlwaysProcessedOnce == Spec => []ProcessedOnce
BY InitShape, ShapeStep, BudgetInit, BudgetStep, OnceInit, OnceStep,
   OnceImplies, PTL DEF Spec

\* The iteration cap of the driver never cuts a run short, whatever the
\* size of the plan and the depth.
THEOREM CapNeverReached == Spec => []CapIsSlack
BY InitShape, ShapeStep, BudgetInit, BudgetStep, OnceInit, OnceStep,
   CapImplies, PTL DEF Spec

-----------------------------------------------------------------------------
(* Layer 4: the streak of failures.                                        *)

\* The subtask in hand is the last one driven, and it has its verdict when
\* the driver settles it; the settled ones before it are not touched.
Streak ==
    /\ StreakIsTrailingFailures
    /\ current # None => Len(ran) > 0 /\ ran[Len(ran)] = current
    /\ pc = "settle" => state[current] \in {"passed", "failed"}

LEMMA StreakInit == Init => Streak
<1> SUFFICES ASSUME Init PROVE Streak
    OBVIOUS
<1>1. Settled = 0
    BY DEF Init, Settled
<1> QED
    BY <1>1, SettingsAssumption
    DEF Init, Streak, StreakIsTrailingFailures, Driving

\* A step that drives nothing, settles nothing and rewrites no settled
\* verdict.
LEMMA StreakFrame ==
    ASSUME IShape, Streak, UNCHANGED <<ran, current, streak>>,
           \A i \in 1 .. Settled : state'[ran[i]] = state[ran[i]],
           pc' \in Driving => pc \in Driving \/ streak < MaxConsecutiveFailures,
           pc' = "settle" => state'[current] \in {"passed", "failed"}
    PROVE  Streak'
<1>1. Settled' = Settled /\ Settled \in Int /\ streak \in Nat
    <2>1. Len(ran) \in Nat
        BY DEF IShape, TypeOK
    <2> QED
        BY <2>1 DEF Settled, IShape, TypeOK
<1>2. StreakIsTrailingFailures'
    BY <1>1 DEF Streak, StreakIsTrailingFailures
<1> QED
    BY <1>2 DEF Streak

\* A subtask settled is another than the one in hand.
LEMMA SettledOther ==
    ASSUME IShape, Once, Streak
    PROVE  /\ Settled \in 0 .. Len(ran)
           /\ \A i \in 1 .. Settled : ran[i] \in Ids /\ ran[i] # current
<1>1. ran \in Seq(Ids) /\ Len(ran) \in Nat /\ DOMAIN ran = 1 .. Len(ran)
    BY DEF IShape, TypeOK
<1>2. CASE current = None
    <2>1. None \notin Ids
        BY DEF Ids, None
    <2> QED
        BY <1>1, <1>2, <2>1 DEF Settled
<1>3. CASE current # None
    <2>1. Settled = Len(ran) - 1 /\ ran[Len(ran)] = current /\ Len(ran) > 0
        BY <1>3 DEF Streak, Settled
    <2> QED
        BY <1>1, <2>1 DEF Once
<1> QED
    BY <1>2, <1>3

LEMMA NextStreak == IShape /\ Once /\ Streak /\ NextSubtask => Streak'
<1> SUFFICES ASSUME IShape, Once, Streak, NextSubtask PROVE Streak'
    OBVIOUS
<1>1. current = None /\ pc = "drive"
    BY DEF IShape, Shape, NextSubtask
<1>2. CASE Waiting = {} \/ iterations >= MaxIterations
    BY <1>1, <1>2, StreakFrame
    DEF NextSubtask, StopDriving, driverVars, Driving
<1>3. CASE ~(Waiting = {} \/ iterations >= MaxIterations)
    <2> DEFINE id == order[First(Waiting)]
    <2>1. /\ current' = id /\ ran' = Append(ran, id) /\ streak' = streak
          /\ state' = [state EXCEPT ![id] = "running"] /\ pc' = "context"
        BY <1>3 DEF NextSubtask, StartSubtask
    <2>2. First(Waiting) \in Waiting
        BY <1>3, FirstFact DEF Waiting, Ids
    <2>3. id \notin completed
        BY <2>2 DEF Waiting
    <2>4. id \in Ids
        <3>1. First(Waiting) \in Ids
            BY <2>2 DEF Waiting
        <3>2. order \in Seq(Ids)
            BY DEF IShape, TypeOK
        <3> QED
            BY <3>1, <3>2 DEF Ids
    <2> HIDE DEF id
    <2>5. ran \in Seq(Ids) /\ Len(ran) \in Nat /\ streak \in Nat
        BY DEF IShape, TypeOK
    <2>6. /\ Len(ran') = Len(ran) + 1
          /\ \A i \in 1 .. Len(ran) : ran'[i] = ran[i]
          /\ ran'[Len(ran) + 1] = id
        BY <2>1, <2>4, <2>5
    <2>7. id # None
        BY <2>4 DEF Ids, None
    <2>8. Settled = Len(ran) /\ Settled' = Len(ran)
        BY <1>1, <2>1, <2>5, <2>6, <2>7 DEF Settled
    <2>9. \A i \in 1 .. Len(ran) : ran[i] \in completed
        BY <1>1, <2>5 DEF Once, Started
    <2>10. \A i \in 1 .. Len(ran) : state'[ran'[i]] = state[ran[i]]
        <3>1. state \in [Ids -> SubtaskStatus]
            BY DEF IShape, TypeOK
        <3> QED
            BY <2>1, <2>3, <2>5, <2>6, <2>9, <3>1
    <2>11. streak < MaxConsecutiveFailures
        BY <1>1 DEF Streak, StreakIsTrailingFailures, Driving
    <2>12. StreakIsTrailingFailures'
        <3>1. /\ streak <= Len(ran)
              /\ \A i \in Len(ran) - streak + 1 .. Len(ran) :
                   state[ran[i]] = "failed"
              /\ streak < Len(ran) => state[ran[Len(ran) - streak]] = "passed"
            BY <2>8 DEF Streak, StreakIsTrailingFailures
        <3>2. \A i \in Len(ran) - streak + 1 .. Len(ran) :
                state'[ran'[i]] = "failed"
            BY <2>5, <2>10, <3>1
        <3>3. streak < Len(ran) => state'[ran'[Len(ran) - streak]] = "passed"
            BY <2>5, <2>10, <3>1
        <3> QED
            BY <2>1, <2>8, <2>11, <3>1, <3>2, <3>3
            DEF StreakIsTrailingFailures
    <2> QED
        BY <2>1, <2>5, <2>6, <2>12 DEF Streak
<1> QED
    BY <1>2, <1>3

LEMMA SettleStreak == IShape /\ Once /\ Streak /\ SettleSubtask => Streak'
<1> SUFFICES ASSUME IShape, Once, Streak, SettleSubtask PROVE Streak'
    OBVIOUS
<1>1. current # None /\ pc = "settle"
    BY DEF IShape, Shape, SettleSubtask, InHand
<1>2. /\ current' = None /\ streak' = StreakAfter
      /\ UNCHANGED <<ran, state>>
    BY DEF SettleSubtask, subtaskVars
<1>3. Len(ran) \in Nat /\ streak \in Nat
    BY DEF IShape, TypeOK
<1>4. Settled = Len(ran) - 1 /\ Settled' = Len(ran) /\ Len(ran) > 0
    BY <1>1, <1>2 DEF Settled, Streak
<1>5. ran[Len(ran)] = current
    BY <1>1 DEF Streak
<1>6. pc' \in Driving => streak' < MaxConsecutiveFailures
    BY <1>2, <1>3, SettingsAssumption DEF SettleSubtask, Driving, StreakAfter
<1>7. CASE state[current] = "passed"
    BY <1>2, <1>3, <1>4, <1>5, <1>6, <1>7
    DEF StreakAfter, Streak, StreakIsTrailingFailures, SettleSubtask
<1>8. CASE state[current] = "failed"
    <2>1. streak' = streak + 1
        BY <1>2, <1>8 DEF StreakAfter
    <2>2. \A i \in Len(ran) - streak .. Len(ran) : state[ran[i]] = "failed"
        BY <1>3, <1>4, <1>5, <1>8 DEF Streak, StreakIsTrailingFailures
    <2> QED
        BY <1>2, <1>3, <1>4, <1>6, <2>1, <2>2
        DEF Streak, StreakIsTrailingFailures, SettleSubtask
<1> QED
    BY <1>1, <1>7, <1>8 DEF Streak

\* The steps that give the subtask in hand its verdict.
LEMMA VerdictStreak ==
    ASSUME IShape, Once, Streak,
           SpecialistRaises \/ EvaluatePasses \/ EvaluateFails
    PROVE  Streak'
<1>1. /\ UNCHANGED <<ran, current, streak>>
      /\ current \in Ids /\ pc \in Driving
    BY DEF SpecialistRaises, EvaluatePasses, EvaluateFails, driverVars,
           IShape, TypeOK, Shape, InHand, Driving
<1>2. state \in [Ids -> SubtaskStatus]
    BY DEF IShape, TypeOK
<1>3. /\ state' = state \/ \E s \in {"passed", "failed"} :
                             state' = [state EXCEPT ![current] = s]
      /\ pc' = "settle" => state'[current] \in {"passed", "failed"}
    BY <1>1, <1>2 DEF SpecialistRaises, EvaluatePasses, EvaluateFails
<1>4. \A i \in 1 .. Settled : state'[ran[i]] = state[ran[i]]
    BY <1>2, <1>3, SettledOther
<1> QED
    BY <1>1, <1>3, <1>4, StreakFrame

\* A reflection keeps the state of every subtask there was.
LEMMA ReflectStreak ==
    ASSUME IShape, Once, Streak, Reflect
    PROVE  Streak'
<1>1. PICK n \in Nat, p \in Ids : Reflected(n, p)
    BY ReflectFact
<1>2. Len(order) \in Nat /\ Ids = 1 .. Len(order)
    BY DEF IShape, TypeOK, Ids
<1>3. \A id \in Ids : state'[id] = state[id]
    BY <1>1, <1>2 DEF Reflected, Grown
<1>4. \A i \in 1 .. Settled : state'[ran[i]] = state[ran[i]]
    BY <1>3, SettledOther
<1> QED
    BY <1>4, StreakFrame DEF Reflect, driverVars, Driving

\* A plan is made before anything is driven.
LEMMA PlanStreak ==
    ASSUME IShape, Streak, Plan
    PROVE  Streak'
<1>1. ran = << >> /\ streak = 0 /\ current = None
    BY DEF IShape, Shape, Plan, BeforePlan
<1>2. Settled = 0
    BY <1>1 DEF Settled
<1> QED
    BY <1>1, <1>2, StreakFrame, SettingsAssumption DEF Plan, driverVars

LEMMA StreakStep ==
    IShape /\ Once /\ Streak /\ [Next]_vars => Streak'
<1> SUFFICES ASSUME IShape, Once, Streak, [Next]_vars PROVE Streak'
    OBVIOUS
<1>1. CASE Plan
    BY <1>1, PlanStreak
<1>2. CASE NextSubtask
    BY <1>2, NextStreak
<1>3. CASE SpecialistRaises \/ EvaluatePasses \/ EvaluateFails
    BY <1>3, VerdictStreak
<1>4. CASE Reflect
    BY <1>4, ReflectStreak
<1>5. CASE SettleSubtask
    BY <1>5, SettleStreak
<1>6. CASE \/ Classify \/ Refuse \/ Admit \/ OpenEpisode \/ PlanFails
           \/ BuildContext \/ SpecialistAnswers \/ RunTools
           \/ Finalize \/ ExtractMemories \/ CloseEpisode \/ Report
           \/ AgentRaises \/ Disconnect
    <2>1. UNCHANGED <<ran, current, streak, state>>
        BY <1>6 DEF Classify, Refuse, Admit, OpenEpisode, PlanFails,
           BuildContext, SpecialistAnswers, RunTools, Finalize,
           ExtractMemories, CloseEpisode, Report, AgentRaises, Disconnect,
           driverVars, subtaskVars
    <2>2. pc' # "settle" /\ (pc' \in Driving => pc \in Driving)
        BY <1>6 DEF Classify, Refuse, Admit, OpenEpisode, PlanFails,
           BuildContext, SpecialistAnswers, RunTools, Finalize,
           ExtractMemories, CloseEpisode, Report, AgentRaises, Disconnect,
           Driving
    <2> QED
        BY <2>1, <2>2, StreakFrame
<1>7. CASE Ended \/ UNCHANGED vars
    <2>1. UNCHANGED <<ran, current, streak, state, pc>>
        BY <1>7 DEF Ended, vars, driverVars, subtaskVars
    <2> QED
        BY <2>1 DEF Streak, StreakIsTrailingFailures, Settled
<1> QED
    BY <1>1, <1>2, <1>3, <1>4, <1>5, <1>6, <1>7 DEF Next, Progress

\* The streak is at every moment the number of failures since the last
\* pass, through retries and insertions, and a run that has reached its
\* limit of failures drives nothing more.
THEOREM StreakAlwaysTrailing == Spec => []StreakIsTrailingFailures
<1>1. Streak => StreakIsTrailingFailures
    BY DEF Streak
<1> QED
    BY <1>1, InitShape, ShapeStep, OnceInit, OnceStep, StreakInit,
       StreakStep, PTL DEF Spec

-----------------------------------------------------------------------------
(* Layer 5: the status and the work.                                       *)

\* No id is missing from the list.
Listed == \A id \in Ids : \E i \in Ids : order[i] = id

\* A completed subtask has its verdict, one not taken up has not begun.
Worked ==
    /\ \A id \in completed : state[id] \in {"passed", "failed"}
    /\ \A id \in Ids \ Started : state[id] = "pending"

StatusAt ==
    /\ pc = "classify" => status = "pending"
    /\ pc \in {"admit", "open_episode", "plan"} => status = "planning"
    /\ pc \in Driving \ {"reflect"} => status = "running"
    /\ pc = "reflect" => status = "reflecting"
    /\ pc = "finalize" => status \in {"running", "partial"}
    /\ pc \in {"memory", "close_episode", "report"} =>
         status \in {"success", "partial", "failed"}

\* Why the driver stopped: nothing waits, or the streak reached its limit.
\* The token count never rises, so its budget stops nothing.
Stopped ==
    /\ tokensUsed = 0
    /\ pc = "finalize" => IF status = "running" THEN Waiting = {}
                          ELSE streak >= MaxConsecutiveFailures

\* With a memory the episode is pending from its opening to its closing.
EpisodeAt ==
    /\ pc \in {"classify", "admit", "open_episode"} => episode = "none"
    /\ pc \in {"open_episode", "memory", "close_episode"} => withMemory
    /\ /\ withMemory
       /\ pc \in Driving \cup {"plan", "finalize", "memory", "close_episode"}
       => episode = "pending"

Work == Listed /\ Worked /\ StatusAt /\ Stopped /\ EpisodeAt
              /\ VerdictMatchesWork

\* The steps that touch neither the subtasks nor the driver's account of
\* them.
Quiet ==
    \/ Classify \/ Refuse \/ Admit \/ OpenEpisode \/ PlanFails
    \/ BuildContext \/ SpecialistAnswers \/ RunTools \/ Finalize
    \/ ExtractMemories \/ CloseEpisode \/ Report \/ AgentRaises
    \/ Disconnect \/ Ended \/ UNCHANGED vars

LEMMA QuietFact ==
    ASSUME Quiet
    PROVE  /\ UNCHANGED <<planned, order, state, attempts, asked,
                          insertionsRemaining, completed, current,
                          iterations, streak, ran, tokensUsed, withMemory>>
           /\ Ids' = Ids /\ Started' = Started /\ Waiting' = Waiting
<1>1. UNCHANGED <<planned, order, state, attempts, asked,
                  insertionsRemaining, completed, current,
                  iterations, streak, ran, tokensUsed, withMemory>>
    BY DEF Quiet, Classify, Refuse, Admit, OpenEpisode, PlanFails,
       BuildContext, SpecialistAnswers, RunTools, Finalize,
       ExtractMemories, CloseEpisode, Report, AgentRaises, Disconnect,
       Ended, vars, driverVars, subtaskVars, tokenVars
<1> QED
    BY <1>1 DEF Ids, Started, Waiting

LEMMA StepKinds ==
    ASSUME [Next]_vars
    PROVE  \/ Plan \/ NextSubtask \/ SpecialistRaises \/ EvaluatePasses
           \/ EvaluateFails \/ Reflect \/ SettleSubtask \/ Quiet
BY DEF Next, Progress, Quiet

\* The verdict of the subtask in hand changes no other subtask.
LEMMA VerdictFact ==
    ASSUME IShape, SpecialistRaises \/ EvaluatePasses \/ EvaluateFails
    PROVE  /\ UNCHANGED <<planned, order, attempts, asked,
                          insertionsRemaining, completed, current,
                          iterations, streak, ran, tokensUsed, withMemory>>
           /\ Ids' = Ids /\ Started' = Started /\ Waiting' = Waiting
           /\ current \in Ids /\ current \notin completed
           /\ \A id \in Ids : id # current => state'[id] = state[id]
<1>1. UNCHANGED <<planned, order, attempts, asked,
                  insertionsRemaining, completed, current,
                  iterations, streak, ran, tokensUsed, withMemory>>
    BY DEF SpecialistRaises, EvaluatePasses, EvaluateFails, driverVars,
       tokenVars
<1>2. current \in Ids /\ current \notin completed
    BY DEF SpecialistRaises, EvaluatePasses, EvaluateFails, IShape, TypeOK,
       Shape, InHand
<1>3. \/ state' = state
      \/ \E s \in SubtaskStatus : state' = [state EXCEPT ![current] = s]
    BY DEF SpecialistRaises, EvaluatePasses, EvaluateFails, SubtaskStatus
<1>4. \A id \in Ids : id # current => state'[id] = state[id]
    BY <1>3 DEF IShape, TypeOK
<1> QED
    BY <1>1, <1>2, <1>4 DEF Ids, Started, Waiting

\* The driver takes up a subtask that was neither completed nor in hand.
LEMMA StartFact ==
    ASSUME IShape, NextSubtask, ~(Waiting = {} \/ iterations >= MaxIterations)
    PROVE  \E id \in Ids :
             /\ id \notin Started /\ id # None
             /\ current' = id /\ completed' = completed
             /\ Started' = Started \cup {id}
             /\ state' = [state EXCEPT ![id] = "running"]
             /\ attempts' = [attempts EXCEPT ![id] = 1]
             /\ pc' = "context" /\ status' = status /\ streak' = streak
<1> DEFINE id == order[First(Waiting)]
<1>1. current = None
    BY DEF IShape, Shape, NextSubtask
<1>2. StartSubtask(id)
    BY DEF NextSubtask
<1>3. First(Waiting) \in Waiting
    BY FirstFact DEF Waiting, Ids
<1>4. id \in Ids /\ id \notin completed
    <2>1. First(Waiting) \in Ids /\ id \notin completed
        BY <1>3 DEF Waiting
    <2>2. order \in Seq(Ids)
        BY DEF IShape, TypeOK
    <2>3. order \in [Ids -> Ids]
        BY <2>2 DEF Ids
    <2> QED
        BY <2>1, <2>3
<1> HIDE DEF id
<1>5. id # None
    BY <1>4 DEF Ids, None
<1>6. id \notin Started /\ current' = id /\ completed' = completed
      /\ Started' = Started \cup {id}
    BY <1>1, <1>2, <1>4, <1>5 DEF StartSubtask, Started
<1> QED
    BY <1>2, <1>4, <1>5, <1>6 DEF StartSubtask

LEMMA ListedStep == IShape /\ Listed /\ [Next]_vars => Listed'
<1> SUFFICES ASSUME IShape, Listed, [Next]_vars PROVE Listed'
    OBVIOUS
<1>1. CASE Plan
    <2>1. PICK n \in 1 .. MaxPlan : order' = [i \in 1 .. n |-> i]
        BY <1>1 DEF Plan
    <2>2. Ids' = 1 .. n
        BY <2>1, BoundsAssumption DEF Ids
    <2> QED
        BY <2>1, <2>2 DEF Listed
<1>2. CASE Reflect
    <2>1. PICK n \in Nat, p \in Ids : Reflected(n, p)
        BY <1>2, ReflectFact
    <2> DEFINE m == Len(order)
    <2>2. m \in Nat /\ Ids = 1 .. m /\ p \in 1 .. m
        BY DEF IShape, TypeOK, Ids
    <2>3. /\ Ids' = 1 .. m + n
          /\ \A i \in 1 .. m + n :
               order'[i] = IF i < p THEN order[i]
                           ELSE IF i < p + n THEN m + (i - p + 1)
                           ELSE order[i - n]
        BY <2>1 DEF Reflected
    <2> HIDE DEF m
    <2>4. ASSUME NEW id \in 1 .. m + n
          PROVE  \E i \in 1 .. m + n : order'[i] = id
        <3>1. CASE id <= m
            <4>1. PICK i \in 1 .. m : order[i] = id
                <5>1. id \in Ids
                    BY <2>2, <3>1
                <5> QED
                    BY <2>2, <5>1 DEF Listed
            <4>2. CASE i < p
                BY <2>2, <2>3, <4>1, <4>2
            <4>3. CASE i >= p
                <5> DEFINE j == i + n
                <5>1. j \in 1 .. m + n /\ j - n = i /\ ~(j < p) /\ ~(j < p + n)
                    BY <2>2, <4>3
                <5> HIDE DEF j
                <5>2. order'[j] = order[j - n]
                    BY <2>3, <5>1
                <5> QED
                    BY <4>1, <5>1, <5>2
            <4> QED
                BY <2>2, <4>2, <4>3
        <3>2. CASE id > m
            <4> DEFINE j == p + (id - m) - 1
            <4>1. /\ j \in 1 .. m + n /\ ~(j < p) /\ j < p + n
                  /\ m + (j - p + 1) = id
                BY <2>2, <3>2
            <4> HIDE DEF j
            <4>2. order'[j] = m + (j - p + 1)
                BY <2>3, <4>1
            <4> QED
                BY <4>1, <4>2
        <3> QED
            BY <2>2, <3>1, <3>2
    <2> QED
        BY <2>3, <2>4 DEF Listed
<1>3. CASE ~Plan /\ ~Reflect
    <2>1. order' = order /\ Ids' = Ids
        BY <1>3, OtherList DEF vars, subtaskVars, Ids
    <2> QED
        BY <2>1 DEF Listed
<1> QED
    BY <1>1, <1>2, <1>3

LEMMA WorkedStep ==
    IShape /\ Streak /\ Worked /\ [Next]_vars => Worked'
<1> SUFFICES ASSUME IShape, Streak, Worked, [Next]_vars PROVE Worked'
    OBVIOUS
<1>1. CASE Plan
    <2>1. PICK n \in 1 .. MaxPlan :
            /\ order' = [i \in 1 .. n |-> i]
            /\ state' = [i \in 1 .. n |-> "pending"]
        BY <1>1 DEF Plan
    <2>2. Ids' = 1 .. n
        BY <2>1, BoundsAssumption DEF Ids
    <2>3. completed' = {}
        BY <1>1 DEF IShape, Shape, Plan, BeforePlan, driverVars
    <2> QED
        BY <2>1, <2>2, <2>3 DEF Worked
<1>2. CASE NextSubtask
    <2>1. Ids' = Ids
        BY <1>2 DEF NextSubtask, Ids
    <2>2. CASE Waiting = {} \/ iterations >= MaxIterations
        BY <1>2, <2>1, <2>2
        DEF NextSubtask, StopDriving, driverVars, Worked, Started
    <2>3. CASE ~(Waiting = {} \/ iterations >= MaxIterations)
        <3>1. PICK id \in Ids :
                /\ id \notin Started /\ completed' = completed
                /\ Started' = Started \cup {id}
                /\ state' = [state EXCEPT ![id] = "running"]
            BY <1>2, <2>3, StartFact
        <3>2. completed \subseteq Ids /\ completed \subseteq Started
              /\ state \in [Ids -> SubtaskStatus]
            BY DEF IShape, TypeOK, Started
        <3> QED
            BY <2>1, <3>1, <3>2 DEF Worked
    <2> QED
        BY <2>2, <2>3
<1>3. CASE SpecialistRaises \/ EvaluatePasses \/ EvaluateFails
    <2>1. /\ Ids' = Ids /\ Started' = Started /\ completed' = completed
          /\ current \in Ids /\ current \notin completed
          /\ \A id \in Ids : id # current => state'[id] = state[id]
        BY <1>3, VerdictFact
    <2>2. current \in Started /\ completed \subseteq Ids
        BY <2>1 DEF Started, Ids, None, IShape, TypeOK
    <2> QED
        BY <2>1, <2>2 DEF Worked
<1>4. CASE Reflect
    <2>1. PICK n \in Nat, p \in Ids : Reflected(n, p)
        BY <1>4, ReflectFact
    <2>2. Len(order) \in Nat /\ Ids = 1 .. Len(order)
        BY DEF IShape, TypeOK, Ids
    <2>3. /\ Ids' = 1 .. Len(order) + n
          /\ \A id \in Ids' : state'[id] = IF id \in Ids THEN state[id]
                                           ELSE "pending"
        BY <2>1, <2>2 DEF Reflected, Grown
    <2>4. completed' = completed /\ Started' = Started /\ completed \subseteq Ids
        BY <1>4 DEF Reflect, driverVars, Started, IShape, TypeOK
    <2>5. Ids \subseteq Ids'
        BY <2>2, <2>3
    <2> QED
        BY <2>3, <2>4, <2>5 DEF Worked
<1>5. CASE SettleSubtask
    <2>1. current # None /\ state[current] \in {"passed", "failed"}
        BY <1>5 DEF IShape, Shape, SettleSubtask, InHand, Streak
    <2>2. /\ state' = state /\ Ids' = Ids
          /\ completed' = completed \cup {current} /\ Started' = Started
        BY <1>5, <2>1 DEF SettleSubtask, subtaskVars, Ids, Started
    <2> QED
        BY <2>1, <2>2 DEF Worked
<1>6. CASE Quiet
    BY <1>6, QuietFact DEF Worked
<1> QED
    BY <1>1, <1>2, <1>3, <1>4, <1>5, <1>6, StepKinds

LEMMA FinalRange == FinalStatus \in {"success", "partial", "failed"}
BY DEF FinalStatus

LEMMA StatusStep == StatusAt /\ [Next]_vars => StatusAt'
<1> SUFFICES ASSUME StatusAt, [Next]_vars PROVE StatusAt'
    OBVIOUS
<1> USE DEF StatusAt, Driving
<1>1. CASE Plan \/ Classify \/ Refuse \/ Admit \/ OpenEpisode \/ PlanFails
    BY <1>1 DEF Plan, Classify, Refuse, Admit, OpenEpisode, PlanFails
<1>2. CASE NextSubtask
    BY <1>2 DEF NextSubtask, StopDriving, StartSubtask
<1>3. CASE \/ BuildContext \/ SpecialistAnswers \/ SpecialistRaises
           \/ RunTools \/ EvaluatePasses
    BY <1>3 DEF BuildContext, SpecialistAnswers, SpecialistRaises, RunTools,
                EvaluatePasses
<1>4. CASE EvaluateFails \/ Reflect \/ SettleSubtask
    BY <1>4 DEF EvaluateFails, Reflect, SettleSubtask
<1>5. CASE Finalize
    BY <1>5, FinalRange DEF Finalize
<1>6. CASE ExtractMemories \/ CloseEpisode \/ Report
    BY <1>6 DEF ExtractMemories, CloseEpisode, Report
<1>7. CASE AgentRaises \/ Disconnect
    BY <1>7 DEF AgentRaises, Disconnect
<1>8. CASE Ended \/ UNCHANGED vars
    BY <1>8 DEF Ended, vars
<1> QED
    BY <1>1, <1>2, <1>3, <1>4, <1>5, <1>6, <1>7, <1>8 DEF Next, Progress

\* The driver stops for one of two reasons only: CapIsSlack rules out the
\* third of the code, and a token count nobody raises the fourth.
LEMMA StoppedStep ==
    IShape /\ BudgetConserved /\ Once /\ StatusAt /\ Stopped /\ [Next]_vars
      => Stopped'
<1> SUFFICES ASSUME IShape, BudgetConserved, Once, StatusAt, Stopped,
                    [Next]_vars
             PROVE  Stopped'
    OBVIOUS
<1>1. CASE Plan \/ Reflect
    BY <1>1 DEF Plan, Reflect, Stopped, tokenVars
<1>2. CASE NextSubtask
    <2>1. pc = "drive" /\ status = "running" /\ tokensUsed' = tokensUsed
        BY <1>2 DEF NextSubtask, StatusAt, Driving, tokenVars
    <2>2. CASE Waiting = {}
        <3>1. Waiting' = {}
            BY <1>2, <2>2
            DEF NextSubtask, StopDriving, driverVars, Waiting, Ids
        <3> QED
            BY <1>2, <2>1, <2>2, <3>1 DEF NextSubtask, StopDriving, Stopped
    <2>3. CASE Waiting # {}
        <3>1. ~(iterations >= MaxIterations)
            <4>1. iterations < MaxIterations
                BY <2>1, <2>3, CapImplies DEF CapIsSlack
            <4>2. iterations \in Nat /\ MaxIterations \in Nat
                BY SettingsAssumption
                DEF IShape, TypeOK, MaxIterations, Larger
            <4> QED
                BY <4>1, <4>2
        <3> QED
            BY <1>2, <2>1, <2>3, <3>1
            DEF NextSubtask, StartSubtask, Stopped
    <2> QED
        BY <2>2, <2>3
<1>3. CASE SpecialistRaises \/ EvaluatePasses \/ EvaluateFails
    <2>1. pc' # "finalize" /\ tokensUsed' = tokensUsed
        BY <1>3 DEF SpecialistRaises, EvaluatePasses, EvaluateFails,
                    tokenVars
    <2> QED
        BY <2>1 DEF Stopped
<1>4. CASE SettleSubtask
    <2>1. ~(tokensUsed > TokenBudget)
        BY SettingsAssumption DEF Stopped
    <2> QED
        BY <1>4, <2>1 DEF SettleSubtask, Stopped, tokenVars
<1>5. CASE Quiet
    <2>1. pc' = "finalize" => pc = "finalize" /\ status' = status
        BY <1>5 DEF Quiet, Classify, Refuse, Admit, OpenEpisode, PlanFails,
           BuildContext, SpecialistAnswers, RunTools, Finalize,
           ExtractMemories, CloseEpisode, Report, AgentRaises, Disconnect,
           Ended, vars
    <2> QED
        BY <1>5, <2>1, QuietFact DEF Stopped
<1> QED
    BY <1>1, <1>2, <1>3, <1>4, <1>5, StepKinds

LEMMA EpisodeStep == EpisodeAt /\ TypeOK /\ [Next]_vars => EpisodeAt'
<1> SUFFICES ASSUME EpisodeAt, TypeOK, [Next]_vars PROVE EpisodeAt'
    OBVIOUS
<1> USE DEF EpisodeAt, Driving, outcomeVars
<1>1. CASE Plan \/ Classify \/ Refuse \/ Admit \/ OpenEpisode \/ PlanFails
    BY <1>1 DEF Plan, Classify, Refuse, Admit, OpenEpisode, PlanFails
<1>2. CASE NextSubtask
    BY <1>2 DEF NextSubtask, StopDriving, StartSubtask
<1>3. CASE \/ BuildContext \/ SpecialistAnswers \/ SpecialistRaises
           \/ RunTools \/ EvaluatePasses
    BY <1>3 DEF BuildContext, SpecialistAnswers, SpecialistRaises, RunTools,
                EvaluatePasses
<1>4. CASE EvaluateFails \/ Reflect \/ SettleSubtask
    BY <1>4 DEF EvaluateFails, Reflect, SettleSubtask
<1>5. CASE Finalize
    BY <1>5 DEF Finalize
<1>6. CASE ExtractMemories \/ CloseEpisode \/ Report
    BY <1>6 DEF ExtractMemories, CloseEpisode, Report
<1>7. CASE AgentRaises \/ Disconnect
    BY <1>7 DEF AgentRaises, Disconnect
<1>8. CASE Ended \/ UNCHANGED vars
    BY <1>8 DEF Ended, vars
<1> QED
    BY <1>1, <1>2, <1>3, <1>4, <1>5, <1>6, <1>7, <1>8 DEF Next, Progress

\* What FinalStatus says when every subtask was tried.
LEMMA FinalFact ==
    ASSUME IShape, Listed, Worked, Waiting = {}
    PROVE  /\ (FinalStatus = "success") <=> (IdsIn("passed") = Ids)
           /\ IdsIn("passed") \cup IdsIn("failed") = Ids
           /\ FinalStatus = "failed" =>
                \/ IdsIn("passed") = {}
                \/ Cardinality(IdsIn("passed")) < Cardinality(IdsIn("failed"))
<1> DEFINE P == IdsIn("passed")
           F == IdsIn("failed")
<1>1. completed = Ids
    BY DEF Waiting, Listed, IShape, TypeOK
<1>2. P \cup F = Ids /\ P \cap F = {}
    BY <1>1 DEF Worked, IdsIn
<1>3. IsFiniteSet(Ids) /\ Cardinality(Ids) = Len(order)
    BY IdsCounted DEF IShape
<1>4. /\ IsFiniteSet(P) /\ IsFiniteSet(F)
      /\ Cardinality(P) = Cardinality(Ids) => P = Ids
    BY <1>2, <1>3, FS_Subset
<1>5. /\ Cardinality(P) \in Nat /\ Cardinality(F) \in Nat
      /\ Cardinality(P) = 0 <=> P = {}
      /\ Cardinality(F) = 0 <=> F = {}
    BY <1>4, FS_CardinalityType, FS_EmptySet
<1> HIDE DEF P, F
<1>6. FinalStatus = IF Cardinality(F) = 0 /\ Cardinality(P) = Len(order)
                      THEN "success"
                    ELSE IF Cardinality(P) > 0 /\ Cardinality(P) >= Cardinality(F)
                      THEN "partial" ELSE "failed"
    BY DEF FinalStatus, P, F
<1>7. FinalStatus = "success" <=> P = Ids
    BY <1>2, <1>3, <1>4, <1>5, <1>6
<1>8. FinalStatus = "failed" => P = {} \/ Cardinality(P) < Cardinality(F)
    BY <1>5, <1>6
<1> QED
    BY <1>2, <1>7, <1>8 DEF P, F

\* A run the streak aborted ended with a failure.
LEMMA AbortFact ==
    ASSUME IShape, Streak, streak >= MaxConsecutiveFailures, current = None
    PROVE  IdsIn("passed") # Ids
<1>1. Settled = Len(ran) /\ streak \in Nat /\ Len(ran) \in Nat /\ streak >= 1
    BY SettingsAssumption DEF Settled, IShape, TypeOK
<1>2. Len(ran) \in Settled - streak + 1 .. Settled /\ Len(ran) >= 1
    BY <1>1 DEF Streak, StreakIsTrailingFailures
<1>3. state[ran[Len(ran)]] = "failed"
    BY <1>2 DEF Streak, StreakIsTrailingFailures
<1>4. ran[Len(ran)] \in Ids
    BY <1>1, <1>2 DEF IShape, TypeOK
<1> QED
    BY <1>3, <1>4 DEF IdsIn

LEMMA VerdictStep ==
    IShape /\ Streak /\ Listed /\ Worked /\ StatusAt /\ Stopped
      /\ VerdictMatchesWork /\ [Next]_vars => VerdictMatchesWork'
<1> SUFFICES ASSUME IShape, Streak, Listed, Worked, StatusAt, Stopped,
                    VerdictMatchesWork, [Next]_vars
             PROVE  VerdictMatchesWork'
    OBVIOUS
<1>1. CASE Finalize
    <2>1. /\ pc = "finalize" /\ status \in {"running", "partial"}
          /\ status' = IF status \in {"partial", "failed"} THEN status
                       ELSE FinalStatus
          /\ current = None
        BY <1>1 DEF Finalize, StatusAt, IShape, Shape, Ending
    <2>2. /\ Ids' = Ids /\ Waiting' = Waiting /\ streak' = streak
          /\ state' = state
        BY <1>1, QuietFact DEF Quiet
    <2>3. \A s : IdsIn(s)' = IdsIn(s)
        BY <2>2 DEF IdsIn
    <2>4. CASE status = "running"
        BY <2>1, <2>2, <2>3, <2>4, FinalFact
        DEF Stopped, VerdictMatchesWork
    <2>5. CASE status = "partial"
        BY <2>1, <2>2, <2>3, <2>5, AbortFact
        DEF Stopped, VerdictMatchesWork
    <2> QED
        BY <2>1, <2>4, <2>5
<1>2. CASE Quiet /\ ~Finalize
    <2>1. /\ Ids' = Ids /\ Waiting' = Waiting /\ streak' = streak
          /\ state' = state /\ planned' = planned
        BY <1>2, QuietFact
    <2>2. \A s : IdsIn(s)' = IdsIn(s)
        BY <2>1 DEF IdsIn
    <2>3. pc' \in {"memory", "close_episode", "report"}
            \/ (pc' = "done" /\ HasPlan')
          => /\ status' = status
             /\ pc \in {"memory", "close_episode", "report"}
                  \/ (pc = "done" /\ HasPlan)
        BY <1>2, <2>1 DEF Quiet, Classify, Refuse, Admit, OpenEpisode,
           PlanFails, BuildContext, SpecialistAnswers, RunTools,
           ExtractMemories, CloseEpisode, Report, AgentRaises, Disconnect,
           Ended, vars, HasPlan, IShape, Shape, BeforePlan
    <2> QED
        BY <2>1, <2>2, <2>3 DEF VerdictMatchesWork
<1>3. CASE \/ Plan \/ NextSubtask \/ SpecialistRaises \/ EvaluatePasses
           \/ EvaluateFails \/ Reflect \/ SettleSubtask
    <2>1. pc' \in Driving \cup {"finalize"}
        BY <1>3 DEF Plan, NextSubtask, StopDriving, StartSubtask,
           SpecialistRaises, EvaluatePasses, EvaluateFails, Reflect,
           SettleSubtask, Driving
    <2> QED
        BY <2>1 DEF VerdictMatchesWork, Driving
<1> QED
    BY <1>1, <1>2, <1>3, StepKinds

LEMMA WorkInit == Init => Work
<1> SUFFICES ASSUME Init PROVE Work
    OBVIOUS
<1>1. Ids = {} /\ Started = {}
    BY DEF Init, Ids, Started
<1>2. Listed /\ Worked /\ StatusAt /\ Stopped /\ EpisodeAt
    BY <1>1 DEF Init, Listed, Worked, StatusAt, Stopped, EpisodeAt, Driving
<1>3. VerdictMatchesWork
    BY DEF Init, VerdictMatchesWork
<1> QED
    BY <1>2, <1>3 DEF Work

IInv == IShape /\ BudgetConserved /\ Once /\ Streak /\ Work

LEMMA InvInit == Init => IInv
BY InitShape, BudgetInit, OnceInit, StreakInit, WorkInit DEF IInv

LEMMA InvStep == IInv /\ [Next]_vars => IInv'
<1> SUFFICES ASSUME IInv, [Next]_vars PROVE IInv'
    OBVIOUS
<1> USE DEF IInv, Work
<1>1. IShape' /\ BudgetConserved' /\ Once' /\ Streak'
    BY ShapeStep, BudgetStep, OnceStep, StreakStep
<1>2. Listed' /\ Worked'
    BY ListedStep, WorkedStep
<1>3. StatusAt' /\ Stopped' /\ EpisodeAt'
    BY StatusStep, StoppedStep, EpisodeStep DEF IShape
<1>4. VerdictMatchesWork'
    BY VerdictStep
<1> QED
    BY <1>1, <1>2, <1>3, <1>4

LEMMA Invariant == Spec => []IInv
BY InvInit, InvStep, PTL DEF Spec

\* What the client reads at the end is what was done: success exactly when
\* every subtask passed, failure only when all were tried and the failures
\* prevail, and work left undone only by a run the streak aborted, whatever
\* the agents answer and however often the list grows.
THEOREM VerdictAlwaysMatches == Spec => []VerdictMatchesWork
<1>1. IInv => VerdictMatchesWork
    BY DEF IInv, Work
<1> QED
    BY <1>1, Invariant, PTL

-----------------------------------------------------------------------------
(* What a step never does to settled work.                                 *)

\* The positions of two subtasks in the new list, in the order of the old.
KeepsOrder ==
    \A i, j \in Ids : i < j =>
        \E k, l \in DOMAIN order' : /\ k < l
                                    /\ order'[k] = order[i]
                                    /\ order'[l] = order[j]
KeepsSettled ==
    \A id \in completed : state'[id] = state[id] /\ attempts'[id] = attempts[id]

LEMMA SameOrder == TypeOK /\ order' = order => KeepsOrder
<1> SUFFICES ASSUME TypeOK, order' = order PROVE KeepsOrder
    OBVIOUS
<1>1. DOMAIN order' = Ids
    BY DEF TypeOK, Ids
<1> QED
    BY <1>1 DEF KeepsOrder

\* An insertion moves the subtasks behind it by the same distance.
LEMMA ReflectOrder == IShape /\ Reflect => KeepsOrder
<1> SUFFICES ASSUME IShape, Reflect PROVE KeepsOrder
    OBVIOUS
<1>1. PICK n \in Nat, p \in Ids : Reflected(n, p)
    BY ReflectFact
<1> DEFINE m == Len(order)
           To(i) == IF i < p THEN i ELSE i + n
<1>2. m \in Nat /\ Ids = 1 .. m /\ p \in 1 .. m
    BY DEF IShape, TypeOK, Ids
<1>3. /\ Len(order') = m + n /\ order' \in Seq(1 .. m + n)
      /\ \A i \in 1 .. m + n :
           order'[i] = IF i < p THEN order[i]
                       ELSE IF i < p + n THEN m + (i - p + 1)
                       ELSE order[i - n]
    BY <1>1 DEF Reflected
<1>4. DOMAIN order' = 1 .. m + n
    BY <1>3
<1> HIDE DEF m
<1>5. ASSUME NEW i \in 1 .. m
      PROVE  To(i) \in 1 .. m + n /\ order'[To(i)] = order[i]
    <2>1. CASE i < p
        <3>1. To(i) = i /\ i \in 1 .. m + n
            BY <1>2, <2>1
        <3> QED
            BY <1>3, <2>1, <3>1
    <2>2. CASE i >= p
        <3>1. /\ To(i) = i + n /\ i + n \in 1 .. m + n /\ i + n - n = i
              /\ ~(i + n < p) /\ ~(i + n < p + n)
            BY <1>2, <2>2
        <3> QED
            BY <1>3, <3>1
    <2> QED
        BY <1>2, <2>1, <2>2
<1>6. \A i, j \in 1 .. m : i < j => To(i) < To(j)
    BY <1>2
<1> HIDE DEF To
<1> QED
    BY <1>2, <1>4, <1>5, <1>6 DEF KeepsOrder

LEMMA SettledStep ==
    IShape /\ [Next]_vars => KeepsSettled /\ KeepsOrder
<1> SUFFICES ASSUME IShape, [Next]_vars PROVE KeepsSettled /\ KeepsOrder
    OBVIOUS
<1>1. CASE Plan
    <2>1. completed = {} /\ Ids = {}
        BY <1>1 DEF IShape, Shape, Plan, BeforePlan, Ids
    <2> QED
        BY <2>1 DEF KeepsSettled, KeepsOrder
<1>2. CASE Reflect
    <2>1. PICK n \in Nat, p \in Ids : Reflected(n, p)
        BY <1>2, ReflectFact
    <2>2. Len(order) \in Nat /\ Ids = 1 .. Len(order)
        BY DEF IShape, TypeOK, Ids
    <2>3. current \in Ids /\ current \notin completed /\ completed \subseteq Ids
          /\ attempts \in [Ids -> Nat]
        BY <1>2 DEF Reflect, IShape, TypeOK, Shape, InHand
    <2>4. \A id \in Ids : state'[id] = state[id]
        BY <2>1, <2>2 DEF Reflected, Grown
    <2>5. \A id \in Ids : id # current => attempts'[id] = attempts[id]
        <3> DEFINE old == [attempts EXCEPT ![current] = @ + 1]
        <3>1. attempts' = Grown(old, n, 0)
            BY <2>1 DEF Reflected
        <3>2. \A id \in Ids : id # current => old[id] = attempts[id]
            BY <2>3
        <3> HIDE DEF old
        <3>3. \A id \in Ids : attempts'[id] = old[id]
            BY <2>2, <3>1 DEF Grown
        <3> QED
            BY <3>2, <3>3
    <2> QED
        BY <1>2, <2>3, <2>4, <2>5, ReflectOrder DEF KeepsSettled
<1>3. CASE NextSubtask
    <2>1. order' = order
        BY <1>3 DEF NextSubtask
    <2>2. KeepsOrder
        BY <2>1, SameOrder DEF IShape
    <2>3. CASE Waiting = {} \/ iterations >= MaxIterations
        BY <1>3, <2>2, <2>3 DEF NextSubtask, StopDriving, KeepsSettled
    <2>4. CASE ~(Waiting = {} \/ iterations >= MaxIterations)
        <3>1. PICK id \in Ids :
                /\ id \notin Started
                /\ state' = [state EXCEPT ![id] = "running"]
                /\ attempts' = [attempts EXCEPT ![id] = 1]
            BY <1>3, <2>4, StartFact
        <3>2. id \notin completed /\ completed \subseteq Ids
              /\ state \in [Ids -> SubtaskStatus] /\ attempts \in [Ids -> Nat]
            BY <3>1 DEF Started, IShape, TypeOK
        <3> QED
            BY <2>2, <3>1, <3>2 DEF KeepsSettled
    <2> QED
        BY <2>3, <2>4
<1>4. CASE SpecialistRaises \/ EvaluatePasses \/ EvaluateFails
    BY <1>4, VerdictFact, SameOrder DEF KeepsSettled, IShape, TypeOK
<1>5. CASE SettleSubtask
    BY <1>5, SameOrder DEF SettleSubtask, subtaskVars, KeepsSettled, IShape
<1>6. CASE Quiet
    BY <1>6, QuietFact, SameOrder DEF KeepsSettled, IShape
<1> QED
    BY <1>1, <1>2, <1>3, <1>4, <1>5, <1>6, StepKinds

\* Neither a retry nor an insertion rewrites a verdict or an attempt of a
\* settled subtask, and the list keeps the relative order of what it holds.
THEOREM SettledAlwaysStays == Spec => SettledStays
<1>1. IInv /\ [Next]_vars =>
        [/\ \A id \in completed : state'[id] = state[id]
                                   /\ attempts'[id] = attempts[id]
         /\ \A i, j \in Ids : i < j =>
              \E k, l \in DOMAIN order' : /\ k < l
                                          /\ order'[k] = order[i]
                                          /\ order'[l] = order[j]]_vars
    BY SettledStep DEF IInv, KeepsSettled, KeepsOrder
<1> QED
    BY <1>1, Invariant, PTL DEF Spec, SettledStays

-----------------------------------------------------------------------------
(* The refinement of RunContract.                                          *)

LEMMA ContractInit == Init => Contract!Init
BY DEF Init, Contract!Init, Stage, Verdict, Driving

\* Driving the subtasks, the memory writes and the end of a run that is
\* over are invisible.
LEMMA StutterStep ==
    ASSUME IInv,
           \/ Classify \/ NextSubtask \/ BuildContext \/ SpecialistAnswers
           \/ SpecialistRaises \/ RunTools \/ EvaluatePasses
           \/ EvaluateFails \/ Reflect \/ SettleSubtask \/ ExtractMemories
           \/ Ended \/ UNCHANGED vars
    PROVE  UNCHANGED Contract!vars
<1>1. UNCHANGED <<episode, vote>>
    BY DEF Classify, NextSubtask, BuildContext, SpecialistAnswers,
       SpecialistRaises, RunTools, EvaluatePasses, EvaluateFails, Reflect,
       SettleSubtask, ExtractMemories, Ended, vars, outcomeVars
<1>2. Stage' = Stage /\ Verdict' = Verdict
    <2>1. CASE Classify
        BY <2>1 DEF Classify, Stage, Verdict, Driving
    <2>2. CASE \/ NextSubtask \/ BuildContext \/ SpecialistAnswers
               \/ SpecialistRaises \/ RunTools \/ EvaluatePasses
               \/ EvaluateFails \/ Reflect \/ SettleSubtask
        <3>1. pc \in Driving /\ pc' \in Driving \cup {"finalize"}
            BY <2>2 DEF NextSubtask, StopDriving, StartSubtask, BuildContext,
               SpecialistAnswers, SpecialistRaises, RunTools, EvaluatePasses,
               EvaluateFails, Reflect, SettleSubtask, Driving
        <3> QED
            BY <3>1 DEF Stage, Verdict, Driving
    <2>3. CASE ExtractMemories
        BY <2>3 DEF ExtractMemories, Stage, Verdict, Driving
    <2>4. CASE Ended \/ UNCHANGED vars
        BY <2>4 DEF Ended, vars, Stage, Verdict
    <2> QED
        BY <2>1, <2>2, <2>3, <2>4
<1> QED
    BY <1>1, <1>2 DEF Contract!vars

LEMMA ContractStep == IInv /\ [Next]_vars => [Contract!Next]_(Contract!vars)
<1> SUFFICES ASSUME IInv, [Next]_vars PROVE Contract!Next \/ UNCHANGED Contract!vars
    OBVIOUS
<1> USE DEF Stage, Verdict, Driving, outcomeVars, Contract!Next, Contract!vars
<1>1. CASE Refuse
    BY <1>1 DEF Refuse, Contract!Refuse
<1>2. CASE Admit
    BY <1>2 DEF Admit, Contract!Begin
<1>3. CASE OpenEpisode
    BY <1>3 DEF OpenEpisode, Contract!OpenEpisode, IInv, Work, EpisodeAt
<1>4. CASE PlanFails
    BY <1>4 DEF PlanFails, Contract!PlanFails
<1>5. CASE Plan
    BY <1>5 DEF Plan, Contract!Accept
<1>6. CASE Finalize
    <2>1. status' \in {"success", "partial", "failed"}
        BY <1>6, FinalRange DEF Finalize
    <2> QED
        BY <1>6, <2>1 DEF Finalize, Contract!Conclude
<1>7. CASE CloseEpisode
    <2>1. episode = "pending"
        BY <1>7 DEF CloseEpisode, IInv, Work, EpisodeAt
    <2> QED
        BY <1>7, <2>1
        DEF CloseEpisode, OutcomeFor, Contract!CloseEpisode,
            Contract!EpisodeOutcome
<1>8. CASE Report
    BY <1>8 DEF Report, Contract!Report, Contract!VoteFor
<1>9. CASE AgentRaises
    BY <1>9 DEF AgentRaises, Contract!Lose
<1>10. CASE Disconnect
    <2>1. Stage \notin {"closed", "lost"}
        BY <1>10 DEF Disconnect, Closed, IInv, IShape, TypeOK
    <2>2. Stage' = "lost"
        BY <1>10 DEF Disconnect
    <2> QED
        BY <1>10, <2>1, <2>2 DEF Disconnect, Contract!Lose
<1> QED
    BY <1>1, <1>2, <1>3, <1>4, <1>5, <1>6, <1>7, <1>8, <1>9, <1>10,
       StutterStep DEF Next, Progress

\* The client, the episode row and the breaker see a run that keeps its
\* contract: every step of the driver is a step of RunContract or is
\* invisible to them.
THEOREM RunImplementsContract == Spec => ImplementsContract
BY ContractInit, ContractStep, Invariant, PTL
DEF Spec, ImplementsContract, Contract!Spec
-----------------------------------------------------------------------------
(* The way to the end.  That a run ends needs fairness and is TLC's; that  *)
(* nothing the agents answer can keep it going is a matter of safety: every*)
(* step leaves less to do, in an order that has no infinite descent.       *)

\* No subtask is tried more often than its plan and the depth allow, and a
\* reflection is asked for only while an attempt is left.
AttemptsBounded == \A id \in Ids : attempts[id] <= AttemptLimit(id)
AttemptLeft     == pc = "reflect" => attempts[current] < AttemptLimit(current)
Attempts        == AttemptsBounded /\ AttemptLeft

\* What a run still has before it, the coarsest count first: its phases, the
\* subtasks it may yet drive, the attempts the one in hand may yet start,
\* and the awaits of this attempt.
Phases == CASE pc = "classify"      -> 9
            [] pc = "admit"         -> 8
            [] pc = "open_episode"  -> 7
            [] pc = "plan"          -> 6
            [] pc \in Driving       -> 5
            [] pc = "finalize"      -> 4
            [] pc = "memory"        -> 3
            [] pc = "close_episode" -> 2
            [] pc = "report"        -> 1
            [] OTHER                -> 0
ToDrive == planned + InsertionBudget - iterations
ToTry   == IF pc \in InHand \ {"settle"}
           THEN AttemptLimit(current) - attempts[current]
           ELSE 0
Awaits  == CASE pc = "context"    -> 6
             [] pc = "specialist" -> 5
             [] pc = "tools"      -> 4
             [] pc = "evaluate"   -> 3
             [] pc = "reflect"    -> 2
             [] pc = "settle"     -> 1
             [] OTHER             -> 0

CountsAreNatural ==
    Phases \in Nat /\ ToDrive \in Nat /\ ToTry \in Nat /\ Awaits \in Nat

\* The four counts fall in their lexicographic order.
Descends ==
    \/ Phases' < Phases
    \/ /\ Phases' = Phases
       /\ \/ ToDrive' < ToDrive
          \/ /\ ToDrive' = ToDrive
             /\ \/ ToTry' < ToTry
                \/ ToTry' = ToTry /\ Awaits' < Awaits

\* Whatever a planner asks for, a subtask has at least one attempt.
LEMMA LimitFact ==
    ASSUME TypeOK, NEW id \in Ids
    PROVE  AttemptLimit(id) \in Nat /\ AttemptLimit(id) >= 1
<1>1. asked[id] \in Int
    BY DEF TypeOK
<1> QED
    BY <1>1, SettingsAssumption DEF AttemptLimit, Larger, Smaller

\* A reflection costs the subtask in hand an attempt, leaves those of the
\* others and changes no limit.
LEMMA ReflectAttempts ==
    ASSUME IShape, Reflect
    PROVE  /\ current \in Ids /\ Ids \subseteq Ids'
           /\ attempts'[current] = attempts[current] + 1
           /\ \A id \in Ids : /\ id # current => attempts'[id] = attempts[id]
                              /\ AttemptLimit(id)' = AttemptLimit(id)
           /\ \A id \in Ids' \ Ids : attempts'[id] = 0
<1>1. PICK n \in Nat, p \in Ids : Reflected(n, p)
    BY ReflectFact
<1>2. Len(order) \in Nat /\ Ids = 1 .. Len(order)
    BY DEF IShape, TypeOK, Ids
<1>3. Ids' = 1 .. Len(order) + n
    BY <1>1 DEF Reflected
<1>4. Ids \subseteq Ids'
    BY <1>2, <1>3
<1>5. current \in Ids
    BY DEF Reflect, IShape, TypeOK, Shape, InHand
<1>6. attempts \in [Ids -> Nat]
    BY DEF IShape, TypeOK
<1>7. /\ attempts' = [i \in Ids' |->
                        IF i \in Ids THEN [attempts EXCEPT ![current] = @ + 1][i]
                        ELSE 0]
      /\ asked' = [i \in Ids' |-> IF i \in Ids THEN asked[i]
                                  ELSE DefaultAttempts]
    BY <1>1, <1>3 DEF Reflected, Grown
<1>8. \A id \in Ids : asked'[id] = asked[id]
    BY <1>4, <1>7
<1> QED
    BY <1>4, <1>5, <1>6, <1>7, <1>8 DEF AttemptLimit

LEMMA AttemptsStep ==
    IShape /\ Once /\ Attempts /\ [Next]_vars => Attempts'
<1> SUFFICES ASSUME IShape, Once, Attempts, [Next]_vars PROVE Attempts'
    OBVIOUS
<1> USE DEF Attempts, AttemptsBounded, AttemptLeft
<1>1. CASE Plan
    <2>1. PICK n \in 1 .. MaxPlan :
            /\ order' = [i \in 1 .. n |-> i]
            /\ attempts' = [i \in 1 .. n |-> 0]
        BY <1>1 DEF Plan
    <2>2. Ids' = 1 .. n
        BY <2>1, BoundsAssumption DEF Ids
    <2>3. \A id \in Ids' : AttemptLimit(id)' \in Nat
        <3>1. TypeOK'
            BY ShapeStep DEF IShape
        <3>2. TypeOK' => \A id \in Ids' : asked'[id] \in Int
            BY DEF TypeOK
        <3> QED
            BY <3>1, <3>2, SettingsAssumption
            DEF AttemptLimit, Larger, Smaller
    <2> QED
        BY <1>1, <2>1, <2>2, <2>3 DEF Plan
<1>2. CASE NextSubtask
    <2>1. Ids' = Ids /\ asked' = asked
        BY <1>2 DEF NextSubtask, Ids
    <2>2. \A id \in Ids : AttemptLimit(id)' = AttemptLimit(id)
        BY <2>1 DEF AttemptLimit
    <2>3. CASE Waiting = {} \/ iterations >= MaxIterations
        BY <1>2, <2>1, <2>2, <2>3 DEF NextSubtask, StopDriving
    <2>4. CASE ~(Waiting = {} \/ iterations >= MaxIterations)
        <3>1. PICK id \in Ids : /\ attempts' = [attempts EXCEPT ![id] = 1]
                                /\ pc' = "context"
            BY <1>2, <2>4, StartFact
        <3>2. AttemptLimit(id) >= 1
            BY LimitFact DEF IShape
        <3> QED
            BY <2>1, <2>2, <3>1, <3>2 DEF IShape, TypeOK
    <2> QED
        BY <2>3, <2>4
<1>3. CASE SpecialistRaises \/ EvaluatePasses \/ EvaluateFails
    <2>1. UNCHANGED <<attempts, asked, current>> /\ Ids' = Ids
        BY <1>3, VerdictFact
    <2>2. pc' = "reflect" => attempts[current] < AttemptLimit(current)
        BY <1>3 DEF SpecialistRaises, EvaluatePasses, EvaluateFails
    <2> QED
        BY <2>1, <2>2 DEF AttemptLimit
<1>4. CASE Reflect
    <2>1. /\ current \in Ids
          /\ attempts'[current] = attempts[current] + 1
          /\ \A id \in Ids : /\ id # current => attempts'[id] = attempts[id]
                             /\ AttemptLimit(id)' = AttemptLimit(id)
          /\ \A id \in Ids' \ Ids : attempts'[id] = 0
        BY <1>4, ReflectAttempts
    <2>2. pc = "reflect" /\ pc' = "context"
        BY <1>4 DEF Reflect
    <2>3. AttemptLimit(current) \in Nat /\ attempts[current] \in Nat
        BY <2>1, LimitFact DEF IShape, TypeOK
    <2>4. \A id \in Ids' \ Ids : attempts'[id] <= AttemptLimit(id)'
        <3>1. TypeOK'
            BY ShapeStep DEF IShape
        <3>2. TypeOK' => \A id \in Ids' : asked'[id] \in Int
            BY DEF TypeOK
        <3>3. \A id \in Ids' : AttemptLimit(id)' >= 0
            BY <3>1, <3>2, SettingsAssumption
            DEF AttemptLimit, Larger, Smaller
        <3> QED
            BY <2>1, <3>3
    <2> QED
        BY <2>1, <2>2, <2>3, <2>4
<1>5. CASE SettleSubtask
    BY <1>5 DEF SettleSubtask, subtaskVars, Ids, AttemptLimit
<1>6. CASE Quiet
    <2>1. UNCHANGED <<attempts, asked, current>> /\ Ids' = Ids
        BY <1>6, QuietFact
    <2>2. pc' = "reflect" => pc = "reflect"
        BY <1>6 DEF Quiet, Classify, Refuse, Admit, OpenEpisode, PlanFails,
           BuildContext, SpecialistAnswers, RunTools, Finalize,
           ExtractMemories, CloseEpisode, Report, AgentRaises, Disconnect,
           Ended, vars
    <2> QED
        BY <2>1, <2>2 DEF AttemptLimit
<1> QED
    BY <1>1, <1>2, <1>3, <1>4, <1>5, <1>6, StepKinds

LEMMA AttemptsInvariant == Spec => [](IInv /\ Attempts)
<1>1. Init => Attempts
    BY DEF Init, Attempts, AttemptsBounded, AttemptLeft, Ids
<1>2. IInv /\ Attempts /\ [Next]_vars => Attempts'
    BY AttemptsStep DEF IInv
<1> QED
    BY <1>1, <1>2, Invariant, PTL DEF Spec

\* Whatever the planner asks for, the evaluator answers and the reflector
\* inserts, no subtask is tried more often than its plan and the depth
\* allow.
THEOREM AttemptsAlwaysBounded == Spec => []AttemptsBounded
<1>1. IInv /\ Attempts => AttemptsBounded
    BY DEF Attempts
<1> QED
    BY <1>1, AttemptsInvariant, PTL

LEMMA CountsFact ==
    ASSUME IInv, Attempts
    PROVE  CountsAreNatural
<1>1. Phases \in Nat
    BY DEF Phases
<1>2. Awaits \in Nat
    BY DEF Awaits
<1>3. ToDrive \in Nat
    <2>1. TypeOK /\ ProcessedOnce
        BY OnceImplies DEF IInv, IShape
    <2>2. planned \in Nat /\ iterations \in Nat /\ InsertionBudget \in Nat
        BY <2>1, SettingsAssumption DEF TypeOK, InsertionBudget, Larger
    <2>3. CASE planned = 0
        BY <2>2, <2>3 DEF ToDrive, IInv, IShape, Shape
    <2>4. CASE planned > 0
        BY <2>1, <2>2, <2>4 DEF ToDrive, ProcessedOnce, HasPlan
    <2> QED
        BY <2>2, <2>3, <2>4
<1>4. ToTry \in Nat
    <2>1. CASE pc \in InHand
        <3>1. current \in Ids
            BY <2>1 DEF IInv, IShape, TypeOK, Shape
        <3>2. attempts[current] \in Nat /\ AttemptLimit(current) \in Nat
              /\ attempts[current] <= AttemptLimit(current)
            BY <3>1, LimitFact
            DEF IInv, IShape, TypeOK, Attempts, AttemptsBounded
        <3> QED
            BY <3>2 DEF ToTry
    <2>2. CASE pc \notin InHand
        BY <2>2 DEF ToTry
    <2> QED
        BY <2>1, <2>2
<1> QED
    BY <1>1, <1>2, <1>3, <1>4 DEF CountsAreNatural

\* The steps between two phases.
LEMMA PhaseDescends ==
    ASSUME \/ Classify \/ Refuse \/ Admit \/ OpenEpisode \/ PlanFails \/ Plan
           \/ Finalize \/ ExtractMemories \/ CloseEpisode \/ Report
           \/ AgentRaises \/ (Disconnect /\ TypeOK)
    PROVE  Descends
<1>1. Phases' < Phases
    <2>1. CASE Classify \/ Refuse \/ Admit \/ OpenEpisode \/ PlanFails \/ Plan
        BY <2>1 DEF Classify, Refuse, Admit, OpenEpisode, PlanFails, Plan,
           Phases, Driving
    <2>2. CASE Finalize \/ ExtractMemories \/ CloseEpisode \/ Report
        BY <2>2 DEF Finalize, ExtractMemories, CloseEpisode, Report, Phases,
           Driving
    <2>3. CASE AgentRaises
        BY <2>3 DEF AgentRaises, Phases, Driving
    <2>4. CASE Disconnect /\ TypeOK
        <3>1. pc \in {"classify", "admit", "open_episode", "plan",
                      "finalize", "memory", "close_episode", "report"}
                     \cup Driving
            BY <2>4 DEF Disconnect, TypeOK, Closed, Driving
        <3>2. pc' = "cancelled"
            BY <2>4 DEF Disconnect
        <3> QED
            BY <3>1, <3>2 DEF Phases, Driving
    <2> QED
        BY <2>1, <2>2, <2>3, <2>4
<1> QED
    BY <1>1 DEF Descends

\* The steps of one attempt at a subtask.
LEMMA AwaitDescends ==
    ASSUME IInv, Attempts,
           \/ BuildContext \/ SpecialistAnswers \/ SpecialistRaises
           \/ RunTools \/ EvaluatePasses \/ EvaluateFails
    PROVE  Descends
<1>1. UNCHANGED <<planned, iterations, current, attempts, asked>>
    BY DEF BuildContext, SpecialistAnswers, SpecialistRaises, RunTools,
       EvaluatePasses, EvaluateFails, driverVars, subtaskVars
<1>2. pc \in InHand /\ pc' \in InHand /\ Awaits' < Awaits
    BY DEF BuildContext, SpecialistAnswers, SpecialistRaises, RunTools,
       EvaluatePasses, EvaluateFails, InHand, Awaits
<1>3. Phases = 5 /\ Phases' = 5
    BY <1>2 DEF Phases, InHand, Driving
<1>4. ToDrive' = ToDrive
    BY <1>1 DEF ToDrive
<1>5. ToTry' = ToTry \/ ToTry' < ToTry
    <2>1. ToTry \in Nat
        BY CountsFact DEF CountsAreNatural
    <2>2. CASE pc' = "settle"
        <3>1. ToTry' = 0
            BY <2>2 DEF ToTry
        <3> QED
            BY <2>1, <3>1
    <2>3. CASE pc' # "settle"
        <3>1. pc \in InHand \ {"settle"}
            BY DEF BuildContext, SpecialistAnswers, SpecialistRaises,
               RunTools, EvaluatePasses, EvaluateFails, InHand
        <3> QED
            BY <1>1, <1>2, <2>3, <3>1 DEF ToTry, AttemptLimit
    <2> QED
        BY <2>2, <2>3
<1> QED
    BY <1>2, <1>3, <1>4, <1>5 DEF Descends

\* A retry uses up an attempt, however many subtasks it inserts.
LEMMA RetryDescends ==
    ASSUME IInv, Attempts, Reflect
    PROVE  Descends
<1>1. UNCHANGED <<planned, iterations, current>>
      /\ pc = "reflect" /\ pc' = "context"
    BY DEF Reflect, driverVars
<1>2. Phases' = Phases /\ ToDrive' = ToDrive
    BY <1>1 DEF Phases, ToDrive, Driving
<1>3. /\ current \in Ids /\ attempts'[current] = attempts[current] + 1
      /\ AttemptLimit(current)' = AttemptLimit(current)
    BY ReflectAttempts, <1>1 DEF IInv, AttemptLimit
<1>4. attempts[current] \in Nat /\ AttemptLimit(current) \in Nat
    BY <1>3, LimitFact DEF IInv, IShape, TypeOK
<1>5. ToTry' < ToTry
    BY <1>1, <1>3, <1>4 DEF ToTry, InHand
<1> QED
    BY <1>2, <1>5 DEF Descends

\* Taking up a subtask uses up one the run may drive.
LEMMA DriveDescends ==
    ASSUME IInv, NextSubtask
    PROVE  Descends
<1>1. pc = "drive" /\ planned' = planned
    BY DEF NextSubtask
<1>2. CASE Waiting = {} \/ iterations >= MaxIterations
    <2>1. pc' = "finalize"
        BY <1>2 DEF NextSubtask, StopDriving
    <2> QED
        BY <1>1, <2>1 DEF Descends, Phases, Driving
<1>3. CASE ~(Waiting = {} \/ iterations >= MaxIterations)
    <2>1. pc' = "context" /\ iterations' = iterations + 1
        BY <1>3 DEF NextSubtask, StartSubtask
    <2>2. Phases' = Phases
        BY <1>1, <2>1 DEF Phases, Driving
    <2>3. ToDrive' < ToDrive
        <3>1. planned \in Nat /\ iterations \in Nat /\ InsertionBudget \in Nat
            BY SettingsAssumption
            DEF IInv, IShape, TypeOK, InsertionBudget, Larger
        <3> QED
            BY <1>1, <2>1, <3>1 DEF ToDrive
    <2> QED
        BY <2>2, <2>3 DEF Descends
<1> QED
    BY <1>2, <1>3

LEMMA SettleDescends ==
    ASSUME SettleSubtask
    PROVE  Descends
<1>1. pc = "settle" /\ pc' \in {"drive", "finalize"}
      /\ UNCHANGED <<planned, iterations>>
    BY DEF SettleSubtask
<1>2. CASE pc' = "finalize"
    BY <1>1, <1>2 DEF Descends, Phases, Driving
<1>3. CASE pc' = "drive"
    <2>1. Phases' = Phases /\ ToDrive' = ToDrive /\ Awaits' < Awaits
        BY <1>1, <1>3 DEF Phases, Driving, ToDrive, Awaits
    <2>2. ToTry' = ToTry
        BY <1>1, <1>3 DEF ToTry, InHand
    <2> QED
        BY <2>1, <2>2 DEF Descends
<1> QED
    BY <1>1, <1>2, <1>3

\* Nothing keeps a run going: four natural numbers fall, in their
\* lexicographic order, with every step it takes, whatever the agents
\* answer, the reflector inserts and the planner asks for.  Together with
\* the promise that every await returns this is Terminates.
THEOREM EveryStepDescends ==
    Spec => []CountsAreNatural /\ [][Descends]_vars
<1>1. IInv /\ Attempts => CountsAreNatural
    BY CountsFact
<1>2. IInv /\ Attempts /\ [Next]_vars => [Descends]_vars
    <2> SUFFICES ASSUME IInv, Attempts, Next PROVE [Descends]_vars
        OBVIOUS
    <2>1. CASE Ended
        BY <2>1 DEF Ended
    <2>2. CASE ~Ended
        BY <2>2, PhaseDescends, AwaitDescends, RetryDescends, DriveDescends,
           SettleDescends DEF Next, Progress, IInv, IShape
    <2> QED
        BY <2>1, <2>2
<1> QED
    BY <1>1, <1>2, AttemptsInvariant, PTL DEF Spec
=============================================================================
