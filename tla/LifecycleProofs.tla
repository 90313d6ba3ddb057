-------------------------- MODULE LifecycleProofs --------------------------
(***************************************************************************)
(* Theorems about Lifecycle for any number of passes and memories, any     *)
(* similarities and any number of uses in between.                         *)
(*                                                                         *)
(* The first part is about the nested loops of the deduplication: what     *)
(* Deduplicated returns for every group of rows (DeduplicatedFacts).  Its  *)
(* recursive functions are shown to exist, and facts about them to hold at *)
(* every index, by the least counterexample (LeastNat, Recursion).         *)
(* The second part is the inductive invariant.                             *)
(***************************************************************************)
EXTENDS Lifecycle, FiniteSetTheorems, WellFoundedInduction, TLAPS

Marks == {"no", "merged", "decayed"}

----------------------------------------------------------------------------
(* Induction.                                                              *)

\* A set of numbers has a least one.
Less == OpToRel(<, Nat)
LEMMA LeastNat ==
    ASSUME NEW T \in SUBSET Nat, T # {} PROVE \E x \in T : \A y \in T : x <= y
<1>1. IsWellFoundedOn(Less, Nat)
  BY NatLessThanWellFounded DEF Less
<1>2. PICK x \in T : \A y \in T : <<y, x>> \notin Less
  BY <1>1, WFMin
<1>3. Less = {ss \in Nat \X Nat : ss[1] < ss[2]}
  BY DEF Less, OpToRel
<1>4. \A y \in T : ~(y < x)
  BY <1>2, <1>3
<1>5. QED BY <1>4

\* The function that starts with c at m and goes on by G up to n exists.
Recursive(f, S, c, m, n, G) ==
    /\ f \in [m .. n -> S]
    /\ \A i \in m .. n : f[i] = IF i = m THEN c ELSE G[<<f[i - 1], i>>]

LEMMA Recursion ==
    ASSUME NEW S, NEW c \in S, NEW m \in Nat, NEW n \in Nat, m <= n,
           NEW G \in [S \X Nat -> S]
    PROVE  \E f : Recursive(f, S, c, m, n, G)
<1> USE DEF Recursive
<1> DEFINE Upto(k) == \E f : Recursive(f, S, c, m, k, G)
<1> DEFINE Not == {k \in Nat : k >= m /\ ~Upto(k)}
<1>0. SUFFICES ASSUME n \in Not PROVE FALSE
  OBVIOUS
<1>1. PICK k \in Not : \A j \in Not : k <= j
  <2> HIDE DEF Upto
  <2> Not \in SUBSET Nat OBVIOUS
  <2> HIDE DEF Not
  <2> QED BY <1>0, LeastNat
<1>2. k \in Nat /\ k >= m /\ ~Upto(k)
  OBVIOUS
<1>4. CASE k = m
  <2>1. Recursive([i \in m .. k |-> c], S, c, m, k, G)
    BY <1>4
  <2>2. QED BY <1>2, <2>1
<1>5. CASE k > m
  <2>0. k - 1 \in Nat /\ k - 1 >= m /\ k - 1 < k BY <1>2, <1>5
  <2>1. Upto(k - 1)
    <3> HIDE DEF Upto
    <3>1. k - 1 \notin Not BY <1>1, <2>0, <1>2
    <3>2. QED BY <2>0, <3>1
  <2>2. PICK f : Recursive(f, S, c, m, k - 1, G)
    BY <2>1
  <2> DEFINE x == G[<<f[k - 1], k>>]
  <2>3. x \in S BY <2>0, <2>2, <1>2
  <2> HIDE DEF x
  <2> DEFINE g == [i \in m .. k |-> IF i = k THEN x ELSE f[i]]
  <2>4. g \in [m .. k -> S] BY <2>2, <2>3, <2>0, <1>2
  <2>5. ASSUME NEW i \in m .. k PROVE g[i] = IF i = m THEN c ELSE G[<<g[i - 1], i>>]
    <3>1. CASE i = k
      <4>1. g[i] = x /\ g[i - 1] = f[k - 1] /\ i # m BY <2>0, <1>5, <3>1, <1>2
      <4>2. QED BY <4>1, <3>1 DEF x
    <3>2. CASE i # k
      <4>1. i \in m .. k - 1 BY <3>2, <1>2
      <4>2. g[i] = f[i] BY <3>2
      <4>3. i # m => g[i - 1] = f[i - 1] BY <3>2, <1>2
      <4>4. QED BY <4>1, <4>2, <4>3, <2>2
    <3>3. QED BY <3>1, <3>2
  <2>6. Upto(k)
    <3> HIDE DEF g
    <3> QED BY <2>4, <2>5
  <2> QED BY <1>2, <2>6
<1>6. QED BY <1>2, <1>4, <1>5

----------------------------------------------------------------------------
(* The comparison of a group.                                              *)

\* What the loops work on.
States == [accesses : [Rows -> Nat], utility : [Rows -> Nat],
           archived : [Rows -> Marks], gone : SUBSET Rows]

\* What has become of v when the rows `gone` of the group have been merged.
Since(v, w, group) ==
    /\ w.gone \subseteq group
    /\ \A r \in Rows : w.archived[r] = IF r \in w.gone THEN "merged" ELSE v.archived[r]
    /\ \A r \in Rows : w.utility[r] >= v.utility[r]

LEMMA RowsAreNat == N \in Nat \ {0} /\ \A r \in Rows : r \in Nat /\ r >= 1 /\ r <= N
BY LifecycleAssumption DEF Rows

LEMMA SimilarBothWays == \A i, j : AreSimilar(i, j) => AreSimilar(j, i)
<1>1. \A i, j : {i, j} = {j, i}
  OBVIOUS
<1>2. QED BY <1>1 DEF AreSimilar

\* One comparison merges at most one row, and one of two similar live rows.
LEMMA CompareFacts ==
    ASSUME NEW w \in States, NEW i \in Rows, NEW j \in Rows, i # j
    PROVE  /\ Compare(w, i, j) \in States
           /\ j \in w.gone \/ ~AreSimilar(i, j) => Compare(w, i, j) = w
           /\ j \notin w.gone /\ AreSimilar(i, j) =>
                  \E k \in {i, j} : Compare(w, i, j).gone = w.gone \cup {k}
           /\ \A group : \A v \in States : Since(v, w, group) /\ {i, j} \subseteq group =>
                  Since(v, Compare(w, i, j), group)
<1>1. ASSUME NEW a \in Rows, NEW b \in Rows, a # b
      PROVE  /\ Absorb(w, a, b) \in States
             /\ Absorb(w, a, b).gone = w.gone \cup {b}
             /\ \A group : \A v \in States : Since(v, w, group) /\ b \in group =>
                    Since(v, Absorb(w, a, b), group)
  <2> DEFINE x == Absorb(w, a, b)
  <2>1. x \in States
    BY DEF Absorb, States, Marks
  <2>2. x.gone = w.gone \cup {b} /\ x.archived = [w.archived EXCEPT ![b] = "merged"]
    BY DEF Absorb
  <2>3. \A r \in Rows : x.utility[r] >= w.utility[r]
    BY DEF Absorb, States
  <2>4. ASSUME NEW v \in States, NEW group, Since(v, w, group), b \in group PROVE Since(v, x, group)
    <3>1. \A r \in Rows : x.archived[r] = IF r \in x.gone THEN "merged" ELSE v.archived[r]
      BY <2>2, <2>4 DEF Since, States
    <3>2. \A r \in Rows : x.utility[r] >= v.utility[r]
      BY <2>1, <2>3, <2>4 DEF Since, States
    <3>3. QED BY <2>2, <2>4, <3>1, <3>2 DEF Since
  <2>5. QED BY <2>1, <2>2, <2>4
<1>2. CASE j \in w.gone \/ ~AreSimilar(i, j)
  BY <1>2 DEF Compare
<1>3. CASE ~(j \in w.gone \/ ~AreSimilar(i, j))
  <2>1. Compare(w, i, j) \in {Absorb(w, i, j), Absorb(w, j, i)}
    BY <1>3 DEF Compare
  <2>2. QED BY <1>1, <1>3, <2>1
<1>4. QED BY <1>2, <1>3

\* The inner loop, step by step.
LEMMA TurnUnfolds ==
    ASSUME NEW v \in States, NEW i \in Rows, NEW group \in SUBSET Rows
    PROVE  \E seen \in [i .. N -> States] :
               /\ seen[i] = v /\ Turn(v, i, group) = seen[N]
               /\ \A j \in i + 1 .. N : seen[j] = IF j \in group THEN Compare(seen[j - 1], i, j)
                                                 ELSE seen[j - 1]
<1> DEFINE Is(f) == f = [j \in i .. N |->
               IF j = i THEN v
               ELSE IF j \in group THEN Compare(f[j - 1], i, j) ELSE f[j - 1]]
<1>1. Turn(v, i, group) = (CHOOSE f : Is(f))[N]
  BY DEF Turn
<1>2. \E f \in [i .. N -> States] : Is(f)
  <2> DEFINE G == [xj \in States \X Nat |->
                      IF xj[2] \in group \ {i} THEN Compare(xj[1], i, xj[2]) ELSE xj[1]]
  <2>1. ASSUME NEW x \in States, NEW j \in Nat
        PROVE  /\ G[<<x, j>>] = IF j \in group \ {i} THEN Compare(x, i, j) ELSE x
               /\ G[<<x, j>>] \in States
    <3>1. G[<<x, j>>] = IF j \in group \ {i} THEN Compare(x, i, j) ELSE x
      OBVIOUS
    <3>2. j \in group \ {i} => Compare(x, i, j) \in States
      BY CompareFacts
    <3> HIDE DEF G
    <3>3. QED BY <3>1, <3>2
  <2>2. G \in [States \X Nat -> States]
    <3>1. ASSUME NEW xj \in States \X Nat PROVE G[xj] \in States
      <4>1. xj = <<xj[1], xj[2]>> /\ xj[1] \in States /\ xj[2] \in Nat
        OBVIOUS
      <4> HIDE DEF G
      <4>2. QED BY <2>1, <4>1
    <3>2. QED BY <3>1
  <2> HIDE DEF G
  <2>3. i \in Nat /\ N \in Nat /\ i <= N
    BY RowsAreNat
  <2>4. PICK f : Recursive(f, States, v, i, N, G)
    BY <2>2, <2>3, Recursion
  <2>5. ASSUME NEW j \in i .. N, j # i
        PROVE  f[j] = IF j \in group THEN Compare(f[j - 1], i, j) ELSE f[j - 1]
    <3>1. f[j - 1] \in States /\ j \in Nat
      BY <2>3, <2>4, <2>5 DEF Recursive
    <3>2. QED BY <2>1, <2>4, <2>5, <3>1 DEF Recursive
  <2>6. Is(f)
    BY <2>4, <2>5 DEF Recursive
  <2>7. QED BY <2>4, <2>6 DEF Recursive
<1>3. PICK f \in [i .. N -> States] : Is(f)
  BY <1>2
<1> DEFINE seen == CHOOSE g : Is(g)
<1>4. Is(seen)
  BY <1>3
<1> HIDE DEF seen
<1>5. i \in Nat /\ N \in Nat /\ i <= N
  BY RowsAreNat
\* Two functions that satisfy the recursion agree.
<1>6. seen \in [i .. N -> States]
  <2> DEFINE Bad == {j \in i .. N : seen[j] \notin States}
  <2>1. SUFFICES ASSUME Bad # {} PROVE FALSE
    <3>1. DOMAIN seen = i .. N /\ seen = [j \in i .. N |-> seen[j]]
      BY <1>4
    <3>2. QED BY <2>1, <3>1
  <2>2. PICK j \in Bad : \A k \in Bad : j <= k
    <3>1. Bad \in SUBSET Nat
      BY <1>5
    <3> HIDE DEF Bad
    <3>2. QED BY <2>1, <3>1, LeastNat
  <2>3. j # i
    BY <1>4, <1>5
  <2>4. seen[j - 1] \in States /\ j \in Nat
    BY <1>5, <2>2, <2>3
  <2>5. seen[j] = IF j \in group THEN Compare(seen[j - 1], i, j) ELSE seen[j - 1]
    BY <1>4, <2>3
  <2>6. QED BY <2>3, <2>4, <2>5, CompareFacts
<1>7. seen[i] = v
  <2>1. i \in i .. N
    BY <1>5
  <2>2. QED BY <1>4, <2>1
<1>8. ASSUME NEW j \in i + 1 .. N
      PROVE  seen[j] = IF j \in group THEN Compare(seen[j - 1], i, j) ELSE seen[j - 1]
  <2>1. j \in i .. N /\ j # i
    BY <1>5
  <2>2. QED BY <1>4, <2>1
<1>9. QED BY <1>1, <1>6, <1>7, <1>8 DEF seen

\* A turn merges rows similar to i, or i itself; then a row it was similar to
\* is left.  It leaves i and no row similar to it together.
LEMMA TurnFacts ==
    ASSUME NEW b \in States, NEW v \in States, NEW group \in SUBSET Rows,
           Since(b, v, group), NEW i \in group, i \notin v.gone
    PROVE  LET w == Turn(v, i, group)
           IN  /\ w \in States /\ Since(b, w, group)
               /\ v.gone \subseteq w.gone
               /\ \A k \in group : i < k /\ AreSimilar(i, k) => i \in w.gone \/ k \in w.gone
               /\ \A r \in w.gone \ v.gone : r = i \/ AreSimilar(i, r)
               /\ i \in w.gone => \E k \in group \ w.gone : AreSimilar(i, k)
<1>1. i \in Rows /\ i \in Nat /\ N \in Nat /\ i <= N /\ \A k \in group : k \in Nat /\ k <= N
  BY RowsAreNat
<1>2. PICK seen \in [i .. N -> States] :
               /\ seen[i] = v /\ Turn(v, i, group) = seen[N]
               /\ \A j \in i + 1 .. N : seen[j] = IF j \in group THEN Compare(seen[j - 1], i, j)
                                                 ELSE seen[j - 1]
  BY <1>1, TurnUnfolds
<1> DEFINE Holds(j, w) ==
               /\ Since(b, w, group)
               /\ v.gone \subseteq w.gone
               /\ \A k \in group : i < k /\ k <= j /\ AreSimilar(i, k) =>
                      i \in w.gone \/ k \in w.gone
               /\ \A r \in w.gone \ v.gone : r = i \/ AreSimilar(i, r)
               /\ i \in w.gone => \E k \in group \ w.gone : k <= j /\ AreSimilar(i, k)
<1>3. Holds(i, v)
  <2>1. \A k \in group : ~(i < k /\ k <= i)
    BY <1>1
  <2>2. QED BY <2>1
<1>4. ASSUME NEW j \in i + 1 .. N, Holds(j - 1, seen[j - 1]) PROVE Holds(j, seen[j])
  <2> DEFINE w == seen[j - 1]
  <2>1. w \in States /\ j \in Rows /\ j \in Nat /\ j # i
    BY <1>1, <1>4 DEF Rows
  <2>2. Holds(j - 1, w)
    BY <1>4
  <2>3. CASE j \notin group \/ j \in w.gone \/ ~AreSimilar(i, j)
    <3>1. seen[j] = w
      BY <1>1, <1>2, <2>1, <2>3, CompareFacts
    <3>2. \A k \in group : k <= j /\ AreSimilar(i, k) => k <= j - 1 \/ k \in w.gone
      <4>1. \A k \in Nat : k <= j => k = j \/ k <= j - 1
        BY <2>1
      <4>2. QED BY <1>1, <2>3, <4>1
    <3> HIDE DEF w
    <3>3. QED BY <1>1, <2>1, <2>2, <3>1, <3>2
  <2>4. CASE j \in group /\ j \notin w.gone /\ AreSimilar(i, j)
    <3> DEFINE x == Compare(w, i, j)
    <3>1. seen[j] = x
      BY <1>2, <2>4
    <3> HIDE DEF w
    <3>2. PICK k \in {i, j} : x.gone = w.gone \cup {k}
      BY <1>1, <2>1, <2>4, CompareFacts
    <3>3. Since(b, x, group)
      BY <1>1, <2>1, <2>2, <2>4, CompareFacts
    <3> HIDE DEF x
    <3>4. v.gone \subseteq x.gone /\ \A r \in x.gone \ v.gone : r = i \/ AreSimilar(i, r)
      BY <2>2, <2>4, <3>2
    <3>5. ASSUME NEW l \in group, i < l, l <= j, AreSimilar(i, l)
          PROVE  i \in x.gone \/ l \in x.gone
      <4>1. CASE l = j BY <3>2, <4>1
      <4>2. CASE l # j
        <5>1. l <= j - 1 BY <1>1, <2>1, <3>5, <4>2
        <5>2. QED BY <2>2, <3>2, <3>5, <5>1
      <4>3. QED BY <4>1, <4>2
    <3>6. ASSUME i \in x.gone PROVE \E l \in group \ x.gone : l <= j /\ AreSimilar(i, l)
      <4>1. CASE k = i
        BY <2>1, <2>4, <3>2, <4>1
      <4>2. CASE k = j
        <5>1. i \in w.gone BY <2>1, <3>2, <3>6, <4>2
        <5>2. PICK l \in group \ w.gone : l <= j - 1 /\ AreSimilar(i, l)
          BY <2>2, <5>1
        <5>3. l # j /\ l <= j BY <1>1, <2>1, <5>2
        <5>4. QED BY <3>2, <4>2, <5>2, <5>3
      <4>3. QED BY <4>1, <4>2
    <3>7. QED BY <3>1, <3>3, <3>4, <3>5, <3>6
  <2>5. QED BY <2>3, <2>4
<1>5. \A j \in i .. N : Holds(j, seen[j])
  <2> DEFINE Bad == {j \in i .. N : ~Holds(j, seen[j])}
  <2> HIDE DEF Holds
  <2>1. SUFFICES ASSUME Bad # {} PROVE FALSE
    OBVIOUS
  <2>2. PICK j \in Bad : \A k \in Bad : j <= k
    <3>1. Bad \in SUBSET Nat
      BY <1>1
    <3> HIDE DEF Bad
    <3>2. QED BY <2>1, <3>1, LeastNat
  <2>3. j # i
    BY <1>2, <1>3
  <2>4. j \in i + 1 .. N /\ j - 1 \in i .. N /\ ~(j <= j - 1)
    BY <1>1, <2>3
  <2>5. Holds(j - 1, seen[j - 1])
    BY <2>2, <2>4
  <2>6. QED BY <1>4, <2>4, <2>5
<1>6. N \in i .. N /\ seen[N] \in States
  BY <1>1
<1>7. QED BY <1>1, <1>2, <1>5, <1>6

\* The outer loop, step by step.
LEMMA DeduplicatedUnfolds ==
    ASSUME NEW v \in States, NEW group \in SUBSET Rows, Since(v, v, group)
    PROVE  \E after :
               /\ after[0] = v /\ Deduplicated(v, group) = after[N]
               /\ \A i \in 1 .. N : after[i] = IF i \in group \ after[i - 1].gone
                                             THEN Turn(after[i - 1], i, group) ELSE after[i - 1]
<1> DEFINE Is(f) == f = [i \in 0 .. N |->
               IF i = 0 THEN v
               ELSE IF i \in group \ f[i - 1].gone THEN Turn(f[i - 1], i, group) ELSE f[i - 1]]
<1>1. Deduplicated(v, group) = (CHOOSE f : Is(f))[N]
  BY DEF Deduplicated
<1>2. \E f : Is(f)
  <2> DEFINE Mine == {w \in States : Since(v, w, group)}
  <2> DEFINE G == [xi \in Mine \X Nat |->
                      IF xi[2] \in group \ xi[1].gone THEN Turn(xi[1], xi[2], group) ELSE xi[1]]
  <2>1. ASSUME NEW x \in Mine, NEW i \in Nat
        PROVE  /\ G[<<x, i>>] = IF i \in group \ x.gone THEN Turn(x, i, group) ELSE x
               /\ G[<<x, i>>] \in Mine
    BY TurnFacts
  <2>2. G \in [Mine \X Nat -> Mine]
    BY <2>1
  <2>3. v \in Mine /\ 0 \in Nat /\ N \in Nat /\ 0 <= N
    BY RowsAreNat
  <2> HIDE DEF G, Mine
  <2>4. PICK f : Recursive(f, Mine, v, 0, N, G)
    BY <2>2, <2>3, Recursion
  <2>5. ASSUME NEW i \in 0 .. N, i # 0
        PROVE  f[i] = IF i \in group \ f[i - 1].gone THEN Turn(f[i - 1], i, group) ELSE f[i - 1]
    <3>1. f[i - 1] \in Mine /\ i \in Nat
      BY <2>3, <2>4, <2>5 DEF Recursive
    <3>2. QED BY <2>1, <2>4, <2>5, <3>1 DEF Recursive
  <2>6. Is(f)
    BY <2>4, <2>5 DEF Recursive
  <2>7. QED BY <2>6
<1> DEFINE after == CHOOSE g : Is(g)
<1>3. Is(after)
  BY <1>2
<1> HIDE DEF after
<1>4. after[0] = v
  <2>1. 0 \in 0 .. N
    BY RowsAreNat
  <2>2. QED BY <1>3, <2>1
<1>5. ASSUME NEW i \in 1 .. N
      PROVE  after[i] = IF i \in group \ after[i - 1].gone
                        THEN Turn(after[i - 1], i, group) ELSE after[i - 1]
  <2>1. i \in 0 .. N /\ i # 0
    BY RowsAreNat
  <2>2. QED BY <1>3, <2>1
<1>6. QED BY <1>1, <1>4, <1>5 DEF after

\* What the deduplication of a group does: it merges rows of the group and
\* nothing else, no utility falls, no two similar rows are left, and of every
\* set closed under similarity some row is.
LEMMA DeduplicatedFacts ==
    ASSUME NEW v \in States, v.gone = {}, NEW group \in SUBSET Rows
    PROVE  LET w == Deduplicated(v, group)
           IN  /\ w \in States /\ Since(v, w, group)
               /\ \A i, j \in group \ w.gone : i # j => ~AreSimilar(i, j)
               /\ \A C \in SUBSET Rows : Closed(C) /\ C \cap group # {} =>
                      (C \cap group) \ w.gone # {}
<1>1. Since(v, v, group)
  BY DEF Since, States
<1>2. PICK after :
               /\ after[0] = v /\ Deduplicated(v, group) = after[N]
               /\ \A i \in 1 .. N : after[i] = IF i \in group \ after[i - 1].gone
                                             THEN Turn(after[i - 1], i, group) ELSE after[i - 1]
  BY <1>1, DeduplicatedUnfolds
<1> DEFINE Holds(i, w) ==
               /\ w \in States /\ Since(v, w, group)
               /\ \A j, k \in group : j <= i /\ j < k /\ AreSimilar(j, k) =>
                      j \in w.gone \/ k \in w.gone
               /\ \A C \in SUBSET Rows : Closed(C) /\ C \cap group # {} =>
                      (C \cap group) \ w.gone # {}
<1>3. Holds(0, v)
  BY <1>1, RowsAreNat
<1>4. ASSUME NEW i \in 1 .. N, Holds(i - 1, after[i - 1]) PROVE Holds(i, after[i])
  <2> DEFINE u == after[i - 1]
  <2>1. Holds(i - 1, u) /\ i \in Nat /\ i \in Rows
    BY <1>4, RowsAreNat DEF Rows
  <2>2. \A j \in group : j <= i => j <= i - 1 \/ j = i
    BY <2>1, RowsAreNat
  <2>3. CASE i \notin group \ u.gone
    <3>1. after[i] = u
      BY <1>2, <2>3
    <3> HIDE DEF u
    <3>2. \A j, k \in group : j <= i /\ j < k /\ AreSimilar(j, k) =>
                      j \in u.gone \/ k \in u.gone
      BY <2>1, <2>2, <2>3
    <3>3. QED BY <2>1, <3>1, <3>2
  <2>4. CASE i \in group \ u.gone
    <3> DEFINE w == Turn(u, i, group)
    <3>1. after[i] = w
      BY <1>2, <2>4
    <3>2. /\ w \in States /\ Since(v, w, group)
          /\ u.gone \subseteq w.gone
          /\ \A k \in group : i < k /\ AreSimilar(i, k) => i \in w.gone \/ k \in w.gone
          /\ \A r \in w.gone \ u.gone : r = i \/ AreSimilar(i, r)
          /\ i \in w.gone => \E k \in group \ w.gone : AreSimilar(i, k)
      <4> HIDE DEF u
      <4>1. QED BY <2>1, <2>4, TurnFacts
    <3> HIDE DEF u, w
    <3>3. \A j, k \in group : j <= i /\ j < k /\ AreSimilar(j, k) =>
                      j \in w.gone \/ k \in w.gone
      BY <2>1, <2>2, <3>2
    <3>4. ASSUME NEW C \in SUBSET Rows, Closed(C), C \cap group # {}
          PROVE  (C \cap group) \ w.gone # {}
      <4>1. PICK s \in (C \cap group) \ u.gone : TRUE
        BY <2>1, <3>4
      <4>2. CASE s \notin w.gone
        BY <4>1, <4>2
      <4>3. CASE s \in w.gone
        <5>1. s = i \/ AreSimilar(s, i)
          BY <3>2, <4>1, <4>3, SimilarBothWays
        <5>2. i \in C
          BY <2>1, <3>4, <4>1, <5>1 DEF Closed
        <5>3. CASE i \notin w.gone
          BY <2>4, <5>2, <5>3
        <5>4. CASE i \in w.gone
          <6>1. PICK k \in group \ w.gone : AreSimilar(i, k)
            BY <3>2, <5>4
          <6>2. k \in C
            BY <3>4, <5>2, <6>1 DEF Closed
          <6>3. QED BY <6>1, <6>2
        <5>5. QED BY <5>3, <5>4
      <4>4. QED BY <4>2, <4>3
    <3>5. QED BY <3>1, <3>2, <3>3, <3>4
  <2>5. QED BY <2>3, <2>4
<1>5. \A i \in 0 .. N : Holds(i, after[i])
  <2> DEFINE Bad == {i \in 0 .. N : ~Holds(i, after[i])}
  <2> HIDE DEF Holds
  <2>1. SUFFICES ASSUME Bad # {} PROVE FALSE
    OBVIOUS
  <2>2. PICK i \in Bad : \A k \in Bad : i <= k
    <3>1. Bad \in SUBSET Nat
      OBVIOUS
    <3> HIDE DEF Bad
    <3>2. QED BY <2>1, <3>1, LeastNat
  <2>3. i # 0
    BY <1>2, <1>3
  <2>4. i \in 1 .. N /\ i - 1 \in 0 .. N /\ ~(i <= i - 1)
    BY <2>3, RowsAreNat
  <2>5. Holds(i - 1, after[i - 1])
    BY <2>2, <2>4
  <2>6. QED BY <1>4, <2>4, <2>5
<1>6. Holds(N, after[N])
  <2>1. N \in 0 .. N
    BY RowsAreNat
  <2> HIDE DEF Holds
  <2>2. QED BY <1>5, <2>1
<1>7. ASSUME NEW i \in group \ after[N].gone, NEW j \in group \ after[N].gone, i # j
      PROVE  ~AreSimilar(i, j)
  <2>1. i <= N /\ j <= N /\ (i < j \/ j < i)
    BY <1>7, RowsAreNat
  <2>2. QED BY <1>6, <2>1, SimilarBothWays
<1>8. QED BY <1>2, <1>6, <1>7

----------------------------------------------------------------------------
(* What a transaction has written.                                         *)

Part(V) == UNION {[R -> V] : R \in SUBSET Rows}
\* What a transaction may have written: it never sets a row back to live.
Writes == [accesses : Part(Nat), utility : Part(Nat), archived : Part({"merged", "decayed"})]

LEMMA PartMember ==
    ASSUME NEW V, NEW f
    PROVE  f \in Part(V) <=> DOMAIN f \subseteq Rows /\ f \in [DOMAIN f -> V]
<1>1. ASSUME f \in Part(V) PROVE DOMAIN f \subseteq Rows /\ f \in [DOMAIN f -> V]
  BY <1>1 DEF Part
<1>2. ASSUME DOMAIN f \subseteq Rows, f \in [DOMAIN f -> V] PROVE f \in Part(V)
  BY <1>2 DEF Part
<1>3. QED BY <1>1, <1>2

LEMMA MergeFacts ==
    ASSUME NEW V, NEW f \in Part(V), NEW g \in Part(V)
    PROVE  /\ Merge(f, g) \in Part(V) /\ DOMAIN Merge(f, g) = DOMAIN f \cup DOMAIN g
           /\ \A r \in DOMAIN f : Merge(f, g)[r] = f[r]
           /\ \A r \in DOMAIN g \ DOMAIN f : Merge(f, g)[r] = g[r]
<1>1. /\ DOMAIN f \subseteq Rows /\ f \in [DOMAIN f -> V]
      /\ DOMAIN g \subseteq Rows /\ g \in [DOMAIN g -> V]
  BY PartMember
<1>2. /\ DOMAIN Merge(f, g) = DOMAIN f \cup DOMAIN g
      /\ \A r \in DOMAIN f : Merge(f, g)[r] = f[r]
      /\ \A r \in DOMAIN g \ DOMAIN f : Merge(f, g)[r] = g[r]
      /\ Merge(f, g) = [r \in DOMAIN f \cup DOMAIN g |-> Merge(f, g)[r]]
  BY DEF Merge
<1>3. Merge(f, g) \in [DOMAIN f \cup DOMAIN g -> V]
  BY <1>1, <1>2
<1>4. Merge(f, g) \in Part(V)
  BY <1>1, <1>2, <1>3, PartMember
<1>5. QED BY <1>2, <1>4

LEMMA OverType ==
    ASSUME NEW V, NEW U, U \subseteq V, NEW f \in Part(U), NEW base \in [Rows -> V]
    PROVE  Over(f, base) \in [Rows -> V]
<1>1. DOMAIN f \subseteq Rows /\ f \in [DOMAIN f -> U]
  BY PartMember
<1>2. QED BY <1>1 DEF Over

\* A flush writes what it has computed, and makes its transaction see that.
LEMMA ChangesFacts ==
    ASSUME NEW V, NEW now, NEW before, \A r \in Rows : now[r] # before[r] => now[r] \in V
    PROVE  /\ Changes(now, before) \in Part(V)
           /\ DOMAIN Changes(now, before) = {r \in Rows : now[r] # before[r]}
           /\ \A r \in DOMAIN Changes(now, before) : Changes(now, before)[r] = now[r]
<1>1. /\ DOMAIN Changes(now, before) = {r \in Rows : now[r] # before[r]}
      /\ \A r \in DOMAIN Changes(now, before) : Changes(now, before)[r] = now[r]
      /\ Changes(now, before) = [r \in DOMAIN Changes(now, before) |-> Changes(now, before)[r]]
  BY DEF Changes
<1>2. Changes(now, before) \in [DOMAIN Changes(now, before) -> V]
  BY <1>1
<1>3. QED BY <1>1, <1>2, PartMember

LEMMA SeesChanges ==
    ASSUME NEW f, NEW base, NEW S, NEW now \in [Rows -> S]
    PROVE  Over(Merge(Changes(now, Over(f, base)), f), base) = now
<1>1. PICK new : new = Changes(now, Over(f, base))
  OBVIOUS
<1>2. PICK g : g = Merge(new, f)
  OBVIOUS
<1>3. /\ DOMAIN new = {r \in Rows : now[r] # Over(f, base)[r]}
      /\ \A r \in DOMAIN new : new[r] = now[r]
  BY <1>1 DEF Changes
<1>4. /\ DOMAIN g = DOMAIN new \cup DOMAIN f
      /\ \A r \in DOMAIN new : g[r] = new[r]
      /\ \A r \in DOMAIN f \ DOMAIN new : g[r] = f[r]
  BY <1>2 DEF Merge
<1>5. /\ \A r \in Rows : Over(g, base)[r] = IF r \in DOMAIN g THEN g[r] ELSE base[r]
      /\ \A r \in Rows : Over(f, base)[r] = IF r \in DOMAIN f THEN f[r] ELSE base[r]
      /\ Over(g, base) = [r \in Rows |-> Over(g, base)[r]]
  BY DEF Over
<1>6. ASSUME NEW r \in Rows PROVE Over(g, base)[r] = now[r]
  BY <1>3, <1>4, <1>5
<1>7. Over(g, base) = now
  BY <1>5, <1>6
<1>8. QED BY <1>1, <1>2, <1>7

----------------------------------------------------------------------------
(* The inductive invariant.                                                *)

Types ==
    /\ vectored \subseteq Rows /\ idle \subseteq Rows
    /\ accesses \in [Rows -> Nat] /\ utility \in [Rows -> Nat]
    /\ archived \in [Rows -> Marks]
    /\ lock \in [Rows -> Passes \cup {Nobody, Toucher}]
    /\ points \subseteq vectored
    /\ stage \in [Passes -> {"utility", "dedup", "decay", "commit", "committed", "aborted"}]
    /\ pending \in [Passes -> Writes]
    /\ toLock \in [Passes -> SUBSET Rows]
    /\ met \subseteq Passes
    /\ scored \in [Passes -> SUBSET Rows] /\ skipped \in [Passes -> SUBSET Rows]
    /\ took \in [Rows -> SUBSET Passes]
    /\ by \in [Rows -> Passes \cup {Nobody}]
    /\ touch \in [row : Rows, read : Nat, at : {"idle", "flush", "commit"}]

\* A pass that does not run holds nothing, and before the deduplication it
\* has archived nothing.
Quiet ==
    \A p \in Passes :
        /\ ~Running(p) => pending[p] = None /\ Settled(p) /\ \A r \in Rows : lock[r] # p
        /\ stage[p] = "dedup" => DOMAIN pending[p].archived = {}

\* Passes that run side by side have met.
Overlap == \A p, q \in Passes : p # q /\ Running(p) /\ Running(q) => p \in met

\* Who archived a row has committed.
Archivers ==
    \A r \in Rows : IF archived[r] = "no" THEN by[r] = Nobody
                    ELSE by[r] \in Passes /\ Committed(by[r])

\* A point is gone because a pass took it, which has archived the row, or is
\* about to, or has failed.
Taken ==
    /\ \A r \in vectored \ points : took[r] # {}
    /\ \A r \in Rows : \A p \in took[r] :
           \/ stage[p] \in {"decay", "commit"} /\ r \in DOMAIN pending[p].archived
           \/ Committed(p) /\ archived[r] # "no"
           \/ stage[p] = "aborted"

\* Until a pass nobody met has let rows decay, the rows in use that it scored
\* have a utility in its eyes, and none of them decays.
InUse ==
    \A p \in Passes \ met :
        /\ stage[p] \in {"dedup", "decay"} =>
               \A r \in scored[p] : View(p).archived[r] = "no" => View(p).utility[r] > 0
        /\ \A r \in DOMAIN pending[p].archived :
               pending[p].archived[r] = "decayed" => r \notin scored[p]

\* A pass leaves rows similar to an older one only in a group it could not
\* embed and beyond its LIMIT.
Beyond(j) == Cardinality({k \in vectored : k < j}) >= DedupBatch
Distinct(p, S) ==
    \A i, j \in S : i < j /\ AreSimilar(i, j) => j \in skipped[p] \/ Beyond(j)
Apart ==
    \A p \in Passes :
        /\ stage[p] \in {"decay", "commit"} => Distinct(p, Live(View(p)) \cap vectored)
        /\ Committed(p) => Distinct(p, Live([archived |-> archived]) \cap vectored)

\* A cluster keeps a row that was not merged away: as committed, and as every
\* pass sees it.
Keeps(marks) ==
    \A r \in Rows : marks[r] = "merged" => \E s \in Cluster(r) : marks[s] # "merged"
Kept == met = {} => Keeps(archived) /\ \A p \in Passes : Keeps(View(p).archived)

IInv ==
    /\ Types /\ Quiet /\ Overlap /\ Archivers /\ Taken /\ InUse /\ Apart /\ Kept

----------------------------------------------------------------------------
(* What a pass sees and writes.                                            *)

LEMMA NoneIsWritten == None \in Writes /\ DOMAIN None = {"accesses", "utility", "archived"}
<1>1. ASSUME NEW V PROVE << >> \in Part(V)
  <2>1. << >> = [r \in {} |-> r]
    OBVIOUS
  <2>2. << >> \in [{} -> V] /\ {} \in SUBSET Rows
    BY <2>1
  <2>3. QED BY <2>2 DEF Part
<1>2. QED BY <1>1 DEF None, Writes

LEMMA ViewFacts ==
    ASSUME Types, NEW p \in Passes
    PROVE  /\ View(p).accesses \in [Rows -> Nat]
           /\ View(p).utility \in [Rows -> Nat]
           /\ View(p).archived \in [Rows -> Marks]
           /\ \A r \in Rows : View(p).archived[r] =
                  IF r \in DOMAIN pending[p].archived THEN pending[p].archived[r] ELSE archived[r]
           /\ \A r \in Rows : View(p).utility[r] =
                  IF r \in DOMAIN pending[p].utility THEN pending[p].utility[r] ELSE utility[r]
           /\ DOMAIN pending[p].archived \subseteq Rows
           /\ \A r \in DOMAIN pending[p].archived : pending[p].archived[r] \in {"merged", "decayed"}
<1>1. /\ pending[p].accesses \in Part(Nat) /\ pending[p].utility \in Part(Nat)
      /\ pending[p].archived \in Part({"merged", "decayed"})
  BY DEF Types, Writes
<1>2. /\ View(p).accesses = Over(pending[p].accesses, accesses)
      /\ View(p).utility = Over(pending[p].utility, utility)
      /\ View(p).archived = Over(pending[p].archived, archived)
  BY DEF View
<1>3. View(p).accesses \in [Rows -> Nat] /\ View(p).utility \in [Rows -> Nat]
  <2>1. ASSUME NEW f \in Part(Nat), NEW base \in [Rows -> Nat]
        PROVE  Over(f, base) \in [Rows -> Nat]
    <3>1. DOMAIN f \subseteq Rows /\ f \in [DOMAIN f -> Nat]
      BY PartMember
    <3>2. QED BY <3>1 DEF Over
  <2>2. accesses \in [Rows -> Nat] /\ utility \in [Rows -> Nat]
    BY DEF Types
  <2>3. QED BY <1>1, <1>2, <2>1, <2>2
<1>4. View(p).archived \in [Rows -> Marks]
  <2>1. {"merged", "decayed"} \subseteq Marks
    BY DEF Marks
  <2>2. archived \in [Rows -> Marks]
    BY DEF Types
  <2>3. QED BY <1>1, <1>2, <2>1, <2>2, OverType
<1>5. /\ \A r \in Rows : View(p).archived[r] =
             IF r \in DOMAIN pending[p].archived THEN pending[p].archived[r] ELSE archived[r]
      /\ \A r \in Rows : View(p).utility[r] =
             IF r \in DOMAIN pending[p].utility THEN pending[p].utility[r] ELSE utility[r]
  BY <1>2 DEF Over
<1>6. /\ DOMAIN pending[p].archived \subseteq Rows
      /\ \A r \in DOMAIN pending[p].archived : pending[p].archived[r] \in {"merged", "decayed"}
  BY <1>1, PartMember
<1>7. QED BY <1>3, <1>4, <1>5, <1>6

\* A pass that does not run sees what is committed.
LEMMA SeesCommitted ==
    ASSUME Types, NEW p \in Passes, DOMAIN pending[p].archived = {}
    PROVE  View(p).archived = archived
<1>1. \A r \in Rows : View(p).archived[r] = archived[r]
  BY ViewFacts
<1>2. QED BY <1>1, ViewFacts DEF Types

LEMMA SeesCommittedNext ==
    ASSUME Types', NEW p \in Passes, DOMAIN pending'[p].archived = {}
    PROVE  View(p)'.archived = archived'
<1>1. /\ \A r \in Rows : View(p)'.archived[r] = archived'[r]
      /\ View(p)'.archived = [r \in Rows |-> View(p)'.archived[r]]
  BY DEF View, Over
<1>2. QED BY <1>1 DEF Types

LEMMA WriteFacts ==
    ASSUME Types, NEW p \in Passes, NEW new \in Writes, Write(p, new)
    PROVE  /\ pending' \in [Passes -> Writes]
           /\ \A q \in Passes \ {p} : pending'[q] = pending[q]
           /\ pending'[p].accesses = Merge(new.accesses, pending[p].accesses)
           /\ pending'[p].utility = Merge(new.utility, pending[p].utility)
           /\ pending'[p].archived = Merge(new.archived, pending[p].archived)
           /\ toLock' \in [Passes -> SUBSET Rows]
           /\ \A q \in Passes \ {p} : toLock'[q] = toLock[q]
<1>1. pending[p] \in Writes
  BY DEF Types
<1>2. /\ pending' = [pending EXCEPT ![p] = [a \in DOMAIN None |-> Merge(new[a], pending[p][a])]]
      /\ toLock' = [toLock EXCEPT ![p] = UNION {DOMAIN new[a] : a \in DOMAIN None}]
  BY DEF Write
<1> DEFINE mine == [a \in DOMAIN None |-> Merge(new[a], pending[p][a])]
<1>3. mine = [accesses |-> Merge(new.accesses, pending[p].accesses),
              utility |-> Merge(new.utility, pending[p].utility),
              archived |-> Merge(new.archived, pending[p].archived)]
  BY NoneIsWritten
<1>4. /\ Merge(new.accesses, pending[p].accesses) \in Part(Nat)
      /\ Merge(new.utility, pending[p].utility) \in Part(Nat)
      /\ Merge(new.archived, pending[p].archived) \in Part({"merged", "decayed"})
  BY <1>1, MergeFacts DEF Writes
<1>5. mine \in Writes
  BY <1>3, <1>4 DEF Writes
<1>6. \A a \in DOMAIN None : DOMAIN new[a] \subseteq Rows
  <2>1. /\ DOMAIN new.accesses \subseteq Rows /\ DOMAIN new.utility \subseteq Rows
        /\ DOMAIN new.archived \subseteq Rows
    BY PartMember DEF Writes
  <2>2. QED BY <2>1, NoneIsWritten
<1>7. UNION {DOMAIN new[a] : a \in DOMAIN None} \subseteq Rows
  BY <1>6
<1> HIDE DEF mine
<1>8. pending' = [pending EXCEPT ![p] = mine]
  BY <1>2 DEF mine
<1>9. QED BY <1>2, <1>3, <1>5, <1>7, <1>8 DEF Types

\* What the others see does not change before somebody commits.
LEMMA OthersSee ==
    ASSUME NEW q \in Passes, pending'[q] = pending[q], UNCHANGED <<accesses, utility, archived>>
    PROVE  View(q)' = View(q)
BY DEF View

\* After a flush a pass sees what it computed.
LEMMA SeesUtility ==
    ASSUME NEW p \in Passes, NEW now \in [Rows -> Nat], UNCHANGED utility,
           pending'[p].utility = Merge(Changes(now, View(p).utility), pending[p].utility)
    PROVE  View(p)'.utility = now
<1>1. View(p).utility = Over(pending[p].utility, utility)
  BY DEF View
<1>2. View(p)'.utility = Over(pending'[p].utility, utility)
  BY DEF View
<1>3. Over(Merge(Changes(now, Over(pending[p].utility, utility)), pending[p].utility), utility) = now
  BY SeesChanges
<1>4. QED BY <1>1, <1>2, <1>3

LEMMA SeesArchived ==
    ASSUME NEW p \in Passes, NEW now \in [Rows -> Marks], UNCHANGED archived,
           pending'[p].archived = Merge(Changes(now, View(p).archived), pending[p].archived)
    PROVE  View(p)'.archived = now
<1>1. View(p).archived = Over(pending[p].archived, archived)
  BY DEF View
<1>2. View(p)'.archived = Over(pending'[p].archived, archived)
  BY DEF View
<1>3. Over(Merge(Changes(now, Over(pending[p].archived, archived)), pending[p].archived), archived) = now
  BY SeesChanges
<1>4. QED BY <1>1, <1>2, <1>3

\* What is similar stays so.
LEMMA SameClusters ==
    ASSUME UNCHANGED similar, NEW marks, Keeps(marks)
    PROVE  \A r \in Rows : marks[r] = "merged" => \E s \in Cluster(r)' : marks[s] # "merged"
<1>1. \A i, j : AreSimilar(i, j)' <=> AreSimilar(i, j)
  BY DEF AreSimilar
<1>2. \A C \in SUBSET Rows : Closed(C)' <=> Closed(C)
  BY <1>1 DEF Closed
<1>3. \A r : Cluster(r)' = Cluster(r)
  BY <1>2 DEF Cluster
<1>4. QED BY <1>3 DEF Keeps

----------------------------------------------------------------------------
(* The first part of a pass.                                               *)

LEMMA LimitedFacts ==
    ASSUME NEW S, NEW n, NEW T \in Limited(S, n) PROVE T \subseteq S
BY DEF Limited, kSubset

LEMMA RecomputeSees ==
    ASSUME Types, Quiet, NEW p \in Passes, RecomputeUtility(p)
    PROVE  /\ pending' \in [Passes -> Writes] /\ toLock' \in [Passes -> SUBSET Rows]
           /\ \A q \in Passes \ {p} : pending'[q] = pending[q] /\ toLock'[q] = toLock[q]
           /\ DOMAIN pending'[p].archived = {}
           /\ scored' \in [Passes -> SUBSET Rows]
           /\ \A q \in Passes \ {p} : scored'[q] = scored[q]
           /\ \A r \in scored'[p] : View(p)'.utility[r] > 0
<1> DEFINE live == {r \in Rows : archived[r] = "no"}
<1> DEFINE fresh(r) == Score(accesses[r], r \in idle)
<1>0. PICK read \in Limited(live, UtilityBatch) :
          \E close \in SUBSET {r \in read \cap Steady : fresh(r) # utility[r]} :
              LET now == [r \in Rows |-> IF r \in read \ close THEN fresh(r) ELSE utility[r]]
              IN  /\ Write(p, [None EXCEPT !.utility = Changes(now, utility)])
                  /\ scored' = [scored EXCEPT ![p] = (read \ close) \ idle]
  BY DEF RecomputeUtility
<1>01. PICK close \in SUBSET read :
              LET now == [r \in Rows |-> IF r \in read \ close THEN fresh(r) ELSE utility[r]]
              IN  /\ Write(p, [None EXCEPT !.utility = Changes(now, utility)])
                  /\ scored' = [scored EXCEPT ![p] = (read \ close) \ idle]
  BY <1>0
<1> DEFINE now == [r \in Rows |-> IF r \in read \ close THEN fresh(r) ELSE utility[r]]
<1> DEFINE new == [None EXCEPT !.utility = Changes(now, utility)]
<1>1. /\ Write(p, new) /\ scored' = [scored EXCEPT ![p] = (read \ close) \ idle]
      /\ stage[p] = "utility" /\ UNCHANGED <<accesses, utility, archived>>
  BY <1>01 DEF RecomputeUtility, rowVars, dataVars
<1>02. read \subseteq Rows
  BY LimitedFacts
<1>2. pending[p] = None
  BY <1>1 DEF Quiet, Running
<1>3. now \in [Rows -> Nat] /\ \A r \in (read \ close) \ idle : now[r] > 0
  <2>1. \A r \in Rows : fresh(r) \in Nat /\ (r \notin idle => fresh(r) > 0)
    BY DEF Types, Score
  <2> HIDE DEF fresh
  <2>2. QED BY <1>02, <2>1 DEF Types
<1> HIDE DEF now
<1>4. View(p).utility = utility
  <2>1. \A r \in Rows : View(p).utility[r] = utility[r]
    BY <1>2, ViewFacts DEF None
  <2>2. QED BY <2>1, ViewFacts DEF Types
<1>5. Changes(now, utility) \in Part(Nat)
  <2>1. DOMAIN Changes(now, utility) \subseteq Rows
        /\ Changes(now, utility) \in [DOMAIN Changes(now, utility) -> Nat]
    BY <1>3 DEF Changes
  <2>2. QED BY <2>1, PartMember
<1>6. new \in Writes /\ new.utility = Changes(now, utility) /\ new.archived = << >>
  BY <1>5, NoneIsWritten DEF None, Writes
<1> HIDE DEF new
<1>7. /\ pending' \in [Passes -> Writes] /\ toLock' \in [Passes -> SUBSET Rows]
      /\ \A q \in Passes \ {p} : pending'[q] = pending[q] /\ toLock'[q] = toLock[q]
      /\ pending'[p].utility = Merge(new.utility, pending[p].utility)
      /\ pending'[p].archived = Merge(new.archived, pending[p].archived)
  BY <1>1, <1>6, WriteFacts
<1>8. View(p)'.utility = now
  BY <1>1, <1>3, <1>4, <1>6, <1>7, SeesUtility
<1>9. DOMAIN pending'[p].archived = {}
  BY <1>2, <1>6, <1>7 DEF Merge, None
<1>10. /\ scored' \in [Passes -> SUBSET Rows]
       /\ \A q \in Passes \ {p} : scored'[q] = scored[q]
       /\ scored'[p] = (read \ close) \ idle
  BY <1>1, <1>02 DEF Types
<1>11. QED BY <1>3, <1>7, <1>8, <1>9, <1>10

LEMMA RecomputeStep ==
    ASSUME IInv, NEW p \in Passes, RecomputeUtility(p) PROVE IInv'
<1>1. /\ pending' \in [Passes -> Writes] /\ toLock' \in [Passes -> SUBSET Rows]
      /\ \A q \in Passes \ {p} : pending'[q] = pending[q] /\ toLock'[q] = toLock[q]
      /\ DOMAIN pending'[p].archived = {}
      /\ scored' \in [Passes -> SUBSET Rows]
      /\ \A q \in Passes \ {p} : scored'[q] = scored[q]
      /\ \A r \in scored'[p] : View(p)'.utility[r] > 0
  BY RecomputeSees DEF IInv
<1>2. /\ stage[p] = "utility" /\ stage' = [stage EXCEPT ![p] = "dedup"]
      /\ UNCHANGED <<similar, vectored, old, idle, accesses, utility, archived, lock, points, by,
                     took, skipped, touch, touches>>
  BY DEF RecomputeUtility, inputs, rowVars, dataVars
<1>3. /\ met \subseteq met' /\ met' \subseteq Passes
      /\ \A q \in Passes \ {p} : Running(q) => {p, q} \subseteq met'
  BY DEF RecomputeUtility, IInv, Types
<1>4. /\ \A q \in Passes \ {p} : View(q)' = View(q) /\ stage'[q] = stage[q] /\ scored'[q] = scored[q]
      /\ stage'[p] = "dedup"
  BY <1>1, <1>2, OthersSee DEF IInv, Types
<1>5. Types'
  BY <1>1, <1>2, <1>3 DEF IInv, Types
<1>6. View(p)'.archived = archived
  <2>1. \A r \in Rows : View(p)'.archived[r] = archived[r]
    BY <1>1, <1>2 DEF View, Over
  <2>2. DOMAIN View(p)'.archived = Rows /\ View(p)'.archived = [r \in Rows |-> View(p)'.archived[r]]
    BY DEF View, Over
  <2>3. QED BY <2>1, <2>2 DEF IInv, Types
<1>7. Quiet'
  BY <1>1, <1>2, <1>4 DEF IInv, Quiet, Running, Settled
<1>8. Overlap'
  BY <1>3, <1>4 DEF IInv, Overlap, Running
<1>9. Archivers'
  BY <1>2 DEF IInv, Archivers, Committed, Types
<1>10. Taken'
  BY <1>1, <1>2, <1>4 DEF IInv, Taken, Committed, Types
<1>11. InUse'
  BY <1>1, <1>3, <1>4 DEF IInv, InUse
<1>12. Apart'
  <2>1. ASSUME NEW q \in Passes, q # p
        PROVE  /\ stage'[q] \in {"decay", "commit"} => Distinct(q, Live(View(q)) \cap vectored)'
               /\ stage'[q] = "committed" => Distinct(q, Live([archived |-> archived]) \cap vectored)'
    <3>1. stage'[q] = stage[q] /\ View(q)' = View(q)
      BY <1>4, <2>1
    <3>2. QED BY <1>2, <2>1, <3>1 DEF IInv, Apart, Committed, Distinct, Beyond, AreSimilar, Live
  <2>2. QED BY <1>4, <2>1 DEF Apart, Committed
<1>13. Kept'
  <2>1. SUFFICES ASSUME met' = {} PROVE Keeps(archived)' /\ \A q \in Passes : Keeps(View(q).archived)'
    BY DEF Kept
  <2>2. Keeps(archived) /\ \A q \in Passes : Keeps(View(q).archived)
    BY <1>3, <2>1 DEF IInv, Kept
  <2>3. Keeps(archived)'
    BY <1>2, <2>2, SameClusters DEF Keeps
  <2>4. ASSUME NEW q \in Passes PROVE Keeps(View(q).archived)'
    <3>1. View(q)'.archived = View(q).archived \/ View(q)'.archived = archived
      BY <1>4, <1>6
    <3>2. QED BY <1>2, <2>2, <3>1, SameClusters DEF Keeps
  <2>5. QED BY <2>3, <2>4
<1>14. QED BY <1>5, <1>7, <1>8, <1>9, <1>10, <1>11, <1>12, <1>13 DEF IInv

----------------------------------------------------------------------------
(* The second part.                                                        *)

\* What the deduplication leaves of a pass's view: w for short.
LEMMA DedupSees ==
    ASSUME Types, NEW p \in Passes, NEW w \in States,
           NEW group \in SUBSET Live(View(p)), Since(Fresh(View(p)), w, group),
           Write(p, [a \in DOMAIN None |-> Changes(w[a], View(p)[a])]),
           UNCHANGED dataVars
    PROVE  /\ pending' \in [Passes -> Writes] /\ toLock' \in [Passes -> SUBSET Rows]
           /\ \A q \in Passes \ {p} : pending'[q] = pending[q] /\ toLock'[q] = toLock[q]
           /\ View(p)'.archived = w.archived /\ View(p)'.utility = w.utility
           /\ DOMAIN pending'[p].archived = w.gone \cup DOMAIN pending[p].archived
           /\ \A r \in w.gone : pending'[p].archived[r] = "merged"
           /\ \A r \in DOMAIN pending[p].archived \ w.gone :
                  pending'[p].archived[r] = pending[p].archived[r]
<1> DEFINE v == View(p)
<1> DEFINE new == [a \in DOMAIN None |-> Changes(w[a], View(p)[a])]
<1>1. /\ v.archived \in [Rows -> Marks] /\ v.utility \in [Rows -> Nat]
      /\ w.archived \in [Rows -> Marks] /\ w.utility \in [Rows -> Nat]
      /\ w.accesses \in [Rows -> Nat]
  BY ViewFacts DEF States
<1>2. /\ w.gone \subseteq {r \in Rows : v.archived[r] = "no"}
      /\ \A r \in Rows : w.archived[r] = IF r \in w.gone THEN "merged" ELSE v.archived[r]
  BY DEF Since, Live, Fresh
<1>3. new = [accesses |-> Changes(w.accesses, v.accesses),
             utility |-> Changes(w.utility, v.utility),
             archived |-> Changes(w.archived, v.archived)]
  BY NoneIsWritten
<1> HIDE DEF v
<1>4. /\ \A r \in Rows : w.accesses[r] # v.accesses[r] => w.accesses[r] \in Nat
      /\ \A r \in Rows : w.utility[r] # v.utility[r] => w.utility[r] \in Nat
      /\ \A r \in Rows : w.archived[r] # v.archived[r] =>
             w.archived[r] \in {"merged", "decayed"}
  BY <1>1, <1>2
<1>5. /\ Changes(w.accesses, v.accesses) \in Part(Nat)
      /\ Changes(w.utility, v.utility) \in Part(Nat)
      /\ Changes(w.archived, v.archived) \in Part({"merged", "decayed"})
  BY <1>4, ChangesFacts
<1>6. new \in Writes
  BY <1>3, <1>5 DEF Writes
<1>7. /\ DOMAIN Changes(w.archived, v.archived) = w.gone
      /\ \A r \in w.gone : Changes(w.archived, v.archived)[r] = "merged"
  BY <1>2 DEF Changes
<1>8. Write(p, new)
  BY DEF v
<1> HIDE DEF new
<1>9. /\ pending' \in [Passes -> Writes] /\ toLock' \in [Passes -> SUBSET Rows]
      /\ \A q \in Passes \ {p} : pending'[q] = pending[q] /\ toLock'[q] = toLock[q]
      /\ pending'[p].utility = Merge(new.utility, pending[p].utility)
      /\ pending'[p].archived = Merge(new.archived, pending[p].archived)
  BY <1>6, <1>8, WriteFacts
<1>10. View(p)'.archived = w.archived
  BY <1>1, <1>3, <1>9, SeesArchived DEF v, dataVars
<1>11. View(p)'.utility = w.utility
  BY <1>1, <1>3, <1>9, SeesUtility DEF v, dataVars
<1>12. /\ DOMAIN pending'[p].archived = w.gone \cup DOMAIN pending[p].archived
       /\ \A r \in w.gone : pending'[p].archived[r] = "merged"
       /\ \A r \in DOMAIN pending[p].archived \ w.gone :
              pending'[p].archived[r] = pending[p].archived[r]
  BY <1>3, <1>7, <1>9 DEF Merge
<1>13. QED BY <1>9, <1>10, <1>11, <1>12

\* The points of rows taken by p.
LEMMA PointsDropped ==
    ASSUME Types, NEW p \in Passes, NEW rows, rows \subseteq Rows, DropPoints(p, rows)
    PROVE  /\ points' \subseteq points /\ took' \in [Rows -> SUBSET Passes]
           /\ \A r \in points \ points' : r \in rows /\ p \in took'[r]
           /\ \A r \in Rows : \A q \in took'[r] : q \in took[r] \/ (q = p /\ r \in rows)
           /\ \A r \in Rows : took[r] \subseteq took'[r]
<1>1. PICK gone \in SUBSET rows :
          /\ points' = points \ gone
          /\ took' = [r \in Rows |-> IF r \in gone THEN took[r] \cup {p} ELSE took[r]]
  BY DEF DropPoints
<1>2. QED BY <1>1 DEF Types

\* Every cluster with a row to compare keeps one of them.
LEMMA ClusterIsClosed == \A r \in Rows : r \in Cluster(r) /\ Cluster(r) \subseteq Rows /\ Closed(Cluster(r))
BY DEF Cluster, Closed

LEMMA DedupKeeps ==
    ASSUME Types, NEW p \in Passes, Keeps(View(p).archived), NEW group \in SUBSET Live(View(p))
    PROVE  Keeps(Deduplicated(Fresh(View(p)), group).archived)
<1> DEFINE v == View(p)
<1> DEFINE w == Deduplicated(Fresh(v), group)
<1>1. /\ Fresh(v) \in States /\ Fresh(v).gone = {} /\ group \in SUBSET Rows
      /\ Fresh(v).archived = v.archived
  BY ViewFacts DEF Fresh, States, Live
<1>2. /\ w \in States /\ Since(Fresh(v), w, group)
      /\ \A C \in SUBSET Rows : Closed(C) /\ C \cap group # {} => (C \cap group) \ w.gone # {}
  <2> HIDE DEF v
  <2>1. QED BY <1>1, DeduplicatedFacts
<1>3. /\ w.gone \subseteq group /\ \A r \in group : r \in Rows /\ v.archived[r] = "no"
      /\ \A r \in Rows : w.archived[r] = IF r \in w.gone THEN "merged" ELSE v.archived[r]
  BY <1>1, <1>2 DEF Since, Live
<1> HIDE DEF v, w
<1>4. ASSUME NEW r \in Rows, w.archived[r] = "merged"
      PROVE  \E s \in Cluster(r) : w.archived[s] # "merged"
  <2>1. r \in Cluster(r) /\ Cluster(r) \in SUBSET Rows /\ Closed(Cluster(r))
    BY ClusterIsClosed
  <2>2. CASE Cluster(r) \cap group # {}
    <3>1. PICK s \in Cluster(r) \cap group : s \notin w.gone
      BY <1>2, <2>1, <2>2
    <3>2. w.archived[s] # "merged"
      BY <1>3, <3>1
    <3>3. QED BY <3>1, <3>2
  <2>3. CASE Cluster(r) \cap group = {}
    <3>1. v.archived[r] = "merged"
      BY <1>3, <1>4, <2>1, <2>3
    <3>2. PICK s \in Cluster(r) : v.archived[s] # "merged"
      BY <3>1 DEF v, Keeps
    <3>3. w.archived[s] # "merged"
      BY <1>3, <2>1, <2>3, <3>2
    <3>4. QED BY <3>2, <3>3
  <2>4. QED BY <2>2, <2>3
<1>5. QED BY <1>4 DEF Keeps, w, v

\* Of two similar rows the younger is compared no later than the older.
LEMMA BatchFacts ==
    ASSUME NEW S, S \subseteq vectored, vectored \subseteq Rows, NEW i \in S, NEW j \in S, i < j,
           ~Beyond(j)
    PROVE  {i, j} \subseteq Oldest(S, DedupBatch)
<1> DEFINE before(T, x) == {k \in T : k < x}
<1>1. IsFiniteSet(Rows) /\ \A x \in S : x \in Nat
  <2>1. IsFiniteSet(1 .. N)
    BY FS_Interval, RowsAreNat
  <2>2. QED BY <2>1, RowsAreNat DEF Rows
<1>2. IsFiniteSet(before(vectored, j)) /\ IsFiniteSet(before(S, j)) /\ IsFiniteSet(before(S, i))
  BY <1>1, FS_Subset
<1>3. before(S, j) \subseteq before(vectored, j) /\ before(S, i) \subseteq before(S, j)
  <2>1. \A k \in S : k < i => k < j
    BY <1>1
  <2>2. QED BY <2>1
<1>4. /\ Cardinality(before(S, j)) <= Cardinality(before(vectored, j))
      /\ Cardinality(before(S, i)) <= Cardinality(before(S, j))
      /\ Cardinality(before(S, i)) \in Nat /\ Cardinality(before(S, j)) \in Nat
      /\ Cardinality(before(vectored, j)) \in Nat
  <2> HIDE DEF before
  <2>1. QED BY <1>2, <1>3, FS_Subset, FS_CardinalityType
<1>5. ~(Cardinality(before(vectored, j)) >= DedupBatch)
  BY DEF Beyond
<1>6. Cardinality(before(S, j)) < DedupBatch /\ Cardinality(before(S, i)) < DedupBatch
  <2> HIDE DEF before
  <2>1. QED BY <1>4, <1>5, LifecycleAssumption
<1>7. QED BY <1>6 DEF Oldest

LEMMA DedupStep ==
    ASSUME IInv, NEW p \in Passes, Dedup(p) PROVE IInv'
<1> DEFINE v == View(p)
<1> DEFINE batch == Oldest(Candidates(v), DedupBatch)
<1>1. /\ stage[p] = "dedup" /\ stage' = [stage EXCEPT ![p] = "decay"]
      /\ UNCHANGED <<similar, vectored, old, idle, accesses, utility, archived, lock, by, scored,
                     met, touch, touches>>
  BY DEF Dedup, inputs, dataVars
<1>2. /\ \A q \in Passes \ {p} : stage'[q] = stage[q]
      /\ stage'[p] = "decay"
      /\ \A r \in Rows : p \notin took[r]
  BY <1>1 DEF IInv, Types, Taken, Committed
<1>3. Overlap'
  BY <1>1, <1>2 DEF IInv, Overlap, Running
<1>4. Archivers'
  BY <1>1, <1>2 DEF IInv, Archivers, Committed, Types
<1>5. PICK unembedded \in SUBSET batch :
          /\ \A r \in unembedded, s \in batch : AreSimilar(r, s) => s \in unembedded
          /\ LET w == Deduplicated(Fresh(v), batch \ unembedded)
             IN  /\ Write(p, [a \in DOMAIN None |-> Changes(w[a], v[a])])
                 /\ DropPoints(p, w.gone)
          /\ skipped' = [skipped EXCEPT ![p] = unembedded]
  BY DEF Dedup
<1> DEFINE group == batch \ unembedded
<1> DEFINE w == Deduplicated(Fresh(v), group)
<1>6. /\ Write(p, [a \in DOMAIN None |-> Changes(w[a], v[a])]) /\ DropPoints(p, w.gone)
      /\ group \subseteq Live(v) /\ batch \subseteq Candidates(v)
      /\ Candidates(v) = Live(v) \cap vectored
  BY <1>5 DEF Oldest, Candidates
<1>7. /\ \A q \in Passes \ {p} : skipped'[q] = skipped[q]
      /\ skipped'[p] = unembedded /\ skipped' \in [Passes -> SUBSET Rows]
  BY <1>5, <1>6 DEF IInv, Types, Live<1>8. QED
  <2>0. group \subseteq Live(v) /\ group \subseteq Rows
    BY <1>6 DEF Live
  <2> HIDE DEF batch, group
  <2>1. Types
    BY DEF IInv
  <2>2. /\ Fresh(v) \in States /\ Fresh(v).gone = {} /\ group \in SUBSET Rows
        /\ Fresh(v).archived = v.archived /\ Fresh(v).utility = v.utility
    BY <2>0, <2>1, ViewFacts DEF Fresh, States
  <2>3. /\ w \in States /\ Since(Fresh(v), w, group)
        /\ \A i, j \in group \ w.gone : i # j => ~AreSimilar(i, j)
    <3> HIDE DEF v
    <3>1. QED BY <2>2, DeduplicatedFacts
  <2> HIDE DEF w
  <2>4. /\ pending' \in [Passes -> Writes] /\ toLock' \in [Passes -> SUBSET Rows]
        /\ \A q \in Passes \ {p} : pending'[q] = pending[q] /\ toLock'[q] = toLock[q]
        /\ View(p)'.archived = w.archived /\ View(p)'.utility = w.utility
        /\ DOMAIN pending'[p].archived = w.gone \cup DOMAIN pending[p].archived
        /\ \A r \in w.gone : pending'[p].archived[r] = "merged"
        /\ \A r \in DOMAIN pending[p].archived \ w.gone :
               pending'[p].archived[r] = pending[p].archived[r]
    BY <1>1, <1>6, <2>0, <2>1, <2>3, DedupSees DEF dataVars
  <2>5. /\ w.gone \subseteq Rows /\ w.gone \subseteq group
        /\ \A r \in Rows : w.archived[r] = IF r \in w.gone THEN "merged" ELSE v.archived[r]
        /\ \A r \in Rows : w.utility[r] >= v.utility[r]
        /\ v.utility \in [Rows -> Nat] /\ w.utility \in [Rows -> Nat]
    BY <2>1, <2>2, <2>3, ViewFacts DEF Since, States
  <2>6. /\ points' \subseteq points /\ took' \in [Rows -> SUBSET Passes]
        /\ \A r \in points \ points' : r \in w.gone /\ p \in took'[r]
        /\ \A r \in Rows : \A q \in took'[r] : q \in took[r] \/ (q = p /\ r \in w.gone)
        /\ \A r \in Rows : took[r] \subseteq took'[r]
    BY <1>6, <2>1, <2>5, PointsDropped
  <2>7. \A q \in Passes \ {p} : View(q)' = View(q)
    BY <1>1, <2>4, OthersSee
  <2>8. Types'
    BY <1>1, <1>7, <2>1, <2>4, <2>6 DEF Types
  <2>9. Quiet'
    BY <1>1, <1>2, <2>4 DEF IInv, Quiet, Running, Settled
  <2>10. Taken'
    <3>1. \A r \in vectored' \ points' : took'[r] # {}
      BY <1>1, <2>1, <2>6 DEF IInv, Taken, Types
    <3>2. ASSUME NEW r \in Rows, NEW q \in took'[r]
          PROVE  \/ stage'[q] \in {"decay", "commit"} /\ r \in DOMAIN pending'[q].archived
                 \/ stage'[q] = "committed" /\ archived[r] # "no"
                 \/ stage'[q] = "aborted"
      <4>1. CASE q = p
        BY <1>2, <2>4, <2>6, <3>2, <4>1
      <4>2. CASE q # p
        <5>1. q \in took[r] /\ q \in Passes
          BY <2>1, <2>6, <3>2, <4>2 DEF Types
        <5>2. QED BY <1>2, <2>4, <4>2, <5>1 DEF IInv, Taken, Committed
      <4>3. QED BY <4>1, <4>2
    <3>3. QED BY <1>1, <3>1, <3>2 DEF Taken, Committed
  <2>11. InUse'
    <3>1. ASSUME NEW q \in Passes \ met, q # p
          PROVE  /\ stage'[q] \in {"dedup", "decay"} =>
                        \A r \in scored[q] : View(q)'.archived[r] = "no" => View(q)'.utility[r] > 0
                 /\ \A r \in DOMAIN pending'[q].archived :
                        pending'[q].archived[r] = "decayed" => r \notin scored[q]
      BY <1>2, <2>4, <2>7, <3>1 DEF IInv, InUse
    <3>2. ASSUME p \notin met, NEW r \in scored[p], w.archived[r] = "no" PROVE w.utility[r] > 0
      <4>1. r \in Rows
        BY <2>1, <3>2 DEF Types
      <4>2. v.archived[r] = "no"
        BY <2>5, <3>2, <4>1
      <4>3. v.utility[r] > 0
        BY <1>1, <3>2, <4>2 DEF IInv, InUse
      <4> HIDE DEF v
      <4>4. QED BY <2>5, <4>1, <4>3
    <3>3. ASSUME p \notin met, NEW r \in DOMAIN pending'[p].archived,
                 pending'[p].archived[r] = "decayed"
          PROVE  r \notin scored[p]
      BY <2>4, <3>3 DEF IInv, InUse
    <3>4. QED BY <1>1, <2>4, <3>1, <3>2, <3>3 DEF InUse
  <2>12. Apart'
    <3>1. ASSUME NEW i \in Live(View(p))' \cap vectored, NEW j \in Live(View(p))' \cap vectored,
                 i < j, AreSimilar(i, j), j \notin unembedded
          PROVE  Beyond(j)
      <4>1. /\ i \in Candidates(v) \ w.gone /\ j \in Candidates(v) \ w.gone
            /\ Candidates(v) \subseteq vectored /\ vectored \subseteq Rows
        BY <1>6, <2>1, <2>4, <2>5, <3>1 DEF Live, Types
      <4>2. SUFFICES ASSUME ~Beyond(j) PROVE FALSE
        OBVIOUS
      <4>3. i \in batch /\ j \in batch
        BY <3>1, <4>1, <4>2, BatchFacts DEF batch
      <4>4. i \notin unembedded
        BY <1>5, <3>1, <4>3
      <4>5. i # j
        BY <3>1, <4>1, RowsAreNat
      <4>6. QED BY <2>3, <3>1, <4>1, <4>3, <4>4, <4>5 DEF group
    <3>2. Distinct(p, Live(View(p)) \cap vectored)'
      BY <1>1, <1>7, <3>1 DEF Distinct, Beyond, AreSimilar
    <3>3. ASSUME NEW q \in Passes, q # p
          PROVE  /\ stage'[q] \in {"decay", "commit"} => Distinct(q, Live(View(q)) \cap vectored)'
                 /\ stage'[q] = "committed" => Distinct(q, Live([archived |-> archived]) \cap vectored)'
      <4>1. stage'[q] = stage[q] /\ View(q)' = View(q) /\ skipped'[q] = skipped[q]
        BY <1>2, <1>7, <2>7, <3>3
      <4>2. QED BY <1>1, <3>3, <4>1 DEF IInv, Apart, Committed, Distinct, Beyond, AreSimilar, Live
    <3>4. QED BY <1>2, <3>2, <3>3 DEF Apart, Committed
  <2>13. Kept'
    <3>1. SUFFICES ASSUME met = {} PROVE Keeps(archived)' /\ \A q \in Passes : Keeps(View(q).archived)'
      BY <1>1 DEF Kept
    <3>2. Keeps(archived) /\ \A q \in Passes : Keeps(View(q).archived)
      BY <3>1 DEF IInv, Kept
    <3>3. Keeps(w.archived)
      BY <2>0, <2>1, <3>2, DedupKeeps DEF w
    <3>4. Keeps(archived)'
      BY <1>1, <3>2, SameClusters DEF Keeps
    <3>5. ASSUME NEW q \in Passes PROVE Keeps(View(q).archived)'
      <4>1. View(q)'.archived = View(q).archived \/ View(q)'.archived = w.archived
        BY <2>4, <2>7
      <4>2. QED BY <1>1, <3>2, <3>3, <4>1, SameClusters DEF Keeps
    <3>6. QED BY <3>4, <3>5
  <2>14. QED BY <1>3, <1>4, <2>8, <2>9, <2>10, <2>11, <2>12, <2>13 DEF IInv

----------------------------------------------------------------------------
(* The third part.                                                         *)

\* The rows the decay pass lets go.
Decayed(p) == {r \in Live(View(p)) \cap old : View(p).utility[r] = 0}

LEMMA DecaySees ==
    ASSUME Types, NEW p \in Passes, Decay(p)
    PROVE  /\ pending' \in [Passes -> Writes] /\ toLock' \in [Passes -> SUBSET Rows]
           /\ \A q \in Passes \ {p} : pending'[q] = pending[q] /\ toLock'[q] = toLock[q]
           /\ DOMAIN pending'[p].archived = Decayed(p) \cup DOMAIN pending[p].archived
           /\ \A r \in Decayed(p) : pending'[p].archived[r] = "decayed"
           /\ \A r \in DOMAIN pending[p].archived \ Decayed(p) :
                  pending'[p].archived[r] = pending[p].archived[r]
           /\ \A r \in Rows : View(p)'.archived[r] =
                  IF r \in Decayed(p) THEN "decayed" ELSE View(p).archived[r]
<1> DEFINE gone == Decayed(p)
<1> DEFINE marks == [r \in gone |-> "decayed"]
<1> DEFINE new == [None EXCEPT !.archived = marks]
<1>0. gone \subseteq Live(View(p)) /\ UNCHANGED dataVars
  BY DEF Decayed, Decay, Live, dataVars
<1>1. marks \in Part({"merged", "decayed"})
  <2>1. DOMAIN marks \subseteq Rows /\ marks \in [DOMAIN marks -> {"merged", "decayed"}]
    BY <1>0 DEF Live
  <2>2. QED BY <2>1, PartMember
<1>2. new \in Writes /\ new.archived = marks
  <2> HIDE DEF marks
  <2>1. QED BY <1>1, NoneIsWritten DEF None, Writes
<1>3. Write(p, new)
  BY DEF Decay, Decayed
<1>4. DOMAIN marks = gone /\ \A r \in gone : marks[r] = "decayed"
  OBVIOUS
<1> HIDE DEF new, marks, gone
<1>5. /\ pending' \in [Passes -> Writes] /\ toLock' \in [Passes -> SUBSET Rows]
      /\ \A q \in Passes \ {p} : pending'[q] = pending[q] /\ toLock'[q] = toLock[q]
      /\ pending'[p].archived = Merge(marks, pending[p].archived)
  BY <1>2, <1>3, WriteFacts
<1>6. /\ DOMAIN pending'[p].archived = gone \cup DOMAIN pending[p].archived
      /\ \A r \in gone : pending'[p].archived[r] = "decayed"
      /\ \A r \in DOMAIN pending[p].archived \ gone :
             pending'[p].archived[r] = pending[p].archived[r]
  BY <1>4, <1>5 DEF Merge
<1>7. \A r \in Rows : View(p)'.archived[r] = IF r \in gone THEN "decayed" ELSE View(p).archived[r]
  BY <1>0, <1>6 DEF View, Over, dataVars
<1>8. QED BY <1>5, <1>6, <1>7 DEF gone

LEMMA DecayStep ==
    ASSUME IInv, NEW p \in Passes, Decay(p) PROVE IInv'
<1> DEFINE gone == Decayed(p)
<1>1. /\ stage[p] = "decay" /\ stage' = [stage EXCEPT ![p] = "commit"]
      /\ DropPoints(p, gone \cap vectored)
      /\ UNCHANGED <<similar, vectored, old, idle, accesses, utility, archived, lock, by, skipped,
                     scored, met, touch, touches>>
  BY DEF Decay, Decayed, inputs, dataVars
<1>2. /\ gone \subseteq Rows
      /\ \A r \in gone : View(p).archived[r] = "no" /\ View(p).utility[r] = 0
  BY DEF Decayed, Live
<1>3. Types
  BY DEF IInv
<1>4. /\ pending' \in [Passes -> Writes] /\ toLock' \in [Passes -> SUBSET Rows]
      /\ \A q \in Passes \ {p} : pending'[q] = pending[q] /\ toLock'[q] = toLock[q]
      /\ DOMAIN pending'[p].archived = gone \cup DOMAIN pending[p].archived
      /\ \A r \in gone : pending'[p].archived[r] = "decayed"
      /\ \A r \in DOMAIN pending[p].archived \ gone :
             pending'[p].archived[r] = pending[p].archived[r]
      /\ \A r \in Rows : View(p)'.archived[r] =
             IF r \in gone THEN "decayed" ELSE View(p).archived[r]
  BY <1>3, DecaySees
<1> HIDE DEF gone
<1>5. /\ points' \subseteq points /\ took' \in [Rows -> SUBSET Passes]
      /\ \A r \in points \ points' : r \in gone /\ p \in took'[r]
      /\ \A r \in Rows : \A q \in took'[r] : q \in took[r] \/ (q = p /\ r \in gone)
      /\ \A r \in Rows : took[r] \subseteq took'[r]
  <2>1. gone \cap vectored \subseteq Rows
    BY <1>2
  <2>2. QED BY <1>1, <1>3, <2>1, PointsDropped
<1>6. /\ \A q \in Passes \ {p} : View(q)' = View(q) /\ stage'[q] = stage[q]
      /\ stage'[p] = "commit"
  BY <1>1, <1>3, <1>4, OthersSee DEF Types
<1>7. Types'
  BY <1>1, <1>3, <1>4, <1>5 DEF Types
<1>8. Quiet'
  BY <1>1, <1>4, <1>6 DEF IInv, Quiet, Running, Settled
<1>9. Overlap'
  BY <1>1, <1>6 DEF IInv, Overlap, Running
<1>10. Archivers'
  BY <1>1, <1>6 DEF IInv, Archivers, Committed, Types
<1>11. Taken'
  <2>1. \A r \in vectored' \ points' : took'[r] # {}
    BY <1>1, <1>3, <1>5 DEF IInv, Taken, Types
  <2>2. ASSUME NEW r \in Rows, NEW q \in took'[r]
        PROVE  \/ stage'[q] \in {"decay", "commit"} /\ r \in DOMAIN pending'[q].archived
               \/ stage'[q] = "committed" /\ archived[r] # "no"
               \/ stage'[q] = "aborted"
    <3>1. CASE q = p
      <4>1. CASE r \in gone
        BY <1>4, <1>6, <3>1, <4>1
      <4>2. CASE r \notin gone
        BY <1>1, <1>4, <1>5, <1>6, <2>2, <3>1, <4>2 DEF IInv, Taken, Committed
      <4>3. QED BY <4>1, <4>2
    <3>2. CASE q # p
      <4>1. q \in took[r] /\ q \in Passes
        BY <1>3, <1>5, <2>2, <3>2 DEF Types
      <4>2. QED BY <1>4, <1>6, <3>2, <4>1 DEF IInv, Taken, Committed
    <3>3. QED BY <3>1, <3>2
  <2>3. QED BY <1>1, <2>1, <2>2 DEF Taken, Committed
<1>12. InUse'
  <2>1. ASSUME NEW q \in Passes \ met, q # p
        PROVE  /\ stage'[q] \in {"dedup", "decay"} =>
                      \A r \in scored[q] : View(q)'.archived[r] = "no" => View(q)'.utility[r] > 0
               /\ \A r \in DOMAIN pending'[q].archived :
                      pending'[q].archived[r] = "decayed" => r \notin scored[q]
    BY <1>4, <1>6, <2>1 DEF IInv, InUse
  <2>2. ASSUME p \notin met, NEW r \in DOMAIN pending'[p].archived,
               pending'[p].archived[r] = "decayed"
        PROVE  r \notin scored[p]
    <3>1. CASE r \in gone
      BY <1>1, <1>2, <2>2, <3>1 DEF IInv, InUse
    <3>2. CASE r \notin gone
      BY <1>4, <2>2, <3>2 DEF IInv, InUse
    <3>3. QED BY <3>1, <3>2
  <2>3. QED BY <1>1, <1>6, <2>1, <2>2 DEF InUse
<1>13. Apart'
  <2>1. Live(View(p))' \subseteq Live(View(p))
    BY <1>4 DEF Live
  <2>2. ASSUME NEW q \in Passes
        PROVE  /\ stage'[q] \in {"decay", "commit"} => Distinct(q, Live(View(q)) \cap vectored)'
               /\ stage'[q] = "committed" => Distinct(q, Live([archived |-> archived]) \cap vectored)'
    <3>1. CASE q = p
      BY <1>1, <1>6, <2>1, <2>2, <3>1 DEF IInv, Apart, Distinct, Beyond, AreSimilar
    <3>2. CASE q # p
      <4>1. stage'[q] = stage[q] /\ View(q)' = View(q)
        BY <1>6, <2>2, <3>2
      <4>2. QED BY <1>1, <2>2, <4>1 DEF IInv, Apart, Committed, Distinct, Beyond, AreSimilar, Live
    <3>3. QED BY <3>1, <3>2
  <2>3. QED BY <1>1, <1>3, <2>2 DEF Apart, Committed, Types
<1>14. Kept'
  <2>1. SUFFICES ASSUME met = {} PROVE Keeps(archived)' /\ \A q \in Passes : Keeps(View(q).archived)'
    BY <1>1 DEF Kept
  <2>2. Keeps(archived) /\ \A q \in Passes : Keeps(View(q).archived)
    BY <2>1 DEF IInv, Kept
  <2>3. Keeps(archived)'
    BY <1>1, <2>2, SameClusters DEF Keeps
  <2>4. ASSUME NEW q \in Passes, q # p PROVE Keeps(View(q).archived)'
    BY <1>1, <1>6, <2>2, <2>4, SameClusters DEF Keeps
  <2>5. Keeps(View(p).archived)'
    <3>1. ASSUME NEW r \in Rows, View(p)'.archived[r] = "merged"
          PROVE  \E s \in Cluster(r)' : View(p)'.archived[s] # "merged"
      <4>1. View(p).archived[r] = "merged"
        BY <1>4, <3>1
      <4>2. PICK s \in Cluster(r)' : View(p).archived[s] # "merged"
        BY <1>1, <2>2, <4>1, SameClusters
      <4>3. s \in Rows
        BY <4>2 DEF Cluster
      <4>4. QED BY <1>4, <4>2, <4>3
    <3>2. QED BY <3>1 DEF Keeps
  <2>6. QED BY <2>3, <2>4, <2>5
<1>15. QED BY <1>7, <1>8, <1>9, <1>10, <1>11, <1>12, <1>13, <1>14 DEF IInv

----------------------------------------------------------------------------
(* The other steps.                                                        *)

LEMMA MinFacts ==
    ASSUME NEW S \in SUBSET Rows, S # {} PROVE Min(S) \in S
<1>1. S \in SUBSET Nat
  BY RowsAreNat
<1>2. PICK x \in S : \A y \in S : x <= y
  BY <1>1, LeastNat
<1>3. QED BY <1>2 DEF Min

\* Steps after which every pass sees the same marks and utilities.
LEMMA SameView ==
    ASSUME IInv, Types',
           UNCHANGED <<similar, vectored, utility, archived, points, by, took, stage, pending,
                       scored, skipped, met>>,
           \A q \in Passes : ~Running(q) => Settled(q)' /\ \A r \in Rows : lock'[r] # q
    PROVE  IInv'
<1>1. \A q \in Passes : View(q)'.archived = View(q).archived /\ View(q)'.utility = View(q).utility
  BY DEF View
<1>2. Quiet'
  BY DEF IInv, Quiet, Running, Settled
<1>3. Overlap'
  BY DEF IInv, Overlap, Running
<1>4. Archivers'
  BY DEF IInv, Archivers, Committed
<1>5. Taken'
  BY DEF IInv, Taken, Committed
<1>6. InUse'
  BY <1>1 DEF IInv, InUse
<1>7. Apart'
  <2>1. ASSUME NEW q \in Passes
        PROVE  /\ stage'[q] \in {"decay", "commit"} => Distinct(q, Live(View(q)) \cap vectored)'
               /\ stage'[q] = "committed" => Distinct(q, Live([archived |-> archived]) \cap vectored)'
    BY <1>1, <2>1 DEF IInv, Apart, Committed, Distinct, Beyond, AreSimilar, Live
  <2>2. QED BY <2>1 DEF IInv, Types, Apart, Committed
<1>8. Kept'
  <2>1. ASSUME met = {}
        PROVE  Keeps(archived)' /\ \A q \in Passes : Keeps(View(q).archived)'
    BY <1>1, <2>1, SameClusters DEF IInv, Kept, Keeps
  <2>2. QED BY <2>1 DEF Kept
<1>9. QED BY <1>2, <1>3, <1>4, <1>5, <1>6, <1>7, <1>8 DEF IInv

LEMMA LockStep ==
    ASSUME IInv, NEW p \in Passes, LockRow(p) PROVE IInv'
<1>1. Min(toLock[p]) \in toLock[p] /\ Min(toLock[p]) \in Rows
  BY MinFacts DEF LockRow, IInv, Types
<1>2. PICK r \in Rows :
          /\ r \in toLock[p]
          /\ lock' = [lock EXCEPT ![r] = p]
          /\ toLock' = [toLock EXCEPT ![p] = @ \ {r}]
  BY <1>1 DEF LockRow
<1>3. UNCHANGED <<similar, vectored, old, idle, accesses, utility, archived, points, by, took, stage,
                  pending, scored, skipped, met, touch, touches>>
  BY DEF LockRow, inputs, dataVars
<1>4. Types'
  BY <1>2, <1>3 DEF IInv, Types
<1>5. \A q \in Passes : ~Running(q) => Settled(q)' /\ \A s \in Rows : lock'[s] # q
  BY <1>2 DEF IInv, Types, Quiet, Settled
<1>6. QED BY <1>3, <1>4, <1>5, SameView

LEMMA RequestStep ==
    ASSUME IInv, TouchRead \/ TouchFlush \/ TouchCommit \/ BecomeIdle PROVE IInv'
<1>1. UNCHANGED <<similar, vectored, old, utility, archived, points, by, took, stage, pending, toLock,
                  scored, skipped, met>>
  BY DEF TouchRead, TouchFlush, TouchCommit, BecomeIdle, inputs, rowVars, dataVars, passVars
<1>2. Types' /\ lock' \in [Rows -> Passes \cup {Nobody, Toucher}]
             /\ \A r \in Rows : lock'[r] \in {lock[r], Nobody, Toucher}
  <2>1. CASE TouchRead
    BY <1>1, <2>1, LifecycleAssumption DEF IInv, Types, TouchRead, rowVars, dataVars
  <2>2. CASE TouchFlush
    BY <1>1, <2>2 DEF IInv, Types, TouchFlush, dataVars
  <2>3. CASE TouchCommit
    BY <1>1, <2>3 DEF IInv, Types, TouchCommit, Unlocked
  <2>4. CASE BecomeIdle
    BY <1>1, <2>4 DEF IInv, Types, BecomeIdle, rowVars, dataVars
  <2>5. QED BY <2>1, <2>2, <2>3, <2>4
<1>3. \A q \in Passes : ~Running(q) => Settled(q)' /\ \A r \in Rows : lock'[r] # q
  BY <1>1, <1>2, LifecycleAssumption DEF IInv, Quiet, Settled
<1>4. QED BY <1>1, <1>2, <1>3, SameView

LEMMA RollbackStep ==
    ASSUME IInv, NEW p \in Passes, Running(p), Rollback(p) PROVE IInv'
<1>1. /\ lock' = Unlocked(p)
      /\ stage' = [stage EXCEPT ![p] = "aborted"]
      /\ pending' = [pending EXCEPT ![p] = None]
      /\ toLock' = [toLock EXCEPT ![p] = {}]
      /\ UNCHANGED <<similar, vectored, old, idle, accesses, utility, archived, points, by, took,
                     scored, skipped, met, touch, touches>>
  BY DEF Rollback, inputs, dataVars
<1>2. Types /\ stage[p] \in {"dedup", "decay", "commit"}
  BY DEF IInv, Running
<1>3. /\ \A q \in Passes \ {p} : /\ stage'[q] = stage[q] /\ pending'[q] = pending[q]
                                 /\ toLock'[q] = toLock[q]
      /\ stage'[p] = "aborted" /\ pending'[p] = None /\ toLock'[p] = {}
      /\ DOMAIN pending'[p].archived = {}
  BY <1>1, <1>2 DEF Types, None
<1>4. \A q \in Passes \ {p} : View(q)' = View(q)
  BY <1>1, <1>3, OthersSee
<1>5. Types'
  BY <1>1, <1>2, NoneIsWritten DEF Types, Unlocked
<1>6. View(p)'.archived = archived
  <2>1. View(p)'.archived = archived'
    BY <1>3, <1>5, SeesCommittedNext
  <2>2. QED BY <1>1, <2>1
<1>7. Quiet'
  <2>1. \A r \in Rows : \A q \in Passes : lock'[r] = q => lock[r] = q /\ q # p
    BY <1>1, <1>2, LifecycleAssumption DEF Types, Unlocked
  <2>2. QED BY <1>1, <1>3, <2>1 DEF IInv, Quiet, Running, Settled
<1>8. Overlap'
  BY <1>1, <1>3 DEF IInv, Overlap, Running
<1>9. Archivers'
  BY <1>1, <1>2, <1>3 DEF IInv, Archivers, Committed
<1>10. Taken'
  BY <1>1, <1>2, <1>3 DEF IInv, Taken, Committed, Types
<1>11. InUse'
  BY <1>1, <1>3, <1>4 DEF IInv, InUse
<1>12. Apart'
  <2>1. ASSUME NEW q \in Passes
        PROVE  /\ stage'[q] \in {"decay", "commit"} => Distinct(q, Live(View(q)) \cap vectored)'
               /\ stage'[q] = "committed" => Distinct(q, Live([archived |-> archived]) \cap vectored)'
    <3>1. CASE q = p
      BY <1>3, <3>1
    <3>2. CASE q # p
      <4>1. stage'[q] = stage[q] /\ View(q)' = View(q)
        BY <1>3, <1>4, <2>1, <3>2
      <4>2. QED BY <1>1, <2>1, <4>1 DEF IInv, Apart, Committed, Distinct, Beyond, AreSimilar, Live
    <3>3. QED BY <3>1, <3>2
  <2>2. QED BY <1>1, <1>2, <2>1 DEF Types, Apart, Committed
<1>13. Kept'
  <2>1. SUFFICES ASSUME met = {} PROVE Keeps(archived)' /\ \A q \in Passes : Keeps(View(q).archived)'
    BY <1>1 DEF Kept
  <2>2. Keeps(archived) /\ \A q \in Passes : Keeps(View(q).archived)
    BY <2>1 DEF IInv, Kept
  <2>3. Keeps(archived)'
    BY <1>1, <2>2, SameClusters DEF Keeps
  <2>4. ASSUME NEW q \in Passes PROVE Keeps(View(q).archived)'
    <3>1. View(q)'.archived = View(q).archived \/ View(q)'.archived = archived
      BY <1>4, <1>6
    <3>2. QED BY <1>1, <2>2, <3>1, SameClusters DEF Keeps
  <2>5. QED BY <2>3, <2>4
<1>14. QED BY <1>5, <1>7, <1>8, <1>9, <1>10, <1>11, <1>12, <1>13 DEF IInv

LEMMA CommitStep ==
    ASSUME IInv, NEW p \in Passes, Commit(p) PROVE IInv'
<1>1. /\ stage[p] = "commit" /\ Settled(p)
      /\ accesses' = View(p).accesses /\ utility' = View(p).utility
      /\ archived' = View(p).archived
      /\ by' = [r \in Rows |-> IF r \in DOMAIN pending[p].archived THEN p ELSE by[r]]
      /\ lock' = Unlocked(p)
      /\ stage' = [stage EXCEPT ![p] = "committed"]
      /\ pending' = [pending EXCEPT ![p] = None]
      /\ UNCHANGED <<similar, vectored, old, idle, points, took, toLock, scored, skipped, met, touch,
                     touches>>
  BY DEF Commit, inputs
<1>2. Types /\ Running(p)
  BY <1>1 DEF IInv, Running
<1>3. /\ \A q \in Passes \ {p} : stage'[q] = stage[q] /\ pending'[q] = pending[q]
      /\ stage'[p] = "committed" /\ pending'[p] = None
      /\ DOMAIN pending'[p].archived = {}
  BY <1>1, <1>2 DEF Types, None
<1>4. Types'
  BY <1>1, <1>2, ViewFacts, NoneIsWritten DEF Types, Unlocked
<1>5. /\ \A r \in Rows : archived'[r] =
             IF r \in DOMAIN pending[p].archived THEN pending[p].archived[r] ELSE archived[r]
      /\ DOMAIN pending[p].archived \subseteq Rows
      /\ \A r \in DOMAIN pending[p].archived : pending[p].archived[r] # "no"
  BY <1>1, <1>2, ViewFacts
<1>6. \A r \in Rows : archived'[r] = "no" => archived[r] = "no"
  BY <1>5
<1>7. Quiet'
  <2>1. \A r \in Rows : \A q \in Passes : lock'[r] = q => lock[r] = q /\ q # p
    BY <1>1, <1>2, LifecycleAssumption DEF Types, Unlocked
  <2>2. QED BY <1>1, <1>3, <2>1 DEF IInv, Quiet, Running, Settled
<1>8. Overlap'
  BY <1>1, <1>3 DEF IInv, Overlap, Running
<1>9. Archivers'
  <2>1. ASSUME NEW r \in Rows
        PROVE  IF archived'[r] = "no" THEN by'[r] = Nobody
               ELSE by'[r] \in Passes /\ stage'[by'[r]] = "committed"
    BY <1>1, <1>3, <1>5 DEF IInv, Archivers, Committed
  <2>2. QED BY <2>1 DEF Archivers, Committed
<1>10. Taken'
  <2>1. ASSUME NEW r \in Rows, NEW q \in took[r]
        PROVE  \/ stage'[q] \in {"decay", "commit"} /\ r \in DOMAIN pending'[q].archived
               \/ stage'[q] = "committed" /\ archived'[r] # "no"
               \/ stage'[q] = "aborted"
    <3>1. q \in Passes
      BY <1>2, <2>1 DEF Types
    <3>2. QED BY <1>1, <1>3, <1>5, <1>6, <2>1, <3>1 DEF IInv, Taken, Committed
  <2>2. QED BY <1>1, <2>1 DEF IInv, Taken, Committed
<1>11. InUse'
  <2>1. ASSUME NEW q \in Passes \ met, stage'[q] \in {"dedup", "decay"} PROVE FALSE
    BY <1>2, <1>3, <2>1 DEF IInv, Overlap, Running
  <2>2. QED BY <1>1, <1>3, <2>1 DEF IInv, InUse
<1>12. Apart'
  <2>1. ASSUME NEW q \in Passes
        PROVE  /\ stage'[q] \in {"decay", "commit"} => Distinct(q, Live(View(q)) \cap vectored)'
               /\ stage'[q] = "committed" => Distinct(q, Live([archived |-> archived]) \cap vectored)'
    <3>1. CASE q = p
      BY <1>1, <1>3, <2>1, <3>1 DEF IInv, Apart, Distinct, Beyond, AreSimilar, Live
    <3>2. CASE q # p
      <4>1. stage'[q] = stage[q] /\ pending'[q] = pending[q]
        BY <1>3, <2>1, <3>2
      <4>2. \A r \in Rows : View(q)'.archived[r] =
                IF r \in DOMAIN pending[q].archived THEN pending[q].archived[r] ELSE archived'[r]
        BY <4>1 DEF View, Over
      <4>3. Live(View(q))' \subseteq Live(View(q))
        <5>1. \A r \in Rows : View(q)'.archived[r] = "no" => View(q).archived[r] = "no"
          BY <1>2, <1>6, <2>1, <4>2, ViewFacts
        <5>2. QED BY <5>1 DEF Live
      <4>4. Live([archived |-> archived])' \subseteq Live([archived |-> archived])
        BY <1>6 DEF Live
      <4>5. QED BY <1>1, <2>1, <4>1, <4>3, <4>4 DEF IInv, Apart, Committed, Distinct, Beyond, AreSimilar
    <3>3. QED BY <3>1, <3>2
  <2>2. QED BY <1>1, <1>2, <2>1 DEF Types, Apart, Committed
<1>13. Kept'
  <2>1. SUFFICES ASSUME met = {} PROVE Keeps(archived)' /\ \A q \in Passes : Keeps(View(q).archived)'
    BY <1>1 DEF Kept
  <2>2. Keeps(View(p).archived)
    BY <2>1 DEF IInv, Kept
  <2>3. \A q \in Passes : DOMAIN pending'[q].archived = {}
    <3>1. \A q \in Passes \ {p} : ~Running(q)
      BY <1>2, <2>1 DEF IInv, Overlap
    <3>2. QED BY <1>3, <3>1 DEF IInv, Quiet, None
  <2>4. \A q \in Passes : View(q)'.archived = archived'
    BY <1>4, <2>3, SeesCommittedNext
  <2>5. \A r \in Rows : archived'[r] = "merged" => \E s \in Cluster(r)' : archived'[s] # "merged"
    BY <1>1, <2>2, SameClusters
  <2>6. QED BY <2>4, <2>5 DEF Keeps
<1>14. QED BY <1>4, <1>7, <1>8, <1>9, <1>10, <1>11, <1>12, <1>13 DEF IInv

\* Initially nothing is archived and no pass has begun.
LEMMA Initially == ASSUME Init PROVE IInv
<1>1. N \in Rows /\ 1 \in Rows
  BY RowsAreNat DEF Rows
<1>2. Types
  BY <1>1, NoneIsWritten DEF Init, Types, Marks, Score
<1>3. \A p \in Passes : pending[p] = None /\ stage[p] = "utility" /\ DOMAIN pending[p].archived = {}
  BY DEF Init, None
<1>4. \A p \in Passes : View(p).archived = archived
  BY <1>2, <1>3, SeesCommitted
<1>5. Keeps(archived)
  BY DEF Init, Keeps
<1>6. Quiet /\ Overlap /\ Archivers /\ Taken
  BY <1>3, LifecycleAssumption DEF Init, Quiet, Overlap, Archivers, Taken, Running, Settled
<1>7. InUse /\ Apart /\ Kept
  BY <1>3, <1>4, <1>5 DEF Init, InUse, Apart, Kept, Committed
<1>8. QED BY <1>2, <1>6, <1>7 DEF IInv

LEMMA Inductive ==
    ASSUME IInv, [Next]_vars PROVE IInv'
<1>1. ASSUME NEW p \in Passes, Pass(p) PROVE IInv'
  <2>1. CASE RecomputeUtility(p)
    BY <2>1, RecomputeStep
  <2>2. CASE Dedup(p)
    BY <2>2, DedupStep
  <2>3. CASE Decay(p)
    BY <2>3, DecayStep
  <2>4. CASE LockRow(p)
    BY <2>4, LockStep
  <2>5. CASE Commit(p)
    BY <2>5, CommitStep
  <2>6. CASE Deadlock(p)
    <3>1. Running(p)
      BY <2>6 DEF Deadlock, Waits, IInv, Quiet, Settled
    <3>2. QED BY <2>6, <3>1, RollbackStep DEF Deadlock
  <2>7. CASE Abort(p)
    BY <2>7, RollbackStep DEF Abort
  <2>8. QED BY <1>1, <2>1, <2>2, <2>3, <2>4, <2>5, <2>6, <2>7 DEF Pass
<1>2. CASE TouchRead \/ TouchFlush \/ TouchCommit \/ BecomeIdle
  BY <1>2, RequestStep
<1>3. CASE UNCHANGED vars
  <2>1. /\ UNCHANGED <<similar, vectored, utility, archived, points, by, took, stage, pending,
                       scored, skipped, met>>
        /\ UNCHANGED <<idle, accesses, lock, toLock, touch>>
    BY <1>3 DEF vars, inputs, rowVars, dataVars, passVars
  <2>2. Types'
    BY <2>1 DEF IInv, Types
  <2>3. \A q \in Passes : ~Running(q) => Settled(q)' /\ \A r \in Rows : lock'[r] # q
    BY <2>1 DEF IInv, Quiet, Settled
  <2>4. QED BY <2>1, <2>2, <2>3, SameView
<1>4. QED BY <1>1, <1>2, <1>3 DEF Next

----------------------------------------------------------------------------
(* The theorems.                                                           *)

\* The invariant holds of every pass, whatever runs beside it.
THEOREM Invariant == Spec => []IInv
<1>1. Init => IInv
  BY Initially
<1>2. IInv /\ [Next]_vars => IInv'
  BY Inductive
<1>3. QED BY <1>1, <1>2, PTL DEF Spec

\* Every variable keeps its type, a pass that is over holds no row, and a row
\* is archived exactly when a pass is on record for it.
THEOREM TypeCorrect == Spec => []TypeOK
<1>1. IInv => TypeOK
  BY LifecycleAssumption DEF IInv, Types, TypeOK, Quiet, Archivers, Running, Marks, Settled
<1>2. QED BY <1>1, Invariant, PTL

\* Merging never empties a cluster of near duplicates, for any similarities,
\* as long as no two passes overlapped: what _dedup_pass does with rows that
\* it has archived on the way costs nobody's last copy.
THEOREM ClusterAlwaysSurvives == Spec => []ClusterSurvives
<1>1. IInv => ClusterSurvives
  BY DEF IInv, Kept, Keeps, ClusterSurvives
<1>2. QED BY <1>1, Invariant, PTL

\* One pass of the nested loops of _dedup_pass is enough: no two live
\* memories are near duplicates afterwards, whatever ran beside it, but for
\* those of groups it could not embed and those beyond its LIMIT.
THEOREM SurvivorsAlwaysDissimilar == Spec => []SurvivorsDissimilar
<1>1. IInv => SurvivorsDissimilar
  BY DEF IInv, Apart, Distinct, Beyond, SurvivorsDissimilar
<1>2. QED BY <1>1, Invariant, PTL

\* A live memory without its point was lost by a pass that failed, or has not
\* committed yet: the points are deleted outside its transaction.
THEOREM OnlyFailedPassesLose == Spec => []LostOnlyByFailedPass
<1>1. IInv => LostOnlyByFailedPass
  <2>1. SUFFICES ASSUME IInv, NEW r \in vectored, archived[r] = "no", r \notin Recallable
        PROVE  \E p \in took[r] : ~Committed(p)
    BY DEF LostOnlyByFailedPass
  <2>2. r \in Rows /\ r \in vectored \ points
    BY <2>1 DEF IInv, Types, Recallable
  <2>3. PICK p \in took[r] : TRUE
    BY <2>1, <2>2 DEF IInv, Taken
  <2>4. ~Committed(p)
    BY <2>1, <2>2, <2>3 DEF IInv, Taken, Committed
  <2>5. QED BY <2>3, <2>4
<1>2. QED BY <1>1, Invariant, PTL

\* A memory in use whose utility a pass brought up to date does not decay in
\* it, if the pass met no other: the counters it merged and the uses in
\* between cannot lower it.
THEOREM UsedNeverDecay == Spec => []UsedDoNotDecay
<1>1. Init => UsedDoNotDecay
  BY DEF Init, UsedDoNotDecay
<1>2. ASSUME IInv, UsedDoNotDecay, [Next]_vars PROVE UsedDoNotDecay'
  <2>1. CASE UNCHANGED <<archived, by, scored, met>>
    BY <1>2, <2>1 DEF UsedDoNotDecay
  <2>2. ASSUME NEW p \in Passes, RecomputeUtility(p) PROVE UsedDoNotDecay'
    <3>1. /\ stage[p] = "utility" /\ met \subseteq met' /\ UNCHANGED <<archived, by>>
          /\ \A q \in Passes \ {p} : scored'[q] = scored[q]
      BY <2>2 DEF RecomputeUtility, rowVars, dataVars, IInv, Types
    <3>2. \A r \in Rows : archived[r] = "decayed" => by[r] \in Passes \ {p}
      BY <1>2, <3>1 DEF IInv, Archivers, Committed
    <3>3. QED BY <1>2, <3>1, <3>2 DEF UsedDoNotDecay
  <2>3. ASSUME NEW p \in Passes, Commit(p) PROVE UsedDoNotDecay'
    <3>1. /\ archived' = View(p).archived /\ UNCHANGED <<scored, met>>
          /\ by' = [r \in Rows |-> IF r \in DOMAIN pending[p].archived THEN p ELSE by[r]]
      BY <2>3 DEF Commit
    <3>2. \A r \in Rows : archived'[r] =
              IF r \in DOMAIN pending[p].archived THEN pending[p].archived[r] ELSE archived[r]
      BY <1>2, <3>1, ViewFacts DEF IInv
    <3>3. QED BY <1>2, <3>1, <3>2 DEF UsedDoNotDecay, IInv, InUse
  <2>4. QED
    BY <1>2, <2>1, <2>2, <2>3
    DEF Next, Pass, Dedup, Decay, LockRow, Deadlock, Abort, Rollback, TouchRead, TouchFlush,
        TouchCommit, BecomeIdle, vars, rowVars, dataVars, passVars
<1>3. QED BY <1>1, <1>2, Invariant, PTL DEF Spec
=============================================================================
