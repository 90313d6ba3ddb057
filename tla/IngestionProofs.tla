---------------------------- MODULE IngestionProofs ----------------------------
(***************************************************************************)
(* Theorems about Ingestion, for every tree, number of requests, window,   *)
(* batch and cache size: the statistics are honest, vectors belong to their *)
(* texts, every line a chunker undertakes is findable, and an upsert keeps *)
(* the text of what it replaces.                                           *)
(*                                                                         *)
(* IInv, the inductive invariant, says what each task, request, point and  *)
(* cache entry is (Types, Stored), that a request not begun did nothing    *)
(* (Fresh), and what the requests have achieved so far: they count the     *)
(* chunks of the files done (Counted), and a file done without a failure has *)
(* all its points (Complete).  It rests on three groups of lemmas: the     *)
(* chunks of a document differ in kind, name or place, so that their ids do; *)
(* the cache stays a cache under the folds of embed_many; and the chunks of *)
(* a document cover the lines its chunker undertakes.                      *)
(***************************************************************************)
EXTENDS Ingestion, SequenceTheorems, FiniteSetTheorems, WellFoundedInduction, TLAPS

-----------------------------------------------------------------------------
(* Sets of numbers and their order.                                        *)

\* A set of numbers has a least one.
Less == OpToRel(<, Nat)
LEMMA LeastNat ==
    ASSUME NEW T \in SUBSET Nat, T # {} PROVE \E x \in T : \A y \in T : x <= y
<1>1. IsWellFoundedOn(Less, Nat)
  BY NatLessThanWellFounded DEF Less
<1>2. PICK x \in T : \A y \in T : <<y, x>> \notin Less
  BY <1>1, WFMin
<1>3. Less = {ss \in Nat \X Nat : ss[1] < ss[2]}
  BY DEF Less, OpToRel
<1>4. \A y \in T : ~(y < x)
  BY <1>2, <1>3
<1>5. QED BY <1>4

LEMMA MinFacts ==
    ASSUME NEW T \in SUBSET Nat, T # {} PROVE Min(T) \in T /\ \A y \in T : Min(T) <= y
BY LeastNat DEF Min

LEMMA MaxFacts ==
    ASSUME NEW m \in Nat, NEW T \in SUBSET (0 .. m), T # {}
    PROVE  Max(T) \in T /\ \A y \in T : y <= Max(T)
<1> DEFINE U == {m - x : x \in T}
<1>1. U \in SUBSET Nat /\ U # {}
  <2>1. \A x \in T : x \in 0 .. m
    OBVIOUS
  <2>2. \A x \in T : m - x \in Nat
    BY <2>1
  <2>3. QED BY <2>2
<1>2. PICK u \in U : \A y \in U : u <= y
  <2> HIDE DEF U
  <2>1. QED BY <1>1, LeastNat
<1>3. PICK x \in T : u = m - x
  OBVIOUS
<1>4. \A y \in T : m - x <= m - y
  BY <1>2, <1>3
<1>5. \A y \in T : x >= y
  BY <1>4
<1>6. QED BY <1>5 DEF Max

\* The elements below n.
Below(S, n) == {m \in S : m < n}

LEMMA BelowFacts ==
    ASSUME NEW S \in SUBSET Int, IsFiniteSet(S)
    PROVE  /\ \A n \in S : Cardinality(Below(S, n)) \in 0 .. Cardinality(S) - 1
           /\ \A n, o \in S : n < o => Cardinality(Below(S, n)) < Cardinality(Below(S, o))
<1>1. ASSUME NEW V, IsFiniteSet(V), NEW U \in SUBSET V, NEW x \in V, x \notin U
      PROVE  /\ Cardinality(U) \in Nat /\ Cardinality(V) \in Nat
             /\ Cardinality(U) < Cardinality(V)
  BY <1>1, FS_Subset, FS_CardinalityType
<1>2. ASSUME NEW n \in S PROVE Cardinality(Below(S, n)) \in 0 .. Cardinality(S) - 1
  <2>1. Below(S, n) \in SUBSET S /\ n \notin Below(S, n)
    BY DEF Below
  <2>2. QED BY <1>1, <2>1
<1>3. ASSUME NEW n \in S, NEW o \in S, n < o
      PROVE  Cardinality(Below(S, n)) < Cardinality(Below(S, o))
  <2>1. Below(S, n) \in SUBSET Below(S, o) /\ n \in Below(S, o) /\ n \notin Below(S, n)
    <3>1. \A k \in S : k < n => k < o
      BY <1>3
    <3>2. ~(n < n)
      OBVIOUS
    <3>3. QED BY <1>3, <3>1, <3>2 DEF Below
  <2>2. IsFiniteSet(Below(S, o))
    BY FS_Subset DEF Below
  <2>3. QED BY <1>1, <2>1, <2>2
<1>4. QED BY <1>2, <1>3

LEMMA InOrderFacts ==
    ASSUME NEW S \in SUBSET Int, IsFiniteSet(S)
    PROVE  /\ Cardinality(S) \in Nat /\ InOrder(S) \in Seq(S)
           /\ Len(InOrder(S)) = Cardinality(S) /\ DOMAIN InOrder(S) = 1 .. Cardinality(S)
           /\ \A k \in 1 .. Cardinality(S) : InOrder(S)[k] \in S
           /\ \A j, k \in 1 .. Cardinality(S) : j < k => InOrder(S)[j] < InOrder(S)[k]
           /\ \A n \in S : \E k \in 1 .. Cardinality(S) : InOrder(S)[k] = n
<1> DEFINE N == Cardinality(S)
<1> DEFINE place == [n \in S |-> Cardinality(Below(S, n)) + 1]
<1>1. N \in Nat
  BY FS_CardinalityType
<1>2. \A n \in S : place[n] \in 1 .. N
  BY <1>1, BelowFacts
<1>3. \A n, o \in S : n < o => place[n] < place[o]
  <2>1. \A n \in S : Cardinality(Below(S, n)) \in Int
    BY BelowFacts
  <2>2. QED BY <2>1, BelowFacts
<1>4. \A k \in 1 .. N : \E n \in S : place[n] = k
  <2>1. place \in Injection(S, 1 .. N)
    <3>1. place \in [S -> 1 .. N]
      BY <1>2
    <3>2. \A n, o \in S : n # o => n < o \/ o < n
      OBVIOUS
    <3>3. \A n \in S : place[n] \in Int
      BY <1>2
    <3>4. \A n, o \in S : place[n] = place[o] => n = o
      <4> HIDE DEF place
      <4>1. QED BY <1>3, <3>2, <3>3
    <3> HIDE DEF place
    <3>5. QED BY <3>1, <3>4 DEF Injection, IsInjective
  <2>2. IsFiniteSet(1 .. N) /\ Cardinality(1 .. N) = N
    BY <1>1, FS_Interval
  <2>3. place \in Surjection(S, 1 .. N)
    <3> HIDE DEF place
    <3>1. Cardinality(S) = Cardinality(1 .. N)
      BY <2>2
    <3> HIDE DEF N
    <3>2. QED BY <2>1, <2>2, <3>1, FS_Injection
  <2> HIDE DEF place
  <2>4. QED BY <2>3 DEF Surjection
<1>5. InOrder(S) = [k \in 1 .. N |-> CHOOSE n \in S : place[n] = k]
  <2>1. ASSUME NEW k \in 1 .. N, NEW n \in S
        PROVE  Cardinality({m \in S : m < n}) = k - 1 <=> place[n] = k
    <3>1. Cardinality({m \in S : m < n}) \in Int
      BY BelowFacts DEF Below
    <3>2. place[n] = Cardinality({m \in S : m < n}) + 1
      BY DEF Below
    <3>3. k \in Int
      BY <1>1
    <3>4. QED BY <3>1, <3>2, <3>3
  <2> HIDE DEF place
  <2> DEFINE A(k) == CHOOSE n \in S : Cardinality({m \in S : m < n}) = k - 1
             B(k) == CHOOSE n \in S : place[n] = k
  <2>2. \A k \in 1 .. N : A(k) = B(k)
    BY <2>1
  <2>3. InOrder(S) = [k \in 1 .. N |-> A(k)]
    BY DEF InOrder
  <2> HIDE DEF A, B
  <2>4. InOrder(S) = [k \in 1 .. N |-> B(k)]
    BY <2>2, <2>3
  <2>5. QED BY <2>4 DEF B
<1> HIDE DEF place
<1>6. \A k \in 1 .. N : InOrder(S)[k] \in S /\ place[InOrder(S)[k]] = k
  BY <1>4, <1>5
<1>7. \A n \in S : InOrder(S)[place[n]] = n
  <2>1. \A n, o \in S : n # o => n < o \/ o < n
    OBVIOUS
  <2>2. \A n, o \in S : place[n] = place[o] => n = o
    BY <1>2, <1>3, <2>1
  <2>3. QED BY <1>2, <1>6, <2>2
<1>8. ASSUME NEW j \in 1 .. N, NEW k \in 1 .. N, j < k PROVE InOrder(S)[j] < InOrder(S)[k]
  <2>1. /\ InOrder(S)[j] \in S /\ InOrder(S)[k] \in S
        /\ ~(place[InOrder(S)[k]] < place[InOrder(S)[j]])
        /\ place[InOrder(S)[k]] # place[InOrder(S)[j]]
    BY <1>1, <1>6, <1>8
  <2>2. InOrder(S)[j] \in Int /\ InOrder(S)[k] \in Int
    BY <2>1
  <2>3. QED BY <1>3, <2>1, <2>2
<1>9. InOrder(S) \in Seq(S) /\ Len(InOrder(S)) = N /\ DOMAIN InOrder(S) = 1 .. N
  <2>1. InOrder(S) \in [1 .. N -> S]
    BY <1>5, <1>6
  <2>2. InOrder(S) \in Seq(S)
    BY <1>1, <2>1, SeqDef
  <2>3. DOMAIN InOrder(S) = 1 .. N
    BY <2>1
  <2>4. Len(InOrder(S)) = N
    BY <1>1, <2>2, <2>3, LenProperties
  <2>5. QED BY <2>2, <2>3, <2>4
<1>10. QED BY <1>1, <1>2, <1>6, <1>7, <1>8, <1>9

-----------------------------------------------------------------------------
(* What the chunkers make of a document: a sequence of chunks in which no  *)
(* two have the same kind, name and lines.                                 *)

Docs == [lang : STRING, lines : Seq(STRING)]

Mark(c) == <<c.kind, c.name, c.first, c.last>>
MarksDiffer(s) == \A j, k \in DOMAIN s : Mark(s[j]) = Mark(s[k]) => j = k
IsCut(s) == (\E T : s \in Seq(T)) /\ MarksDiffer(s)

LEMMA EmptyCut == IsCut(<< >>)
<1>1. << >> \in Seq({})
  BY EmptySeq
<1>2. DOMAIN << >> = {}
  OBVIOUS
<1>3. QED BY <1>1, <1>2 DEF IsCut, MarksDiffer

LEMMA SingleCut == ASSUME NEW c PROVE IsCut(<< c >>)
<1>1. << c >> \in Seq({c})
  OBVIOUS
<1>2. \A j, k \in DOMAIN << c >> : j = k
  OBVIOUS
<1>3. QED BY <1>1, <1>2 DEF IsCut, MarksDiffer

LEMMA FunctionCut ==
    ASSUME NEW n \in Nat, NEW s, s = [k \in 1 .. n |-> s[k]],
           \A j, k \in 1 .. n : Mark(s[j]) = Mark(s[k]) => j = k
    PROVE  IsCut(s)
<1>1. s \in [1 .. n -> {s[k] : k \in 1 .. n}]
  <2> DEFINE T == {s[k] : k \in 1 .. n}
  <2>1. \A k \in 1 .. n : s[k] \in T
    OBVIOUS
  <2> HIDE DEF T
  <2>2. s \in [1 .. n -> T]
    BY <2>1
  <2>3. QED BY <2>2 DEF T
<1>2. DOMAIN s = 1 .. n
  BY <1>1
<1>3. \E T : s \in Seq(T)
  <2> DEFINE T == {s[k] : k \in 1 .. n}
  <2>1. s \in Seq(T)
    <3>1. s \in [1 .. n -> T]
      BY <1>1
    <3> HIDE DEF T
    <3>2. QED BY <3>1, SeqDef
  <2>2. QED BY <2>1
<1>4. QED BY <1>2, <1>3 DEF IsCut, MarksDiffer

LEMMA PieceMark ==
    ASSUME NEW lines, NEW kind, NEW name, NEW first, NEW last
    PROVE  /\ Piece(lines, kind, name, first, last).kind = kind
           /\ Piece(lines, kind, name, first, last).name = Named(name)
           /\ Piece(lines, kind, name, first, last).first = first
           /\ Piece(lines, kind, name, first, last).last = last
           /\ Piece(lines, kind, name, first, last).text = Strip(SubSeq(lines, first, last))
BY DEF Piece, Chunk

LEMMA LinesFacts ==
    ASSUME NEW lines \in Seq(STRING), NEW S \in SUBSET (0 .. Len(lines))
    PROVE  Len(lines) \in Nat /\ DOMAIN lines = 1 .. Len(lines) /\ IsFiniteSet(S) /\ S \in SUBSET Int
<1>1. Len(lines) \in Nat /\ DOMAIN lines = 1 .. Len(lines)
  BY LenProperties
<1>2. IsFiniteSet(0 .. Len(lines))
  BY <1>1, FS_Interval
<1>3. IsFiniteSet(S)
  BY <1>2, FS_Subset
<1>4. S \in SUBSET Int
  BY <1>1
<1>5. QED BY <1>1, <1>3, <1>4

\* Chunks that begin at the elements of a set.
LEMMA StartsCut ==
    ASSUME NEW lines \in Seq(STRING), NEW S \in SUBSET (0 .. Len(lines)), NEW s,
           s = [k \in 1 .. Cardinality(S) |-> s[k]],
           \A j, k \in 1 .. Cardinality(S) :
               s[j].first = s[k].first => InOrder(S)[j] = InOrder(S)[k]
    PROVE  IsCut(s)
<1>1. S \in SUBSET Int /\ IsFiniteSet(S)
  BY LinesFacts
<1>2. /\ Cardinality(S) \in Nat
      /\ \A j, k \in 1 .. Cardinality(S) : j < k => InOrder(S)[j] < InOrder(S)[k]
      /\ \A k \in 1 .. Cardinality(S) : InOrder(S)[k] \in Int
  BY <1>1, InOrderFacts
<1>3. ASSUME NEW j \in 1 .. Cardinality(S), NEW k \in 1 .. Cardinality(S),
             Mark(s[j]) = Mark(s[k])
      PROVE  j = k
  <2>1. s[j].first = s[k].first
    BY <1>3 DEF Mark
  <2>2. InOrder(S)[j] = InOrder(S)[k]
    BY <2>1
  <2>3. ~(j < k) /\ ~(k < j)
    BY <1>2, <2>2
  <2>4. QED BY <1>2, <2>3
<1>4. QED BY <1>2, <1>3, FunctionCut

LEMMA WindowsCut == ASSUME NEW lines \in Seq(STRING) PROVE IsCut(Windows(lines))
<1> DEFINE starts  == {s \in 0 .. Len(lines) - 1 : s % Step = 0}
           Full(s) == WindowAt(lines, s).text # << >>
           kept    == {s \in starts : Full(s) /\ \A e \in starts :
                        e < s /\ Full(e) => e + WindowLines < Len(lines)}
<1>1. kept \in SUBSET (0 .. Len(lines))
  <2>1. 0 .. Len(lines) - 1 \subseteq 0 .. Len(lines)
    BY LinesFacts
  <2>2. QED BY <2>1
<1>2. Windows(lines) = [k \in 1 .. Cardinality(kept) |-> WindowAt(lines, InOrder(kept)[k])]
  BY DEF Windows
<1> HIDE DEF kept
<1>3. \A start : WindowAt(lines, start).first = start + 1
  BY DEF WindowAt, Piece, Chunk
<1>4. \A k \in 1 .. Cardinality(kept) : Windows(lines)[k].first = InOrder(kept)[k] + 1
  BY <1>2, <1>3
<1>5. \A j, k \in 1 .. Cardinality(kept) :
          Windows(lines)[j].first = Windows(lines)[k].first => InOrder(kept)[j] = InOrder(kept)[k]
  <2>1. \A k \in 1 .. Cardinality(kept) : InOrder(kept)[k] \in Int
    BY <1>1, LinesFacts, InOrderFacts
  <2>2. QED BY <1>4, <2>1
<1>6. Windows(lines) = [k \in 1 .. Cardinality(kept) |-> Windows(lines)[k]]
  BY <1>2
<1>7. QED BY <1>1, <1>5, <1>6, StartsCut

LEMMA SectionsCut == ASSUME NEW lines \in Seq(STRING), NEW kind PROVE IsCut(Sections(lines, kind))
<1> DEFINE S == {k \in DOMAIN lines : lines[k] = "head"}
<1>1. S \in SUBSET (0 .. Len(lines))
  BY LinesFacts
<1>2. Heads(lines) = InOrder(S) /\ DOMAIN Heads(lines) = 1 .. Cardinality(S)
  <2>1. Heads(lines) = InOrder(S)
    BY DEF Heads
  <2> HIDE DEF S
  <2>2. QED BY <1>1, <2>1, LinesFacts, InOrderFacts
<1> HIDE DEF S
<1>3. Sections(lines, kind) = [k \in 1 .. Cardinality(S) |->
            Piece(lines, kind, "head", InOrder(S)[k],
                  IF k < Len(InOrder(S)) THEN InOrder(S)[k + 1] - 1 ELSE Len(lines))]
  BY <1>2 DEF Sections
<1>4. \A k \in 1 .. Cardinality(S) : Sections(lines, kind)[k].first = InOrder(S)[k]
  BY <1>3, PieceMark
<1>5. Sections(lines, kind) = [k \in 1 .. Cardinality(S) |-> Sections(lines, kind)[k]]
  BY <1>3
<1>6. QED BY <1>1, <1>4, <1>5, StartsCut

LEMMA JsonCut == ASSUME NEW lines \in Seq(STRING) PROVE IsCut(Json(lines))
<1>1. DOMAIN lines = 1 .. Len(lines) /\ Len(lines) \in Nat
  BY LinesFacts
<1> DEFINE s == [k \in DOMAIN lines |-> Chunk("toplevel", Key(k), 0, 0, <<ToString(k), lines[k]>>)]
<1>2. IsCut(s)
  <2>1. \A k \in 1 .. Len(lines) : s[k].name = <<"key", k>>
    BY <1>1 DEF Chunk, Key
  <2>2. s = [k \in 1 .. Len(lines) |-> s[k]]
    BY <1>1
  <2> HIDE DEF s
  <2>3. \A j, k \in 1 .. Len(lines) : Mark(s[j]) = Mark(s[k]) => j = k
    BY <2>1 DEF Mark
  <2>4. QED BY <1>1, <2>2, <2>3, FunctionCut
<1> DEFINE c == Chunk("toplevel", Named(""), 0, 0, Strip(lines))
<1>3. Json(lines) \in {<< >>, s, << c >>}
  BY DEF Json
<1> HIDE DEF c
<1> HIDE DEF s
<1>4. QED BY <1>2, <1>3, EmptyCut, SingleCut

LEMMA PythonCut == ASSUME NEW lines \in Seq(STRING) PROVE IsCut(Python(lines))
<1> DEFINE S == Definitions(lines)
           d == ModuleDoc(lines)
           s == [k \in DOMAIN InOrder(S) |->
                  Piece(lines, IF lines[InOrder(S)[k]] = "class" THEN "class" ELSE "function",
                        lines[InOrder(S)[k]], InOrder(S)[k], EndLine(lines, InOrder(S)[k]))]
<1>1. S \in SUBSET (0 .. Len(lines))
  BY LinesFacts DEF Definitions
<1>2. /\ DOMAIN InOrder(S) = 1 .. Cardinality(S) /\ Cardinality(S) \in Nat
      /\ \A k \in 1 .. Cardinality(S) : InOrder(S)[k] \in Int
  <2> HIDE DEF S
  <2>1. QED BY <1>1, LinesFacts, InOrderFacts
<1>3. Python(lines) = << >> \/ Python(lines) = d \o s
  BY DEF Python
<1>4. /\ s = [k \in 1 .. Cardinality(S) |-> s[k]] /\ DOMAIN s = 1 .. Cardinality(S)
      /\ \A k \in 1 .. Cardinality(S) :
           s[k].first = InOrder(S)[k] /\ s[k].kind \in {"class", "function"}
  <2>1. DOMAIN s = 1 .. Cardinality(S) /\ s = [k \in 1 .. Cardinality(S) |-> s[k]]
    BY <1>2
  <2>2. \A k \in 1 .. Cardinality(S) :
          s[k].first = InOrder(S)[k] /\ s[k].kind \in {"class", "function"}
    BY <1>2, PieceMark
  <2> HIDE DEF s, S
  <2>3. QED BY <1>2, <2>1, <2>2
<1>5. IsCut(d) /\ Len(d) \in 0 .. 1 /\ \A k \in 1 .. Len(d) : d[k].kind = "doc"
  <2> DEFINE c == Chunk("doc", Named("<module>"), 1,
                         IF Len(lines) < 5 THEN Len(lines) ELSE 5, Docstring(lines))
  <2>1. d = << >> \/ d = << c >>
    BY DEF ModuleDoc
  <2>2. c.kind = "doc"
    BY DEF Chunk
  <2> HIDE DEF c, d
  <2>3. Len(<< >>) = 0 /\ Len(<< c >>) = 1 /\ << c >>[1] = c
    OBVIOUS
  <2>4. CASE d = << >>
    BY <2>3, <2>4, EmptyCut
  <2>5. CASE d = << c >>
    BY <2>2, <2>3, <2>5, SingleCut
  <2>6. QED BY <2>1, <2>4, <2>5
<1> HIDE DEF s, d, S
<1>6. IsCut(s)
  BY <1>1, <1>4, StartsCut
<1>7. IsCut(d \o s)
  <2>1. PICK T : d \in Seq(T)
    BY <1>5 DEF IsCut
  <2>2. PICK U : s \in Seq(U)
    BY <1>6 DEF IsCut
  <2>3. d \in Seq(T \cup U) /\ s \in Seq(T \cup U)
    BY <2>1, <2>2, SeqMonotonic
  <2>4. /\ d \o s \in Seq(T \cup U) /\ Len(d \o s) = Len(d) + Len(s) /\ Len(s) \in Nat
        /\ DOMAIN (d \o s) = 1 .. Len(d) + Len(s) /\ DOMAIN d = 1 .. Len(d)
        /\ DOMAIN s = 1 .. Len(s)
        /\ \A k \in 1 .. Len(d) + Len(s) :
             (d \o s)[k] = IF k <= Len(d) THEN d[k] ELSE s[k - Len(d)]
    BY <2>3, ConcatProperties, LenProperties
  <2>5. \A k \in 1 .. Len(s) : s[k].kind # "doc"
    BY <1>4, <2>4
  <2>6. ASSUME NEW j \in DOMAIN (d \o s), NEW k \in DOMAIN (d \o s),
               Mark((d \o s)[j]) = Mark((d \o s)[k])
        PROVE  j = k
    <3>1. (d \o s)[j].kind = (d \o s)[k].kind
      BY <2>6 DEF Mark
    <3>2. CASE j <= Len(d) /\ k <= Len(d)
      BY <1>5, <2>4, <3>2
    <3>3. CASE j > Len(d) /\ k > Len(d)
      <4>1. /\ j - Len(d) \in 1 .. Len(s) /\ k - Len(d) \in 1 .. Len(s)
            /\ (d \o s)[j] = s[j - Len(d)] /\ (d \o s)[k] = s[k - Len(d)]
        BY <1>5, <2>4, <3>3
      <4>2. j - Len(d) = k - Len(d)
        BY <1>6, <2>4, <2>6, <4>1 DEF IsCut, MarksDiffer
      <4>3. QED BY <1>5, <2>4, <4>2
    <3>4. CASE j <= Len(d) /\ k > Len(d)
      <4>1. /\ j \in 1 .. Len(d) /\ k - Len(d) \in 1 .. Len(s)
            /\ (d \o s)[j] = d[j] /\ (d \o s)[k] = s[k - Len(d)]
        BY <1>5, <2>4, <3>4
      <4>2. QED BY <1>5, <2>5, <3>1, <4>1
    <3>5. CASE j > Len(d) /\ k <= Len(d)
      <4>1. /\ k \in 1 .. Len(d) /\ j - Len(d) \in 1 .. Len(s)
            /\ (d \o s)[k] = d[k] /\ (d \o s)[j] = s[j - Len(d)]
        BY <1>5, <2>4, <3>5
      <4>2. QED BY <1>5, <2>5, <3>1, <4>1
    <3>6. QED BY <1>5, <2>4, <3>2, <3>3, <3>4, <3>5
  <2>7. QED BY <2>4, <2>6 DEF IsCut, MarksDiffer
<1>8. QED BY <1>3, <1>7, EmptyCut

LEMMA ChunksCut == ASSUME NEW doc \in Docs PROVE IsCut(Chunks(doc))
<1>1. doc.lines \in Seq(STRING)
  BY DEF Docs
<1>2. IsCut(Markdown(doc.lines))
  BY <1>1, SectionsCut, EmptyCut, SingleCut DEF Markdown
<1>3. IsCut(Structure(doc))
  BY <1>1, <1>2, SectionsCut, EmptyCut, PythonCut, JsonCut DEF Structure
<1>4. QED BY <1>1, <1>3, WindowsCut, EmptyCut DEF Chunks

-----------------------------------------------------------------------------
(* The embedding cache: bounded, one entry per text, and with the text's   *)
(* own vector, whatever is looked up or put.                               *)

AllTexts == {c.text : c \in UNION {ToSet(Cut[d]) : d \in Documents}}
Entries  == {[text |-> x, vector |-> x] : x \in AllTexts}
Caches   ==
    {e \in Seq(Entries) : /\ Len(e) <= CacheMax
                          /\ \A j, k \in DOMAIN e : e[j].text = e[k].text => j = k}

LEMMA EntryFacts ==
    /\ \A x \in AllTexts : [text |-> x, vector |-> x] \in Entries
    /\ \A e \in Entries : e.text \in AllTexts /\ e.vector = e.text
BY DEF Entries

LEMMA CacheFacts ==
    ASSUME NEW e \in Caches
    PROVE  /\ e \in Seq(Entries) /\ Len(e) \in Nat /\ DOMAIN e = 1 .. Len(e) /\ Len(e) <= CacheMax
           /\ \A k \in 1 .. Len(e) : e[k] \in Entries
           /\ \A j, k \in 1 .. Len(e) : e[j].text = e[k].text => j = k
<1>1. e \in Seq(Entries)
  BY DEF Caches
<1>2. Len(e) \in Nat /\ DOMAIN e = 1 .. Len(e) /\ \A k \in 1 .. Len(e) : e[k] \in Entries
  BY <1>1, LenProperties, ElementOfSeq
<1>3. QED BY <1>1, <1>2 DEF Caches

LEMMA EmptyCache == << >> \in Caches
<1>1. << >> \in Seq(Entries) /\ Len(<< >>) = 0 /\ DOMAIN << >> = {}
  BY EmptySeq
<1>2. 0 <= CacheMax
  BY IngestionAssumption
<1>3. QED BY <1>1, <1>2 DEF Caches

LEMMA VectorFacts ==
    ASSUME NEW e \in Caches, NEW x, Cached(e, x)
    PROVE  VectorOf(e, x) = x
<1>1. PICK k \in 1 .. Len(e) : e[k].text = x
  BY CacheFacts DEF Cached
<1>2. Range(e) \subseteq Entries /\ e[k] \in Range(e)
  BY CacheFacts DEF Range
<1>3. \E y \in Range(e) : y.text = x
  BY <1>1, <1>2
<1>4. QED BY <1>2, <1>3, EntryFacts DEF VectorOf

LEMMA WithoutFacts ==
    ASSUME NEW e \in Caches, NEW x
    PROVE  /\ Without(e, x) \in Caches
           /\ \A k \in DOMAIN Without(e, x) : Without(e, x)[k].text # x
<1> DEFINE N == Len(e)
<1>1. /\ e \in Seq(Entries) /\ N \in Nat /\ DOMAIN e = 1 .. N /\ N <= CacheMax
      /\ \A k \in 1 .. N : e[k] \in Entries
      /\ \A j, k \in 1 .. N : e[j].text = e[k].text => j = k
  BY CacheFacts
<1>2. CASE ~Cached(e, x)
  BY <1>2 DEF Without, Cached
<1>3. CASE Cached(e, x)
  <2> DEFINE at == CHOOSE k \in DOMAIN e : e[k].text = x
  <2>1. at \in 1 .. N /\ e[at].text = x
    BY <1>1, <1>3 DEF Cached
  <2>2. Without(e, x) = SubSeq(e, 1, at - 1) \o SubSeq(e, at + 1, Len(e))
    BY <1>3 DEF Without, RemoveAt
  <2> HIDE DEF at
  <2> DEFINE a == SubSeq(e, 1, at - 1)
             b == SubSeq(e, at + 1, N)
  <2>3. /\ a \in Seq(Entries) /\ Len(a) = at - 1
        /\ \A i \in 1 .. at - 1 : a[i] = e[i]
    <3>1. 1 \in Int /\ at - 1 \in Int /\ \A i \in 1 .. at - 1 : e[i] \in Entries
      BY <1>1, <2>1
    <3>2. /\ a \in Seq(Entries) /\ Len(a) = IF 1 <= at - 1 THEN at - 1 - 1 + 1 ELSE 0
          /\ \A i \in 1 .. at - 1 - 1 + 1 : a[i] = e[1 + i - 1]
      BY <3>1, SubSeqProperties
    <3> HIDE DEF a
    <3>3. Len(a) = at - 1
      BY <1>1, <2>1, <3>2
    <3>4. \A i \in 1 .. at - 1 : i \in 1 .. at - 1 - 1 + 1 /\ 1 + i - 1 = i
      BY <1>1, <2>1
    <3>5. QED BY <3>2, <3>3, <3>4
  <2>4. /\ b \in Seq(Entries) /\ Len(b) = N - at
        /\ \A i \in 1 .. N - at : b[i] = e[at + i]
    <3>1. at + 1 \in Int /\ N \in Int /\ \A i \in at + 1 .. N : e[i] \in Entries
      BY <1>1, <2>1
    <3>2. /\ b \in Seq(Entries) /\ Len(b) = IF at + 1 <= N THEN N - (at + 1) + 1 ELSE 0
          /\ \A i \in 1 .. N - (at + 1) + 1 : b[i] = e[(at + 1) + i - 1]
      BY <3>1, SubSeqProperties
    <3> HIDE DEF b
    <3>3. Len(b) = N - at
      <4>1. CASE at + 1 <= N
        <5>1. N - (at + 1) + 1 = N - at
          BY <1>1, <2>1
        <5>2. QED BY <3>2, <4>1, <5>1
      <4>2. CASE ~(at + 1 <= N)
        <5>1. at = N /\ N - at = 0
          <6>1. \A p \in Nat : \A q \in 1 .. p : ~(q + 1 <= p) => q = p /\ p - q = 0
            OBVIOUS
          <6> HIDE DEF N
          <6>2. QED BY <1>1, <2>1, <4>2, <6>1
        <5>2. QED BY <3>2, <4>2, <5>1
      <4>3. QED BY <4>1, <4>2
    <3>4. \A i \in 1 .. N - at : i \in 1 .. N - (at + 1) + 1 /\ (at + 1) + i - 1 = at + i
      BY <1>1, <2>1
    <3>5. QED BY <3>2, <3>3, <3>4
  <2> DEFINE w == a \o b
             old(i) == IF i < at THEN i ELSE i + 1
  <2>5. /\ w \in Seq(Entries) /\ Len(w) = N - 1 /\ DOMAIN w = 1 .. N - 1
        /\ \A i \in 1 .. N - 1 : w[i] = e[old(i)] /\ old(i) \in 1 .. N /\ old(i) # at
    <3> HIDE DEF a, b
    <3>1. /\ w \in Seq(Entries) /\ Len(w) = Len(a) + Len(b)
          /\ \A i \in 1 .. Len(a) + Len(b) : w[i] = IF i <= Len(a) THEN a[i] ELSE b[i - Len(a)]
      BY <2>3, <2>4, ConcatProperties
    <3> HIDE DEF w
    <3>2. Len(w) = N - 1 /\ DOMAIN w = 1 .. N - 1
      BY <1>1, <2>1, <2>3, <2>4, <3>1, LenProperties
    <3>3. ASSUME NEW i \in 1 .. N - 1
          PROVE  w[i] = e[old(i)] /\ old(i) \in 1 .. N /\ old(i) # at
      <4>1. CASE i < at
        <5>1. i \in 1 .. at - 1 /\ i <= Len(a) /\ i \in 1 .. Len(a) + Len(b)
          BY <1>1, <2>1, <2>3, <2>4, <4>1
        <5>2. w[i] = a[i] /\ a[i] = e[i]
          BY <2>3, <3>1, <5>1
        <5>3. QED BY <1>1, <2>1, <4>1, <5>2
      <4>2. CASE ~(i < at)
        <5>1. /\ ~(i <= Len(a)) /\ i \in 1 .. Len(a) + Len(b)
              /\ i - Len(a) \in 1 .. N - at /\ at + (i - Len(a)) = i + 1
          BY <1>1, <2>1, <2>3, <2>4, <4>2
        <5>2. w[i] = b[i - Len(a)] /\ b[i - Len(a)] = e[at + (i - Len(a))]
          BY <2>4, <3>1, <5>1
        <5>3. w[i] = e[i + 1]
          BY <5>1, <5>2
        <5>4. QED BY <1>1, <2>1, <4>2, <5>3
      <4>3. QED BY <4>1, <4>2
    <3>4. QED BY <3>1, <3>2, <3>3
  <2> HIDE DEF a, b
  <2>6. Without(e, x) = w
    BY <2>2 DEF a, b
  <2> HIDE DEF w
  <2>7. \A j, k \in 1 .. N - 1 : old(j) = old(k) => j = k
    BY <1>1, <2>1
  <2> HIDE DEF old
  <2>8. \A j, k \in 1 .. N - 1 : w[j].text = w[k].text => j = k
    BY <1>1, <2>5, <2>7
  <2>9. \A k \in 1 .. N - 1 : w[k].text # x
    BY <1>1, <2>1, <2>5
  <2>10. N - 1 <= CacheMax
    BY <1>1, IngestionAssumption
  <2>11. w \in Caches
    BY <2>5, <2>8, <2>10 DEF Caches
  <2>12. QED BY <2>5, <2>6, <2>9, <2>11
<1>4. QED BY <1>2, <1>3

LEMMA CachePutFacts ==
    ASSUME NEW e \in Caches, NEW x \in AllTexts
    PROVE  CachePut(e, x, x) \in Caches
<1> DEFINE w == Without(e, x)
           y == [text |-> x, vector |-> x]
           moved == Append(w, y)
           N == Len(w)
<1>1. /\ w \in Seq(Entries) /\ N \in Nat /\ DOMAIN w = 1 .. N /\ N <= CacheMax
      /\ \A j, k \in 1 .. N : w[j].text = w[k].text => j = k
      /\ \A k \in 1 .. N : w[k].text # x
  <2>1. w \in Caches /\ \A k \in DOMAIN w : w[k].text # x
    BY WithoutFacts
  <2> HIDE DEF w
  <2>2. QED BY <2>1, CacheFacts
<1>2. y \in Entries /\ y.text = x
  BY EntryFacts
<1>3. CachePut(e, x, x) = IF Len(moved) > CacheMax THEN Tail(moved) ELSE moved
  BY DEF CachePut
<1> HIDE DEF w, y
<1>4. /\ moved \in Seq(Entries) /\ Len(moved) = N + 1 /\ DOMAIN moved = 1 .. N + 1 /\ moved # << >>
      /\ \A k \in 1 .. N : moved[k] = w[k]
      /\ moved[N + 1] = y
  BY <1>1, <1>2, AppendProperties, LenProperties
<1>5. \A j, k \in 1 .. N + 1 : moved[j].text = moved[k].text => j = k
  <2>1. \A k \in 1 .. N + 1 : k \in 1 .. N \/ k = N + 1
    BY <1>1
  <2> HIDE DEF moved, N
  <2>2. QED BY <1>1, <1>2, <1>4, <2>1
<1>6. CacheMax \in Nat /\ CacheMax >= 1
  BY IngestionAssumption
<1>7. CASE N + 1 > CacheMax
  <2> HIDE DEF moved
  <2>1. /\ Tail(moved) \in Seq(Entries) /\ Len(Tail(moved)) = N
        /\ \A i \in 1 .. Len(Tail(moved)) : Tail(moved)[i] = moved[i + 1]
    BY <1>1, <1>4, HeadTailProperties
  <2>2. DOMAIN Tail(moved) = 1 .. N
    BY <2>1, LenProperties
  <2>3. \A i \in 1 .. N : i + 1 \in 1 .. N + 1
    BY <1>1
  <2>4. ASSUME NEW j \in 1 .. N, NEW k \in 1 .. N, Tail(moved)[j].text = Tail(moved)[k].text
        PROVE  j = k
    <3>1. j + 1 = k + 1
      BY <1>5, <2>1, <2>3, <2>4
    <3>2. QED BY <1>1, <3>1
  <2>5. Tail(moved) \in Caches
    BY <1>1, <2>1, <2>2, <2>4 DEF Caches
  <2>6. QED BY <1>3, <1>4, <1>7, <2>5
<1>8. CASE ~(N + 1 > CacheMax)
  <2> HIDE DEF moved
  <2>1. N + 1 <= CacheMax
    BY <1>1, <1>6, <1>8
  <2>2. moved \in Caches
    BY <1>4, <1>5, <2>1 DEF Caches
  <2>3. QED BY <1>3, <1>4, <1>8, <2>2
<1>9. QED BY <1>7, <1>8

-----------------------------------------------------------------------------
(* The library's fold over a sequence takes the greatest index first and   *)
(* folds the others before it; what a step maps caches to caches, a fold   *)
(* does too.                                                               *)

LastOf(s) == Max(s)

\* op, as the function `step`, folded over the first m elements.
FoldsUpTo(f, step, base, m, n) ==
    \A s \in SUBSET (1 .. m) : Cardinality(s) <= n =>
        f[s] = IF s = {} THEN base ELSE step[<<f[s \ {LastOf(s)}], LastOf(s)>>]

Steps(step, m, C) == step \in [C \X (1 .. m) -> C]
Folds(f, step, base, m, C) ==
    /\ f \in [SUBSET (1 .. m) -> C]
    /\ \A s \in SUBSET (1 .. m) :
         f[s] = IF s = {} THEN base ELSE step[<<f[s \ {LastOf(s)}], LastOf(s)>>]

LEMMA LastFacts ==
    ASSUME NEW m \in Nat, NEW s \in SUBSET (1 .. m)
    PROVE  /\ IsFiniteSet(s) /\ Cardinality(s) \in Nat /\ (Cardinality(s) = 0 <=> s = {})
           /\ Cardinality(s) <= Cardinality(1 .. m) /\ Cardinality(1 .. m) \in Nat
           /\ s # {} => /\ LastOf(s) \in s /\ s \ {LastOf(s)} \in SUBSET (1 .. m)
                        /\ Cardinality(s \ {LastOf(s)}) = Cardinality(s) - 1
<1>1. IsFiniteSet(1 .. m)
  BY FS_Interval
<1>2. IsFiniteSet(s) /\ Cardinality(s) <= Cardinality(1 .. m)
  BY <1>1, FS_Subset
<1>3. s # {} => LastOf(s) \in s
  <2>1. s \in SUBSET (0 .. m)
    OBVIOUS
  <2>2. QED BY <2>1, MaxFacts DEF LastOf
<1>4. QED BY <1>1, <1>2, <1>3, FS_CardinalityType, FS_EmptySet, FS_RemoveElement

LEMMA SizeFacts ==
    ASSUME NEW m \in Nat
    PROVE  \A s \in SUBSET (1 .. m) :
             Cardinality(s) \in Nat /\ (Cardinality(s) <= 0 => s = {})
<1>1. ASSUME NEW s \in SUBSET (1 .. m)
      PROVE  Cardinality(s) \in Nat /\ (Cardinality(s) <= 0 => s = {})
  <2>1. Cardinality(s) \in Nat /\ (Cardinality(s) = 0 <=> s = {})
    BY LastFacts
  <2>2. QED BY <2>1
<1>2. QED BY <1>1

LEMMA FoldExists ==
    ASSUME NEW m \in Nat, NEW C, NEW base \in C, NEW step, Steps(step, m, C)
    PROVE  \E f : Folds(f, step, base, m, C)
<1> DEFINE D == SUBSET (1 .. m)
           Good(n) == \E f \in [D -> C] : FoldsUpTo(f, step, base, m, n)
<1> USE DEF Steps
<1>1. Good(0)
  <2>1. \A s \in D : Cardinality(s) <= 0 => s = {}
    BY SizeFacts
  <2>2. FoldsUpTo([s \in D |-> base], step, base, m, 0)
    BY <2>1 DEF FoldsUpTo
  <2>3. [s \in D |-> base] \in [D -> C]
    OBVIOUS
  <2>4. QED BY <2>2, <2>3
<1>2. ASSUME NEW n \in Nat, Good(n) PROVE Good(n + 1)
  <2>1. PICK f \in [D -> C] : FoldsUpTo(f, step, base, m, n)
    BY <1>2
  <2> DEFINE g == [s \in D |-> IF Cardinality(s) <= n \/ s = {} THEN f[s]
                               ELSE step[<<f[s \ {LastOf(s)}], LastOf(s)>>]]
  <2>2. g \in [D -> C]
    <3>1. ASSUME NEW s \in D, s # {} PROVE step[<<f[s \ {LastOf(s)}], LastOf(s)>>] \in C
      <4>1. LastOf(s) \in 1 .. m /\ s \ {LastOf(s)} \in D
        BY <3>1, LastFacts
      <4>2. f[s \ {LastOf(s)}] \in C
        BY <4>1
      <4>3. QED BY <4>1, <4>2
    <3>2. QED BY <3>1
  <2>3. ASSUME NEW s \in D, Cardinality(s) <= n + 1
        PROVE  g[s] = IF s = {} THEN base ELSE step[<<g[s \ {LastOf(s)}], LastOf(s)>>]
    <3>1. CASE s = {}
      <4>1. Cardinality(s) <= n
        BY <3>1, FS_EmptySet
      <4>2. QED BY <2>1, <3>1, <4>1 DEF FoldsUpTo
    <3>2. CASE s # {}
      <4>1. /\ s \ {LastOf(s)} \in D
            /\ Cardinality(s \ {LastOf(s)}) = Cardinality(s) - 1 /\ Cardinality(s) \in Nat
        BY <3>2, LastFacts
      <4>2. Cardinality(s \ {LastOf(s)}) <= n
        BY <2>3, <4>1
      <4>3. g[s \ {LastOf(s)}] = f[s \ {LastOf(s)}]
        BY <4>1, <4>2
      <4>4. g[s] = step[<<f[s \ {LastOf(s)}], LastOf(s)>>]
        BY <2>1, <3>2 DEF FoldsUpTo
      <4>5. QED BY <3>2, <4>3, <4>4
    <3>3. QED BY <3>1, <3>2
  <2>4. FoldsUpTo(g, step, base, m, n + 1)
    BY <2>3 DEF FoldsUpTo
  <2>5. QED BY <2>2, <2>4
<1> DEFINE Bad == {n \in Nat : ~Good(n)}
<1> HIDE DEF Good
<1>3. Bad = {}
  <2>1. ASSUME Bad # {} PROVE FALSE
    <3>1. PICK n \in Bad : \A k \in Bad : n <= k
      <4>1. Bad \in SUBSET Nat
        OBVIOUS
      <4> HIDE DEF Bad
      <4>2. QED BY <2>1, <4>1, LeastNat
    <3>2. n \in Nat /\ n # 0 /\ ~Good(n)
      BY <1>1
    <3>3. n - 1 \in Nat /\ (n - 1) + 1 = n /\ ~(n <= n - 1)
      BY <3>2
    <3>4. Good(n - 1)
      BY <3>1, <3>3
    <3>5. QED BY <1>2, <3>2, <3>3, <3>4
  <2>2. QED BY <2>1
<1> DEFINE N == Cardinality(1 .. m)
<1>4. N \in Nat /\ \A s \in D : Cardinality(s) <= N
  BY LastFacts
<1>5. PICK f \in [D -> C] : FoldsUpTo(f, step, base, m, N)
  <2> HIDE DEF N
  <2>1. Good(N)
    BY <1>3, <1>4
  <2>2. QED BY <2>1 DEF Good
<1>6. \A s \in D : f[s] = IF s = {} THEN base ELSE step[<<f[s \ {LastOf(s)}], LastOf(s)>>]
  BY <1>4, <1>5 DEF FoldsUpTo
<1>7. QED BY <1>6 DEF Folds

LEMMA FoldStays ==
    ASSUME NEW m \in Nat, NEW C, NEW f, f[{}] \in C,
           \A s \in SUBSET (1 .. m) : s # {} /\ f[s \ {LastOf(s)}] \in C => f[s] \in C
    PROVE  \A s \in SUBSET (1 .. m) : f[s] \in C
<1> DEFINE D == SUBSET (1 .. m)
           Bad == {s \in D : f[s] \notin C}
           Sizes == {Cardinality(s) : s \in Bad}
<1>1. ASSUME Bad # {} PROVE FALSE
  <2>1. Sizes \in SUBSET Nat /\ Sizes # {}
    <3>1. \A s \in D : Cardinality(s) \in Nat
      BY SizeFacts
    <3>2. QED BY <1>1, <3>1
  <2>2. PICK n \in Sizes : \A k \in Sizes : n <= k
    <3> HIDE DEF Sizes
    <3>1. QED BY <2>1, LeastNat
  <2>3. PICK s \in Bad : \A r \in Bad : Cardinality(s) <= Cardinality(r)
    BY <2>2
  <2>4. s \in D /\ s # {} /\ f[s] \notin C
    OBVIOUS
  <2>5. /\ s \ {LastOf(s)} \in D /\ Cardinality(s) \in Nat
        /\ Cardinality(s \ {LastOf(s)}) = Cardinality(s) - 1
    BY <2>4, LastFacts
  <2>6. s \ {LastOf(s)} \notin Bad
    <3> HIDE DEF Bad
    <3>1. \A r \in Bad : ~(Cardinality(r) = Cardinality(s) - 1)
      BY <2>3, <2>5
    <3>2. QED BY <2>5, <3>1
  <2>7. QED BY <2>4, <2>5, <2>6
<1>2. QED BY <1>1

Look(e, x) == IF Cached(e, x) THEN CachePut(e, x, VectorOf(e, x)) ELSE e

LEMMA LookFacts == ASSUME NEW e \in Caches, NEW x \in AllTexts PROVE Look(e, x) \in Caches
BY CachePutFacts, VectorFacts DEF Look

LEMMA LookupsFacts ==
    ASSUME cache \in Caches, NEW m \in Nat, NEW texts \in [1 .. m -> AllTexts]
    PROVE  AfterLookups(texts) \in Caches
<1> DEFINE D == SUBSET (1 .. m)
           iter == CHOOSE f : f = [s \in D |->
                     IF s = {} THEN cache ELSE Look(f[s \ {LastOf(s)}], texts[LastOf(s)])]
           step == [p \in Caches \X (1 .. m) |-> Look(p[1], texts[p[2]])]
<1>1. AfterLookups(texts) = iter[1 .. m]
  <2>1. DOMAIN texts = 1 .. m
    OBVIOUS
  <2>2. QED BY <2>1 DEF AfterLookups, FoldLeft, MapThenFoldSet, Look, LastOf
<1>2. step \in [Caches \X (1 .. m) -> Caches]
  BY LookFacts
<1>3. PICK f : Folds(f, step, cache, m, Caches)
  <2>1. Steps(step, m, Caches)
    BY <1>2 DEF Steps
  <2> HIDE DEF step
  <2>2. QED BY <2>1, FoldExists
<1>4. /\ f \in [D -> Caches]
      /\ \A s \in D : f[s] = IF s = {} THEN cache ELSE step[<<f[s \ {LastOf(s)}], LastOf(s)>>]
  BY <1>3 DEF Folds
<1>5. \A s \in D : f[s] \in Caches
  BY <1>4
<1>6. f = [s \in D |-> IF s = {} THEN cache ELSE Look(f[s \ {LastOf(s)}], texts[LastOf(s)])]
  <2>1. ASSUME NEW s \in D, s # {}
        PROVE  f[s] = Look(f[s \ {LastOf(s)}], texts[LastOf(s)])
    <3>1. LastOf(s) \in 1 .. m /\ s \ {LastOf(s)} \in D
      BY <2>1, LastFacts
    <3>2. QED BY <1>4, <1>5, <2>1, <3>1
  <2>2. f[{}] = cache
    BY <1>4
  <2>3. f = [s \in D |-> f[s]]
    BY <1>4
  <2>4. QED BY <2>1, <2>2, <2>3
<1>7. iter = [s \in D |-> IF s = {} THEN cache ELSE Look(iter[s \ {LastOf(s)}], texts[LastOf(s)])]
  BY <1>6
<1> HIDE DEF iter
<1>8. \A s \in D : iter[s] = IF s = {} THEN cache ELSE Look(iter[s \ {LastOf(s)}], texts[LastOf(s)])
  BY <1>7
<1>9. \A s \in D : iter[s] \in Caches
  <2>1. iter[{}] \in Caches
    BY <1>8
  <2>2. ASSUME NEW s \in D, s # {}, iter[s \ {LastOf(s)}] \in Caches PROVE iter[s] \in Caches
    <3>1. LastOf(s) \in 1 .. m /\ texts[LastOf(s)] \in AllTexts
      BY <2>2, LastFacts
    <3>2. QED BY <1>8, <2>2, <3>1, LookFacts
  <2>3. QED BY <2>1, <2>2, FoldStays
<1>10. QED BY <1>1, <1>9

LEMMA AnswersFacts ==
    ASSUME cache \in Caches, NEW m \in Nat, NEW texts \in [1 .. m -> AllTexts]
    PROVE  FoldLeft(LAMBDA entries, x : CachePut(entries, x, x), cache, texts) \in Caches
<1> DEFINE D == SUBSET (1 .. m)
           Put(e, x) == CachePut(e, x, x)
           iter == CHOOSE f : f = [s \in D |->
                     IF s = {} THEN cache ELSE Put(f[s \ {LastOf(s)}], texts[LastOf(s)])]
           step == [p \in Caches \X (1 .. m) |-> Put(p[1], texts[p[2]])]
<1>1. FoldLeft(LAMBDA entries, x : CachePut(entries, x, x), cache, texts) = iter[1 .. m]
  <2>1. DOMAIN texts = 1 .. m
    OBVIOUS
  <2>2. QED BY <2>1 DEF FoldLeft, MapThenFoldSet, LastOf
<1>2. \A e \in Caches, x \in AllTexts : Put(e, x) \in Caches
  BY CachePutFacts
<1> HIDE DEF Put
<1>3. step \in [Caches \X (1 .. m) -> Caches]
  BY <1>2
<1>4. PICK f : Folds(f, step, cache, m, Caches)
  <2>1. Steps(step, m, Caches)
    BY <1>3 DEF Steps
  <2> HIDE DEF step
  <2>2. QED BY <2>1, FoldExists
<1>5. /\ f \in [D -> Caches]
      /\ \A s \in D : f[s] = IF s = {} THEN cache ELSE step[<<f[s \ {LastOf(s)}], LastOf(s)>>]
  BY <1>4 DEF Folds
<1>6. \A s \in D : f[s] \in Caches
  BY <1>5
<1>7. f = [s \in D |-> IF s = {} THEN cache ELSE Put(f[s \ {LastOf(s)}], texts[LastOf(s)])]
  <2>1. ASSUME NEW s \in D, s # {}
        PROVE  f[s] = Put(f[s \ {LastOf(s)}], texts[LastOf(s)])
    <3>1. LastOf(s) \in 1 .. m /\ s \ {LastOf(s)} \in D
      BY <2>1, LastFacts
    <3>2. QED BY <1>5, <1>6, <2>1, <3>1
  <2>2. f[{}] = cache
    BY <1>5
  <2>3. f = [s \in D |-> f[s]]
    BY <1>5
  <2>4. QED BY <2>1, <2>2, <2>3
<1>8. iter = [s \in D |-> IF s = {} THEN cache ELSE Put(iter[s \ {LastOf(s)}], texts[LastOf(s)])]
  BY <1>7
<1> HIDE DEF iter
<1>9. \A s \in D : iter[s] = IF s = {} THEN cache ELSE Put(iter[s \ {LastOf(s)}], texts[LastOf(s)])
  BY <1>8
<1>10. \A s \in D : iter[s] \in Caches
  <2>1. iter[{}] \in Caches
    BY <1>9
  <2>2. ASSUME NEW s \in D, s # {}, iter[s \ {LastOf(s)}] \in Caches PROVE iter[s] \in Caches
    <3>1. LastOf(s) \in 1 .. m /\ texts[LastOf(s)] \in AllTexts
      BY <2>2, LastFacts
    <3>2. QED BY <1>2, <1>9, <2>2, <3>1
  <2>3. QED BY <2>1, <2>2, FoldStays
<1>11. QED BY <1>1, <1>10

-----------------------------------------------------------------------------
(* The inductive invariant.                                                *)

Requests == [at : {"none", "open", "ended"}, kind : {None, "directory", "text"},
             project : Projects \cup {None}, seen : 0 .. Cardinality(Files),
             created : Nat, failed : Nat]

\* A vector is its chunk's text, or is missing.
Outs(d) == {o \in [DOMAIN Cut[d] -> AllTexts \cup {NoVector}] :
              \A k \in DOMAIN Cut[d] : o[k] \in {NoVector, Cut[d][k].text}}
Works   == UNION {[at : {"embedding", "upserting"}, doc : {d}, chunks : {Cut[d]},
                   out : Outs(d), misses : Seq(DOMAIN Cut[d])] : d \in Documents}
Endings == {Ended(d, "done") : d \in Documents}
Tasks   == {Idle, Absent} \cup Endings \cup Works

\* What is still to be asked for: each position once, none with a vector.
Asks(t) ==
    /\ \A j, k \in DOMAIN t.misses : t.misses[j] = t.misses[k] => j = k
    /\ \A j \in DOMAIN t.misses : t.out[t.misses[j]] = NoVector
AtStage(t) ==
    /\ t.at = "embedding" => t.misses # << >>
    /\ t.at = "upserting" => t.misses = << >> /\ Filled(t) > 0

TaskTypes ==
    /\ task \in [Ingests -> [Files -> Tasks]]
    /\ \A i \in Ingests, f \in Files :
         task[i][f] \in Works => Asks(task[i][f]) /\ AtStage(task[i][f])
    /\ \A i \in Ingests : Cardinality(Running(i)) <= Concurrency
Types ==
    /\ tree \in [Files -> Documents] /\ \A f \in Files : tree[f] \in Contents[f]
    /\ ingest \in [Ingests -> Requests]
    /\ TaskTypes
    /\ cache \in Caches /\ DOMAIN wrote = Ingests

\* A request that has not begun has done nothing.
Fresh ==
    \A i \in Ingests : ingest[i].at = "none" =>
        /\ \A f \in Files : task[i][f] = Absent
        /\ wrote[i] = {} /\ ingest[i].created = 0 /\ ingest[i].failed = 0

\* The statistics count the chunks of the files done so far.
Counted ==
    \A i \in Ingests :
        /\ IsFiniteSet(wrote[i]) /\ ingest[i].created = Cardinality(wrote[i])
        /\ IsFiniteSet(Read(i)) /\ ingest[i].created + ingest[i].failed = Cardinality(Read(i))
        /\ wrote[i] \subseteq DOMAIN store
        /\ \A id \in wrote[i] : id[2] \in ReadBy(i)

\* A point is what its id says: a chunk of the document in it.
Stored ==
    \A id \in DOMAIN store :
        /\ store[id].vector = store[id].text
        /\ store[id].first = id[5] /\ store[id].last = id[6]
        /\ id[1] = store[id].version
        /\ store[id].version # NoVersion =>
             /\ id[1] \in Documents
             /\ \E k \in DOMAIN Cut[id[1]] :
                  /\ <<id[3], id[4], id[5], id[6]>> = Mark(Cut[id[1]][k])
                  /\ store[id].text = Cut[id[1]][k].text

\* A file done by a request that has no failure has all its points.
Complete ==
    \A i \in Ingests : ingest[i].kind = "directory" =>
        \A f \in ReadBy(i) :
            \/ ingest[i].failed > 0
            \/ \A k \in DOMAIN Cut[task[i][f].doc] :
                 PointId(f, task[i][f].doc, Cut[task[i][f].doc][k]) \in DOMAIN store

IInv == Types /\ Fresh /\ Counted /\ Stored /\ Complete

-----------------------------------------------------------------------------
(* Tasks.                                                                  *)

LEMMA CutFacts ==
    ASSUME NEW d \in Documents
    PROVE  /\ Len(Cut[d]) \in Nat /\ DOMAIN Cut[d] = 1 .. Len(Cut[d])
           /\ (Cut[d] = << >> <=> Len(Cut[d]) = 0)
           /\ MarksDiffer(Cut[d]) /\ d \in Docs
           /\ \A k \in 1 .. Len(Cut[d]) : Cut[d][k].text \in AllTexts
<1>1. d \in Docs
  BY IngestionAssumption DEF Documents, Docs
<1>2. Cut[d] = Chunks(d)
  BY DEF Cut
<1>3. IsCut(Cut[d])
  BY <1>1, <1>2, ChunksCut
<1>4. PICK T : Cut[d] \in Seq(T)
  BY <1>3 DEF IsCut
<1>5. /\ Len(Cut[d]) \in Nat /\ DOMAIN Cut[d] = 1 .. Len(Cut[d])
      /\ (Cut[d] = << >> <=> Len(Cut[d]) = 0)
  BY <1>4, LenProperties, EmptySeq
<1>6. ASSUME NEW k \in 1 .. Len(Cut[d]) PROVE Cut[d][k].text \in AllTexts
  <2>1. Cut[d][k] \in ToSet(Cut[d])
    BY <1>5 DEF ToSet
  <2>2. Cut[d][k] \in UNION {ToSet(Cut[e]) : e \in Documents}
    BY <2>1
  <2>3. QED BY <2>2 DEF AllTexts
<1>7. QED BY <1>1, <1>3, <1>5, <1>6 DEF IsCut

LEMMA WorkFacts ==
    ASSUME NEW t \in Works
    PROVE  /\ t.at \in {"embedding", "upserting"} /\ t.doc \in Documents
           /\ t.chunks = Cut[t.doc] /\ t.out \in Outs(t.doc)
           /\ t.misses \in Seq(DOMAIN Cut[t.doc])
           /\ t = [at |-> t.at, doc |-> t.doc, chunks |-> Cut[t.doc],
                   out |-> t.out, misses |-> t.misses]
<1>1. PICK d \in Documents : t \in [at : {"embedding", "upserting"}, doc : {d},
          chunks : {Cut[d]}, out : Outs(d), misses : Seq(DOMAIN Cut[d])]
  BY DEF Works
<1>2. QED BY <1>1

LEMMA WorkMade ==
    ASSUME NEW d \in Documents, NEW a \in {"embedding", "upserting"}, NEW o \in Outs(d),
           NEW ms \in Seq(DOMAIN Cut[d])
    PROVE  [at |-> a, doc |-> d, chunks |-> Cut[d], out |-> o, misses |-> ms] \in Works
BY DEF Works

LEMMA TasksApart ==
    /\ Idle.at = "queued" /\ Absent.at = "absent" /\ Idle \in Tasks /\ Absent \in Tasks
    /\ \A d \in Documents : /\ Ended(d, "done").at = "done" /\ Ended(d, "done").doc = d
                            /\ Ended(d, "done") \in Tasks
    /\ Idle \notin Works /\ Absent \notin Works
    /\ \A d \in Documents : Ended(d, "done") \notin Works
    /\ \A t \in Tasks : /\ t.at \in {"queued", "absent", "embedding", "upserting", "done"}
                        /\ t.at \in {"embedding", "upserting"} => t \in Works
                        /\ t.at = "done" => t.doc \in Documents
                        /\ t.at = "absent" => t = Absent
<1>1. Idle.at = "queued" /\ Absent.at = "absent" /\ Idle \in Tasks /\ Absent \in Tasks
  BY DEF Idle, Absent, Tasks
<1>2. \A d \in Documents : /\ Ended(d, "done").at = "done" /\ Ended(d, "done").doc = d
                           /\ Ended(d, "done") \in Endings
  BY DEF Ended, Endings
<1>3. \A t \in Works : t.at \in {"embedding", "upserting"}
  BY WorkFacts
<1>4. \A t \in Endings : t.at = "done" /\ t.doc \in Documents
  BY DEF Ended, Endings
<1>5. QED BY <1>1, <1>2, <1>3, <1>4 DEF Tasks

LEMMA FilledFacts ==
    ASSUME NEW t \in Works
    PROVE  /\ IsFiniteSet({k \in DOMAIN t.chunks : t.out[k] # NoVector})
           /\ Filled(t) \in 0 .. Len(Cut[t.doc]) /\ Filled(t) \in Nat
           /\ Filled(t) = Len(Cut[t.doc]) => \A k \in DOMAIN t.chunks : t.out[k] # NoVector
<1> DEFINE n == Len(Cut[t.doc])
           K == {k \in DOMAIN t.chunks : t.out[k] # NoVector}
<1>1. DOMAIN t.chunks = 1 .. n /\ n \in Nat
  BY WorkFacts, CutFacts
<1>2. IsFiniteSet(1 .. n) /\ Cardinality(1 .. n) = n
  BY <1>1, FS_Interval
<1>3. K \in SUBSET (1 .. n) /\ Filled(t) = Cardinality(K)
  BY <1>1 DEF Filled
<1> HIDE DEF K, n
<1>4. IsFiniteSet(K) /\ Cardinality(K) \in Nat /\ Cardinality(K) <= n /\ (Cardinality(K) = n => K = 1 .. n)
  BY <1>2, <1>3, FS_Subset, FS_CardinalityType
<1>5. QED BY <1>1, <1>3, <1>4 DEF K, n

\* One task moves on and stays at work, or is given up or ended without a point.
GoesOn(i, f, u) ==
    /\ u \in Works /\ Asks(u) /\ AtStage(u)
    /\ task' = [task EXCEPT ![i][f] = u]
    /\ UNCHANGED ingest
Fails(i, f, d) ==
    /\ d \in Documents
    /\ task' = [task EXCEPT ![i][f] = Ended(d, "done")]
    /\ ingest' = [ingest EXCEPT ![i].failed = @ + Len(Cut[d])]

LEMMA EmbeddedFacts ==
    ASSUME NEW i, NEW f, NEW t \in Works, Asks(t), t.at = "embedding", Embedded(i, f, t)
    PROVE  (\E u : u.doc = t.doc /\ GoesOn(i, f, u)) \/ Fails(i, f, t.doc)
<1> DEFINE u == [t EXCEPT !.at = "upserting"]
<1>1. /\ t.doc \in Documents /\ t.chunks = Cut[t.doc] /\ t.out \in Outs(t.doc)
      /\ t.misses \in Seq(DOMAIN Cut[t.doc])
      /\ t = [at |-> t.at, doc |-> t.doc, chunks |-> Cut[t.doc],
              out |-> t.out, misses |-> t.misses]
  BY WorkFacts
<1>2. CASE t.misses # << >>
  <2>1. GoesOn(i, f, t)
    BY <1>2 DEF Embedded, GoesOn, AtStage
  <2>2. QED BY <2>1
<1>3. CASE t.misses = << >> /\ Filled(t) > 0
  <2>1. u = [at |-> "upserting", doc |-> t.doc, chunks |-> Cut[t.doc],
             out |-> t.out, misses |-> t.misses]
    BY <1>1
  <2>2. u \in Works
    BY <1>1, <2>1, WorkMade
  <2>3. u.at = "upserting" /\ u.doc = t.doc /\ u.chunks = t.chunks /\ u.out = t.out
        /\ u.misses = t.misses
    BY <1>1, <2>1
  <2>4. task' = [task EXCEPT ![i][f] = u] /\ UNCHANGED ingest
    BY <1>3 DEF Embedded
  <2> HIDE DEF u
  <2>5. Asks(u) /\ AtStage(u)
    BY <1>3, <2>3 DEF Asks, AtStage, Filled
  <2>6. QED BY <2>2, <2>3, <2>4, <2>5 DEF GoesOn
<1>4. CASE t.misses = << >> /\ ~(Filled(t) > 0)
  BY <1>1, <1>4 DEF Embedded, Fails
<1>5. QED BY <1>2, <1>3, <1>4

LEMMA TextsFacts ==
    ASSUME NEW d \in Documents
    PROVE  /\ Texts(Cut[d]) \in [1 .. Len(Cut[d]) -> AllTexts] /\ Len(Cut[d]) \in Nat
           /\ \A k \in DOMAIN Cut[d] : Texts(Cut[d])[k] = Cut[d][k].text
           /\ DOMAIN Texts(Cut[d]) = DOMAIN Cut[d]
BY CutFacts DEF Texts

LEMMA BeginsWork ==
    ASSUME cache \in Caches, NEW d \in Documents
    PROVE  LET texts == Texts(Cut[d])
               t == [at |-> "embedding", doc |-> d, chunks |-> Cut[d], out |-> Found(texts),
                     misses |-> Misses(texts)]
           IN  /\ t \in Works /\ Asks(t) /\ t.at = "embedding" /\ t.doc = d
               /\ AfterLookups(texts) \in Caches
<1> DEFINE texts == Texts(Cut[d])
           n == Len(Cut[d])
           S == {k \in DOMAIN texts : ~Cached(cache, texts[k])}
           t == [at |-> "embedding", doc |-> d, chunks |-> Cut[d], out |-> Found(texts),
                 misses |-> Misses(texts)]
<1>1. /\ texts \in [1 .. n -> AllTexts] /\ n \in Nat /\ DOMAIN Cut[d] = 1 .. n
      /\ \A k \in 1 .. n : texts[k] = Cut[d][k].text
  BY TextsFacts, CutFacts
<1> HIDE DEF texts, n
<1>2. AfterLookups(texts) \in Caches
  BY <1>1, LookupsFacts
<1>3. Found(texts) \in Outs(d) /\ \A k \in S : Found(texts)[k] = NoVector
  <2>1. \A k \in 1 .. n : Found(texts)[k] = IF Cached(cache, texts[k]) THEN texts[k] ELSE NoVector
    BY <1>1, VectorFacts DEF Found
  <2>2. Found(texts) = [k \in 1 .. n |-> Found(texts)[k]]
    BY <1>1 DEF Found
  <2>3. \A k \in 1 .. n : Found(texts)[k] \in AllTexts \cup {NoVector}
    BY <1>1, <2>1
  <2>4. Found(texts) \in [1 .. n -> AllTexts \cup {NoVector}]
    BY <2>2, <2>3
  <2>5. QED BY <1>1, <2>1, <2>4 DEF Outs
<1>4. /\ Misses(texts) \in Seq(S) /\ DOMAIN Misses(texts) = 1 .. Cardinality(S)
      /\ Cardinality(S) \in Nat
      /\ \A k \in 1 .. Cardinality(S) : Misses(texts)[k] \in S
      /\ \A j, k \in 1 .. Cardinality(S) : j < k => Misses(texts)[j] < Misses(texts)[k]
  <2>1. Misses(texts) = InOrder(S)
    BY DEF Misses
  <2>2. S \in SUBSET Int /\ IsFiniteSet(S)
    <3>1. S \in SUBSET (1 .. n)
      BY <1>1
    <3>2. IsFiniteSet(1 .. n)
      BY <1>1, FS_Interval
    <3> HIDE DEF S
    <3>3. IsFiniteSet(S)
      BY <3>1, <3>2, FS_Subset
    <3>4. S \in SUBSET Int
      BY <1>1, <3>1
    <3>5. QED BY <3>3, <3>4
  <2> HIDE DEF S
  <2>3. QED BY <2>1, <2>2, InOrderFacts
<1>5. Misses(texts) \in Seq(DOMAIN Cut[d])
  <2>1. S \subseteq DOMAIN Cut[d]
    BY <1>1
  <2> HIDE DEF S
  <2>2. QED BY <1>4, <2>1, SeqMonotonic
<1>6. t \in Works
  BY <1>3, <1>5, WorkMade
<1>7. t.at = "embedding" /\ t.doc = d /\ t.out = Found(texts) /\ t.misses = Misses(texts)
  OBVIOUS
<1>8. Asks(t)
  <2>1. S \subseteq Int
    BY <1>1
  <2> HIDE DEF t, S
  <2>2. \A j, k \in 1 .. Cardinality(S) : Misses(texts)[j] = Misses(texts)[k] => j = k
    <3>1. ASSUME NEW j \in 1 .. Cardinality(S), NEW k \in 1 .. Cardinality(S),
                 Misses(texts)[j] = Misses(texts)[k]
          PROVE  j = k
      <4>1. Misses(texts)[j] \in Int
        BY <1>4, <2>1
      <4>2. ~(Misses(texts)[j] < Misses(texts)[j])
        BY <4>1
      <4>3. ~(j < k) /\ ~(k < j)
        BY <1>4, <3>1, <4>2
      <4>4. QED BY <1>4, <4>3
    <3>2. QED BY <3>1
  <2>3. QED BY <1>3, <1>4, <1>7, <2>2 DEF Asks
<1> HIDE DEF t
<1>9. QED BY <1>2, <1>6, <1>7, <1>8 DEF t, texts

\* What a task does between two awaits: it goes on working or fails.
LEMMA StartFacts ==
    ASSUME Types, NEW i \in Ingests, NEW f \in Files, StartTask(i, f)
    PROVE  /\ task[i][f] = Idle /\ cache' \in Caches /\ UNCHANGED <<tree, store, wrote>>
           /\ Cardinality(Running(i)) < Concurrency
           /\ (\E u : GoesOn(i, f, u)) \/ (\E d : Fails(i, f, d))
<1> DEFINE d == tree[f]
           texts == Texts(Cut[d])
           t == [at |-> "embedding", doc |-> d, chunks |-> Cut[d], out |-> Found(texts),
                 misses |-> Misses(texts)]
<1>1. d \in Documents /\ cache \in Caches
  BY DEF Types
<1>2. task[i][f] = Idle
  <2>1. task[i][f] \in Tasks /\ task[i][f].at = "queued"
    BY DEF Types, TaskTypes, StartTask
  <2>2. task[i][f] \notin Endings /\ task[i][f] # Absent
    BY <2>1, TasksApart DEF Endings
  <2>3. QED BY <2>1, <2>2, WorkFacts DEF Tasks
<1>3. Cardinality(Running(i)) < Concurrency /\ UNCHANGED <<tree, store, wrote>>
  BY DEF StartTask
<1>4. CASE Cut[d] = << >>
  <2>1. task' = [task EXCEPT ![i][f] = Ended(d, "done")] /\ ingest' = ingest /\ cache' = cache
    BY <1>4 DEF StartTask
  <2>2. Len(Cut[d]) = 0
    BY <1>1, <1>4, CutFacts
  <2>3. ingest' = [ingest EXCEPT ![i].failed = @ + Len(Cut[d])]
    <3>1. ingest \in [Ingests -> Requests] /\ ingest[i] \in Requests /\ ingest[i].failed \in Nat
      BY DEF Types, Requests
    <3>2. ingest[i].failed + Len(Cut[d]) = ingest[i].failed
      BY <2>2, <3>1
    <3>3. [ingest[i] EXCEPT !.failed = ingest[i].failed] = ingest[i]
      BY <3>1 DEF Requests
    <3>4. QED BY <2>1, <3>1, <3>2, <3>3
  <2>4. QED BY <1>1, <1>2, <1>3, <2>1, <2>3 DEF Fails
<1>5. CASE Cut[d] # << >>
  <2>1. Embedded(i, f, t) /\ cache' = AfterLookups(texts)
    BY <1>5 DEF StartTask
  <2>2. t \in Works /\ Asks(t) /\ t.at = "embedding" /\ t.doc = d /\ AfterLookups(texts) \in Caches
    BY <1>1, BeginsWork
  <2> HIDE DEF t, texts
  <2>3. (\E u : u.doc = t.doc /\ GoesOn(i, f, u)) \/ Fails(i, f, t.doc)
    BY <2>1, <2>2, EmbeddedFacts
  <2>4. QED BY <1>2, <1>3, <2>1, <2>2, <2>3
<1>6. QED BY <1>4, <1>5

LEMMA BatchFacts ==
    ASSUME NEW t \in Works, t.misses # << >>
    PROVE  LET m == t.misses
               b == Len(BatchOf(t))
           IN  /\ Len(m) \in Nat /\ DOMAIN m = 1 .. Len(m) /\ b \in 1 .. Len(m)
               /\ \A j \in 1 .. Len(m) : m[j] \in DOMAIN Cut[t.doc]
               /\ \A j \in 1 .. b : BatchOf(t)[j] = m[j]
               /\ SubSeq(m, b + 1, Len(m)) \in Seq(DOMAIN Cut[t.doc])
               /\ DOMAIN SubSeq(m, b + 1, Len(m)) = 1 .. Len(m) - b
               /\ \A j \in 1 .. Len(m) - b : SubSeq(m, b + 1, Len(m))[j] = m[b + j]
<1> DEFINE m == t.misses
           b == IF Len(m) < BatchSize THEN Len(m) ELSE BatchSize
           D == DOMAIN Cut[t.doc]
           rest == SubSeq(m, b + 1, Len(m))
<1>1. m \in Seq(D)
  BY WorkFacts
<1>2. BatchOf(t) = SubSeq(m, 1, b)
  BY DEF BatchOf
<1> HIDE DEF D, m
<1>3. /\ Len(m) \in Nat /\ DOMAIN m = 1 .. Len(m) /\ Len(m) > 0
      /\ \A j \in 1 .. Len(m) : m[j] \in D
  BY <1>1, LenProperties, EmptySeq, ElementOfSeq DEF m
<1>4. b \in 1 .. Len(m)
  BY <1>3, IngestionAssumption
<1> HIDE DEF b
<1>5. /\ Len(SubSeq(m, 1, b)) = b /\ \A j \in 1 .. b : SubSeq(m, 1, b)[j] = m[j]
  <2>1. 1 \in Int /\ b \in Int /\ \A j \in 1 .. b : m[j] \in D
    BY <1>3, <1>4
  <2>2. /\ Len(SubSeq(m, 1, b)) = IF 1 <= b THEN b - 1 + 1 ELSE 0
        /\ \A j \in 1 .. b - 1 + 1 : SubSeq(m, 1, b)[j] = m[1 + j - 1]
    BY <2>1, SubSeqProperties
  <2>3. b - 1 + 1 = b /\ 1 <= b /\ \A j \in 1 .. b : 1 + j - 1 = j
    BY <1>4
  <2>4. QED BY <2>2, <2>3
<1>6. /\ rest \in Seq(D) /\ Len(rest) = Len(m) - b
      /\ \A j \in 1 .. Len(m) - b : rest[j] = m[b + j]
  <2>1. b + 1 \in Int /\ Len(m) \in Int /\ \A j \in b + 1 .. Len(m) : m[j] \in D
    BY <1>3, <1>4
  <2>2. /\ rest \in Seq(D) /\ Len(rest) = IF b + 1 <= Len(m) THEN Len(m) - (b + 1) + 1 ELSE 0
        /\ \A j \in 1 .. Len(m) - (b + 1) + 1 : rest[j] = m[(b + 1) + j - 1]
    BY <2>1, SubSeqProperties
  <2> HIDE DEF rest
  <2>3. \A p \in Nat : \A q \in 1 .. p :
          /\ p - (q + 1) + 1 = p - q /\ (~(q + 1 <= p) => p - q = 0)
          /\ \A j \in 1 .. p - q : (q + 1) + j - 1 = q + j
    OBVIOUS
  <2>4. /\ Len(m) - (b + 1) + 1 = Len(m) - b /\ (~(b + 1 <= Len(m)) => Len(m) - b = 0)
        /\ \A j \in 1 .. Len(m) - b : (b + 1) + j - 1 = b + j
    BY <1>3, <1>4, <2>3
  <2>5. QED BY <2>2, <2>4
<1>7. DOMAIN rest = 1 .. Len(m) - b
  BY <1>6, LenProperties
<1>8. QED BY <1>2, <1>3, <1>4, <1>5, <1>6, <1>7 DEF D, m

LEMMA WorkAsks ==
    ASSUME NEW t \in Works, NEW o, NEW n
    PROVE  [t EXCEPT !.out = o, !.misses = SubSeq(@, n, Len(@))]
             = [at |-> t.at, doc |-> t.doc, chunks |-> Cut[t.doc], out |-> o,
                misses |-> SubSeq(t.misses, n, Len(t.misses))]
<1>1. t = [at |-> t.at, doc |-> t.doc, chunks |-> Cut[t.doc], out |-> t.out, misses |-> t.misses]
  BY WorkFacts
<1> DEFINE q == SubSeq(t.misses, n, Len(t.misses))
           m == t.misses
           p == t.out
           c == Cut[t.doc]
           a == t.at
           d == t.doc
<1>2. t = [at |-> a, doc |-> d, chunks |-> c, out |-> p, misses |-> m]
  BY <1>1
<1> HIDE DEF q, m, p, c, a, d
<1>3. [t EXCEPT !.out = o] = [at |-> a, doc |-> d, chunks |-> c, out |-> o, misses |-> m]
  BY <1>2
<1>4. [[t EXCEPT !.out = o] EXCEPT !.misses = q]
        = [at |-> a, doc |-> d, chunks |-> c, out |-> o, misses |-> q]
  <2> DEFINE v == [t EXCEPT !.out = o]
  <2>1. v = [at |-> a, doc |-> d, chunks |-> c, out |-> o, misses |-> m]
    BY <1>3
  <2> HIDE DEF v
  <2>2. [v EXCEPT !.misses = q] = [at |-> a, doc |-> d, chunks |-> c, out |-> o, misses |-> q]
    BY <2>1
  <2>3. QED BY <2>2 DEF v
<1>5. [t EXCEPT !.out = o, !.misses = q] = [[t EXCEPT !.out = o] EXCEPT !.misses = q]
  BY <1>2
<1>6. QED BY <1>4, <1>5 DEF q, a, d, c

LEMMA AnswerFacts ==
    ASSUME Types, NEW i \in Ingests, NEW f \in Files, AnswerBatch(i, f)
    PROVE  /\ task[i][f] \in Works /\ cache' \in Caches /\ UNCHANGED <<tree, store, wrote>>
           /\ (\E u : GoesOn(i, f, u)) \/ (\E d : Fails(i, f, d))
<1> DEFINE t == task[i][f]
           m == t.misses
           D == DOMAIN Cut[t.doc]
           b == Len(BatchOf(t))
<1>1. t \in Works /\ t.at = "embedding" /\ Asks(t) /\ AtStage(t) /\ cache \in Caches
  <2>1. t \in Tasks /\ t.at = "embedding"
    BY DEF Types, TaskTypes, AnswerBatch
  <2>2. t \in Works
    BY <2>1, TasksApart
  <2>3. QED BY <2>1, <2>2 DEF Types, TaskTypes
<1>2. UNCHANGED <<tree, store, wrote>>
  BY DEF AnswerBatch
<1> DEFINE texts(n) == [j \in 1 .. n |-> t.chunks[BatchOf(t)[j]].text]
           out(n) == [k \in DOMAIN t.out |->
                        IF \E j \in 1 .. n : Place(t, j) = k
                        THEN texts(n)[CHOOSE j \in 1 .. n : Place(t, j) = k]
                        ELSE t.out[k]]
           u(n) == [t EXCEPT !.out = out(n), !.misses = SubSeq(@, b + 1, Len(@))]
<1>3. PICK n \in 0 .. b :
        /\ cache' = FoldLeft(LAMBDA entries, x : CachePut(entries, x, x), cache, texts(n))
        /\ Embedded(i, f, u(n))
  BY DEF AnswerBatch
<1> DEFINE rest == SubSeq(m, b + 1, Len(m))
<1>4. /\ t.doc \in Documents /\ t.chunks = Cut[t.doc] /\ t.out \in Outs(t.doc)
      /\ t = [at |-> t.at, doc |-> t.doc, chunks |-> Cut[t.doc],
              out |-> t.out, misses |-> t.misses]
  BY <1>1, WorkFacts
<1>5. u(n) = [at |-> "embedding", doc |-> t.doc, chunks |-> Cut[t.doc], out |-> out(n),
              misses |-> rest]
  <2>1. t \in Works /\ t.at = "embedding"
    BY <1>1
  <2> HIDE DEF t, out, b
  <2>2. QED BY <2>1, WorkAsks
<1>6. /\ Len(m) \in Nat /\ DOMAIN m = 1 .. Len(m) /\ b \in 1 .. Len(m)
      /\ \A j \in 1 .. Len(m) : m[j] \in D
      /\ \A j \in 1 .. b : BatchOf(t)[j] = m[j]
      /\ rest \in Seq(D) /\ DOMAIN rest = 1 .. Len(m) - b
      /\ \A j \in 1 .. Len(m) - b : rest[j] = m[b + j]
  <2>1. t \in Works /\ t.misses # << >>
    BY <1>1 DEF AtStage
  <2> HIDE DEF t
  <2>2. QED BY <2>1, BatchFacts
<1>7. /\ \A j, k \in 1 .. Len(m) : m[j] = m[k] => j = k
      /\ \A j \in 1 .. Len(m) : t.out[m[j]] = NoVector
  BY <1>1, <1>6 DEF Asks
<1>8. \A j \in 1 .. n : j \in 1 .. b /\ j \in 1 .. Len(m) /\ BatchOf(t)[j] = m[j]
  BY <1>6
<1>9. /\ \A k \in D : Cut[t.doc][k].text \in AllTexts
      /\ t.out \in [D -> AllTexts \cup {NoVector}]
      /\ \A k \in D : t.out[k] \in {NoVector, Cut[t.doc][k].text}
  BY <1>4, CutFacts DEF Outs
<1>10. n \in Nat /\ texts(n) \in [1 .. n -> AllTexts]
        /\ \A j \in 1 .. n : texts(n)[j] = Cut[t.doc][m[j]].text
  <2>1. \A j \in 1 .. n : t.chunks[BatchOf(t)[j]].text = Cut[t.doc][m[j]].text
    BY <1>4, <1>8
  <2>2. \A j \in 1 .. n : Cut[t.doc][m[j]].text \in AllTexts
    BY <1>6, <1>8, <1>9
  <2> HIDE DEF t, m, D
  <2>3. n \in Nat
    BY <1>6
  <2>4. QED BY <2>1, <2>2, <2>3
<1>11. cache' \in Caches
  <2> HIDE DEF texts
  <2>1. QED BY <1>1, <1>3, <1>10, AnswersFacts
<1>12. \A k \in D : /\ (\A j \in 1 .. n : m[j] # k) => out(n)[k] = t.out[k]
                    /\ (\E j \in 1 .. n : m[j] = k) => out(n)[k] = Cut[t.doc][k].text
  <2>1. ASSUME NEW k \in D, NEW j \in 1 .. n, m[j] = k
        PROVE  out(n)[k] = Cut[t.doc][k].text
    <3> DEFINE c == CHOOSE l \in 1 .. n : Place(t, l) = k
    <3>1. \E l \in 1 .. n : Place(t, l) = k
      BY <2>1 DEF Place
    <3>2. c \in 1 .. n /\ m[c] = k
      BY <3>1 DEF Place
    <3>3. out(n)[k] = texts(n)[c]
      BY <1>9, <3>1
    <3> HIDE DEF c, texts, out
    <3>4. QED BY <1>10, <3>2, <3>3
  <2>2. ASSUME NEW k \in D, \A j \in 1 .. n : m[j] # k
        PROVE  out(n)[k] = t.out[k]
    BY <1>9, <2>2 DEF Place
  <2> HIDE DEF out, texts, t, m, D
  <2>3. QED BY <2>1, <2>2
<1>13. out(n) \in Outs(t.doc)
  <2>1. out(n) = [k \in D |-> out(n)[k]]
    BY <1>9
  <2> HIDE DEF out, texts
  <2>2. \A k \in D : out(n)[k] \in {NoVector, Cut[t.doc][k].text}
    BY <1>9, <1>12
  <2>3. \A k \in D : out(n)[k] \in AllTexts \cup {NoVector}
    BY <1>9, <2>2
  <2>4. out(n) \in [D -> AllTexts \cup {NoVector}]
    BY <2>1, <2>3
  <2>5. QED BY <2>2, <2>4 DEF Outs
<1> HIDE DEF out, texts, rest, b
<1>14. u(n) \in Works
  BY <1>4, <1>5, <1>6, <1>13, WorkMade
<1>15. Asks(u(n)) /\ u(n).at = "embedding"
  <2>1. u(n).misses = rest /\ u(n).out = out(n) /\ u(n).at = "embedding"
    BY <1>5
  <2>2. \A j \in 1 .. Len(m) - b : b + j \in 1 .. Len(m) /\ b + j \notin 1 .. n
    BY <1>6
  <2> HIDE DEF u, t, m, D
  <2>3. \A j, k \in 1 .. Len(m) - b : rest[j] = rest[k] => j = k
    <3>1. ASSUME NEW j \in 1 .. Len(m) - b, NEW k \in 1 .. Len(m) - b, rest[j] = rest[k]
          PROVE  j = k
      <4>1. m[b + j] = m[b + k]
        BY <1>6, <3>1
      <4>2. b + j = b + k
        BY <1>7, <2>2, <4>1
      <4>3. b \in Int
        BY <1>6
      <4>4. QED BY <4>2, <4>3
    <3>2. QED BY <3>1
  <2>4. ASSUME NEW j \in 1 .. Len(m) - b PROVE out(n)[rest[j]] = NoVector
    <3>1. rest[j] = m[b + j] /\ m[b + j] \in D /\ t.out[m[b + j]] = NoVector
      BY <1>6, <1>7, <2>2
    <3>2. \A k \in 1 .. n : m[k] # m[b + j]
      BY <1>7, <1>8, <2>2
    <3>3. out(n)[m[b + j]] = t.out[m[b + j]]
      BY <1>12, <3>1, <3>2
    <3>4. QED BY <3>1, <3>3
  <2>5. QED BY <1>6, <2>1, <2>3, <2>4 DEF Asks
<1> HIDE DEF u, t
<1>16. (\E v : v.doc = u(n).doc /\ GoesOn(i, f, v)) \/ Fails(i, f, u(n).doc)
  BY <1>3, <1>14, <1>15, EmbeddedFacts
<1>17. QED BY <1>1, <1>2, <1>11, <1>16 DEF t

-----------------------------------------------------------------------------
(* A step of one task, and what has been read after it.                    *)

LEMMA Moved ==
    ASSUME TaskTypes, NEW i \in Ingests, NEW f \in Files, NEW t,
           task' = [task EXCEPT ![i][f] = t]
    PROVE  /\ task'[i][f] = t
           /\ \A g \in Files : g # f => task'[i][g] = task[i][g]
           /\ \A j \in Ingests : j # i => task'[j] = task[j]
<1>1. task \in [Ingests -> [Files -> Tasks]]
  BY DEF TaskTypes
<1>2. QED BY <1>1

LEMMA MovedTypes ==
    ASSUME TaskTypes, NEW i \in Ingests, NEW f \in Files, NEW t \in Tasks,
           task' = [task EXCEPT ![i][f] = t],
           t \in Works => Asks(t) /\ AtStage(t),
           \/ task[i][f] \in Works
           \/ t \notin Works
           \/ Cardinality(Running(i)) < Concurrency
    PROVE  TaskTypes'
<1>1. task \in [Ingests -> [Files -> Tasks]]
  BY DEF TaskTypes
<1>2. task' \in [Ingests -> [Files -> Tasks]]
  BY <1>1
<1>3. /\ task'[i][f] = t
      /\ \A g \in Files : g # f => task'[i][g] = task[i][g]
      /\ \A j \in Ingests : j # i => task'[j] = task[j]
  BY Moved
<1>4. ASSUME NEW j \in Ingests, NEW g \in Files, task'[j][g] \in Works
      PROVE  Asks(task'[j][g]) /\ AtStage(task'[j][g])
  <2>1. CASE j = i /\ g = f
    BY <1>3, <1>4, <2>1
  <2>2. CASE ~(j = i /\ g = f)
    <3>1. task'[j][g] = task[j][g]
      BY <1>3, <2>2
    <3>2. QED BY <1>4, <3>1 DEF TaskTypes
  <2>3. QED BY <2>1, <2>2
<1>5. \A j \in Ingests : IsFiniteSet(Running(j)) /\ Cardinality(Running(j)) \in Nat
  BY IngestionAssumption, FS_Subset, FS_CardinalityType DEF Running
<1>6. Concurrency \in Nat
  BY IngestionAssumption
<1>7. ASSUME NEW j \in Ingests PROVE Cardinality(Running(j)') <= Concurrency
  <2>1. Cardinality(Running(j)) <= Concurrency
    BY DEF TaskTypes
  <2>2. CASE j # i
    <3>1. Running(j)' = Running(j)
      BY <1>3, <2>2 DEF Running
    <3>2. QED BY <2>1, <3>1
  <2>3. CASE j = i /\ Running(i)' \subseteq Running(i)
    <3>1. Cardinality(Running(i)') <= Cardinality(Running(i)) /\ Cardinality(Running(i)') \in Nat
      BY <1>5, <2>3, FS_Subset, FS_CardinalityType
    <3>2. QED BY <1>5, <1>6, <2>1, <2>3, <3>1
  <2>4. CASE j = i /\ ~(Running(i)' \subseteq Running(i))
    <3>1. Running(i)' \subseteq Running(i) \cup {f}
      BY <1>3 DEF Running
    <3>2. t \in Works /\ task[i][f] \notin Works
      <4>1. f \in Running(i)' /\ f \notin Running(i)
        BY <2>4, <3>1
      <4>2. task[i][f] \in Tasks /\ t.at \in {"embedding", "upserting"}
            /\ task[i][f].at \notin {"embedding", "upserting"}
        BY <1>1, <1>3, <4>1 DEF Running
      <4>3. t \in Works
        BY <4>2, TasksApart
      <4>4. task[i][f] \notin Works
        BY <4>2, WorkFacts
      <4>5. QED BY <4>3, <4>4
    <3>3. Cardinality(Running(i)) < Concurrency
      BY <3>2
    <3>4. /\ IsFiniteSet(Running(i) \cup {f})
          /\ Cardinality(Running(i) \cup {f}) <= Cardinality(Running(i)) + 1
      <4>1. /\ IsFiniteSet(Running(i) \cup {f})
            /\ Cardinality(Running(i) \cup {f}) = IF f \in Running(i) THEN Cardinality(Running(i))
                                                  ELSE Cardinality(Running(i)) + 1
        BY <1>5, FS_AddElement
      <4>2. QED BY <1>5, <4>1
    <3>5. Cardinality(Running(i)') <= Cardinality(Running(i) \cup {f})
          /\ Cardinality(Running(i)') \in Nat /\ Cardinality(Running(i) \cup {f}) \in Nat
      BY <3>1, <3>4, FS_Subset, FS_CardinalityType
    <3>6. QED BY <1>5, <1>6, <2>4, <3>3, <3>4, <3>5
  <2>5. QED BY <2>2, <2>3, <2>4
<1>8. QED BY <1>2, <1>4, <1>7 DEF TaskTypes

LEMMA ReadSame ==
    ASSUME TaskTypes, NEW i \in Ingests, NEW f \in Files, NEW t,
           task' = [task EXCEPT ![i][f] = t], t.at # "done", task[i][f].at # "done"
    PROVE  \A j \in Ingests :
             /\ ReadBy(j)' = ReadBy(j) /\ Read(j)' = Read(j)
             /\ \A g \in ReadBy(j) : task'[j][g] = task[j][g]
<1>1. /\ task'[i][f] = t
      /\ \A g \in Files : g # f => task'[i][g] = task[i][g]
      /\ \A j \in Ingests : j # i => task'[j] = task[j]
  BY Moved
<1>2. ASSUME NEW j \in Ingests
      PROVE  ReadBy(j)' = ReadBy(j) /\ \A g \in ReadBy(j) : task'[j][g] = task[j][g]
  <2>1. CASE j = i
    BY <1>1, <2>1 DEF ReadBy
  <2>2. CASE j # i
    BY <1>1, <2>2 DEF ReadBy
  <2>3. QED BY <2>1, <2>2
<1>3. ASSUME NEW j \in Ingests PROVE Read(j)' = Read(j)
  BY <1>2 DEF Read
<1>4. QED BY <1>2, <1>3

LEMMA ReadMore ==
    ASSUME TaskTypes, NEW i \in Ingests, NEW f \in Files, NEW d \in Documents,
           task' = [task EXCEPT ![i][f] = Ended(d, "done")], task[i][f].at # "done",
           IsFiniteSet(Read(i))
    PROVE  /\ ReadBy(i)' = ReadBy(i) \cup {f} /\ f \notin ReadBy(i)
           /\ task'[i][f].doc = d
           /\ \A g \in ReadBy(i) : task'[i][g] = task[i][g]
           /\ IsFiniteSet(Read(i)') /\ Cardinality(Read(i)) \in Nat
           /\ Cardinality(Read(i)') = Cardinality(Read(i)) + Len(Cut[d])
           /\ \A j \in Ingests : j # i =>
                /\ ReadBy(j)' = ReadBy(j) /\ Read(j)' = Read(j)
                /\ \A g \in ReadBy(j) : task'[j][g] = task[j][g]
<1>1. /\ task'[i][f] = Ended(d, "done")
      /\ \A g \in Files : g # f => task'[i][g] = task[i][g]
      /\ \A j \in Ingests : j # i => task'[j] = task[j]
  BY Moved
<1>2. Ended(d, "done").at = "done" /\ Ended(d, "done").doc = d
  BY TasksApart
<1>3. ReadBy(i)' = ReadBy(i) \cup {f} /\ f \notin ReadBy(i)
      /\ \A g \in ReadBy(i) : task'[i][g] = task[i][g]
  BY <1>1, <1>2 DEF ReadBy
<1>4. ASSUME NEW j \in Ingests, j # i
      PROVE  /\ ReadBy(j)' = ReadBy(j) /\ Read(j)' = Read(j)
             /\ \A g \in ReadBy(j) : task'[j][g] = task[j][g]
  BY <1>1, <1>4 DEF ReadBy, Read
<1> DEFINE new == {f} \X DOMAIN Cut[d]
<1>5. Read(i)' = Read(i) \cup new
  <2> DEFINE A(g) == {g} \X DOMAIN Cut[task[i][g].doc]
             B(g) == {g} \X DOMAIN Cut[task'[i][g].doc]
  <2>1. Read(i) = UNION {A(g) : g \in ReadBy(i)}
    BY DEF Read
  <2>2. Read(i)' = UNION {B(g) : g \in ReadBy(i)'}
    BY DEF Read
  <2>3. \A g \in ReadBy(i) : A(g) = B(g)
    BY <1>3
  <2>4. B(f) = new
    BY <1>1, <1>2
  <2> HIDE DEF A, B, new
  <2>5. QED BY <1>3, <2>1, <2>2, <2>3, <2>4
<1>6. Read(i) \cap new = {}
  BY <1>3 DEF Read
<1>7. IsFiniteSet(new) /\ Cardinality(new) = Len(Cut[d]) /\ Len(Cut[d]) \in Nat
  <2>1. DOMAIN Cut[d] = 1 .. Len(Cut[d]) /\ Len(Cut[d]) \in Nat
    BY CutFacts
  <2>2. IsFiniteSet(DOMAIN Cut[d]) /\ Cardinality(DOMAIN Cut[d]) = Len(Cut[d])
    <3>1. \A n \in Nat : IsFiniteSet(1 .. n) /\ Cardinality(1 .. n) = n
      BY FS_Interval
    <3>2. QED BY <2>1, <3>1
  <2>3. IsFiniteSet({f}) /\ Cardinality({f}) = 1
    BY FS_Singleton
  <2> DEFINE D == DOMAIN Cut[d]
             one == {f}
  <2> HIDE DEF D, one
  <2>4. IsFiniteSet(one \X D) /\ Cardinality(one \X D) = Cardinality(one) * Cardinality(D)
    BY <2>2, <2>3, FS_Product DEF D, one
  <2>5. QED BY <2>1, <2>2, <2>3, <2>4 DEF D, one
<1> HIDE DEF new
<1>8. Cardinality(Read(i)) \in Nat
  BY FS_CardinalityType
<1>9. /\ IsFiniteSet(Read(i)')
      /\ Cardinality(Read(i)') = Cardinality(Read(i)) + Len(Cut[d])
  <2>1. /\ IsFiniteSet(Read(i) \cup new)
        /\ Cardinality(Read(i) \cup new)
             = Cardinality(Read(i)) + Cardinality(new) - Cardinality(Read(i) \cap new)
    BY <1>7, FS_Union
  <2>2. Cardinality(Read(i) \cap new) = 0
    BY <1>6, FS_EmptySet
  <2>3. QED BY <1>5, <1>7, <1>8, <2>1, <2>2
<1>10. QED BY <1>1, <1>2, <1>3, <1>4, <1>8, <1>9

-----------------------------------------------------------------------------
(* Every step keeps the invariant.                                         *)

\* The task has begun or may begin, and is not done.
Turn(i, f) ==
    \/ task[i][f] \in Works
    \/ task[i][f] = Idle /\ Cardinality(Running(i)) < Concurrency

LEMMA TurnFacts ==
    ASSUME Fresh, NEW i \in Ingests, NEW f \in Files, Turn(i, f)
    PROVE  /\ task[i][f].at # "done" /\ task[i][f] # Absent /\ ingest[i].at # "none"
           /\ task[i][f] \in Works \/ Cardinality(Running(i)) < Concurrency
<1>1. task[i][f].at \in {"queued", "embedding", "upserting"}
  BY TasksApart, WorkFacts DEF Turn
<1>2. task[i][f].at # "done" /\ task[i][f] # Absent
  BY <1>1, TasksApart
<1>3. QED BY <1>2 DEF Fresh, Turn

\* Nothing is read or lost.
LEMMA CompleteSame ==
    ASSUME Complete, UNCHANGED store,
           \A j \in Ingests :
             /\ ReadBy(j)' = ReadBy(j) /\ \A g \in ReadBy(j) : task'[j][g] = task[j][g]
             /\ ingest'[j].kind = ingest[j].kind /\ ingest'[j].failed = ingest[j].failed
    PROVE  Complete'
<1>1. ASSUME NEW j \in Ingests, ingest'[j].kind = "directory", NEW g \in ReadBy(j)'
      PROVE  \/ ingest'[j].failed > 0
             \/ \A k \in DOMAIN Cut[task'[j][g].doc] :
                  PointId(g, task'[j][g].doc, Cut[task'[j][g].doc][k]) \in DOMAIN store'
  <2>1. /\ ingest[j].kind = "directory" /\ g \in ReadBy(j)
        /\ ingest'[j].failed = ingest[j].failed /\ task'[j][g] = task[j][g]
    BY <1>1
  <2>2. QED BY <2>1 DEF Complete
<1>2. QED BY <1>1 DEF Complete, PointId

LEMMA WorksStep ==
    ASSUME IInv, NEW i \in Ingests, NEW f \in Files, Turn(i, f), NEW u, GoesOn(i, f, u),
           cache' \in Caches, UNCHANGED <<tree, store, wrote>>
    PROVE  IInv'
<1>1. /\ task[i][f].at # "done" /\ task[i][f] # Absent /\ ingest[i].at # "none"
      /\ task[i][f] \in Works \/ Cardinality(Running(i)) < Concurrency
  BY TurnFacts DEF IInv
<1>2. /\ u \in Works /\ Asks(u) /\ AtStage(u) /\ task' = [task EXCEPT ![i][f] = u]
      /\ ingest' = ingest /\ u \in Tasks /\ u.at # "done"
  BY WorkFacts DEF GoesOn, Tasks
<1>3. TaskTypes
  BY DEF IInv, Types
<1>4. TaskTypes'
  BY <1>1, <1>2, <1>3, MovedTypes
<1>5. Types'
  BY <1>2, <1>4 DEF IInv, Types
<1>6. \A j \in Ingests :
        /\ ReadBy(j)' = ReadBy(j) /\ Read(j)' = Read(j)
        /\ \A g \in ReadBy(j) : task'[j][g] = task[j][g]
  BY <1>1, <1>2, <1>3, ReadSame
<1>7. Fresh'
  <2>1. \A j \in Ingests : j # i => task'[j] = task[j]
    BY <1>2, <1>3, Moved
  <2>2. QED BY <1>1, <1>2, <2>1 DEF IInv, Fresh
<1>8. Counted'
  BY <1>2, <1>6 DEF IInv, Counted
<1>9. Stored'
  BY DEF IInv, Stored
<1>10. Complete'
  BY <1>2, <1>6, CompleteSame DEF IInv
<1>11. QED BY <1>5, <1>7, <1>8, <1>9, <1>10 DEF IInv

LEMMA FailsStep ==
    ASSUME IInv, NEW i \in Ingests, NEW f \in Files, Turn(i, f), NEW d, Fails(i, f, d),
           cache' \in Caches, DOMAIN store \subseteq DOMAIN store', Stored',
           UNCHANGED <<tree, wrote>>
    PROVE  IInv'
<1> DEFINE e == Ended(d, "done")
           n == Len(Cut[d])
<1>1. /\ task[i][f].at # "done" /\ task[i][f] # Absent /\ ingest[i].at # "none"
  BY TurnFacts DEF IInv
<1>2. /\ d \in Documents /\ task' = [task EXCEPT ![i][f] = e]
      /\ ingest' = [ingest EXCEPT ![i].failed = @ + n] /\ n \in Nat
      /\ e \in Tasks /\ e \notin Works
  BY TasksApart, CutFacts DEF Fails
<1>3. TaskTypes /\ ingest \in [Ingests -> Requests]
  BY DEF IInv, Types
<1>4. TaskTypes'
  BY <1>1, <1>2, <1>3, MovedTypes
<1>5. /\ ingest' \in [Ingests -> Requests]
      /\ \A j \in Ingests : j # i => ingest'[j] = ingest[j]
      /\ ingest'[i].at = ingest[i].at /\ ingest'[i].kind = ingest[i].kind
      /\ ingest'[i].created = ingest[i].created
      /\ ingest'[i].failed = ingest[i].failed + n
      /\ ingest[i].failed \in Nat /\ ingest[i].created \in Nat
  <2>1. ingest[i] \in Requests /\ ingest[i].failed + n \in Nat
    BY <1>2, <1>3 DEF Requests
  <2>2. [ingest[i] EXCEPT !.failed = ingest[i].failed + n] \in Requests
    BY <2>1 DEF Requests
  <2>3. ingest'[i] = [ingest[i] EXCEPT !.failed = ingest[i].failed + n]
    BY <1>2, <1>3
  <2>4. \A j \in Ingests : j # i => ingest'[j] = ingest[j]
    BY <1>2, <1>3
  <2>5. ingest' = [j \in Ingests |-> ingest'[j]]
    BY <1>2, <1>3
  <2>6. ingest' \in [Ingests -> Requests]
    BY <1>3, <2>2, <2>3, <2>4, <2>5
  <2>7. QED BY <2>1, <2>3, <2>4, <2>6 DEF Requests
<1>6. Types'
  BY <1>4, <1>5 DEF IInv, Types
<1>7. IsFiniteSet(Read(i))
  BY DEF IInv, Counted
<1> HIDE DEF n
<1>8. /\ ReadBy(i)' = ReadBy(i) \cup {f} /\ f \notin ReadBy(i)
      /\ task'[i][f].doc = d
      /\ \A g \in ReadBy(i) : task'[i][g] = task[i][g]
      /\ IsFiniteSet(Read(i)') /\ Cardinality(Read(i)) \in Nat
      /\ Cardinality(Read(i)') = Cardinality(Read(i)) + n
      /\ \A j \in Ingests : j # i =>
           /\ ReadBy(j)' = ReadBy(j) /\ Read(j)' = Read(j)
           /\ \A g \in ReadBy(j) : task'[j][g] = task[j][g]
  BY <1>1, <1>2, <1>3, <1>7, ReadMore DEF n
<1>9. Fresh'
  <2>1. \A j \in Ingests : j # i => task'[j] = task[j]
    BY <1>2, <1>3, Moved
  <2>2. QED BY <1>1, <1>5, <2>1 DEF IInv, Fresh
<1>10. Counted'
  <2>1. ASSUME NEW j \in Ingests
        PROVE  /\ IsFiniteSet(wrote[j]) /\ ingest'[j].created = Cardinality(wrote[j])
               /\ IsFiniteSet(Read(j)')
               /\ ingest'[j].created + ingest'[j].failed = Cardinality(Read(j)')
               /\ wrote[j] \subseteq DOMAIN store'
               /\ \A id \in wrote[j] : id[2] \in ReadBy(j)'
    <3>1. /\ IsFiniteSet(wrote[j]) /\ ingest[j].created = Cardinality(wrote[j])
          /\ IsFiniteSet(Read(j)) /\ ingest[j].created + ingest[j].failed = Cardinality(Read(j))
          /\ wrote[j] \subseteq DOMAIN store
          /\ \A id \in wrote[j] : id[2] \in ReadBy(j)
      BY DEF IInv, Counted
    <3>2. CASE j # i
      BY <1>5, <1>8, <3>1, <3>2
    <3>3. CASE j = i
      BY <1>2, <1>5, <1>8, <3>1, <3>3
    <3>4. QED BY <3>2, <3>3
  <2>2. QED BY <2>1 DEF Counted
<1>12. Complete'
  <2>1. ASSUME NEW j \in Ingests, ingest'[j].kind = "directory", NEW g \in ReadBy(j)'
        PROVE  \/ ingest'[j].failed > 0
               \/ \A k \in DOMAIN Cut[task'[j][g].doc] :
                    PointId(g, task'[j][g].doc, Cut[task'[j][g].doc][k]) \in DOMAIN store'
    <3>1. CASE g \in ReadBy(j)
      <4>1. task'[j][g] = task[j][g] /\ ingest[j].kind = "directory"
        BY <1>5, <1>8, <2>1, <3>1
      <4>2. \/ ingest[j].failed > 0
            \/ \A k \in DOMAIN Cut[task[j][g].doc] :
                    PointId(g, task[j][g].doc, Cut[task[j][g].doc][k]) \in DOMAIN store
        BY <3>1, <4>1 DEF IInv, Complete
      <4>3. ingest[j].failed > 0 => ingest'[j].failed > 0
        BY <1>2, <1>5
      <4>4. QED BY <4>1, <4>2, <4>3
    <3>2. CASE g \notin ReadBy(j)
      <4>1. j = i /\ g = f
        BY <1>8, <2>1, <3>2
      <4>2. n > 0 => ingest'[i].failed > 0
        BY <1>2, <1>5
      <4>3. n = 0 => DOMAIN Cut[d] = {}
        BY <1>2, CutFacts DEF n
      <4>4. QED BY <1>2, <1>8, <4>1, <4>2, <4>3
    <3>3. QED BY <3>1, <3>2
  <2>2. QED BY <2>1 DEF Complete, PointId
<1>13. QED BY <1>6, <1>9, <1>10, <1>12 DEF IInv

\* The ids of the points a task upserts: one for each chunk with a vector.
Ids(i, f, t) == {x.id : x \in Points(i, f, t)}

LEMMA PointFacts ==
    ASSUME NEW i \in Ingests, NEW f \in Files, NEW t \in Works
    PROVE  LET v == Version(i, t.doc)
               c == Cut[t.doc]
           IN  /\ \A x \in Points(i, f, t) : \E k \in DOMAIN c :
                    /\ x.id = PointId(f, v, c[k]) /\ x.version = v
                    /\ x.text = c[k].text /\ x.vector = c[k].text
                    /\ x.first = c[k].first /\ x.last = c[k].last
               /\ \A k \in DOMAIN c : t.out[k] # NoVector => PointId(f, v, c[k]) \in Ids(i, f, t)
               /\ \A id \in Ids(i, f, t) : id[2] = f
               /\ IsFiniteSet(Ids(i, f, t)) /\ Cardinality(Ids(i, f, t)) = Filled(t)
<1> DEFINE v == Version(i, t.doc)
           c == Cut[t.doc]
           P == Points(i, f, t)
           K == {k \in DOMAIN t.chunks : t.out[k] # NoVector}
           r(k) == [id |-> PointId(f, v, c[k]), project |-> ingest[i].project, version |-> v,
                    text |-> c[k].text, first |-> c[k].first, last |-> c[k].last,
                    vector |-> t.out[k]]
<1>1. t.chunks = c /\ t.doc \in Documents /\ t.out \in Outs(t.doc)
  BY WorkFacts
<1>2. P = {r(k) : k \in K}
  BY <1>1 DEF Points
<1>3. \A k \in K : k \in DOMAIN c /\ t.out[k] = c[k].text
  BY <1>1 DEF Outs
<1>4. \A k \in K : /\ r(k).id = PointId(f, v, c[k]) /\ r(k).version = v
                   /\ r(k).text = c[k].text /\ r(k).vector = c[k].text
                   /\ r(k).first = c[k].first /\ r(k).last = c[k].last
  BY <1>3
<1>5. IsFiniteSet(K) /\ Filled(t) = Cardinality(K)
  BY FilledFacts DEF Filled
<1>6. \A k \in DOMAIN c : t.out[k] # NoVector => k \in K
  BY <1>1
<1> HIDE DEF r, P, K, v, c
<1>7. \A x \in P : \E k \in DOMAIN c :
        /\ x.id = PointId(f, v, c[k]) /\ x.version = v
        /\ x.text = c[k].text /\ x.vector = c[k].text
        /\ x.first = c[k].first /\ x.last = c[k].last
  BY <1>2, <1>3, <1>4
<1> DEFINE g == [k \in K |-> PointId(f, v, c[k])]
<1>8. Ids(i, f, t) = {g[k] : k \in K}
  <2>1. Ids(i, f, t) = {x.id : x \in P}
    BY DEF Ids, P
  <2>2. QED BY <1>2, <1>4, <2>1
<1>9. g \in Injection(K, Ids(i, f, t))
  <2>1. \A j, k \in K : g[j] = g[k] => j = k
    <3>1. ASSUME NEW j \in K, NEW k \in K, g[j] = g[k] PROVE j = k
      <4>1. PointId(f, v, c[j]) = PointId(f, v, c[k])
        BY <3>1
      <4>2. Mark(c[j]) = Mark(c[k])
        BY <4>1 DEF PointId, Mark
      <4>3. MarksDiffer(c)
        BY <1>1, CutFacts DEF c
      <4>4. QED BY <1>3, <4>2, <4>3 DEF MarksDiffer
    <3>2. QED BY <3>1
  <2>2. g \in [K -> Ids(i, f, t)]
    BY <1>8
  <2> HIDE DEF g
  <2>3. QED BY <2>1, <2>2 DEF Injection, IsInjective
<1>10. g \in Surjection(K, Ids(i, f, t))
  <2>1. g \in [K -> Ids(i, f, t)]
    BY <1>8
  <2> HIDE DEF g
  <2>2. QED BY <1>8, <2>1 DEF Surjection
<1>11. IsFiniteSet(Ids(i, f, t)) /\ Cardinality(Ids(i, f, t)) = Filled(t)
  <2> HIDE DEF g
  <2>1. QED BY <1>5, <1>9, <1>10, FS_Surjection
<1>12. \A id \in Ids(i, f, t) : id[2] = f
  BY <1>8 DEF PointId
<1>13. \A k \in K : PointId(f, v, c[k]) \in Ids(i, f, t)
  BY <1>8
<1> HIDE DEF g
<1>14. QED BY <1>6, <1>7, <1>11, <1>12, <1>13 DEF v, c, P

LEMMA UpsertedFacts ==
    ASSUME NEW i \in Ingests, NEW f \in Files, NEW t \in Works,
           store' = Upserted(Points(i, f, t))
    PROVE  /\ DOMAIN store' = DOMAIN store \cup Ids(i, f, t)
           /\ \A id \in DOMAIN store \ Ids(i, f, t) : store'[id] = store[id]
           /\ \A id \in Ids(i, f, t) : store'[id] \in Points(i, f, t) /\ store'[id].id = id
<1> DEFINE P == Points(i, f, t)
           N == Ids(i, f, t)
<1>1. store' = [id \in DOMAIN store \cup N |->
                  IF id \in N THEN CHOOSE x \in P : x.id = id ELSE store[id]]
  BY DEF Upserted, Ids
<1>2. \A id \in N : \E x \in P : x.id = id
  BY DEF Ids
<1> HIDE DEF P, N
<1>3. \A id \in N : (CHOOSE x \in P : x.id = id) \in P /\ (CHOOSE x \in P : x.id = id).id = id
  BY <1>2
<1>4. \A id \in N : store'[id] = CHOOSE x \in P : x.id = id
  BY <1>1
<1>5. DOMAIN store' = DOMAIN store \cup N /\ \A id \in DOMAIN store \ N : store'[id] = store[id]
  BY <1>1
<1>6. QED BY <1>3, <1>4, <1>5 DEF P, N

\* What an upsert leaves in the collection, whether its answer arrives or not.
LEMMA UpsertedStored ==
    ASSUME Stored, NEW i \in Ingests, NEW f \in Files, NEW t \in Works,
           store' = Upserted(Points(i, f, t))
    PROVE  Stored' /\ DOMAIN store \subseteq DOMAIN store'
<1> DEFINE d == t.doc
           new == Ids(i, f, t)
           v == Version(i, d)
<1>1. d \in Documents
  BY WorkFacts
<1>2. /\ DOMAIN store' = DOMAIN store \cup new
      /\ \A id \in DOMAIN store \ new : store'[id] = store[id]
      /\ \A id \in new : store'[id] \in Points(i, f, t) /\ store'[id].id = id
  BY UpsertedFacts, ZenonT(40)
<1>3. \A x \in Points(i, f, t) : \E k \in DOMAIN Cut[d] :
        /\ x.id = PointId(f, v, Cut[d][k]) /\ x.version = v
        /\ x.text = Cut[d][k].text /\ x.vector = Cut[d][k].text
        /\ x.first = Cut[d][k].first /\ x.last = Cut[d][k].last
  BY PointFacts
<1>4. v = NoVersion \/ v = d
  BY DEF Version
<1> HIDE DEF d, new, v
<1>5. ASSUME NEW id \in DOMAIN store'
      PROVE  /\ store'[id].vector = store'[id].text
             /\ store'[id].first = id[5] /\ store'[id].last = id[6]
             /\ id[1] = store'[id].version
             /\ store'[id].version # NoVersion =>
                  /\ id[1] \in Documents
                  /\ \E k \in DOMAIN Cut[id[1]] :
                       /\ <<id[3], id[4], id[5], id[6]>> = Mark(Cut[id[1]][k])
                       /\ store'[id].text = Cut[id[1]][k].text
  <2>1. CASE id \in new
    <3>1. PICK k \in DOMAIN Cut[d] :
            /\ store'[id].id = PointId(f, v, Cut[d][k]) /\ store'[id].version = v
            /\ store'[id].text = Cut[d][k].text /\ store'[id].vector = Cut[d][k].text
            /\ store'[id].first = Cut[d][k].first /\ store'[id].last = Cut[d][k].last
      BY <1>2, <1>3, <2>1
    <3>2. id = PointId(f, v, Cut[d][k])
      BY <1>2, <2>1, <3>1
    <3>3. /\ id[1] = v /\ id[5] = Cut[d][k].first /\ id[6] = Cut[d][k].last
          /\ <<id[3], id[4], id[5], id[6]>> = Mark(Cut[d][k])
      BY <3>2 DEF PointId, Mark
    <3>4. QED BY <1>1, <1>4, <3>1, <3>3
  <2>2. CASE id \notin new
    <3>1. id \in DOMAIN store /\ store'[id] = store[id]
      BY <1>2, <2>2
    <3>2. QED BY <3>1 DEF Stored
  <2>3. QED BY <2>1, <2>2
<1>6. Stored'
  BY <1>5 DEF Stored
<1>7. QED BY <1>2, <1>6

LEMMA UpsertFacts ==
    ASSUME IInv, NEW i \in Ingests, NEW f \in Files, Upsert(i, f)
    PROVE  LET t == task[i][f]
               d == t.doc
           IN  /\ t \in Works /\ t.at = "upserting" /\ d \in Documents /\ Turn(i, f)
               /\ task' = [task EXCEPT ![i][f] = Ended(d, "done")]
               /\ Ended(d, "done") \in Tasks /\ Ended(d, "done") \notin Works
               /\ ingest' \in [Ingests -> Requests]
               /\ \A j \in Ingests : j # i => ingest'[j] = ingest[j]
               /\ ingest'[i].at = ingest[i].at /\ ingest'[i].kind = ingest[i].kind
               /\ ingest'[i].created = ingest[i].created + Filled(t)
               /\ ingest'[i].failed = ingest[i].failed + Len(Cut[d]) - Filled(t)
               /\ ingest[i].failed \in Nat /\ ingest[i].created \in Nat
               /\ Filled(t) \in Nat /\ Len(Cut[d]) \in Nat /\ Filled(t) <= Len(Cut[d])
<1> DEFINE t == task[i][f]
           d == t.doc
           n == Filled(t)
           l == Len(Cut[d])
<1>1. t \in Works /\ t.at = "upserting"
  <2>1. t \in Tasks /\ t.at = "upserting"
    BY DEF IInv, Types, TaskTypes, Upsert
  <2>2. QED BY <2>1, TasksApart
<1>2. d \in Documents /\ t.chunks = Cut[d]
  BY <1>1, WorkFacts
<1>3. n \in Nat /\ l \in Nat /\ n <= l
  <2>1. n \in 0 .. l /\ n \in Nat
    BY <1>1, FilledFacts
  <2>2. l \in Nat
    BY <1>2, CutFacts
  <2> HIDE DEF n, l
  <2>3. QED BY <2>1, <2>2
<1>4. /\ task' = [task EXCEPT ![i][f] = Ended(d, "done")]
      /\ ingest' = [ingest EXCEPT ![i].created = @ + n, ![i].failed = @ + l - n]
  BY <1>2 DEF Upsert
<1>5. Ended(d, "done") \in Tasks /\ Ended(d, "done") \notin Works
  BY <1>2, TasksApart
<1>6. ingest \in [Ingests -> Requests]
  BY DEF IInv, Types
<1> HIDE DEF t, d, n, l
<1>7. /\ ingest' \in [Ingests -> Requests]
      /\ \A j \in Ingests : j # i => ingest'[j] = ingest[j]
      /\ ingest'[i].at = ingest[i].at /\ ingest'[i].kind = ingest[i].kind
      /\ ingest'[i].created = ingest[i].created + n
      /\ ingest'[i].failed = ingest[i].failed + l - n
      /\ ingest[i].failed \in Nat /\ ingest[i].created \in Nat
  <2> DEFINE mid == [ingest EXCEPT ![i].created = @ + n]
  <2>1. ingest' = [mid EXCEPT ![i].failed = @ + l - n]
    BY <1>4, <1>6
  <2>2. ingest[i] \in Requests /\ ingest[i].failed \in Nat /\ ingest[i].created \in Nat
    BY <1>6 DEF Requests
  <2>3. /\ mid \in [Ingests -> Requests] /\ \A j \in Ingests : j # i => mid[j] = ingest[j]
        /\ mid[i].at = ingest[i].at /\ mid[i].kind = ingest[i].kind
        /\ mid[i].created = ingest[i].created + n /\ mid[i].failed = ingest[i].failed
    <3>1. mid[i] = [ingest[i] EXCEPT !.created = ingest[i].created + n]
      BY <1>6
    <3>2. ingest[i].created + n \in Nat
      BY <1>3, <2>2
    <3>3. [ingest[i] EXCEPT !.created = ingest[i].created + n] \in Requests
      BY <2>2, <3>2 DEF Requests
    <3>4. mid = [j \in Ingests |-> mid[j]] /\ \A j \in Ingests : j # i => mid[j] = ingest[j]
      BY <1>6
    <3>5. /\ mid[i].at = ingest[i].at /\ mid[i].kind = ingest[i].kind
          /\ mid[i].created = ingest[i].created + n /\ mid[i].failed = ingest[i].failed
      BY <2>2, <3>1 DEF Requests
    <3> HIDE DEF mid
    <3>6. mid \in [Ingests -> Requests]
      BY <1>6, <3>1, <3>3, <3>4
    <3>7. QED BY <3>4, <3>5, <3>6
  <2> HIDE DEF mid
  <2>4. ingest'[i] = [mid[i] EXCEPT !.failed = mid[i].failed + l - n]
    BY <2>1, <2>3
  <2>5. mid[i] \in Requests /\ mid[i].failed + l - n \in Nat
    <3>1. \A a \in Nat : a + l - n \in Nat
      BY <1>3
    <3>2. QED BY <2>2, <2>3, <3>1
  <2>6. [mid[i] EXCEPT !.failed = mid[i].failed + l - n] \in Requests
    BY <2>5 DEF Requests
  <2>7. ingest' = [j \in Ingests |-> ingest'[j]] /\ \A j \in Ingests : j # i => ingest'[j] = mid[j]
    BY <2>1, <2>3
  <2>8. ingest' \in [Ingests -> Requests]
    BY <2>3, <2>4, <2>6, <2>7
  <2>9. /\ ingest'[i].at = mid[i].at /\ ingest'[i].kind = mid[i].kind
        /\ ingest'[i].created = mid[i].created /\ ingest'[i].failed = mid[i].failed + l - n
    BY <2>4, <2>5 DEF Requests
  <2>10. QED BY <2>2, <2>3, <2>7, <2>8, <2>9
<1>8. Turn(i, f)
  BY <1>1 DEF Turn, t
<1>9. QED BY <1>1, <1>2, <1>3, <1>4, <1>5, <1>7, <1>8 DEF t, d, n, l

LEMMA UpsertStep ==
    ASSUME IInv, NEW i \in Ingests, NEW f \in Files, Upsert(i, f)
    PROVE  IInv'
<1> DEFINE t == task[i][f]
           d == t.doc
           n == Filled(t)
           l == Len(Cut[d])
           new == Ids(i, f, t)
           v == Version(i, d)
<1>1. /\ t \in Works /\ t.at = "upserting" /\ d \in Documents /\ Turn(i, f)
      /\ task' = [task EXCEPT ![i][f] = Ended(d, "done")]
      /\ Ended(d, "done") \in Tasks /\ Ended(d, "done") \notin Works
      /\ ingest' \in [Ingests -> Requests]
      /\ \A j \in Ingests : j # i => ingest'[j] = ingest[j]
      /\ ingest'[i].at = ingest[i].at /\ ingest'[i].kind = ingest[i].kind
      /\ ingest'[i].created = ingest[i].created + n
      /\ ingest'[i].failed = ingest[i].failed + l - n
      /\ ingest[i].failed \in Nat /\ ingest[i].created \in Nat
      /\ n \in Nat /\ l \in Nat /\ n <= l
  BY UpsertFacts
<1>2. /\ task[i][f].at # "done" /\ ingest[i].at # "none"
  BY <1>1, TurnFacts DEF IInv
<1>3. /\ UNCHANGED <<tree, cache>>
      /\ store' = Upserted(Points(i, f, t))
      /\ wrote' = [wrote EXCEPT ![i] = @ \cup new]
  BY DEF Upsert, Ids
<1>4. TaskTypes /\ DOMAIN wrote = Ingests
  BY DEF IInv, Types
<1>5. /\ DOMAIN wrote' = Ingests /\ wrote'[i] = wrote[i] \cup new
      /\ \A j \in Ingests : j # i => wrote'[j] = wrote[j]
  BY <1>3, <1>4
<1>6. \A j \in Ingests : j # i => task'[j] = task[j]
  BY <1>1, <1>4, Moved
<1>7. TaskTypes'
  BY <1>1, <1>4, MovedTypes
<1>8. Types'
  BY <1>1, <1>3, <1>5, <1>7 DEF IInv, Types
<1>9. Fresh'
  BY <1>1, <1>2, <1>5, <1>6 DEF IInv, Fresh
<1>10. IsFiniteSet(Read(i))
  BY DEF IInv, Counted
<1>11. /\ ReadBy(i)' = ReadBy(i) \cup {f} /\ f \notin ReadBy(i)
       /\ task'[i][f].doc = d
       /\ \A g \in ReadBy(i) : task'[i][g] = task[i][g]
       /\ IsFiniteSet(Read(i)') /\ Cardinality(Read(i)) \in Nat
       /\ Cardinality(Read(i)') = Cardinality(Read(i)) + l
       /\ \A j \in Ingests : j # i =>
            /\ ReadBy(j)' = ReadBy(j) /\ Read(j)' = Read(j)
            /\ \A g \in ReadBy(j) : task'[j][g] = task[j][g]
  BY <1>1, <1>2, <1>4, <1>10, ReadMore, ZenonT(40)
<1>12. /\ DOMAIN store' = DOMAIN store \cup new
       /\ \A id \in DOMAIN store \ new : store'[id] = store[id]
       /\ \A id \in new : store'[id] \in Points(i, f, t) /\ store'[id].id = id
  BY <1>1, <1>3, UpsertedFacts, ZenonT(40)
<1>13. /\ \A x \in Points(i, f, t) : \E k \in DOMAIN Cut[d] :
             /\ x.id = PointId(f, v, Cut[d][k]) /\ x.version = v
             /\ x.text = Cut[d][k].text /\ x.vector = Cut[d][k].text
             /\ x.first = Cut[d][k].first /\ x.last = Cut[d][k].last
       /\ \A k \in DOMAIN Cut[d] : t.out[k] # NoVector => PointId(f, v, Cut[d][k]) \in new
       /\ \A id \in new : id[2] = f
       /\ IsFiniteSet(new) /\ Cardinality(new) = n
  <2>1. t \in Works
    BY <1>1
  <2> HIDE DEF t
  <2>2. QED BY <2>1, PointFacts
<1>14. n = l => \A k \in DOMAIN Cut[d] : t.out[k] # NoVector
  BY <1>1, FilledFacts, WorkFacts
<1>15. /\ v = NoVersion \/ v = d
       /\ ingest[i].kind = "directory" => v = d
  BY DEF Version
<1> HIDE DEF t, d, n, l, new, v
<1>16. Counted'
  <2>1. ASSUME NEW j \in Ingests
        PROVE  /\ IsFiniteSet(wrote'[j]) /\ ingest'[j].created = Cardinality(wrote'[j])
               /\ IsFiniteSet(Read(j)')
               /\ ingest'[j].created + ingest'[j].failed = Cardinality(Read(j)')
               /\ wrote'[j] \subseteq DOMAIN store'
               /\ \A id \in wrote'[j] : id[2] \in ReadBy(j)'
    <3>1. /\ IsFiniteSet(wrote[j]) /\ ingest[j].created = Cardinality(wrote[j])
          /\ IsFiniteSet(Read(j)) /\ ingest[j].created + ingest[j].failed = Cardinality(Read(j))
          /\ wrote[j] \subseteq DOMAIN store
          /\ \A id \in wrote[j] : id[2] \in ReadBy(j)
      BY DEF IInv, Counted
    <3>2. CASE j # i
      BY <1>1, <1>5, <1>11, <1>12, <3>1, <3>2
    <3>3. CASE j = i
      <4>1. wrote[i] \cap new = {}
        BY <1>11, <1>13, <3>1, <3>3
      <4>2. Cardinality(wrote[i] \cap new) = 0
        BY <4>1, FS_EmptySet
      <4>3. Cardinality(wrote[i]) \in Nat
        BY <3>1, <3>3, FS_CardinalityType
      <4>4. /\ IsFiniteSet(wrote[i] \cup new)
            /\ Cardinality(wrote[i] \cup new)
                 = Cardinality(wrote[i]) + Cardinality(new) - Cardinality(wrote[i] \cap new)
        BY <1>13, <3>1, <3>3, FS_Union
      <4>5. Cardinality(wrote[i] \cup new) = Cardinality(wrote[i]) + n
        BY <1>1, <1>13, <4>2, <4>3, <4>4
      <4>6. ingest'[i].created + ingest'[i].failed = Cardinality(Read(i)')
        BY <1>1, <1>11, <3>1, <3>3
      <4>7. wrote'[i] \subseteq DOMAIN store' /\ \A id \in wrote'[i] : id[2] \in ReadBy(i)'
        BY <1>5, <1>11, <1>12, <1>13, <3>1, <3>3
      <4>8. QED BY <1>1, <1>5, <1>11, <3>1, <3>3, <4>4, <4>5, <4>6, <4>7
    <3>4. QED BY <3>2, <3>3
  <2>2. QED BY <2>1 DEF Counted
<1>17. Stored'
  <2>1. t \in Works /\ store' = Upserted(Points(i, f, t)) /\ Stored
    BY <1>1, <1>3 DEF IInv
  <2>2. QED BY <2>1, UpsertedStored, ZenonT(40)
<1>18. Complete'
  <2>1. ASSUME NEW j \in Ingests, ingest'[j].kind = "directory", NEW g \in ReadBy(j)'
        PROVE  \/ ingest'[j].failed > 0
               \/ \A k \in DOMAIN Cut[task'[j][g].doc] :
                    PointId(g, task'[j][g].doc, Cut[task'[j][g].doc][k]) \in DOMAIN store'
    <3>1. CASE g \in ReadBy(j)
      <4>1. task'[j][g] = task[j][g] /\ ingest[j].kind = "directory"
        BY <1>1, <1>11, <2>1, <3>1
      <4>2. \/ ingest[j].failed > 0
            \/ \A k \in DOMAIN Cut[task[j][g].doc] :
                    PointId(g, task[j][g].doc, Cut[task[j][g].doc][k]) \in DOMAIN store
        BY <3>1, <4>1 DEF IInv, Complete
      <4>3. ingest[j].failed > 0 => ingest'[j].failed > 0
        BY <1>1
      <4>4. QED BY <1>12, <4>1, <4>2, <4>3
    <3>2. CASE g \notin ReadBy(j)
      <4>1. j = i /\ g = f
        BY <1>11, <2>1, <3>2
      <4>2. n # l => ingest'[i].failed > 0
        BY <1>1
      <4>3. ingest[i].kind = "directory" /\ v = d
        BY <1>1, <1>15, <2>1, <4>1
      <4>4. n = l => \A k \in DOMAIN Cut[d] : PointId(f, d, Cut[d][k]) \in DOMAIN store'
        BY <1>12, <1>13, <1>14, <4>3
      <4>5. QED BY <1>11, <4>1, <4>2, <4>4
    <3>3. QED BY <3>1, <3>2
  <2>2. QED BY <2>1 DEF Complete, PointId
<1>19. QED BY <1>8, <1>9, <1>16, <1>17, <1>18 DEF IInv

LEMMA OverwriteStep ==
    ASSUME IInv, NEW i \in Ingests, NEW f \in Files, NEW t \in Works,
           store' = Upserted(Points(i, f, t)),
           NEW id \in DOMAIN store, store[id].version # NoVersion
    PROVE  id \in DOMAIN store' /\ store'[id].text = store[id].text
<1> DEFINE v == Version(i, t.doc)
           c == Cut[t.doc]
<1>1. t.doc \in Documents
  BY WorkFacts
<1>3. /\ DOMAIN store' = DOMAIN store \cup Ids(i, f, t)
      /\ \A o \in DOMAIN store \ Ids(i, f, t) : store'[o] = store[o]
      /\ \A o \in Ids(i, f, t) : store'[o] \in Points(i, f, t) /\ store'[o].id = o
  BY UpsertedFacts, ZenonT(40)
<1>4. ASSUME id \in Ids(i, f, t) PROVE store'[id].text = store[id].text
  <2>1. PICK k \in DOMAIN c : store'[id].id = PointId(f, v, c[k]) /\ store'[id].text = c[k].text
    BY <1>3, <1>4, PointFacts
  <2>2. id = PointId(f, v, c[k])
    BY <1>3, <1>4, <2>1
  <2>3. /\ id[1] = v /\ id[1] # NoVersion
        /\ <<id[3], id[4], id[5], id[6]>> = Mark(c[k])
    BY <2>2 DEF PointId, Mark, IInv, Stored
  <2>4. id[1] = t.doc
    BY <2>3 DEF Version
  <2>5. PICK m \in DOMAIN c : /\ <<id[3], id[4], id[5], id[6]>> = Mark(c[m])
                              /\ store[id].text = c[m].text
    BY <2>4 DEF IInv, Stored
  <2>6. k = m
    BY <1>1, <2>3, <2>5, CutFacts DEF MarksDiffer
  <2>7. QED BY <2>1, <2>5, <2>6
<1>5. QED BY <1>3, <1>4

LEMMA UpsertFailsFacts ==
    ASSUME IInv, NEW i \in Ingests, NEW f \in Files, UpsertFails(i, f)
    PROVE  /\ task[i][f] \in Works
           /\ store' = store \/ store' = Upserted(Points(i, f, task[i][f]))
<1>1. task[i][f] \in Tasks /\ task[i][f].at = "upserting"
  BY DEF IInv, Types, TaskTypes, UpsertFails
<1>2. task[i][f] \in Works
  BY <1>1, TasksApart
<1>3. store' \in {store, Upserted(Points(i, f, task[i][f]))}
  BY DEF UpsertFails
<1>4. QED BY <1>2, <1>3

LEMMA UpsertFailsStep ==
    ASSUME IInv, NEW i \in Ingests, NEW f \in Files, UpsertFails(i, f)
    PROVE  IInv'
<1> DEFINE t == task[i][f]
<1>1. t \in Works /\ (store' = store \/ store' = Upserted(Points(i, f, t)))
  BY UpsertFailsFacts
<1>2. t.doc \in Documents /\ t.chunks = Cut[t.doc]
  BY <1>1, WorkFacts
<1>3. Fails(i, f, t.doc)
  BY <1>2 DEF UpsertFails, Fails
<1>4. Turn(i, f)
  BY <1>1 DEF Turn
<1>5. cache' \in Caches /\ UNCHANGED <<tree, wrote>>
  BY DEF IInv, Types, UpsertFails
<1>6. Stored' /\ DOMAIN store \subseteq DOMAIN store'
  <2>1. Stored
    BY DEF IInv
  <2>2. CASE store' = store
    BY <2>1, <2>2 DEF Stored
  <2>3. CASE store' = Upserted(Points(i, f, t))
    <3> HIDE DEF t
    <3>1. QED BY <1>1, <2>1, <2>3, UpsertedStored, ZenonT(40)
  <2>4. QED BY <1>1, <2>2, <2>3
<1>7. QED BY <1>3, <1>4, <1>5, <1>6, FailsStep

LEMMA ReadFailsStep ==
    ASSUME IInv, NEW i \in Ingests, NEW f \in Files, ReadFails(i, f)
    PROVE  IInv'
<1>1. task[i][f].at = "queued" /\ task' = [task EXCEPT ![i][f] = Absent]
      /\ UNCHANGED <<tree, ingest, cache, store, wrote>>
  BY DEF ReadFails
<1>2. TaskTypes
  BY DEF IInv, Types
<1>3. Absent \in Tasks /\ Absent \notin Works /\ Absent.at # "done" /\ task[i][f].at # "done"
  BY <1>1, TasksApart
<1>4. TaskTypes'
  BY <1>1, <1>2, <1>3, MovedTypes
<1>5. Types'
  BY <1>1, <1>4 DEF IInv, Types
<1>6. \A j \in Ingests :
        /\ ReadBy(j)' = ReadBy(j) /\ Read(j)' = Read(j)
        /\ \A g \in ReadBy(j) : task'[j][g] = task[j][g]
  BY <1>1, <1>2, <1>3, ReadSame
<1>7. Fresh'
  <2>1. /\ task'[i][f] = Absent
        /\ \A g \in Files : g # f => task'[i][g] = task[i][g]
        /\ \A j \in Ingests : j # i => task'[j] = task[j]
    BY <1>1, <1>2, Moved
  <2>2. QED BY <1>1, <2>1 DEF IInv, Fresh
<1>8. Counted'
  BY <1>1, <1>6 DEF IInv, Counted
<1>9. Stored'
  BY <1>1 DEF IInv, Stored
<1>10. Complete'
  BY <1>1, <1>6, CompleteSame DEF IInv
<1>11. QED BY <1>5, <1>7, <1>8, <1>9, <1>10 DEF IInv

\* A request begins with some of the files before it and nothing done.
LEMMA OpensStep ==
    ASSUME IInv, NEW i \in Ingests, ingest[i].at = "none",
           NEW r \in Requests, r.at = "open", r.created = 0, r.failed = 0,
           NEW T \in [Files -> {Idle, Absent}],
           ingest' = [ingest EXCEPT ![i] = r], task' = [task EXCEPT ![i] = T],
           UNCHANGED <<tree, cache, store, wrote>>
    PROVE  IInv'
<1>1. task \in [Ingests -> [Files -> Tasks]] /\ ingest \in [Ingests -> Requests]
  BY DEF IInv, Types, TaskTypes
<1>2. /\ task'[i] = T /\ \A j \in Ingests : j # i => task'[j] = task[j]
      /\ ingest'[i] = r /\ \A j \in Ingests : j # i => ingest'[j] = ingest[j]
  BY <1>1
<1>3. \A f \in Files : /\ T[f] \in Tasks /\ T[f] \notin Works
                       /\ T[f].at \notin {"embedding", "upserting", "done"}
  BY TasksApart
<1>4. ReadBy(i)' = {} /\ Running(i)' = {}
  BY <1>2, <1>3 DEF ReadBy, Running
<1>5. \A f \in Files : task[i][f].at # "done"
  BY TasksApart DEF IInv, Fresh
<1>6. ReadBy(i) = {}
  BY <1>5 DEF ReadBy
<1>7. ASSUME NEW j \in Ingests
      PROVE  ReadBy(j)' = ReadBy(j) /\ \A g \in ReadBy(j) : task'[j][g] = task[j][g]
  <2>1. CASE j = i
    BY <1>4, <1>6, <2>1
  <2>2. CASE j # i
    BY <1>2, <2>2 DEF ReadBy
  <2>3. QED BY <2>1, <2>2
<1>8. ASSUME NEW j \in Ingests PROVE Read(j)' = Read(j)
  BY <1>7 DEF Read
<1>9. TaskTypes'
  <2>1. task' \in [Ingests -> [Files -> Tasks]]
    <3>1. T \in [Files -> Tasks]
      BY <1>3
    <3>2. QED BY <1>1, <3>1
  <2>2. ASSUME NEW j \in Ingests, NEW f \in Files, task'[j][f] \in Works
        PROVE  Asks(task'[j][f]) /\ AtStage(task'[j][f])
    <3>1. j # i /\ task'[j][f] = task[j][f]
      BY <1>2, <1>3, <2>2
    <3>2. QED BY <2>2, <3>1 DEF IInv, Types, TaskTypes
  <2>3. ASSUME NEW j \in Ingests PROVE Cardinality(Running(j)') <= Concurrency
    <3>1. CASE j = i
      <4>1. Cardinality(Running(i)') = 0
        BY <1>4, FS_EmptySet
      <4>2. QED BY <3>1, <4>1, IngestionAssumption
    <3>2. CASE j # i
      <4>1. Running(j)' = Running(j)
        BY <1>2, <3>2 DEF Running
      <4>2. QED BY <4>1 DEF IInv, Types, TaskTypes
    <3>3. QED BY <3>1, <3>2
  <2>4. QED BY <2>1, <2>2, <2>3 DEF TaskTypes
<1>10. Types'
  <2>1. ingest' \in [Ingests -> Requests]
    BY <1>1
  <2>2. QED BY <1>9, <2>1 DEF IInv, Types
<1>11. Fresh'
  <2>1. \A j \in Ingests : ingest'[j].at = "none" => j # i
    BY <1>2
  <2>2. QED BY <1>2, <2>1 DEF IInv, Fresh
<1>12. Counted'
  <2>1. ingest'[i].created = ingest[i].created /\ ingest'[i].failed = ingest[i].failed
    BY <1>2 DEF IInv, Fresh
  <2>2. \A j \in Ingests : ingest'[j].created = ingest[j].created
                           /\ ingest'[j].failed = ingest[j].failed
    BY <1>2, <2>1
  <2>3. QED BY <1>7, <1>8, <2>2 DEF IInv, Counted
<1>13. Stored'
  BY DEF IInv, Stored
<1>14. Complete'
  <2>1. ASSUME NEW j \in Ingests, ingest'[j].kind = "directory", NEW g \in ReadBy(j)'
        PROVE  \/ ingest'[j].failed > 0
               \/ \A k \in DOMAIN Cut[task'[j][g].doc] :
                    PointId(g, task'[j][g].doc, Cut[task'[j][g].doc][k]) \in DOMAIN store'
    <3>1. j # i
      BY <1>4, <2>1
    <3>2. ingest'[j] = ingest[j] /\ g \in ReadBy(j) /\ task'[j][g] = task[j][g]
      BY <1>2, <1>7, <2>1, <3>1
    <3>3. QED BY <2>1, <3>2 DEF IInv, Complete
  <2>2. QED BY <2>1 DEF Complete, PointId
<1>15. QED BY <1>10, <1>11, <1>12, <1>13, <1>14 DEF IInv

LEMMA OpenRequest ==
    ASSUME NEW k \in {"directory", "text"}, NEW p \in Projects, NEW n \in 0 .. Cardinality(Files)
    PROVE  LET r == [NoRequest EXCEPT !.at = "open", !.kind = k, !.project = p, !.seen = n]
           IN  r \in Requests /\ r.at = "open" /\ r.created = 0 /\ r.failed = 0
<1> DEFINE a == [NoRequest EXCEPT !.at = "open"]
           b == [a EXCEPT !.kind = k]
           c == [b EXCEPT !.project = p]
           e == [c EXCEPT !.seen = n]
           r == [NoRequest EXCEPT !.at = "open", !.kind = k, !.project = p, !.seen = n]
<1>1. r = e
  BY DEF NoRequest
<1>2. a = [at |-> "open", kind |-> None, project |-> None, seen |-> 0, created |-> 0, failed |-> 0]
  BY DEF NoRequest
<1> HIDE DEF a
<1>3. b = [at |-> "open", kind |-> k, project |-> None, seen |-> 0, created |-> 0, failed |-> 0]
  BY <1>2
<1> HIDE DEF b
<1>4. c = [at |-> "open", kind |-> k, project |-> p, seen |-> 0, created |-> 0, failed |-> 0]
  BY <1>3
<1> HIDE DEF c
<1>5. e = [at |-> "open", kind |-> k, project |-> p, seen |-> n, created |-> 0, failed |-> 0]
  BY <1>4
<1> HIDE DEF e, r
<1>6. r = [at |-> "open", kind |-> k, project |-> p, seen |-> n, created |-> 0, failed |-> 0]
  BY <1>1, <1>5
<1>7. r \in Requests /\ r.at = "open" /\ r.created = 0 /\ r.failed = 0
  BY <1>6 DEF Requests
<1>8. QED BY <1>7 DEF r

LEMMA OpenDirectoryStep ==
    ASSUME IInv, NEW i \in Ingests, NEW p \in Projects, OpenDirectory(i, p)
    PROVE  IInv'
<1> DEFINE files == {f \in Files : tree[f].lang # "ignored"}
           n == Cardinality(files)
           r == [NoRequest EXCEPT !.at = "open", !.kind = "directory",
                                  !.project = p, !.seen = n]
           T == [f \in Files |-> IF f \in files THEN Idle ELSE Absent]
<1>1. /\ ingest[i].at = "none" /\ ingest' = [ingest EXCEPT ![i] = r]
      /\ task' = [task EXCEPT ![i] = T] /\ UNCHANGED <<tree, cache, store, wrote>>
  BY DEF OpenDirectory
<1>2. n \in 0 .. Cardinality(Files)
  <2>1. IsFiniteSet(Files) /\ files \subseteq Files
    BY IngestionAssumption
  <2> HIDE DEF files
  <2>2. /\ IsFiniteSet(files) /\ Cardinality(files) <= Cardinality(Files)
        /\ Cardinality(files) \in Nat /\ Cardinality(Files) \in Nat
    BY <2>1, FS_Subset, FS_CardinalityType
  <2>3. QED BY <2>2
<1> HIDE DEF n
<1>4. r \in Requests /\ r.at = "open" /\ r.created = 0 /\ r.failed = 0
  BY <1>2, OpenRequest
<1>5. T \in [Files -> {Idle, Absent}]
  OBVIOUS
<1> HIDE DEF r, T
<1>6. QED BY <1>1, <1>4, <1>5, OpensStep

LEMMA OpenTextStep ==
    ASSUME IInv, NEW i \in Ingests, NEW p \in Projects, NEW f \in Files, OpenText(i, p, f)
    PROVE  IInv'
<1> DEFINE r == [NoRequest EXCEPT !.at = "open", !.kind = "text", !.project = p, !.seen = 1]
           T == [task[i] EXCEPT ![f] = Idle]
<1>1. /\ ingest[i].at = "none" /\ ingest' = [ingest EXCEPT ![i] = r]
      /\ task' = [task EXCEPT ![i][f] = Idle] /\ UNCHANGED <<tree, cache, store, wrote>>
  BY DEF OpenText
<1>2. 1 \in 0 .. Cardinality(Files)
  <2>1. Cardinality(Files) \in Nat /\ Cardinality(Files) # 0
    BY IngestionAssumption, FS_CardinalityType, FS_EmptySet
  <2>2. QED BY <2>1
<1>4. r \in Requests /\ r.at = "open" /\ r.created = 0 /\ r.failed = 0
  BY <1>2, OpenRequest
<1>5. task \in [Ingests -> [Files -> Tasks]] /\ \A g \in Files : task[i][g] = Absent
  BY <1>1 DEF IInv, Types, TaskTypes, Fresh
<1>6. T \in [Files -> {Idle, Absent}] /\ task' = [task EXCEPT ![i] = T]
  BY <1>1, <1>5
<1> HIDE DEF r, T
<1>7. QED BY <1>1, <1>4, <1>6, OpensStep

\* A request answers, or a file is edited.
LEMMA QuietStep ==
    ASSUME IInv, \/ \E i \in Ingests : Answer(i)
                 \/ \E f \in Files : Edit(f)
                 \/ UNCHANGED vars
    PROVE  IInv'
<1>1. /\ UNCHANGED <<task, cache, store, wrote>>
      /\ tree' \in [Files -> Documents] /\ \A f \in Files : tree'[f] \in Contents[f]
  <2>1. ASSUME NEW f \in Files, Edit(f)
        PROVE  tree' \in [Files -> Documents] /\ \A g \in Files : tree'[g] \in Contents[g]
    <3>1. PICK doc \in Contents[f] : tree' = [tree EXCEPT ![f] = doc]
      BY <2>1 DEF Edit
    <3>2. doc \in Documents
      BY DEF Documents
    <3>3. QED BY <3>1, <3>2 DEF IInv, Types
  <2>2. QED BY <2>1 DEF IInv, Types, Answer, Edit, vars
<1>2. /\ ingest' \in [Ingests -> Requests]
      /\ \A j \in Ingests : /\ ingest'[j].at = "none" => ingest[j].at = "none"
                            /\ ingest'[j].kind = ingest[j].kind
                            /\ ingest'[j].created = ingest[j].created
                            /\ ingest'[j].failed = ingest[j].failed
  <2>1. ingest \in [Ingests -> Requests]
    BY DEF IInv, Types
  <2>2. ASSUME NEW i \in Ingests, ingest' = [ingest EXCEPT ![i].at = "ended"]
        PROVE  /\ ingest' \in [Ingests -> Requests]
               /\ \A j \in Ingests : /\ ingest'[j].at = "none" => ingest[j].at = "none"
                                     /\ ingest'[j].kind = ingest[j].kind
                                     /\ ingest'[j].created = ingest[j].created
                                     /\ ingest'[j].failed = ingest[j].failed
    BY <2>1, <2>2 DEF Requests
  <2>3. QED BY <2>1, <2>2 DEF Answer, Edit, vars
<1>3. \A j \in Ingests : ReadBy(j)' = ReadBy(j) /\ Read(j)' = Read(j) /\ Running(j)' = Running(j)
  BY <1>1 DEF ReadBy, Read, Running
<1>4. Types'
  <2>1. TaskTypes'
    BY <1>1, <1>3 DEF IInv, Types, TaskTypes
  <2>2. QED BY <1>1, <1>2, <2>1 DEF IInv, Types
<1>5. Fresh'
  BY <1>1, <1>2 DEF IInv, Fresh
<1>6. Counted'
  BY <1>1, <1>2, <1>3 DEF IInv, Counted
<1>7. Stored'
  BY <1>1 DEF IInv, Stored
<1>8. Complete'
  BY <1>1, <1>2, <1>3, CompleteSame DEF IInv
<1>9. QED BY <1>4, <1>5, <1>6, <1>7, <1>8 DEF IInv
LEMMA InitInv == Init => IInv
<1> SUFFICES ASSUME Init PROVE IInv
  OBVIOUS
<1>1. /\ \A i \in Ingests, f \in Files : task[i][f] = Absent
      /\ task \in [Ingests -> [Files -> {Absent}]]
      /\ \A i \in Ingests : ingest[i] = NoRequest /\ wrote[i] = {}
      /\ ingest \in [Ingests -> {NoRequest}] /\ DOMAIN wrote = Ingests
      /\ cache = << >> /\ store = << >>
      /\ tree \in [Files -> Documents] /\ \A f \in Files : tree[f] \in Contents[f]
  BY DEF Init
<1>2. NoRequest \in Requests
  <2>1. 0 \in 0 .. Cardinality(Files)
    BY IngestionAssumption, FS_CardinalityType
  <2>2. QED BY <2>1 DEF Requests, NoRequest
<1>3. \A i \in Ingests : ReadBy(i) = {} /\ Running(i) = {}
  BY <1>1, TasksApart DEF ReadBy, Running
<1>4. \A i \in Ingests : Read(i) = {}
  BY <1>3 DEF Read
<1>5. Cardinality({}) = 0 /\ IsFiniteSet({})
  BY FS_EmptySet
<1>6. TaskTypes
  <2>1. Absent \in Tasks /\ Absent \notin Works
    BY TasksApart
  <2>2. task \in [Ingests -> [Files -> Tasks]]
    BY <1>1, <2>1
  <2>3. \A i \in Ingests : Cardinality(Running(i)) <= Concurrency
    <3>1. \A i \in Ingests : Cardinality(Running(i)) = 0
      BY <1>3, <1>5
    <3>2. 0 <= Concurrency
      BY IngestionAssumption
    <3>3. QED BY <3>1, <3>2
  <2>4. QED BY <1>1, <2>1, <2>2, <2>3 DEF TaskTypes
<1>7. Types
  BY <1>1, <1>2, <1>6, EmptyCache DEF Types
<1>8. Fresh
  BY <1>1 DEF Fresh, NoRequest
<1>9. Counted
  <2>1. \A i \in Ingests : ingest[i].created = 0 /\ ingest[i].failed = 0
    BY <1>1 DEF NoRequest
  <2>2. ASSUME NEW i \in Ingests
        PROVE  /\ IsFiniteSet(wrote[i]) /\ Cardinality(wrote[i]) = 0
               /\ IsFiniteSet(Read(i)) /\ Cardinality(Read(i)) = 0
    BY <1>1, <1>4, <1>5
  <2>3. QED BY <1>1, <2>1, <2>2 DEF Counted
<1>10. Stored
  BY <1>1 DEF Stored
<1>11. Complete
  BY <1>3 DEF Complete
<1>12. QED BY <1>7, <1>8, <1>9, <1>10, <1>11 DEF IInv

LEMMA StepInv == IInv /\ [Next]_vars => IInv'
<1> SUFFICES ASSUME IInv, [Next]_vars PROVE IInv'
  OBVIOUS
<1>1. CASE \E f \in Files : Edit(f)
  BY <1>1, QuietStep
<1>2. CASE \E i \in Ingests, p \in Projects : OpenDirectory(i, p)
  BY <1>2, OpenDirectoryStep
<1>3. CASE \E i \in Ingests, p \in Projects, f \in Files : OpenText(i, p, f)
  BY <1>3, OpenTextStep
<1>4. CASE \E i \in Ingests, f \in Files : StartTask(i, f)
  <2>1. PICK i \in Ingests, f \in Files : StartTask(i, f)
    BY <1>4
  <2>2. /\ cache' \in Caches /\ UNCHANGED <<tree, store, wrote>> /\ Turn(i, f)
        /\ (\E u : GoesOn(i, f, u)) \/ (\E d : Fails(i, f, d))
    BY <2>1, StartFacts DEF IInv, Turn
  <2>3. Stored' /\ DOMAIN store \subseteq DOMAIN store'
    BY <2>2 DEF IInv, Stored
  <2>4. QED BY <2>2, <2>3, WorksStep, FailsStep
<1>5. CASE \E i \in Ingests, f \in Files : ReadFails(i, f)
  BY <1>5, ReadFailsStep
<1>6. CASE \E i \in Ingests, f \in Files : AnswerBatch(i, f)
  <2>1. PICK i \in Ingests, f \in Files : AnswerBatch(i, f)
    BY <1>6
  <2>2. /\ cache' \in Caches /\ UNCHANGED <<tree, store, wrote>> /\ Turn(i, f)
        /\ (\E u : GoesOn(i, f, u)) \/ (\E d : Fails(i, f, d))
    BY <2>1, AnswerFacts DEF IInv, Turn
  <2>3. Stored' /\ DOMAIN store \subseteq DOMAIN store'
    BY <2>2 DEF IInv, Stored
  <2>4. QED BY <2>2, <2>3, WorksStep, FailsStep
<1>7. CASE \E i \in Ingests, f \in Files : Upsert(i, f)
  BY <1>7, UpsertStep
<1>8. CASE \E i \in Ingests, f \in Files : UpsertFails(i, f)
  BY <1>8, UpsertFailsStep
<1>9. CASE \E i \in Ingests : Answer(i)
  BY <1>9, QuietStep
<1>10. CASE UNCHANGED vars
  BY <1>10, QuietStep
<1>11. QED
  BY <1>1, <1>2, <1>3, <1>4, <1>5, <1>6, <1>7, <1>8, <1>9, <1>10 DEF Next

-----------------------------------------------------------------------------
(* Every line a chunker undertakes is in one of its chunks.                *)

\* As HasLine says of the point of the chunk.
Holds(c, lines, k) ==
    /\ lines[k] \in Range(c.text)
    /\ \/ k \in c.first .. c.last
       \/ c.kind = "doc" /\ lines[k] = "docstring"
       \/ c.kind = "toplevel" /\ c.name \in {Key(k), Named("")}
Covers(s, lines, k) == \E m \in DOMAIN s : Holds(s[m], lines, k)

\* A product is the next one only without a rest.
LEMMA NoRest ==
    ASSUME NEW n \in Nat \ {0}, NEW q \in Nat, NEW p \in Nat, NEW r \in 0 .. n - 1,
           n * q = n * p + r
    PROVE  r = 0
<1>1. CASE q > p
  <2>1. PICK x \in Nat : q = p + 1 + x
    <3>1. q - p - 1 \in Nat /\ q = p + 1 + (q - p - 1)
      BY <1>1
    <3>2. QED BY <3>1
  <2>2. n * (p + 1 + x) = n * p + n + n * x
    OBVIOUS
  <2>3. n * x \in Nat /\ n * p \in Nat
    OBVIOUS
  <2>4. QED BY <2>1, <2>2, <2>3
<1>2. CASE q < p
  <2>1. PICK x \in Nat : p = q + 1 + x
    <3>1. p - q - 1 \in Nat /\ p = q + 1 + (p - q - 1)
      BY <1>2
    <3>2. QED BY <3>1
  <2>2. n * (q + 1 + x) = n * q + n + n * x
    OBVIOUS
  <2>3. n * x \in Nat /\ n * q \in Nat
    OBVIOUS
  <2>4. QED BY <2>1, <2>2, <2>3
<1>3. CASE q = p
  <2>1. n * q \in Int
    OBVIOUS
  <2>2. QED BY <1>3, <2>1
<1>4. QED BY <1>1, <1>2, <1>3

LEMMA DivisionFacts ==
    ASSUME NEW n \in Nat \ {0}, NEW k \in Nat
    PROVE  k % n \in 0 .. n - 1 /\ k \div n \in Nat /\ k = n * (k \div n) + (k % n)
<1>1. k % n \in 0 .. n - 1
  OBVIOUS
<1>2. k \div n \in Nat
  OBVIOUS
<1>3. k = n * (k \div n) + (k % n)
  OBVIOUS
<1>4. QED BY <1>1, <1>2, <1>3

LEMMA LastMultiple ==
    ASSUME NEW n \in Nat \ {0}, NEW k \in Nat
    PROVE  \E s \in 0 .. k : s % n = 0 /\ k < s + n
<1> DEFINE s == n * (k \div n)
<1>1. k % n \in 0 .. n - 1 /\ k \div n \in Nat /\ k = s + (k % n)
  BY DivisionFacts
<1>2. s \in Nat
  BY <1>1
<1>3. s % n \in 0 .. n - 1 /\ s \div n \in Nat /\ s = n * (s \div n) + (s % n)
  BY <1>2, DivisionFacts
<1>4. s % n = 0
  <2> DEFINE r == s % n
             p == s \div n
             q == k \div n
  <2>1. q \in Nat /\ p \in Nat /\ r \in 0 .. n - 1 /\ n * q = n * p + r
    BY <1>1, <1>3
  <2> HIDE DEF r, p, q
  <2>2. r = 0
    BY <2>1, NoRest
  <2>3. QED BY <2>2 DEF r
<1>5. s \in 0 .. k /\ k < s + n
  <2> DEFINE r == k % n
  <2>1. r \in 0 .. n - 1 /\ k = s + r /\ s \in Nat
    BY <1>1, <1>2
  <2> HIDE DEF r, s
  <2>2. QED BY <2>1
<1> HIDE DEF s
<1>6. QED BY <1>4, <1>5

\* Stripping takes no line away that is not blank.
LEMMA StripHolds ==
    ASSUME NEW s \in Seq(STRING), NEW k \in Solid(s)
    PROVE  Strip(s) # << >> /\ s[k] \in Range(Strip(s))
<1> DEFINE a == Min(Solid(s))
           b == Max(Solid(s))
<1>1. Len(s) \in Nat /\ DOMAIN s = 1 .. Len(s) /\ Solid(s) \in SUBSET (1 .. Len(s))
  BY LenProperties DEF Solid
<1>2. Solid(s) \in SUBSET Nat /\ Solid(s) \in SUBSET (0 .. Len(s))
  BY <1>1
<1>3. a \in Solid(s) /\ b \in Solid(s) /\ a <= k /\ k <= b
  <2>1. b \in Solid(s) /\ \A y \in Solid(s) : y <= b
    BY <1>1, <1>2, MaxFacts
  <2>2. a \in Solid(s) /\ \A y \in Solid(s) : a <= y
    BY <1>2, MinFacts
  <2> HIDE DEF a, b
  <2>3. QED BY <2>1, <2>2
<1> HIDE DEF a, b
<1>4. a \in 1 .. Len(s) /\ b \in 1 .. Len(s) /\ k \in 1 .. Len(s) /\ a <= k /\ k <= b
  BY <1>1, <1>3
<1> DEFINE x == SubSeq(s, a, b)
<1>5. /\ x \in Seq(STRING) /\ Len(x) = b - a + 1
      /\ \A i \in 1 .. b - a + 1 : x[i] = s[a + i - 1]
  BY <1>1, <1>4, SubSeqProperties
<1>6. DOMAIN x = 1 .. b - a + 1
  BY <1>5, LenProperties
<1>7. k - a + 1 \in 1 .. b - a + 1 /\ a + (k - a + 1) - 1 = k
  BY <1>1, <1>4
<1> HIDE DEF x
<1>8. x[k - a + 1] = s[k]
  BY <1>5, <1>7
<1>9. s[k] \in Range(x)
  BY <1>6, <1>7, <1>8 DEF Range
<1>10. x # << >>
  <2>1. DOMAIN << >> = {}
    OBVIOUS
  <2>2. QED BY <1>6, <1>7, <2>1
<1>11. Strip(s) = x
  BY DEF Strip, x, a, b
<1>12. QED BY <1>9, <1>10, <1>11

\* A piece of the document has its lines.
LEMMA PieceHolds ==
    ASSUME NEW lines \in Seq(STRING), NEW kind, NEW name,
           NEW a \in 1 .. Len(lines), NEW b \in 1 .. Len(lines),
           NEW k \in Solid(lines), a <= k, k <= b
    PROVE  /\ Strip(SubSeq(lines, a, b)) # << >>
           /\ Holds(Piece(lines, kind, name, a, b), lines, k)
<1>1. /\ Len(lines) \in Nat /\ DOMAIN lines = 1 .. Len(lines)
      /\ k \in 1 .. Len(lines) /\ lines[k] # "blank"
  BY LenProperties DEF Solid
<1> DEFINE x == SubSeq(lines, a, b)
<1>2. /\ x \in Seq(STRING) /\ Len(x) = b - a + 1
      /\ \A i \in 1 .. b - a + 1 : x[i] = lines[a + i - 1]
  BY <1>1, SubSeqProperties
<1>3. k - a + 1 \in 1 .. b - a + 1 /\ a + (k - a + 1) - 1 = k
  BY <1>1
<1>4. DOMAIN x = 1 .. b - a + 1
  BY <1>2, LenProperties
<1> DEFINE p == Piece(lines, kind, name, a, b)
<1>5. p.first = a /\ p.last = b /\ p.text = Strip(x)
  BY PieceMark
<1> HIDE DEF x, p
<1>6. x[k - a + 1] = lines[k]
  BY <1>2, <1>3
<1>7. k - a + 1 \in Solid(x)
  BY <1>1, <1>3, <1>4, <1>6 DEF Solid
<1>8. Strip(x) # << >> /\ lines[k] \in Range(Strip(x))
  BY <1>2, <1>6, <1>7, StripHolds
<1>9. k \in p.first .. p.last
  BY <1>1, <1>5
<1>10. QED BY <1>5, <1>8, <1>9 DEF Holds, p, x

LEMMA StepFacts == Step \in Nat \ {0} /\ Step <= WindowLines /\ WindowLines \in Nat
BY ChunkingAssumption DEF Step

LEMMA WindowMark ==
    ASSUME NEW lines, NEW s
    PROVE  LET e == IF s + WindowLines < Len(lines) THEN s + WindowLines ELSE Len(lines)
           IN  /\ WindowAt(lines, s).first = s + 1 /\ WindowAt(lines, s).last = e
               /\ WindowAt(lines, s).text = Strip(SubSeq(lines, s + 1, e))
<1> DEFINE e == IF s + WindowLines < Len(lines) THEN s + WindowLines ELSE Len(lines)
           a == s + 1
           x == Strip(SubSeq(lines, a, e))
           w == WindowAt(lines, s)
<1>1. w = [kind |-> "window", name |-> Named(""), first |-> a, last |-> e, text |-> x]
  BY DEF WindowAt, Piece, Chunk
<1> HIDE DEF e, a, x, w
<1>2. w.first = a /\ w.last = e /\ w.text = x
  BY <1>1
<1>3. QED BY <1>2 DEF e, a, x, w

\* The least full window around a line is kept: an earlier full one that
\* reached the end would hold the line too.
LEMMA WindowsCover ==
    ASSUME NEW lines \in Seq(STRING), NEW k \in Solid(lines)
    PROVE  Covers(Windows(lines), lines, k)
<1> DEFINE n       == Len(lines)
           starts  == {s \in 0 .. n - 1 : s % Step = 0}
           Full(s) == WindowAt(lines, s).text # << >>
           kept    == {s \in starts : Full(s) /\ \A e \in starts :
                        e < s /\ Full(e) => e + WindowLines < n}
           Stop(s) == IF s + WindowLines < n THEN s + WindowLines ELSE n
           around  == {s \in starts : k \in s + 1 .. Stop(s)}
<1>1. n \in Nat /\ DOMAIN lines = 1 .. n /\ k \in 1 .. n /\ lines[k] # "blank"
  BY LenProperties DEF Solid
<1>2. Step \in Nat \ {0} /\ Step <= WindowLines /\ WindowLines \in Nat
  BY StepFacts
<1>3. \A s \in starts : /\ WindowAt(lines, s).first = s + 1 /\ WindowAt(lines, s).last = Stop(s)
                        /\ WindowAt(lines, s).text = Strip(SubSeq(lines, s + 1, Stop(s)))
  BY WindowMark
<1>4. ASSUME NEW s \in around PROVE Full(s) /\ Holds(WindowAt(lines, s), lines, k)
  <2> DEFINE x == s + 1
             y == Stop(s)
  <2>1. x \in 1 .. n /\ y \in 1 .. n /\ x <= k /\ k <= y
    BY <1>1, <1>2
  <2>2. WindowAt(lines, s) = Piece(lines, "window", "", x, y)
    BY DEF WindowAt
  <2>3. s \in starts /\ WindowAt(lines, s).text = Strip(SubSeq(lines, x, y))
    BY <1>3
  <2> HIDE DEF x, y, around, starts
  <2>4. Strip(SubSeq(lines, x, y)) # << >> /\ Holds(Piece(lines, "window", "", x, y), lines, k)
    BY <2>1, PieceHolds
  <2>5. QED BY <2>2, <2>3, <2>4
<1>5. around \in SUBSET Nat /\ around # {}
  <2>1. k - 1 \in Nat
    BY <1>1
  <2>2. PICK s \in 0 .. k - 1 : s % Step = 0 /\ k - 1 < s + Step
    BY <1>2, <2>1, LastMultiple
  <2>3. s \in starts /\ k \in s + 1 .. Stop(s)
    BY <1>1, <1>2, <2>2
  <2>4. around \in SUBSET Nat
    BY <1>1
  <2>5. QED BY <2>3, <2>4
<1>6. PICK s \in around : \A e \in around : s <= e
  <2> HIDE DEF around
  <2>1. QED BY <1>5, LeastNat
<1>7. s \in kept
  <2>1. ASSUME NEW e \in starts, e < s, ~(e + WindowLines < n) PROVE FALSE
    <3>1. e \in around
      BY <1>1, <1>2, <2>1
    <3>2. s <= e
      BY <1>6, <3>1
    <3>3. QED BY <1>1, <2>1, <3>2
  <2>2. Full(s) /\ s \in starts
    BY <1>4
  <2> HIDE DEF Full
  <2>3. QED BY <2>1, <2>2
<1>8. /\ DOMAIN Windows(lines) = 1 .. Cardinality(kept)
      /\ \A m \in 1 .. Cardinality(kept) : Windows(lines)[m] = WindowAt(lines, InOrder(kept)[m])
  <2>1. Windows(lines) = [m \in 1 .. Cardinality(kept) |-> WindowAt(lines, InOrder(kept)[m])]
    BY DEF Windows
  <2> HIDE DEF kept
  <2>2. QED BY <2>1
<1>9. \E m \in 1 .. Cardinality(kept) : InOrder(kept)[m] = s
  <2>1. kept \in SUBSET (0 .. n)
    BY <1>1
  <2> HIDE DEF kept
  <2>2. QED BY <1>7, <2>1, LinesFacts, InOrderFacts
<1>10. Holds(WindowAt(lines, s), lines, k)
  BY <1>4
<1> HIDE DEF kept, Full, around, starts, Stop
<1>11. QED BY <1>8, <1>9, <1>10 DEF Covers

\* From each heading on to the next, and from the last to the end.
LEMMA SectionsCover ==
    ASSUME NEW lines \in Seq(STRING), NEW kind, NEW k \in Solid(lines),
           NEW h \in DOMAIN lines, lines[h] = "head", h <= k
    PROVE  Covers(Sections(lines, kind), lines, k)
<1> DEFINE S == {j \in DOMAIN lines : lines[j] = "head"}
           o == InOrder(S)
           N == Cardinality(S)
           before == {m \in 1 .. N : o[m] <= k}
<1>1. S \in SUBSET (0 .. Len(lines)) /\ Len(lines) \in Nat /\ k \in 1 .. Len(lines) /\ h \in S
      /\ S \subseteq 1 .. Len(lines)
  BY LenProperties DEF Solid
<1>2. Heads(lines) = o
  BY DEF Heads
<1> HIDE DEF S
<1>3. /\ N \in Nat /\ Len(o) = N /\ DOMAIN o = 1 .. N
      /\ \A m \in 1 .. N : o[m] \in S
      /\ \E m \in 1 .. N : o[m] = h
  BY <1>1, LinesFacts, InOrderFacts
<1>4. before \in SUBSET (0 .. N) /\ before # {}
  <2>1. before \in SUBSET (0 .. N)
    BY <1>3
  <2>2. QED BY <1>3, <2>1
<1>5. PICK m \in before : \A j \in before : j <= m
  <2> HIDE DEF before
  <2>1. Max(before) \in before /\ \A j \in before : j <= Max(before)
    BY <1>3, <1>4, MaxFacts
  <2>2. QED BY <2>1
<1> DEFINE last == IF m < Len(o) THEN o[m + 1] - 1 ELSE Len(lines)
<1>6. m \in 1 .. N /\ o[m] <= k /\ o[m] \in 1 .. Len(lines)
  BY <1>1, <1>3
<1>7. k <= last
  <2>1. CASE m < N
    <3>1. m + 1 \in 1 .. N /\ ~(m + 1 <= m)
      BY <1>3, <1>6, <2>1
    <3>2. o[m + 1] \in 1 .. Len(lines)
      BY <1>1, <1>3, <3>1
    <3>3. ~(o[m + 1] <= k)
      BY <1>5, <3>1
    <3>4. QED BY <1>1, <1>3, <2>1, <3>2, <3>3
  <2>2. CASE ~(m < N)
    BY <1>1, <1>3, <2>2
  <2>3. QED BY <2>1, <2>2
<1>8. last \in 1 .. Len(lines)
  <2>1. CASE m < N
    <3>1. m + 1 \in 1 .. N
      BY <1>3, <1>6, <2>1
    <3>2. o[m + 1] \in 1 .. Len(lines)
      BY <1>1, <1>3, <3>1
    <3>3. o[m + 1] - 1 >= k
      BY <1>3, <1>7, <2>1
    <3>4. QED BY <1>1, <1>3, <2>1, <3>2, <3>3
  <2>2. CASE ~(m < N)
    BY <1>1, <1>3, <2>2
  <2>3. QED BY <2>1, <2>2
<1>9. m \in DOMAIN Sections(lines, kind)
      /\ Sections(lines, kind)[m] = Piece(lines, kind, "head", o[m], last)
  <2>1. Sections(lines, kind) = [j \in 1 .. N |->
            Piece(lines, kind, "head", o[j], IF j < Len(o) THEN o[j + 1] - 1 ELSE Len(lines))]
    BY <1>2, <1>3 DEF Sections
  <2> HIDE DEF o, N
  <2>2. QED BY <1>6, <2>1
<1> HIDE DEF o, last, before
<1>10. Holds(Piece(lines, kind, "head", o[m], last), lines, k)
  BY <1>6, <1>7, <1>8, PieceHolds
<1>11. QED BY <1>9, <1>10 DEF Covers

\* What a definition's lines are.
LEMMA EndFacts ==
    ASSUME NEW lines \in Seq(STRING), NEW h \in Definitions(lines)
    PROVE  h \in 1 .. Len(lines) /\ EndLine(lines, h) \in h .. Len(lines)
<1> DEFINE S == {j \in h .. Len(lines) :
                   /\ j = h \/ lines[j] # "blank"
                   /\ \A k \in h + 1 .. j :
                        lines[k] \in {"inner", "blank"}
                                     \cup (IF lines[h] = "method" THEN {} ELSE {"method"})}
<1>1. Len(lines) \in Nat /\ h \in 1 .. Len(lines)
  BY LenProperties DEF Definitions
<1>2. h + 1 .. h = {}
  BY <1>1
<1>3. S \in SUBSET (0 .. Len(lines)) /\ h \in S
  BY <1>1, <1>2
<1>4. EndLine(lines, h) = Max(S)
  BY DEF EndLine
<1>5. S \subseteq h .. Len(lines)
  OBVIOUS
<1> HIDE DEF S
<1>6. Max(S) \in S
  BY <1>1, <1>3, MaxFacts
<1>7. QED BY <1>1, <1>4, <1>5, <1>6

\* An empty set has no order.
LEMMA EmptyOrder == InOrder({}) = << >>
<1>1. IsFiniteSet({}) /\ Cardinality({}) = 0 /\ {} \in SUBSET Int
  BY FS_EmptySet
<1>2. InOrder({}) \in Seq({}) /\ Len(InOrder({})) = 0
  BY <1>1, InOrderFacts
<1>3. QED BY <1>2, EmptySeq

\* The module's docstring has its lines.
LEMMA DocstringFacts ==
    ASSUME NEW lines \in Seq(STRING)
    PROVE  LET at == {k \in DOMAIN lines : lines[k] = "docstring"}
           IN  /\ at = {} <=> Docstring(lines) = << >>
               /\ at # {} => "docstring" \in Range(Docstring(lines))
<1> DEFINE at == {k \in DOMAIN lines : lines[k] = "docstring"}
           o == InOrder(at)
<1>1. at \in SUBSET (0 .. Len(lines)) /\ \A k \in at : lines[k] = "docstring"
  BY LenProperties
<1>2. Docstring(lines) = [n \in DOMAIN o |-> lines[o[n]]]
  BY DEF Docstring
<1>3. CASE at = {}
  <2>1. o = << >>
    BY <1>3, EmptyOrder
  <2> HIDE DEF at, o
  <2>2. DOMAIN o = {}
    BY <2>1
  <2>3. Docstring(lines) = << >>
    BY <1>2, <2>2
  <2>4. QED BY <1>3, <2>3 DEF at
<1>4. CASE at # {}
  <2> HIDE DEF at
  <2>1. PICK k \in at : TRUE
    BY <1>4
  <2>2. PICK n \in DOMAIN o : o[n] = k
    BY <1>1, <2>1, LinesFacts, InOrderFacts
  <2> HIDE DEF o
  <2>3. n \in DOMAIN Docstring(lines) /\ Docstring(lines)[n] = "docstring"
    BY <1>1, <1>2, <2>2
  <2>4. "docstring" \in Range(Docstring(lines))
    BY <2>3 DEF Range
  <2>5. Docstring(lines) # << >>
    <3>1. DOMAIN << >> = {}
      OBVIOUS
    <3>2. QED BY <2>3, <3>1
  <2>6. QED BY <1>4, <2>4, <2>5 DEF at
<1>5. QED BY <1>3, <1>4

\* The chunks of a module: its docstring's, and one for each definition.
Module(lines) ==
    LET o == InOrder(Definitions(lines))
    IN  [m \in DOMAIN o |->
            Piece(lines, IF lines[o[m]] = "class" THEN "class" ELSE "function",
                  lines[o[m]], o[m], EndLine(lines, o[m]))]

LEMMA PythonParts ==
    ASSUME NEW lines \in Seq(STRING), "broken" \notin Range(lines)
    PROVE  /\ Definitions(lines) = {} => Module(lines) = << >>
           /\ \A m \in DOMAIN ModuleDoc(lines) :
                m \in DOMAIN Python(lines) /\ Python(lines)[m] = ModuleDoc(lines)[m]
           /\ \A m \in DOMAIN Module(lines) : \E j \in DOMAIN Python(lines) :
                Python(lines)[j] = Module(lines)[m]
           /\ ModuleDoc(lines) = << >> /\ Module(lines) = << >> => Python(lines) = << >>
<1> DEFINE d == ModuleDoc(lines)
           s == Module(lines)
           S == Definitions(lines)
           o == InOrder(S)
           N == Cardinality(S)
           piece(m) == Piece(lines, IF lines[o[m]] = "class" THEN "class" ELSE "function",
                             lines[o[m]], o[m], EndLine(lines, o[m]))
<1>1. Python(lines) = d \o s
  BY DEF Python, Module
<1>2. S \in SUBSET (0 .. Len(lines))
  BY LenProperties DEF Definitions
<1>3. N \in Nat /\ DOMAIN o = 1 .. N
  <2> HIDE DEF S
  <2>1. QED BY <1>2, LinesFacts, InOrderFacts
<1>4. s = [m \in DOMAIN o |-> piece(m)]
  BY DEF Module
<1>5. \E T : s \in Seq(T)
  <2> DEFINE T == {piece(m) : m \in 1 .. N}
  <2>1. s \in [1 .. N -> T]
    <3> HIDE DEF piece, o, N, s
    <3>1. QED BY <1>3, <1>4
  <2> HIDE DEF s, T, N
  <2>2. s \in Seq(T)
    BY <1>3, <2>1, SeqDef
  <2>3. QED BY <2>2
<1>6. \E T : d \in Seq(T)
  <2> DEFINE c == Chunk("doc", Named("<module>"), 1,
                        IF Len(lines) < 5 THEN Len(lines) ELSE 5, Docstring(lines))
  <2>1. d = << >> \/ d = << c >>
    BY DEF ModuleDoc
  <2> HIDE DEF c, d
  <2>2. << c >> \in Seq({c}) /\ << >> \in Seq({c})
    BY EmptySeq
  <2>3. QED BY <2>1, <2>2
<1>7. S = {} => s = << >>
  <2>1. ASSUME S = {} PROVE DOMAIN o = {}
    <3>1. o = << >>
      BY <2>1, EmptyOrder
    <3> HIDE DEF o
    <3>2. QED BY <3>1
  <2> HIDE DEF S, o, s, piece
  <2>2. QED BY <1>4, <2>1
<1> HIDE DEF d, s, S, o, N, piece
<1>8. PICK T, U : d \in Seq(T) /\ s \in Seq(U)
  BY <1>5, <1>6
<1>9. d \in Seq(T \cup U) /\ s \in Seq(T \cup U)
  BY <1>8, SeqMonotonic
<1>10. /\ d \o s \in Seq(T \cup U) /\ Len(d) \in Nat /\ Len(s) \in Nat
       /\ DOMAIN (d \o s) = 1 .. Len(d) + Len(s)
       /\ DOMAIN d = 1 .. Len(d) /\ DOMAIN s = 1 .. Len(s)
       /\ \A k \in 1 .. Len(d) + Len(s) :
            (d \o s)[k] = IF k <= Len(d) THEN d[k] ELSE s[k - Len(d)]
  BY <1>9, ConcatProperties, LenProperties
<1>11. ASSUME NEW m \in DOMAIN d PROVE m \in DOMAIN (d \o s) /\ (d \o s)[m] = d[m]
  <2>1. m \in 1 .. Len(d) + Len(s) /\ m <= Len(d)
    BY <1>10
  <2>2. QED BY <1>10, <2>1
<1>12. ASSUME NEW m \in DOMAIN s PROVE \E j \in DOMAIN (d \o s) : (d \o s)[j] = s[m]
  <2>1. /\ Len(d) + m \in 1 .. Len(d) + Len(s) /\ ~(Len(d) + m <= Len(d))
        /\ Len(d) + m - Len(d) = m
    BY <1>10
  <2>2. (d \o s)[Len(d) + m] = s[m]
    BY <1>10, <2>1
  <2>3. QED BY <1>10, <2>1, <2>2
<1>13. d = << >> /\ s = << >> => d \o s = << >>
  OBVIOUS
<1>14. QED BY <1>1, <1>7, <1>11, <1>12, <1>13 DEF d, s, S

LEMMA PythonCover ==
    ASSUME NEW lines \in Seq(STRING), "broken" \notin Range(lines), NEW k \in Solid(lines),
           \/ lines[k] = "docstring"
           \/ \E h \in Definitions(lines) : k \in h .. EndLine(lines, h)
    PROVE  Covers(Python(lines), lines, k)
<1>1. CASE lines[k] = "docstring"
  <2> DEFINE c == Chunk("doc", Named("<module>"), 1,
                        IF Len(lines) < 5 THEN Len(lines) ELSE 5, Docstring(lines))
  <2>1. k \in {j \in DOMAIN lines : lines[j] = "docstring"}
    BY <1>1 DEF Solid
  <2>2. Docstring(lines) # << >> /\ "docstring" \in Range(Docstring(lines))
    BY <2>1, DocstringFacts
  <2>3. ModuleDoc(lines) = << c >>
    BY <2>2 DEF ModuleDoc
  <2>4. Holds(c, lines, k)
    BY <1>1, <2>2 DEF Holds, Chunk
  <2> HIDE DEF c
  <2>5. 1 \in DOMAIN ModuleDoc(lines) /\ ModuleDoc(lines)[1] = c
    BY <2>3
  <2>6. 1 \in DOMAIN Python(lines) /\ Python(lines)[1] = c
    BY <2>5, PythonParts
  <2>7. QED BY <2>4, <2>6 DEF Covers
<1>2. CASE \E h \in Definitions(lines) : k \in h .. EndLine(lines, h)
  <2>1. PICK h \in Definitions(lines) : k \in h .. EndLine(lines, h)
    BY <1>2
  <2> DEFINE S == Definitions(lines)
             o == InOrder(S)
             N == Cardinality(S)
  <2>2. S \in SUBSET (0 .. Len(lines))
    BY LenProperties DEF Definitions
  <2>3. DOMAIN o = 1 .. N /\ \E m \in 1 .. N : o[m] = h
    <3>1. h \in S
      OBVIOUS
    <3> HIDE DEF S
    <3>2. QED BY <2>2, <3>1, LinesFacts, InOrderFacts
  <2>4. PICK m \in DOMAIN o : o[m] = h
    BY <2>3
  <2> DEFINE kind == IF lines[h] = "class" THEN "class" ELSE "function"
             p == Piece(lines, kind, lines[h], h, EndLine(lines, h))
  <2>5. m \in DOMAIN Module(lines) /\ Module(lines)[m] = p
    BY <2>4 DEF Module
  <2> HIDE DEF kind
  <2>6. Len(lines) \in Nat /\ k \in 1 .. Len(lines)
    BY LenProperties DEF Solid
  <2>7. /\ h \in 1 .. Len(lines) /\ EndLine(lines, h) \in 1 .. Len(lines)
        /\ h <= k /\ k <= EndLine(lines, h)
    BY <2>1, <2>6, EndFacts
  <2>8. Holds(p, lines, k)
    BY <2>7, PieceHolds
  <2> HIDE DEF p, S, o, N
  <2>9. \E j \in DOMAIN Python(lines) : Python(lines)[j] = p
    BY <2>5, PythonParts
  <2>10. QED BY <2>8, <2>9 DEF Covers
<1>3. QED BY <1>1, <1>2

LEMMA JsonCover ==
    ASSUME NEW lines \in Seq(STRING), "broken" \notin Range(lines), NEW k \in Solid(lines)
    PROVE  Covers(Json(lines), lines, k)
<1>1. k \in DOMAIN lines
  BY DEF Solid
<1>2. CASE lines[1] = "head"
  <2> DEFINE c == Chunk("toplevel", Key(k), 0, 0, <<ToString(k), lines[k]>>)
  <2>1. k \in DOMAIN Json(lines) /\ Json(lines)[k] = c
    BY <1>1, <1>2 DEF Json
  <2>2. c.kind = "toplevel" /\ c.name = Key(k) /\ c.text = <<ToString(k), lines[k]>>
    BY DEF Chunk
  <2>3. lines[k] \in Range(<<ToString(k), lines[k]>>)
    <3> DEFINE x == <<ToString(k), lines[k]>>
    <3>1. 2 \in DOMAIN x /\ x[2] = lines[k]
      OBVIOUS
    <3> HIDE DEF x
    <3>2. lines[k] \in Range(x)
      BY <3>1 DEF Range
    <3>3. QED BY <3>2 DEF x
  <2> HIDE DEF c
  <2>4. Holds(c, lines, k)
    BY <2>2, <2>3 DEF Holds
  <2>5. QED BY <2>1, <2>4 DEF Covers
<1>3. CASE lines[1] # "head"
  <2> DEFINE c == Chunk("toplevel", Named(""), 0, 0, Strip(lines))
  <2>1. Json(lines) = << c >>
    BY <1>3 DEF Json
  <2>2. c.kind = "toplevel" /\ c.name = Named("") /\ c.text = Strip(lines)
    BY DEF Chunk
  <2>3. lines[k] \in Range(Strip(lines))
    BY StripHolds
  <2> HIDE DEF c
  <2>4. Holds(c, lines, k)
    BY <2>2, <2>3 DEF Holds
  <2>5. 1 \in DOMAIN << c >> /\ << c >>[1] = c
    OBVIOUS
  <2>6. QED BY <2>1, <2>4, <2>5 DEF Covers
<1>4. QED BY <1>2, <1>3

LEMMA ChunksCover ==
    ASSUME NEW doc \in Docs, NEW k \in Undertaken(doc)
    PROVE  Covers(Chunks(doc), doc.lines, k)
<1> DEFINE lines == doc.lines
           heads == {j \in DOMAIN lines : lines[j] = "head"}
<1>1. /\ lines \in Seq(STRING) /\ Len(lines) \in Nat /\ DOMAIN lines = 1 .. Len(lines)
      /\ k \in Solid(lines) /\ k \in DOMAIN lines
      /\ Parts(doc) # {} => k \in Parts(doc)
  BY LenProperties DEF Docs, Undertaken, Solid
<1>2. lines # << >>
  BY <1>1, EmptySeq
<1>3. ASSUME NEW s, Covers(s, lines, k) PROVE s # << >>
  <2>1. DOMAIN << >> = {}
    OBVIOUS
  <2>2. QED BY <1>3, <2>1 DEF Covers
<1>4. Covers(Structure(doc), lines, k) => Covers(Chunks(doc), lines, k)
  BY <1>2, <1>3 DEF Chunks
<1>5. Structure(doc) = << >> => Covers(Chunks(doc), lines, k)
  <2>1. Covers(Windows(lines), lines, k)
    BY <1>1, WindowsCover
  <2>2. QED BY <1>2, <2>1 DEF Chunks
<1>6. heads = {} => Heads(lines) = << >>
  BY EmptyOrder DEF Heads
<1>7. CASE doc.lang = "python"
  <2> DEFINE P == {j \in DOMAIN lines :
                     \/ lines[j] = "docstring"
                     \/ \E h \in Definitions(lines) : j \in h .. EndLine(lines, h)}
  <2>1. CASE "broken" \in Range(lines)
    <3>1. Python(lines) = << >>
      BY <2>1 DEF Python
    <3>2. QED BY <1>5, <1>7, <3>1 DEF Structure
  <2>2. CASE "broken" \notin Range(lines)
    <3>1. Parts(doc) = P
      BY <1>7, <2>2 DEF Parts
    <3>2. CASE P = {}
      <4>1. \A h \in Definitions(lines) : h \in P
        <5>1. \A h \in Definitions(lines) : h \in DOMAIN lines /\ h \in h .. EndLine(lines, h)
          <6>1. ASSUME NEW h \in Definitions(lines)
                PROVE  h \in 1 .. Len(lines) /\ EndLine(lines, h) \in h .. Len(lines)
            BY <1>1, EndFacts
          <6>2. QED BY <1>1, <6>1
        <5>2. QED BY <5>1
      <4>2. Definitions(lines) = {}
        BY <3>2, <4>1
      <4>3. {j \in DOMAIN lines : lines[j] = "docstring"} = {}
        BY <3>2
      <4>4. ModuleDoc(lines) = << >>
        BY <1>1, <4>3, DocstringFacts DEF ModuleDoc
      <4>5. Python(lines) = << >>
        BY <1>1, <2>2, <4>2, <4>4, PythonParts
      <4>6. QED BY <1>5, <1>7, <4>5 DEF Structure
    <3>3. CASE P # {}
      <4>1. k \in P
        BY <1>1, <3>1, <3>3
      <4>2. Covers(Python(lines), lines, k)
        BY <1>1, <2>2, <4>1, PythonCover
      <4>3. QED BY <1>4, <1>7, <4>2 DEF Structure
    <3>4. QED BY <3>2, <3>3
  <2>3. QED BY <2>1, <2>2
<1>8. ASSUME doc.lang \in {"markdown", "javascript"}, heads # {}, NEW kind
      PROVE  Covers(Sections(lines, kind), lines, k)
  <2>1. Parts(doc) = {j \in DOMAIN lines : \E h \in heads : h <= j}
    BY <1>8 DEF Parts
  <2>2. \A h \in heads : h <= h
    BY <1>1
  <2>3. Parts(doc) # {}
    BY <1>8, <2>1, <2>2
  <2>4. PICK h \in heads : h <= k
    BY <1>1, <2>1, <2>3
  <2>5. h \in DOMAIN lines /\ lines[h] = "head" /\ h <= k
    BY <2>4
  <2>6. QED BY <1>1, <2>5, SectionsCover
<1>9. CASE doc.lang = "markdown"
  <2>1. CASE heads = {}
    <3>1. Markdown(lines) = <<Piece(lines, "section", "<stem>", 1, Len(lines))>>
      BY <1>1, <1>6, <2>1 DEF Markdown
    <3>2. Covers(Markdown(lines), lines, k)
      <4>1. \A x : DOMAIN <<x>> = {1} /\ <<x>>[1] = x
        OBVIOUS
      <4>2. 1 \in 1 .. Len(lines) /\ Len(lines) \in 1 .. Len(lines) /\ 1 <= k /\ k <= Len(lines)
        BY <1>1
      <4>3. Holds(Piece(lines, "section", "<stem>", 1, Len(lines)), lines, k)
        <5> HIDE DEF lines
        <5>1. QED BY <1>1, <4>2, PieceHolds
      <4>4. QED BY <3>1, <4>1, <4>3 DEF Covers
    <3>3. QED BY <1>4, <1>9, <3>2 DEF Structure
  <2>2. CASE heads # {}
    <3>1. Covers(Sections(lines, "section"), lines, k)
      BY <1>8, <1>9, <2>2
    <3>2. Heads(lines) # << >>
      <4>1. Covers(Sections(lines, "section"), lines, k) => DOMAIN Heads(lines) # {}
        BY DEF Sections, Covers
      <4>2. DOMAIN << >> = {}
        OBVIOUS
      <4>3. QED BY <3>1, <4>1, <4>2
    <3>3. QED BY <1>4, <1>9, <3>1, <3>2 DEF Structure, Markdown
  <2>3. QED BY <2>1, <2>2
<1>10. CASE doc.lang = "javascript"
  <2>1. CASE heads = {}
    <3>1. Sections(lines, "toplevel") = << >>
      <4>1. DOMAIN Heads(lines) = {}
        BY <1>6, <2>1
      <4>2. QED BY <4>1 DEF Sections
    <3>2. QED BY <1>5, <1>10, <3>1 DEF Structure
  <2>2. CASE heads # {}
    <3>1. Covers(Sections(lines, "toplevel"), lines, k)
      BY <1>8, <1>10, <2>2
    <3>2. QED BY <1>4, <1>10, <3>1 DEF Structure
  <2>3. QED BY <2>1, <2>2
<1>11. CASE doc.lang = "json"
  <2>1. Structure(doc) = Json(lines)
    BY <1>11 DEF Structure
  <2>2. CASE "broken" \in Range(lines)
    BY <1>5, <2>1, <2>2 DEF Json
  <2>3. CASE "broken" \notin Range(lines)
    BY <1>1, <1>4, <2>1, <2>3, JsonCover
  <2>4. QED BY <2>2, <2>3
<1>12. CASE doc.lang \notin {"python", "markdown", "javascript", "json"}
  BY <1>5, <1>12 DEF Structure
<1>13. QED BY <1>7, <1>9, <1>10, <1>11, <1>12

-----------------------------------------------------------------------------
(* The theorems.                                                           *)

\* The strengthening of the properties below that every step keeps.
THEOREM Invariant == Spec => []IInv
<1>1. Init => IInv
  BY InitInv
<1>2. IInv /\ [Next]_vars => IInv'
  BY StepInv
<1>3. QED BY <1>1, <1>2, PTL DEF Spec

\* No task works on what it has not read, at most `concurrency` tasks of a
\* request work at a time, what an embedding task still asks for are positions
\* of its own chunks without a vector, and the cache keeps to its size with an
\* entry per text (ingest_directory, embed_many, _cache_put).
THEOREM TypeCorrect == Spec => []TypeOK
<1>1. IInv => TypeOK
  <2> SUFFICES ASSUME IInv PROVE TypeOK
    OBVIOUS
  <2>1. ASSUME NEW i \in Ingests
        PROVE  /\ ingest[i].at \in {"none", "open", "ended"}
               /\ ingest[i].seen \in 0 .. Cardinality(Files)
               /\ {ingest[i].created, ingest[i].failed} \subseteq Nat
    BY DEF IInv, Types, Requests
  <2>2. \A i \in Ingests : Cardinality(Running(i)) <= Concurrency /\ wrote[i] \subseteq DOMAIN store
    BY DEF IInv, Types, TaskTypes, Counted
  <2>3. ASSUME NEW i \in Ingests, NEW f \in Files
        PROVE  LET t == task[i][f] IN
               /\ t.at \in {"absent", "queued", "embedding", "upserting", "done"}
               /\ t.at = "embedding" =>
                    /\ t.misses # << >> /\ Range(t.misses) \subseteq DOMAIN t.chunks
                    /\ \A k \in Range(t.misses) : t.out[k] = NoVector
               /\ t.at = "upserting" => t.misses = << >> /\ Filled(t) > 0
    <3> DEFINE t == task[i][f]
    <3>1. t \in Tasks /\ (t \in Works => Asks(t) /\ AtStage(t))
      BY DEF IInv, Types, TaskTypes
    <3> HIDE DEF t
    <3>2. t.at \in {"absent", "queued", "embedding", "upserting", "done"}
      BY <3>1, TasksApart
    <3>3. CASE t \in Works
      <4>1. t.misses \in Seq(DOMAIN t.chunks)
        BY <3>3, WorkFacts
      <4>2. \A j \in DOMAIN t.misses : t.misses[j] \in DOMAIN t.chunks
        BY <4>1, LenProperties, ElementOfSeq
      <4>3. /\ Range(t.misses) \subseteq DOMAIN t.chunks
            /\ \A k \in Range(t.misses) : t.out[k] = NoVector
        BY <3>1, <3>3, <4>2 DEF Range, Asks
      <4>4. QED BY <3>1, <3>2, <3>3, <4>3 DEF AtStage, t
    <3>4. CASE t \notin Works
      <4>1. t.at \notin {"embedding", "upserting"}
        BY <3>1, <3>4, TasksApart
      <4>2. QED BY <3>2, <4>1 DEF t
    <3>5. QED BY <3>3, <3>4
  <2>4. /\ Len(cache) <= CacheMax
        /\ \A j, k \in DOMAIN cache : cache[j].text = cache[k].text => j = k
    BY DEF IInv, Types, Caches
  <2>5. \A f \in Files : tree[f] \in Contents[f]
    BY DEF IInv, Types
  <2>6. QED BY <2>1, <2>2, <2>3, <2>4, <2>5 DEF TypeOK
<1>2. QED BY <1>1, Invariant, PTL

\* For every tree, batch and cache size, and however tasks interleave, every
\* point and every cache entry has the vector of its own text (embed_many).
THEOREM VectorsAlwaysBelong == Spec => []VectorsBelong
<1>1. IInv => VectorsBelong
  <2> SUFFICES ASSUME IInv PROVE VectorsBelong
    OBVIOUS
  <2>1. \A id \in DOMAIN store : store[id].vector = store[id].text
    BY DEF IInv, Stored
  <2>2. \A k \in DOMAIN cache : cache[k].vector = cache[k].text
    BY CacheFacts, EntryFacts DEF IInv, Types
  <2>3. QED BY <2>1, <2>2 DEF VectorsBelong
<1>2. QED BY <1>1, Invariant, PTL

\* The statistics a request answers with count every chunk of the files it read
\* once, and the created ones are as many different points: the chunks of a
\* document differ in kind, name or place, so no two of a run share an id.
THEOREM StatsAlwaysHonest == Spec => []StatsHonest
<1>1. IInv => StatsHonest
  BY DEF IInv, Counted, StatsHonest
<1>2. QED BY <1>1, Invariant, PTL

\* An upsert replaces a versioned point only by one of the same text, and no
\* point disappears: the id holds the content's version, and within a version
\* it tells the chunk (_stable_point_id).
THEOREM OverwritesAlwaysKeepText == Spec => OverwriteKeepsText
<1> DEFINE Keeps == \A id \in DOMAIN store : store[id].version # NoVersion =>
                       id \in DOMAIN store' /\ store'[id].text = store[id].text
<1>1. IInv /\ [Next]_vars => [Keeps]_store
  <2> SUFFICES ASSUME IInv, [Next]_vars PROVE Keeps \/ UNCHANGED store
    OBVIOUS
  <2>1. CASE \E i \in Ingests, f \in Files : Upsert(i, f) \/ UpsertFails(i, f)
    <3>1. PICK i \in Ingests, f \in Files : Upsert(i, f) \/ UpsertFails(i, f)
      BY <2>1
    <3> DEFINE t == task[i][f]
    <3>2. t \in Works /\ (store' = store \/ store' = Upserted(Points(i, f, t)))
      <4>1. CASE Upsert(i, f)
        <5>1. t \in Works
          BY <4>1, UpsertFacts
        <5>2. store' = Upserted(Points(i, f, t))
          BY <4>1 DEF Upsert
        <5>3. QED BY <5>1, <5>2
      <4>2. CASE UpsertFails(i, f)
        BY <4>2, UpsertFailsFacts
      <4>3. QED BY <3>1, <4>1, <4>2
    <3> HIDE DEF t
    <3>3. QED BY <3>2, OverwriteStep
  <2>2. CASE ~ \E i \in Ingests, f \in Files : Upsert(i, f) \/ UpsertFails(i, f)
    <3>1. \A f \in Files : Edit(f) => UNCHANGED store
      BY DEF Edit
    <3>2. \A i \in Ingests : /\ \A p \in Projects : OpenDirectory(i, p) => UNCHANGED store
                             /\ Answer(i) => UNCHANGED store
      BY DEF OpenDirectory, Answer
    <3>3. \A i \in Ingests, p \in Projects, f \in Files : OpenText(i, p, f) => UNCHANGED store
      BY DEF OpenText
    <3>4. \A i \in Ingests, f \in Files :
            StartTask(i, f) \/ ReadFails(i, f) \/ AnswerBatch(i, f) => UNCHANGED store
      <4>1. ASSUME NEW i \in Ingests, NEW f \in Files, StartTask(i, f) PROVE UNCHANGED store
        BY <4>1 DEF StartTask
      <4>2. ASSUME NEW i \in Ingests, NEW f \in Files, AnswerBatch(i, f) PROVE UNCHANGED store
        BY <4>2 DEF AnswerBatch
      <4>3. ASSUME NEW i \in Ingests, NEW f \in Files, ReadFails(i, f) PROVE UNCHANGED store
        BY <4>3 DEF ReadFails
      <4>4. QED BY <4>1, <4>2, <4>3
    <3>5. UNCHANGED vars => UNCHANGED store
      BY DEF vars
    <3>6. QED BY <2>2, <3>1, <3>2, <3>3, <3>4, <3>5 DEF Next
  <2>3. QED BY <2>1, <2>2
<1>2. QED BY <1>1, Invariant, PTL DEF Spec, OverwriteKeepsText

\* After a directory was ingested without a failed chunk, each line its
\* chunkers undertake to index is inside a stored point of its file, whatever
\* the sizes of windows, batches and cache, and whatever else was ingested or
\* edited meanwhile (_chunk_window, _chunk_python, _chunk_markdown,
\* _chunk_jsts, ingest_directory).
THEOREM LinesAlwaysFindable == Spec => []LinesFindable
<1>1. IInv => LinesFindable
  <2> SUFFICES ASSUME IInv PROVE LinesFindable
    OBVIOUS
  <2>1. ASSUME NEW i \in Ingests, ingest[i].kind = "directory", ingest[i].failed = 0,
               NEW f \in ReadBy(i), NEW k \in Undertaken(task[i][f].doc)
        PROVE  \E id \in DOMAIN store :
                 /\ id[1] = task[i][f].doc /\ id[2] = f
                 /\ HasLine(id, store[id].text, task[i][f].doc.lines, k)
    <3> DEFINE d == task[i][f].doc
    <3>1. d \in Documents
      <4>1. task[i][f] \in Tasks /\ task[i][f].at = "done"
        BY DEF IInv, Types, TaskTypes, ReadBy
      <4>2. QED BY <4>1, TasksApart
    <3>2. \A m \in DOMAIN Cut[d] : PointId(f, d, Cut[d][m]) \in DOMAIN store
      BY <2>1 DEF IInv, Complete
    <3> HIDE DEF d
    <3>3. d \in Docs /\ Cut[d] = Chunks(d)
      BY <3>1, CutFacts DEF Cut
    <3>4. PICK m \in DOMAIN Cut[d] : Holds(Cut[d][m], d.lines, k)
      BY <3>3, ChunksCover DEF Covers, d
    <3> DEFINE id == PointId(f, d, Cut[d][m])
    <3>5. /\ id[1] = d /\ id[2] = f /\ <<id[3], id[4], id[5], id[6]>> = Mark(Cut[d][m])
          /\ id[3] = Cut[d][m].kind /\ id[4] = Cut[d][m].name
          /\ id[5] = Cut[d][m].first /\ id[6] = Cut[d][m].last
      BY DEF PointId, Mark
    <3>6. id \in DOMAIN store
      BY <3>2
    <3> HIDE DEF id
    <3>7. store[id].text = Cut[d][m].text
      <4>1. id[1] # NoVersion
        BY <3>1, <3>5, IngestionAssumption DEF Documents
      <4>2. PICK n \in DOMAIN Cut[d] : /\ Mark(Cut[d][m]) = Mark(Cut[d][n])
                                      /\ store[id].text = Cut[d][n].text
        BY <3>5, <3>6, <4>1 DEF IInv, Stored
      <4>3. m = n
        BY <3>1, <4>2, CutFacts DEF MarksDiffer
      <4>4. QED BY <4>2, <4>3
    <3>8. HasLine(id, store[id].text, d.lines, k)
      BY <3>4, <3>5, <3>7 DEF Holds, HasLine
    <3>9. QED BY <3>5, <3>6, <3>8 DEF d
  <2>2. QED BY <2>1 DEF LinesFindable
<1>2. QED BY <1>1, Invariant, PTL
=============================================================================
