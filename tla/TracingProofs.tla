---------------------------- MODULE TracingProofs ----------------------------
(***************************************************************************)
(* Theorems about Tracing for any number of runs, names and spans, any     *)
(* queue and batch size and any number of failing inserts.                 *)
(*                                                                         *)
(* The inductive invariant has a part for each stage of an event's way:    *)
(* the spans that emit it, the messages of the event loop, the events      *)
(* between emission and the table, what the final flush finds, the stream  *)
(* and the metrics.  Their sums, a fold over a finite set, are unfolded by *)
(* least counterexample.                                                   *)
(***************************************************************************)
EXTENDS Tracing, SequenceTheorems, FiniteSetTheorems, WellFoundedInduction, TLAPS

Events   == [trace : Traces, span : Nat, name : Names \cup {Root}, phase : Phases]
Messages == [to : {"subscribers"}, event : Events] \cup [to : {"loop", "shutdown"}]
Spans    == [id : Nat, name : Names \cup {Root}]

PipeTypes ==
    /\ ready \in Seq(Messages)
    /\ queue \in Seq(Events) /\ batch \in Seq(Events) /\ stored \in Seq(Events)
    /\ persister \in {"waiting", "woken", "inserting", "returned", "exited",
                      "draining", "stopped", "timedout"}
    /\ stopping \in BOOLEAN
Types ==
    /\ emitted \in Seq(Events) /\ spans \in Nat
    /\ stack \in [Traces -> Seq(Spans)] /\ ended \subseteq Traces
    /\ PipeTypes /\ sealed \in 0 .. Len(emitted)
    /\ stream \in {"idle", "open", "closed"} /\ since \in 0 .. Len(emitted)
    /\ waiting \in Seq(Events) /\ shown \in Seq(Events)

-----------------------------------------------------------------------------
(* Sequences.                                                              *)

LEMMA SeqFacts ==
    ASSUME NEW S, NEW s \in Seq(S)
    PROVE  /\ Len(s) \in Nat /\ DOMAIN s = 1 .. Len(s) /\ \A i \in 1 .. Len(s) : s[i] \in S
           /\ s = << >> <=> Len(s) = 0
BY ElementOfSeq, LenProperties, EmptySeq

LEMMA AppendFacts ==
    ASSUME NEW S, NEW s \in Seq(S), NEW x \in S
    PROVE  /\ Append(s, x) \in Seq(S) /\ Len(Append(s, x)) = Len(s) + 1
           /\ DOMAIN Append(s, x) = 1 .. Len(s) + 1 /\ Append(s, x) # << >>
           /\ \A i \in 1 .. Len(s) : Append(s, x)[i] = s[i]
           /\ Append(s, x)[Len(s) + 1] = x
BY AppendProperties, LenProperties

LEMMA TailFacts ==
    ASSUME NEW S, NEW s \in Seq(S), s # << >>
    PROVE  /\ Len(s) \in Nat /\ Len(s) >= 1 /\ Head(s) = s[1] /\ s[1] \in S
           /\ Tail(s) \in Seq(S) /\ Len(Tail(s)) = Len(s) - 1
           /\ DOMAIN Tail(s) = 1 .. Len(s) - 1
           /\ \A i \in 1 .. Len(s) - 1 : Tail(s)[i] = s[i + 1]
<1>1. Len(s) \in Nat /\ Len(s) # 0
  BY EmptySeq, LenProperties
<1>2. Head(s) = s[1]
  OBVIOUS
<1>3. QED BY <1>1, <1>2, HeadTailProperties, ElementOfSeq, LenProperties

LEMMA ConcatFacts ==
    ASSUME NEW S, NEW s \in Seq(S), NEW t \in Seq(S)
    PROVE  /\ s \o t \in Seq(S) /\ Len(s \o t) = Len(s) + Len(t)
           /\ DOMAIN (s \o t) = 1 .. Len(s) + Len(t)
           /\ \A i \in 1 .. Len(s) : (s \o t)[i] = s[i]
           /\ \A i \in 1 .. Len(t) : (s \o t)[Len(s) + i] = t[i]
           /\ ToSet(s \o t) = ToSet(s) \cup ToSet(t)
<1>1. Len(s) \in Nat /\ Len(t) \in Nat
  BY LenProperties
<1>2. /\ s \o t \in Seq(S) /\ Len(s \o t) = Len(s) + Len(t)
      /\ DOMAIN (s \o t) = 1 .. Len(s) + Len(t)
      /\ \A i \in 1 .. Len(s) : (s \o t)[i] = s[i]
      /\ \A i \in 1 .. Len(t) : (s \o t)[Len(s) + i] = t[i]
  BY <1>1, ConcatProperties, LenProperties
<1>3. DOMAIN s = 1 .. Len(s) /\ DOMAIN t = 1 .. Len(t)
  BY LenProperties
<1>4. ASSUME NEW i \in DOMAIN (s \o t) PROVE (s \o t)[i] \in ToSet(s) \cup ToSet(t)
  <2>1. CASE i <= Len(s)
    BY <1>1, <1>2, <1>3, <2>1 DEF ToSet
  <2>2. CASE i > Len(s)
    <3>1. i - Len(s) \in 1 .. Len(t) /\ i = Len(s) + (i - Len(s))
      BY <1>1, <1>2, <2>2
    <3>2. (s \o t)[i] = t[i - Len(s)]
      BY <1>2, <3>1
    <3>3. QED BY <1>3, <3>1, <3>2 DEF ToSet
  <2>3. QED BY <1>1, <1>2, <2>1, <2>2
<1>5. ASSUME NEW i \in 1 .. Len(s) PROVE s[i] \in ToSet(s \o t)
  BY <1>1, <1>2 DEF ToSet
<1>6. ASSUME NEW i \in 1 .. Len(t) PROVE t[i] \in ToSet(s \o t)
  <2>1. Len(s) + i \in DOMAIN (s \o t)
    BY <1>1, <1>2
  <2>2. QED BY <1>2, <2>1 DEF ToSet
<1>7. ToSet(s \o t) = ToSet(s) \cup ToSet(t)
  BY <1>3, <1>4, <1>5, <1>6 DEF ToSet
<1>8. QED BY <1>2, <1>7

LEMMA ConcatAppend ==
    ASSUME NEW S, NEW s \in Seq(S), NEW t \in Seq(S), NEW x \in S
    PROVE  s \o Append(t, x) = Append(s \o t, x)
<1>1. s \o t \in Seq(S)
  BY ConcatProperties
<1>2. << x >> \in Seq(S)
  OBVIOUS
<1>3. Append(s \o t, x) = (s \o t) \o << x >> /\ Append(t, x) = t \o << x >>
  BY <1>1, AppendIsConcat
<1>4. (s \o t) \o << x >> = s \o (t \o << x >>)
  BY <1>2, ConcatAssociative
<1>5. QED BY <1>3, <1>4

-----------------------------------------------------------------------------
(* Spans and the events they emit.                                         *)

Distinct == \A m, n \in DOMAIN emitted : emitted[m] = emitted[n] => m = n

\* The end of a run: nothing of its trace follows.
RunEnd(e) == e.name = Root /\ e.phase # "start"

SpanInv ==
    /\ \A t \in Traces : stack[t] # << >> =>
         /\ t \notin ended /\ stack[t][1].name = Root
         /\ \A i \in 2 .. Len(stack[t]) : stack[t][i].name \in Names
    /\ \A t \in Traces : \A i \in DOMAIN stack[t] : stack[t][i].id \in 1 .. spans
    /\ \A t, u \in Traces : \A i \in DOMAIN stack[t], j \in DOMAIN stack[u] :
         stack[t][i].id = stack[u][j].id => t = u /\ i = j
    /\ \A n \in DOMAIN emitted : emitted[n].span \in 1 .. spans
    /\ \A n \in DOMAIN emitted : emitted[n].phase # "start" =>
         \A t \in Traces : \A i \in DOMAIN stack[t] : stack[t][i].id # emitted[n].span
    /\ Distinct
    /\ \A n \in DOMAIN emitted : RunEnd(emitted[n]) => emitted[n].trace \in ended
    /\ \A m, n \in DOMAIN emitted :
         m < n /\ RunEnd(emitted[m]) => emitted[n].trace # emitted[m].trace

LEMMA Initially == Init => Types /\ SpanInv
<1> SUFFICES ASSUME Init PROVE Types /\ SpanInv
  OBVIOUS
<1>1. Types
  <2>1. \A S : << >> \in Seq(S)
    BY EmptySeq
  <2>2. Len(emitted) = 0
    BY EmptySeq DEF Init
  <2>3. stack \in [Traces -> Seq(Spans)]
    BY <2>1 DEF Init
  <2>4. 0 \in 0 .. Len(emitted) /\ 0 \in Nat
    BY <2>2
  <2>5. /\ emitted \in Seq(Events) /\ ready \in Seq(Messages) /\ queue \in Seq(Events)
        /\ batch \in Seq(Events) /\ stored \in Seq(Events)
        /\ waiting \in Seq(Events) /\ shown \in Seq(Events)
    BY <2>1 DEF Init
  <2>6. QED BY <2>3, <2>4, <2>5 DEF Init, Types, PipeTypes
<1>2. SpanInv
  BY DEF Init, SpanInv, Distinct
<1>3. QED BY <1>1, <1>2

\* What one event does to the trace.
Emits(e) ==
    /\ e \in Events /\ e \notin ToSet(emitted)
    /\ \A n \in DOMAIN emitted : RunEnd(emitted[n]) => e.trace # emitted[n].trace
    /\ Emit(e)

LEMMA OpenStep ==
    ASSUME Types, SpanInv, NEW t \in Traces, OpenSpan(t)
    PROVE  /\ SpanInv' /\ spans' \in Nat /\ stack' \in [Traces -> Seq(Spans)]
           /\ ended \subseteq ended' /\ ended' \subseteq Traces
           /\ \E e \in Events : Emits(e)
<1>1. PICK name \in Names \cup {Root} :
          /\ stack[t] = << >> => name = Root
          /\ stack[t] # << >> => name \in Names
          /\ stack' = [stack EXCEPT ![t] = Append(@, [id |-> spans + 1, name |-> name])]
          /\ Emit(Event(t, spans + 1, name, "start"))
  BY DEF OpenSpan
<1>2. t \notin ended /\ spans' = spans + 1 /\ ended' = ended
  BY DEF OpenSpan
<1> DEFINE s == stack[t]
<1> DEFINE x == [id |-> spans + 1, name |-> name]
<1> DEFINE e == Event(t, spans + 1, name, "start")
<1>3. /\ s \in Seq(Spans) /\ x \in Spans /\ Len(s) \in Nat /\ DOMAIN s = 1 .. Len(s)
      /\ s = << >> <=> Len(s) = 0
  <2>1. s \in Seq(Spans) /\ spans + 1 \in Nat
    BY DEF Types
  <2>3. x \in Spans
    BY <2>1 DEF Spans
  <2> HIDE DEF s, x
  <2>2. QED BY <2>1, <2>3, SeqFacts
<1>4. /\ stack'[t] \in Seq(Spans) /\ Len(stack'[t]) = Len(s) + 1
      /\ DOMAIN stack'[t] = 1 .. Len(s) + 1 /\ stack'[t] # << >>
      /\ \A i \in 1 .. Len(s) : stack'[t][i] = s[i]
      /\ stack'[t][Len(s) + 1] = x
  <2>1. stack'[t] = Append(s, x)
    BY <1>1 DEF Types
  <2> HIDE DEF s, x
  <2>2. QED BY <1>3, <2>1, AppendFacts
<1>5. \A u \in Traces \ {t} : stack'[u] = stack[u]
  BY <1>1 DEF Types
<1>6. stack' \in [Traces -> Seq(Spans)]
  BY <1>1, <1>4, <1>5 DEF Types
<1>7. /\ e \in Events /\ e.span = spans + 1 /\ e.trace = t /\ e.name = name /\ e.phase = "start"
      /\ x.id = spans + 1 /\ x.name = name
  BY <1>1 DEF Event, Events, Phases, Types
<1>8. /\ emitted' = Append(emitted, e) /\ Len(emitted) \in Nat /\ DOMAIN emitted = 1 .. Len(emitted)
      /\ DOMAIN emitted' = 1 .. Len(emitted) + 1
      /\ \A n \in 1 .. Len(emitted) : emitted'[n] = emitted[n]
      /\ emitted'[Len(emitted) + 1] = e
  <2>1. emitted' = Append(emitted, e) /\ emitted \in Seq(Events)
    BY <1>1 DEF Emit, Types
  <2> HIDE DEF e
  <2>2. QED BY <1>7, <2>1, AppendFacts, SeqFacts
<1> HIDE DEF e, x, s
<1>9. \A u \in Traces : \A i \in DOMAIN stack'[u] :
          \/ i \in DOMAIN stack[u] /\ stack'[u][i] = stack[u][i]
          \/ u = t /\ i = Len(s) + 1 /\ stack'[u][i] = x
  <2>1. \A u \in Traces \ {t} : \A i \in DOMAIN stack'[u] :
            i \in DOMAIN stack[u] /\ stack'[u][i] = stack[u][i]
    BY <1>5
  <2>2. \A i \in DOMAIN stack'[t] :
            \/ i \in DOMAIN stack[t] /\ stack'[t][i] = stack[t][i]
            \/ i = Len(s) + 1 /\ stack'[t][i] = x
    <3>1. DOMAIN stack[t] = 1 .. Len(s) /\ \A i \in 1 .. Len(s) : stack'[t][i] = stack[t][i]
      BY <1>3, <1>4 DEF s
    <3>2. QED BY <1>3, <1>4, <3>1
  <2>3. QED BY <2>1, <2>2
<1>10. \A n \in DOMAIN emitted' :
          \/ n \in DOMAIN emitted /\ emitted'[n] = emitted[n] /\ n <= Len(emitted)
          \/ n = Len(emitted) + 1 /\ emitted'[n] = e
  BY <1>8
<1>11. e \notin ToSet(emitted)
  BY <1>7, <1>8 DEF ToSet, SpanInv, Types
<1>12. \A n \in DOMAIN emitted : RunEnd(emitted[n]) => e.trace # emitted[n].trace
  BY <1>2, <1>7 DEF SpanInv
<1>13. SpanInv'
  <2>1. \A u \in Traces : stack'[u] # << >> =>
         /\ u \notin ended' /\ stack'[u][1].name = Root
         /\ \A i \in 2 .. Len(stack'[u]) : stack'[u][i].name \in Names
    <3>1. ASSUME NEW u \in Traces \ {t}, stack'[u] # << >>
          PROVE  /\ u \notin ended' /\ stack'[u][1].name = Root
                 /\ \A i \in 2 .. Len(stack'[u]) : stack'[u][i].name \in Names
      BY <1>2, <1>5, <3>1 DEF SpanInv
    <3>2. t \notin ended'
      BY <1>2
    <3>3. stack'[t][1].name = Root
      <4>1. CASE Len(s) = 0
        BY <1>1, <1>3, <1>4, <1>7, <4>1 DEF s
      <4>2. CASE Len(s) > 0
        BY <1>3, <1>4, <4>2 DEF s, SpanInv
      <4>3. QED BY <1>3, <4>1, <4>2
    <3>4. ASSUME NEW i \in 2 .. Len(stack'[t]) PROVE stack'[t][i].name \in Names
      <4>1. CASE i = Len(s) + 1
        BY <1>1, <1>3, <1>4, <1>7, <4>1 DEF s
      <4>2. CASE i # Len(s) + 1
        <5>1. i \in 2 .. Len(s) /\ i \in DOMAIN s /\ stack'[t][i] = s[i]
          BY <1>3, <1>4, <3>4, <4>2
        <5>2. stack[t] # << >>
          BY <1>3, <5>1 DEF s
        <5>3. QED BY <5>1, <5>2 DEF s, SpanInv
      <4>3. QED BY <4>1, <4>2
    <3>5. QED BY <3>1, <3>2, <3>3, <3>4
  <2>2. \A u \in Traces : \A i \in DOMAIN stack'[u] : stack'[u][i].id \in 1 .. spans'
    <3>1. spans + 1 \in 1 .. spans' /\ \A k \in 1 .. spans : k \in 1 .. spans'
      BY <1>2 DEF Types
    <3>2. QED BY <1>7, <1>9, <3>1 DEF SpanInv
  <2>3. \A u, v \in Traces : \A i \in DOMAIN stack'[u], j \in DOMAIN stack'[v] :
         stack'[u][i].id = stack'[v][j].id => u = v /\ i = j
    <3>1. \A u \in Traces : \A i \in DOMAIN stack[u] : stack[u][i].id # spans + 1
      BY DEF SpanInv, Types
    <3>2. QED BY <1>7, <1>9, <3>1 DEF SpanInv
  <2>4. \A n \in DOMAIN emitted' : emitted'[n].span \in 1 .. spans'
    <3>1. spans + 1 \in 1 .. spans' /\ \A k \in 1 .. spans : k \in 1 .. spans'
      BY <1>2 DEF Types
    <3>2. QED BY <1>7, <1>10, <3>1 DEF SpanInv
  <2>5. \A n \in DOMAIN emitted' : emitted'[n].phase # "start" =>
         \A u \in Traces : \A i \in DOMAIN stack'[u] : stack'[u][i].id # emitted'[n].span
    <3>1. \A n \in DOMAIN emitted : emitted[n].span # spans + 1
      BY DEF SpanInv, Types
    <3>2. QED BY <1>7, <1>9, <1>10, <3>1 DEF SpanInv
  <2>6. Distinct'
    BY <1>10, <1>11 DEF SpanInv, Distinct, ToSet
  <2>7. \A n \in DOMAIN emitted' : RunEnd(emitted'[n]) => emitted'[n].trace \in ended'
    BY <1>2, <1>7, <1>10 DEF SpanInv, RunEnd
  <2>8. \A m, n \in DOMAIN emitted' :
         m < n /\ RunEnd(emitted'[m]) => emitted'[n].trace # emitted'[m].trace
    <3>1. ASSUME NEW m \in DOMAIN emitted', NEW n \in DOMAIN emitted', m < n, RunEnd(emitted'[m])
          PROVE  emitted'[n].trace # emitted'[m].trace
      <4>1. m \in DOMAIN emitted /\ emitted'[m] = emitted[m]
        BY <1>7, <1>10, <3>1 DEF RunEnd
      <4>2. QED BY <1>10, <1>12, <3>1, <4>1 DEF SpanInv
    <3>2. QED BY <3>1
  <2>9. QED BY <2>1, <2>2, <2>3, <2>4, <2>5, <2>6, <2>7, <2>8 DEF SpanInv, RunEnd
<1>14. Emits(e)
  BY <1>1, <1>7, <1>11, <1>12 DEF Emits, e
<1>15. QED BY <1>2, <1>6, <1>7, <1>13, <1>14 DEF Types

LEMMA CloseStep ==
    ASSUME Types, SpanInv, NEW t \in Traces, CloseSpan(t), Root \notin Names
    PROVE  /\ SpanInv' /\ spans' \in Nat /\ stack' \in [Traces -> Seq(Spans)]
           /\ ended \subseteq ended' /\ ended' \subseteq Traces
           /\ \E e \in Events : Emits(e)
<1> DEFINE s == stack[t]
<1>1. PICK phase \in {"end", "error"} : Emit(Event(t, Last(s).id, Last(s).name, phase))
  BY DEF CloseSpan
<1>2. /\ s # << >> /\ spans' = spans
      /\ stack' = [stack EXCEPT ![t] = Front(s)]
      /\ ended' = IF Len(s) = 1 THEN ended \cup {t} ELSE ended
  BY DEF CloseSpan
<1> DEFINE x == s[Len(s)]
<1> DEFINE e == Event(t, x.id, x.name, phase)
<1>3. /\ s \in Seq(Spans) /\ Len(s) \in Nat /\ Len(s) > 0 /\ DOMAIN s = 1 .. Len(s)
      /\ x \in Spans /\ Last(s) = x
  <2>1. s \in Seq(Spans) /\ s # << >>
    BY <1>2 DEF Types
  <2> HIDE DEF s
  <2>2. QED BY <2>1, EmptySeq, LenProperties, ElementOfSeq DEF Last
<1>4. /\ stack'[t] \in Seq(Spans) /\ Len(stack'[t]) = Len(s) - 1
      /\ DOMAIN stack'[t] = 1 .. Len(s) - 1
      /\ stack'[t] # << >> => Len(s) > 1
      /\ \A i \in 1 .. Len(s) - 1 : stack'[t][i] = s[i]
  <2>1. stack'[t] = SubSeq(s, 1, Len(s) - 1)
    BY <1>2 DEF Types, Front
  <2> HIDE DEF s
  <2>2. /\ 1 \in Int /\ Len(s) - 1 \in Int
        /\ \A i \in 1 .. Len(s) - 1 : s[i] \in Spans
    BY <1>3, ElementOfSeq
  <2>3. /\ stack'[t] \in Seq(Spans) /\ Len(stack'[t]) = Len(s) - 1
        /\ \A i \in 1 .. Len(s) - 1 : stack'[t][i] = s[i]
    BY <1>3, <2>1, <2>2, SubSeqProperties
  <2>4. DOMAIN stack'[t] = 1 .. Len(s) - 1
    BY <2>3, LenProperties
  <2>5. Len(s) = 1 => stack'[t] = << >>
    BY <2>3, EmptySeq
  <2>6. stack'[t] # << >> => Len(s) > 1
    <3>1. Len(s) # 1 => Len(s) > 1
      BY <1>3
    <3>2. QED BY <2>5, <3>1
  <2>7. QED BY <2>3, <2>4, <2>6
<1>5. \A u \in Traces \ {t} : stack'[u] = stack[u]
  BY <1>2 DEF Types
<1>6. stack' \in [Traces -> Seq(Spans)]
  BY <1>2, <1>4, <1>5 DEF Types
<1>7. /\ e \in Events /\ e.span = x.id /\ e.trace = t /\ e.name = x.name /\ e.phase = phase
      /\ phase # "start"
  BY <1>3 DEF Event, Events, Phases, Types, Spans
<1>8. /\ emitted' = Append(emitted, e) /\ Len(emitted) \in Nat /\ DOMAIN emitted = 1 .. Len(emitted)
      /\ DOMAIN emitted' = 1 .. Len(emitted) + 1
      /\ \A n \in 1 .. Len(emitted) : emitted'[n] = emitted[n]
      /\ emitted'[Len(emitted) + 1] = e
  <2>1. emitted' = Append(emitted, e) /\ emitted \in Seq(Events)
    BY <1>1, <1>3 DEF Emit, Types
  <2> HIDE DEF e
  <2>2. QED BY <1>7, <2>1, AppendFacts, SeqFacts
<1>9. /\ t \notin ended /\ x.id \in 1 .. spans /\ Len(s) \in DOMAIN stack[t] /\ stack[t][Len(s)] = x
      /\ x.name = Root => Len(s) = 1
  <2>1. t \notin ended /\ \A i \in 2 .. Len(s) : s[i].name \in Names
    BY <1>2 DEF SpanInv
  <2>2. x.id \in 1 .. spans
    BY <1>3 DEF SpanInv
  <2>3. ASSUME x.name = Root PROVE Len(s) = 1
    <3>1. x.name \notin Names
      BY <2>3
    <3>2. Len(s) \notin 2 .. Len(s)
      BY <2>1, <3>1
    <3>3. \A k \in Nat : k > 0 /\ k \notin 2 .. k => k = 1
      OBVIOUS
    <3> HIDE DEF s
    <3>4. QED BY <1>3, <3>2, <3>3
  <2>4. QED BY <1>3, <2>1, <2>2, <2>3
<1>10. \A u \in Traces : \A i \in DOMAIN stack'[u] :
           i \in DOMAIN stack[u] /\ stack'[u][i] = stack[u][i] /\ (u = t => i # Len(s))
  BY <1>3, <1>4, <1>5
<1> HIDE DEF e, x, s
<1>11. \A n \in DOMAIN emitted' :
          \/ n \in DOMAIN emitted /\ emitted'[n] = emitted[n] /\ n <= Len(emitted)
          \/ n = Len(emitted) + 1 /\ emitted'[n] = e
  BY <1>8
<1>12. e \notin ToSet(emitted)
  BY <1>7, <1>9 DEF ToSet, SpanInv
<1>13. \A n \in DOMAIN emitted : RunEnd(emitted[n]) => e.trace # emitted[n].trace
  BY <1>7, <1>9 DEF SpanInv
<1>14. SpanInv'
  <2>1. \A u \in Traces : stack'[u] # << >> =>
         /\ u \notin ended' /\ stack'[u][1].name = Root
         /\ \A i \in 2 .. Len(stack'[u]) : stack'[u][i].name \in Names
    <3>1. ASSUME NEW u \in Traces \ {t}, stack'[u] # << >>
          PROVE  /\ u \notin ended' /\ stack'[u][1].name = Root
                 /\ \A i \in 2 .. Len(stack'[u]) : stack'[u][i].name \in Names
      BY <1>2, <1>5, <3>1 DEF SpanInv
    <3>2. ASSUME stack'[t] # << >>
          PROVE  /\ t \notin ended' /\ stack'[t][1].name = Root
                 /\ \A i \in 2 .. Len(stack'[t]) : stack'[t][i].name \in Names
      <4>1. /\ s[1].name = Root /\ \A i \in 2 .. Len(s) : s[i].name \in Names
        BY <1>2 DEF SpanInv, s
      <4>5. Len(s) > 1
        BY <1>4, <3>2
      <4>2. Len(s) > 1 /\ t \notin ended'
        BY <1>2, <1>3, <1>9, <4>5
      <4>3. 1 \in 1 .. Len(s) - 1 /\ \A i \in 2 .. Len(s) - 1 : i \in 2 .. Len(s) /\ i \in 1 .. Len(s) - 1
        BY <1>3, <4>2
      <4>4. QED BY <1>4, <4>1, <4>2, <4>3
    <3>3. QED BY <3>1, <3>2
  <2>2. \A u \in Traces : \A i \in DOMAIN stack'[u] : stack'[u][i].id \in 1 .. spans'
    BY <1>2, <1>10 DEF SpanInv
  <2>3. \A u, v \in Traces : \A i \in DOMAIN stack'[u], j \in DOMAIN stack'[v] :
         stack'[u][i].id = stack'[v][j].id => u = v /\ i = j
    BY <1>10 DEF SpanInv
  <2>4. \A n \in DOMAIN emitted' : emitted'[n].span \in 1 .. spans'
    BY <1>2, <1>7, <1>9, <1>11 DEF SpanInv
  <2>5. \A n \in DOMAIN emitted' : emitted'[n].phase # "start" =>
         \A u \in Traces : \A i \in DOMAIN stack'[u] : stack'[u][i].id # emitted'[n].span
    <3>1. \A u \in Traces : \A i \in DOMAIN stack'[u] : stack'[u][i].id # x.id
      <4>1. ASSUME NEW u \in Traces, NEW i \in DOMAIN stack'[u] PROVE stack'[u][i].id # x.id
        <5>1. i \in DOMAIN stack[u] /\ stack'[u][i] = stack[u][i] /\ (u = t => i # Len(s))
          BY <1>10
        <5>2. Len(s) \in DOMAIN stack[t] /\ stack[t][Len(s)] = x
          BY <1>3 DEF s, x
        <5>3. stack[u][i].id = stack[t][Len(s)].id => u = t /\ i = Len(s)
          BY <5>1, <5>2 DEF SpanInv
        <5>4. QED BY <5>1, <5>2, <5>3
      <4>2. QED BY <4>1
    <3>2. ASSUME NEW n \in DOMAIN emitted, emitted'[n] = emitted[n], emitted'[n].phase # "start",
                 NEW u \in Traces, NEW i \in DOMAIN stack'[u]
          PROVE  stack'[u][i].id # emitted'[n].span
      BY <1>10, <3>2 DEF SpanInv
    <3>3. ASSUME NEW n, emitted'[n] = e, NEW u \in Traces, NEW i \in DOMAIN stack'[u]
          PROVE  stack'[u][i].id # emitted'[n].span
      BY <1>7, <3>1, <3>3
    <3>4. QED BY <1>11, <3>2, <3>3
  <2>6. Distinct'
    BY <1>11, <1>12 DEF SpanInv, Distinct, ToSet
  <2>7. \A n \in DOMAIN emitted' : RunEnd(emitted'[n]) => emitted'[n].trace \in ended'
    BY <1>2, <1>7, <1>9, <1>11 DEF SpanInv, RunEnd
  <2>8. \A m, n \in DOMAIN emitted' :
         m < n /\ RunEnd(emitted'[m]) => emitted'[n].trace # emitted'[m].trace
    <3>1. ASSUME NEW m \in DOMAIN emitted', NEW n \in DOMAIN emitted', m < n, RunEnd(emitted'[m])
          PROVE  emitted'[n].trace # emitted'[m].trace
      <4>1. m \in DOMAIN emitted /\ emitted'[m] = emitted[m]
        BY <1>8, <3>1
      <4>2. QED BY <1>11, <1>13, <3>1, <4>1 DEF SpanInv
    <3>2. QED BY <3>1
  <2>9. QED BY <2>1, <2>2, <2>3, <2>4, <2>5, <2>6, <2>7, <2>8 DEF SpanInv, RunEnd
<1>15. Emits(e)
  BY <1>1, <1>3, <1>7, <1>12, <1>13 DEF Emits, e
<1>16. QED BY <1>2, <1>6, <1>7, <1>14, <1>15 DEF Types

-----------------------------------------------------------------------------
(* The order of emission.                                                  *)

LEMMA PlaceFacts ==
    ASSUME Types, SpanInv, NEW n \in 1 .. Len(emitted)
    PROVE  Place(emitted[n]) = n /\ emitted[n] \in ToSet(emitted)
<1>1. DOMAIN emitted = 1 .. Len(emitted)
  BY SeqFacts DEF Types
<1>2. \A m \in DOMAIN emitted : emitted[m] = emitted[n] => m = n
  BY <1>1 DEF SpanInv, Distinct
<1>3. QED BY <1>1, <1>2 DEF Place, ToSet

\* The order itself, which grows with the events.
Before(es, x, y) == \E m, n \in DOMAIN es : m < n /\ es[m] = x /\ es[n] = y
Ordered(es, s) == \A i, j \in DOMAIN s : i < j => Before(es, s[i], s[j])

LEMMA BeforeIsByPlace ==
    ASSUME Types, SpanInv, NEW x, NEW y, Before(emitted, x, y)
    PROVE  /\ x \in ToSet(emitted) /\ y \in ToSet(emitted)
           /\ Place(x) \in Nat /\ Place(y) \in Nat /\ Place(x) < Place(y)
<1>1. PICK m \in DOMAIN emitted, n \in DOMAIN emitted : m < n /\ emitted[m] = x /\ emitted[n] = y
  BY DEF Before
<1>2. m \in 1 .. Len(emitted) /\ n \in 1 .. Len(emitted) /\ Len(emitted) \in Nat
  BY SeqFacts DEF Types
<1>3. Place(x) = m /\ x \in ToSet(emitted)
  BY <1>1, <1>2, PlaceFacts
<1>4. Place(y) = n /\ y \in ToSet(emitted)
  BY <1>1, <1>2, PlaceFacts
<1>5. QED BY <1>1, <1>2, <1>3, <1>4

\* An event is not before itself, and comes before only one way.
LEMMA BeforeIsStrict ==
    ASSUME Types, SpanInv, NEW x, NEW y, Before(emitted, x, y)
    PROVE  x # y /\ ~Before(emitted, y, x)
BY BeforeIsByPlace

\* An emission is the last one, and leaves the order of the others.
LEMMA EmitFacts ==
    ASSUME Types, NEW e \in Events, Emits(e)
    PROVE  /\ emitted' \in Seq(Events) /\ Len(emitted') = Len(emitted) + 1
           /\ \A n \in 1 .. Len(emitted) : emitted'[n] = emitted[n]
           /\ emitted'[Len(emitted) + 1] = e
           /\ ToSet(emitted') = ToSet(emitted) \cup {e}
           /\ \A x \in ToSet(emitted) : Before(emitted', x, e)
           /\ \A x, y : Before(emitted, x, y) => Before(emitted', x, y)
<1>1. emitted' = Append(emitted, e) /\ emitted \in Seq(Events) /\ Len(emitted) \in Nat
  BY SeqFacts DEF Emits, Emit, Types
<1>2. /\ emitted' \in Seq(Events) /\ Len(emitted') = Len(emitted) + 1
      /\ DOMAIN emitted = 1 .. Len(emitted) /\ DOMAIN emitted' = 1 .. Len(emitted) + 1
      /\ \A n \in 1 .. Len(emitted) : emitted'[n] = emitted[n]
      /\ emitted'[Len(emitted) + 1] = e
  BY <1>1, AppendFacts, SeqFacts
<1>3. ToSet(emitted') = ToSet(emitted) \cup {e}
  BY <1>1, <1>2 DEF ToSet
<1>4. \A n \in DOMAIN emitted : n \in DOMAIN emitted' /\ emitted'[n] = emitted[n]
                                /\ n < Len(emitted) + 1 /\ Len(emitted) + 1 \in DOMAIN emitted'
  BY <1>1, <1>2
<1>5. ASSUME NEW x \in ToSet(emitted) PROVE Before(emitted', x, e)
  BY <1>2, <1>4 DEF Before, ToSet
<1>6. ASSUME NEW x, NEW y, Before(emitted, x, y) PROVE Before(emitted', x, y)
  BY <1>4, <1>6 DEF Before
<1>7. QED BY <1>2, <1>3, <1>5, <1>6

-----------------------------------------------------------------------------
(* The messages of the event loop.                                         *)

\* One wake-up at a time, for a loop that runs, and one for the shutdown,
\* once the loop has ended.
LoopMsg(to) == \E i \in DOMAIN ready : ready[i].to = to
MessageInv ==
    /\ \A i, j \in DOMAIN ready :
         ready[i].to = ready[j].to /\ ready[i].to # "subscribers" => i = j
    /\ LoopMsg("loop") <=> persister \in {"woken", "returned"}
    /\ LoopMsg("shutdown") <=> persister = "exited"
    /\ persister \in {"exited", "draining", "stopped", "timedout"} => stopping
    /\ persister \in {"inserting", "draining"} <=> batch # << >>
    /\ Len(queue) <= MaxQueue

\* Shutdown finds every event of its time delivered, as the deliveries came
\* before the message that started it, and takes all that is queued.
Sealed(x) == \E n \in 1 .. sealed : emitted[n] = x
DrainInv ==
    /\ persister = "exited" =>
         \A i \in Deliveries, j \in DOMAIN ready :
            ready[j].to = "shutdown" /\ Sealed(ready[i].event) => i < j
    /\ persister \in {"draining", "stopped"} =>
         \A x \in Coming \cup ToSet(queue) : ~Sealed(x)

\* What a step leaves of the ready queue: from place d + 1 on.
Left(d) ==
    /\ d \in {0, 1} /\ d <= Len(ready) /\ ready' \in Seq(Messages)
    /\ Len(ready') >= Len(ready) - d
    /\ \A i \in 1 .. Len(ready) - d : ready'[i] = ready[i + d]
Same(d) == Left(d) /\ Len(ready') = Len(ready) - d
More(d, m) == Left(d) /\ Len(ready') = Len(ready) - d + 1 /\ ready'[Len(ready')] = m

LEMMA ReadySame == ASSUME Types, UNCHANGED ready PROVE Same(0)
BY SeqFacts DEF Types, PipeTypes, Same, Left

LEMMA ReadyMore ==
    ASSUME Types, NEW m \in Messages, ready' = Append(ready, m) PROVE More(0, m)
BY SeqFacts, AppendFacts DEF Types, PipeTypes, More, Left

LEMMA ReadyTail ==
    ASSUME Types, ready # << >>, ready' = Tail(ready) PROVE Same(1)
BY SeqFacts, TailFacts DEF Types, PipeTypes, Same, Left

LEMMA ReadyNext ==
    ASSUME Types, ready # << >>, NEW m \in Messages, ready' = Append(Tail(ready), m)
    PROVE  More(1, m)
BY SeqFacts, TailFacts, AppendFacts DEF Types, PipeTypes, More, Left

LEMMA LeftFacts ==
    ASSUME Types, NEW d \in {0, 1}, Left(d)
    PROVE  /\ DOMAIN ready = 1 .. Len(ready) /\ DOMAIN ready' = 1 .. Len(ready')
           /\ Len(ready) \in Nat /\ Len(ready') \in Nat /\ d \in Nat /\ d <= Len(ready)
           /\ \A i \in 1 .. Len(ready) - d :
                i + d \in DOMAIN ready /\ ready'[i] = ready[i + d] /\ i + d # d
           /\ \A i \in DOMAIN ready :
                i > d => i - d \in DOMAIN ready' /\ ready'[i - d] = ready[i]
<1>1. /\ DOMAIN ready = 1 .. Len(ready) /\ DOMAIN ready' = 1 .. Len(ready')
      /\ Len(ready) \in Nat /\ Len(ready') \in Nat
  BY SeqFacts DEF Types, PipeTypes, Left
<1>2. d \in Nat /\ d <= Len(ready) /\ Len(ready') >= Len(ready) - d
  BY DEF Left
<1>3. ASSUME NEW i \in 1 .. Len(ready) - d
      PROVE  i + d \in DOMAIN ready /\ ready'[i] = ready[i + d] /\ i + d # d
  <2>1. i \in Nat /\ i >= 1 /\ i + d \in 1 .. Len(ready) /\ i + d # d
    BY <1>1, <1>2
  <2>2. QED BY <1>1, <2>1 DEF Left
<1>4. ASSUME NEW i \in DOMAIN ready, i > d
      PROVE  i - d \in DOMAIN ready' /\ ready'[i - d] = ready[i]
  <2>1. i \in Nat /\ i <= Len(ready)
    BY <1>1
  <2>2. i - d \in 1 .. Len(ready) - d /\ (i - d) + d = i /\ i - d \in 1 .. Len(ready')
    BY <1>1, <1>2, <1>4, <2>1
  <2>3. ready'[i - d] = ready[(i - d) + d]
    BY <1>3, <2>2
  <2>4. QED BY <1>1, <2>2, <2>3
<1>5. QED BY <1>1, <1>2, <1>3, <1>4

\* What a step does to the messages that are not deliveries.
Once == \A i, j \in DOMAIN ready :
            ready[i].to = ready[j].to /\ ready[i].to # "subscribers" => i = j

LEMMA SameMessages ==
    ASSUME Types, Once, NEW d \in {0, 1}, Same(d)
    PROVE  /\ Once'
           /\ \A to \in {"loop", "shutdown"} :
                LoopMsg(to)' <=> LoopMsg(to) /\ (d = 1 => ready[1].to # to)
<1>1. /\ DOMAIN ready = 1 .. Len(ready) /\ DOMAIN ready' = 1 .. Len(ready')
      /\ Len(ready) \in Nat /\ Len(ready') \in Nat
  BY LeftFacts DEF Same
<1>2. \A i \in DOMAIN ready' : i + d \in DOMAIN ready /\ ready'[i] = ready[i + d] /\ i + d # d
  BY <1>1, LeftFacts DEF Same
<1>3. \A i \in DOMAIN ready : i > d => i - d \in DOMAIN ready' /\ ready'[i - d] = ready[i]
  BY LeftFacts DEF Same
<1>4. Once'
  <2>1. ASSUME NEW i \in DOMAIN ready', NEW j \in DOMAIN ready',
               ready'[i].to = ready'[j].to, ready'[i].to # "subscribers"
        PROVE  i = j
    <3>1. i + d = j + d
      BY <1>2, <2>1 DEF Once
    <3>2. QED BY <1>1, <3>1
  <2>2. QED BY <2>1 DEF Once
<1>5. ASSUME NEW to \in {"loop", "shutdown"}
      PROVE  LoopMsg(to)' <=> LoopMsg(to) /\ (d = 1 => ready[1].to # to)
  <2>1. ASSUME LoopMsg(to)' PROVE LoopMsg(to) /\ (d = 1 => ready[1].to # to)
    <3>1. PICK i \in DOMAIN ready' : ready'[i].to = to
      BY <2>1 DEF LoopMsg
    <3>2. i + d \in DOMAIN ready /\ ready[i + d].to = to
      BY <1>2, <3>1
    <3>3. ASSUME d = 1, ready[1].to = to PROVE FALSE
      <4>1. 1 \in DOMAIN ready
        BY <1>1, <3>2
      <4>2. 1 = i + d
        BY <3>2, <3>3, <4>1 DEF Once
      <4>3. QED BY <1>1, <3>1, <3>3, <4>2
    <3>4. QED BY <3>2, <3>3 DEF LoopMsg
  <2>2. ASSUME LoopMsg(to), d = 1 => ready[1].to # to PROVE LoopMsg(to)'
    <3>1. PICK i \in DOMAIN ready : ready[i].to = to
      BY <2>2 DEF LoopMsg
    <3>2. i > d
      BY <1>1, <2>2, <3>1
    <3>3. QED BY <1>3, <3>1, <3>2 DEF LoopMsg
  <2>3. QED BY <2>1, <2>2
<1>6. QED BY <1>4, <1>5

LEMMA MoreMessages ==
    ASSUME Types, Once, NEW d \in {0, 1}, NEW m \in Messages, More(d, m),
           m.to = "subscribers" \/ ~LoopMsg(m.to)
    PROVE  /\ Once'
           /\ \A to \in {"loop", "shutdown"} :
                LoopMsg(to)' <=> m.to = to \/ (LoopMsg(to) /\ (d = 1 => ready[1].to # to))
<1>1. /\ DOMAIN ready = 1 .. Len(ready) /\ DOMAIN ready' = 1 .. Len(ready')
      /\ Len(ready) \in Nat /\ Len(ready') \in Nat /\ Len(ready') = Len(ready) - d + 1
      /\ d <= Len(ready)
  BY LeftFacts DEF More
<1>2. \A i \in DOMAIN ready' :
          \/ i + d \in DOMAIN ready /\ ready'[i] = ready[i + d] /\ i + d # d /\ i < Len(ready')
          \/ i = Len(ready') /\ ready'[i] = m
  <2>1. ASSUME NEW i \in DOMAIN ready', i # Len(ready')
        PROVE  i \in 1 .. Len(ready) - d /\ i < Len(ready')
    BY <1>1, <2>1
  <2>2. ready'[Len(ready')] = m
    BY DEF More
  <2>3. QED BY <2>1, <2>2, LeftFacts DEF More
<1>3. \A i \in DOMAIN ready : i > d => i - d \in DOMAIN ready' /\ ready'[i - d] = ready[i]
  BY LeftFacts DEF More
<1>4. Len(ready') \in DOMAIN ready' /\ ready'[Len(ready')] = m
  BY <1>1 DEF More
<1>5. Once'
  <2>1. ASSUME NEW i \in DOMAIN ready', NEW j \in DOMAIN ready',
               ready'[i].to = ready'[j].to, ready'[i].to # "subscribers"
        PROVE  i = j
    <3>1. CASE ready'[i] = ready[i + d] /\ i + d \in DOMAIN ready
               /\ ready'[j] = ready[j + d] /\ j + d \in DOMAIN ready
      <4>1. i + d = j + d
        BY <2>1, <3>1 DEF Once
      <4>2. QED BY <1>1, <4>1
    <3>2. ASSUME NEW k \in DOMAIN ready, ready[k].to = m.to, m.to # "subscribers" PROVE FALSE
      BY <3>2 DEF LoopMsg
    <3>3. QED BY <1>2, <2>1, <3>1, <3>2
  <2>2. QED BY <2>1 DEF Once
<1>6. ASSUME NEW to \in {"loop", "shutdown"}
      PROVE  LoopMsg(to)' <=> m.to = to \/ (LoopMsg(to) /\ (d = 1 => ready[1].to # to))
  <2>1. ASSUME LoopMsg(to)', m.to # to PROVE LoopMsg(to) /\ (d = 1 => ready[1].to # to)
    <3>1. PICK i \in DOMAIN ready' : ready'[i].to = to
      BY <2>1 DEF LoopMsg
    <3>2. i + d \in DOMAIN ready /\ ready[i + d].to = to /\ i + d # d
      BY <1>2, <2>1, <3>1
    <3>3. ASSUME d = 1, ready[1].to = to PROVE FALSE
      <4>1. 1 \in DOMAIN ready
        BY <1>1, <3>2
      <4>2. 1 = i + d
        BY <3>2, <3>3, <4>1 DEF Once
      <4>3. QED BY <3>2, <3>3, <4>2
    <3>4. QED BY <3>2, <3>3 DEF LoopMsg
  <2>2. ASSUME LoopMsg(to), d = 1 => ready[1].to # to PROVE LoopMsg(to)'
    <3>1. PICK i \in DOMAIN ready : ready[i].to = to
      BY <2>2 DEF LoopMsg
    <3>2. i > d
      BY <1>1, <2>2, <3>1
    <3>3. QED BY <1>3, <3>1, <3>2 DEF LoopMsg
  <2>3. ASSUME m.to = to PROVE LoopMsg(to)'
    BY <1>4, <2>3 DEF LoopMsg
  <2>4. QED BY <2>1, <2>2, <2>3
<1>7. QED BY <1>5, <1>6

\* The deliveries are those that were there, moved d places to the front.
Moved(d) ==
    /\ d \in {0, 1} /\ Deliveries' \subseteq Nat
    /\ \A i \in Deliveries' : i + d \in Deliveries /\ ready'[i] = ready[i + d]
    /\ \A i \in Deliveries : i - d \in Deliveries' /\ ready'[i - d] = ready[i]
    /\ Coming' = Coming

LEMMA MovedBy ==
    ASSUME Types, NEW d \in {0, 1}, d = 1 => ready[1].to # "subscribers",
           Same(d) \/ \E m \in Messages : m.to # "subscribers" /\ More(d, m)
    PROVE  Moved(d)
<1>1. /\ DOMAIN ready = 1 .. Len(ready) /\ DOMAIN ready' = 1 .. Len(ready')
      /\ Len(ready) \in Nat /\ Len(ready') \in Nat /\ d <= Len(ready)
  BY LeftFacts DEF Same, More
<1>2. \A i \in Deliveries' : i + d \in Deliveries /\ ready'[i] = ready[i + d]
  <2>1. ASSUME NEW i \in DOMAIN ready', ready'[i].to = "subscribers"
        PROVE  i + d \in DOMAIN ready /\ ready'[i] = ready[i + d]
    <3>1. CASE Same(d)
      <4>1. i \in 1 .. Len(ready) - d
        BY <1>1, <3>1 DEF Same
      <4>2. QED BY <3>1, <4>1, LeftFacts DEF Same
    <3>2. ASSUME NEW m \in Messages, m.to # "subscribers", More(d, m)
          PROVE  i + d \in DOMAIN ready /\ ready'[i] = ready[i + d]
      <4>1. i # Len(ready')
        BY <2>1, <3>2 DEF More
      <4>2. i \in 1 .. Len(ready) - d
        BY <1>1, <3>2, <4>1 DEF More
      <4>3. QED BY <3>2, <4>2, LeftFacts DEF More
    <3>3. QED BY <3>1, <3>2
  <2>2. QED BY <2>1 DEF Deliveries
<1>3. \A i \in Deliveries : i - d \in Deliveries' /\ ready'[i - d] = ready[i]
  <2>1. ASSUME NEW i \in DOMAIN ready, ready[i].to = "subscribers"
        PROVE  i - d \in DOMAIN ready' /\ ready'[i - d] = ready[i]
    <3>1. i > d
      BY <1>1, <2>1
    <3>2. QED BY <3>1, LeftFacts DEF Same, More
  <2>2. QED BY <2>1 DEF Deliveries
<1>4. Coming' = Coming
  BY <1>2, <1>3 DEF Coming
<1>5. Deliveries' \subseteq Nat
  BY <1>1 DEF Deliveries
<1>6. QED BY <1>2, <1>3, <1>4, <1>5 DEF Moved

-----------------------------------------------------------------------------
(* The steps of the persister.                                             *)

LEMMA KeptFacts ==
    ASSUME Types
    PROVE  /\ Kept \in Seq(Events)
           /\ ToSet(Kept) = ToSet(stored) \cup ToSet(batch) \cup ToSet(queue)
           /\ batch = << >> => Kept = stored \o queue
<1>1. stored \in Seq(Events) /\ batch \in Seq(Events) /\ queue \in Seq(Events)
  BY DEF Types, PipeTypes
<1>2. stored \o batch \in Seq(Events) /\ ToSet(stored \o batch) = ToSet(stored) \cup ToSet(batch)
  BY <1>1, ConcatFacts
<1>3. Kept \in Seq(Events) /\ ToSet(Kept) = ToSet(stored \o batch) \cup ToSet(queue)
  <2> DEFINE k == stored \o batch
  <2>1. k \in Seq(Events) /\ queue \in Seq(Events) /\ Kept = k \o queue
    BY <1>1, <1>2 DEF Kept
  <2> HIDE DEF k
  <2>2. k \o queue \in Seq(Events) /\ ToSet(k \o queue) = ToSet(k) \cup ToSet(queue)
    BY <2>1, ConcatFacts
  <2>3. QED BY <2>1, <2>2 DEF k
<1>4. stored \o << >> = stored
  BY <1>1, ConcatEmptySeq
<1>5. QED BY <1>2, <1>3, <1>4 DEF Kept

LEMMA TakeFacts ==
    ASSUME Types, batch = << >>, NEW n \in 1 .. Len(queue), TakeBatch(n), UNCHANGED stored
    PROVE  /\ batch' \in Seq(Events) /\ queue' \in Seq(Events) /\ batch' # << >>
           /\ Len(queue') = Len(queue) - n /\ Kept' = Kept
<1>1. /\ queue \in Seq(Events) /\ stored \in Seq(Events) /\ Len(queue) \in Nat
      /\ \A i \in 1 .. Len(queue) : queue[i] \in Events
  BY SeqFacts DEF Types, PipeTypes
<1>2. batch' = SubSeq(queue, 1, n) /\ queue' = SubSeq(queue, n + 1, Len(queue))
  BY DEF TakeBatch
<1>3. n \in Int /\ n >= 1 /\ n <= Len(queue) /\ Len(queue) \in Int
  BY <1>1
<1>4. batch' \in Seq(Events) /\ Len(batch') = n
  <2>1. \A i \in 1 .. n : queue[i] \in Events
    BY <1>1, <1>3
  <2>2. QED BY <1>2, <1>3, <2>1, SubSeqProperties
<1>5. queue' \in Seq(Events) /\ Len(queue') = Len(queue) - n
  <2>1. \A i \in n + 1 .. Len(queue) : queue[i] \in Events
    BY <1>1, <1>3
  <2>2. n + 1 \in Int
    BY <1>3
  <2>3. /\ queue' \in Seq(Events)
        /\ Len(queue') = IF n + 1 <= Len(queue) THEN Len(queue) - (n + 1) + 1 ELSE 0
    BY <1>2, <1>3, <2>1, <2>2, SubSeqProperties
  <2>4. QED BY <1>3, <2>3
<1>6. batch' \o queue' = queue
  <2>1. 1 \in 1 .. Len(queue) + 1 /\ n \in 1 - 1 .. Len(queue) /\ Len(queue) \in n .. Len(queue)
    BY <1>3
  <2>2. SubSeq(queue, 1, n) \o SubSeq(queue, n + 1, Len(queue)) = SubSeq(queue, 1, Len(queue))
    BY <1>1, <2>1, ConcatAdjacentSubSeq
  <2>3. SubSeq(queue, 1, Len(queue)) = queue
    BY <1>1, SubSeqFull
  <2>4. batch' \o queue' = SubSeq(queue, 1, n) \o SubSeq(queue, n + 1, Len(queue))
    BY <1>2
  <2>5. QED BY <2>2, <2>3, <2>4
<1>7. (stored \o batch') \o queue' = stored \o queue
  <2>1. stored \in Seq(Events) /\ batch' \in Seq(Events) /\ queue' \in Seq(Events)
    BY <1>1, <1>4, <1>5
  <2>2. (stored \o batch') \o queue' = stored \o (batch' \o queue')
    <3>1. \A s, t, u \in Seq(Events) : (s \o t) \o u = s \o (t \o u)
      BY ConcatAssociative
    <3>2. QED BY <2>1, <3>1, Zenon
  <2>3. QED BY <1>6, <2>2
<1>8. Kept' = Kept
  BY <1>7, KeptFacts DEF Kept
<1>9. batch' # << >>
  BY <1>3, <1>4, EmptySeq
<1>10. QED BY <1>4, <1>5, <1>8, <1>9

\* How an insert ends: its batch is in the table, or lost.
LEMMA InsertFacts ==
    ASSUME Types, NEW next, Inserted(next), UNCHANGED queue
    PROVE  /\ stored' \in Seq(Events) /\ batch' = << >> /\ batch' \in Seq(Events)
           /\ \/ Kept' = Kept /\ lost' = lost
              \/ Kept' = stored \o queue /\ lost' = lost \cup ToSet(batch) /\ stored' = stored
           /\ ToSet(stored) \subseteq ToSet(stored')
<1>1. stored \in Seq(Events) /\ batch \in Seq(Events) /\ queue \in Seq(Events)
  BY DEF Types, PipeTypes
<1>2. batch' = << >> /\ batch' \in Seq(Events)
  BY EmptySeq DEF Inserted
<1>3. CASE stored' = stored \o batch /\ lost' = lost
  <2>1. stored' \in Seq(Events) /\ ToSet(stored) \subseteq ToSet(stored')
    BY <1>1, <1>3, ConcatFacts
  <2>2. stored' \o batch' = stored'
    BY <1>2, <2>1, ConcatEmptySeq
  <2>3. Kept' = Kept
    BY <1>3, <2>2 DEF Kept
  <2>4. QED BY <1>2, <1>3, <2>1, <2>3
<1>4. CASE lost' = lost \cup ToSet(batch) /\ stored' = stored
  <2>1. stored' \o batch' = stored
    BY <1>1, <1>2, <1>4, ConcatEmptySeq
  <2>2. QED BY <1>1, <1>2, <1>4, <2>1 DEF Kept
<1>5. QED BY <1>3, <1>4 DEF Inserted

LEMMA HeadFacts ==
    ASSUME Types, NEW to, Taken(to)
    PROVE  /\ ready # << >> /\ Head(ready) = ready[1] /\ ready[1].to = to
           /\ 1 \in DOMAIN ready /\ ready[1] \in Messages
<1>1. ready \in Seq(Messages) /\ ready # << >> /\ Head(ready).to = to
  BY DEF Types, PipeTypes, Taken
<1>2. QED BY <1>1, TailFacts, SeqFacts

\* What a step does to the events: nothing, although it may move them on, or
\* it delivers one, or an insert loses its batch.
Passes ==
    /\ Kept' = Kept /\ UNCHANGED <<emitted, lost, dropped>>
    /\ \E d \in {0, 1} : Moved(d)
Loses ==
    /\ Kept' = stored \o queue /\ lost' = lost \cup ToSet(batch)
    /\ UNCHANGED <<emitted, dropped>> /\ Moved(0)
Arrives ==
    /\ Same(1) /\ 1 \in Deliveries /\ UNCHANGED <<emitted, lost>>
    /\ \/ Kept' = Append(Kept, ready[1].event) /\ UNCHANGED dropped
       \/ UNCHANGED Kept /\ dropped' = dropped \cup {ready[1].event}

LEMMA IntervalStep ==
    ASSUME Types, MessageInv, Interval
    PROVE  PipeTypes' /\ MessageInv' /\ DrainInv' /\ Passes
<1> DEFINE m == [to |-> "loop"]
<1>1. /\ persister = "waiting" /\ persister' = "woken" /\ ready' = Append(ready, m)
      /\ UNCHANGED <<emitted, queue, batch, stored, lost, dropped, stopping>>
  BY DEF Interval, Wake, runVars, stopVars
<1>2. m \in Messages /\ m.to = "loop"
  BY DEF Messages
<1> HIDE DEF m
<1>3. More(0, m) /\ Moved(0)
  BY <1>1, <1>2, ReadyMore, MovedBy
<1>4. /\ Once' /\ \A to \in {"loop", "shutdown"} : LoopMsg(to)' <=> to = "loop" \/ LoopMsg(to)
  BY <1>1, <1>2, <1>3, MoreMessages DEF MessageInv, Once
<1>5. PipeTypes'
  BY <1>1, <1>3 DEF Types, PipeTypes, More, Left
<1>6. MessageInv'
  BY <1>1, <1>4 DEF MessageInv, Once
<1>7. DrainInv'
  BY <1>1 DEF DrainInv
<1>8. Passes
  BY <1>1, <1>3 DEF Passes, Kept
<1>9. QED BY <1>5, <1>6, <1>7, <1>8

LEMMA InsertStep ==
    ASSUME Types, MessageInv, InsertEnds
    PROVE  PipeTypes' /\ MessageInv' /\ DrainInv' /\ (Passes \/ Loses)
<1> DEFINE m == [to |-> "loop"]
<1>1. /\ persister = "inserting" /\ persister' = "returned" /\ ready' = Append(ready, m)
      /\ Inserted("returned") /\ UNCHANGED <<emitted, queue, dropped, stopping>>
  BY DEF InsertEnds, Inserted, runVars, stopVars
<1>2. m \in Messages /\ m.to = "loop"
  BY DEF Messages
<1> HIDE DEF m
<1>3. More(0, m) /\ Moved(0)
  BY <1>1, <1>2, ReadyMore, MovedBy
<1>4. /\ Once' /\ \A to \in {"loop", "shutdown"} : LoopMsg(to)' <=> to = "loop" \/ LoopMsg(to)
  BY <1>1, <1>2, <1>3, MoreMessages DEF MessageInv, Once
<1>5. /\ stored' \in Seq(Events) /\ batch' = << >> /\ batch' \in Seq(Events)
      /\ \/ Kept' = Kept /\ lost' = lost
         \/ Kept' = stored \o queue /\ lost' = lost \cup ToSet(batch)
  BY <1>1, InsertFacts
<1>6. PipeTypes'
  BY <1>1, <1>3, <1>5 DEF Types, PipeTypes, More, Left
<1>7. MessageInv'
  BY <1>1, <1>4, <1>5 DEF MessageInv, Once
<1>8. DrainInv'
  BY <1>1 DEF DrainInv
<1>9. Passes \/ Loses
  BY <1>1, <1>3, <1>5 DEF Passes, Loses
<1>10. QED BY <1>6, <1>7, <1>8, <1>9

LEMMA TimeoutStep ==
    ASSUME Types, MessageInv, StopTimesOut
    PROVE  PipeTypes' /\ MessageInv' /\ DrainInv' /\ (Passes \/ Loses)
<1>1. /\ persister = "inserting" /\ persister' = "timedout" /\ stopping
      /\ Inserted("timedout") /\ UNCHANGED <<ready, emitted, queue, dropped, stopping>>
  BY DEF StopTimesOut, Inserted, runVars, stopVars
<1>2. Same(0) /\ Moved(0)
  BY <1>1, ReadySame, MovedBy
<1>3. /\ Once' /\ \A to \in {"loop", "shutdown"} : LoopMsg(to)' <=> LoopMsg(to)
  BY <1>1, <1>2, SameMessages DEF MessageInv, Once
<1>4. /\ stored' \in Seq(Events) /\ batch' = << >> /\ batch' \in Seq(Events)
      /\ \/ Kept' = Kept /\ lost' = lost
         \/ Kept' = stored \o queue /\ lost' = lost \cup ToSet(batch)
  BY <1>1, InsertFacts
<1>5. PipeTypes'
  BY <1>1, <1>4 DEF Types, PipeTypes
<1>6. MessageInv'
  BY <1>1, <1>3, <1>4 DEF MessageInv, Once
<1>7. DrainInv'
  BY <1>1 DEF DrainInv
<1>8. Passes \/ Loses
  BY <1>1, <1>2, <1>4 DEF Passes, Loses
<1>9. QED BY <1>5, <1>6, <1>7, <1>8

LEMMA StopStep ==
    ASSUME Types, MessageInv, Stop
    PROVE  PipeTypes' /\ MessageInv' /\ DrainInv' /\ Passes
<1> DEFINE m == [to |-> "loop"]
<1>1. /\ ~stopping /\ stopping' = TRUE
      /\ UNCHANGED <<emitted, queue, batch, stored, lost, dropped>>
  BY DEF Stop, runVars
<1>2. m \in Messages /\ m.to = "loop"
  BY DEF Messages
<1>3. DrainInv'
  BY <1>1 DEF DrainInv, MessageInv, Stop, Wake
<1>4. CASE persister = "waiting"
  <2>1. ready' = Append(ready, m) /\ persister' = "woken"
    BY <1>4 DEF Stop, Wake
  <2> HIDE DEF m
  <2>2. More(0, m) /\ Moved(0)
    BY <1>2, <2>1, ReadyMore, MovedBy
  <2>3. /\ Once' /\ \A to \in {"loop", "shutdown"} : LoopMsg(to)' <=> to = "loop" \/ LoopMsg(to)
    BY <1>2, <1>4, <2>2, MoreMessages DEF MessageInv, Once
  <2>4. PipeTypes'
    BY <1>1, <2>1, <2>2 DEF Types, PipeTypes, More, Left
  <2>5. MessageInv'
    BY <1>1, <1>4, <2>1, <2>3 DEF MessageInv, Once
  <2>6. Passes
    BY <1>1, <2>2 DEF Passes, Kept
  <2>7. QED BY <1>3, <2>4, <2>5, <2>6
<1>5. CASE persister # "waiting"
  <2>1. UNCHANGED <<ready, persister>>
    BY <1>5 DEF Stop
  <2>2. Same(0) /\ Moved(0)
    BY <2>1, ReadySame, MovedBy
  <2>3. /\ Once' /\ \A to \in {"loop", "shutdown"} : LoopMsg(to)' <=> LoopMsg(to)
    BY <2>2, SameMessages DEF MessageInv, Once
  <2>4. PipeTypes'
    BY <1>1, <2>1 DEF Types, PipeTypes
  <2>5. MessageInv'
    BY <1>1, <2>1, <2>3 DEF MessageInv, Once
  <2>6. Passes
    BY <1>1, <2>2 DEF Passes, Kept
  <2>7. QED BY <1>3, <2>4, <2>5, <2>6
<1>6. QED BY <1>4, <1>5

\* The loop's turn ends with the next one pending or not; when the loop has
\* ended, the message for the shutdown is the last.
LEMMA LoopOnFacts ==
    ASSUME Types, MessageInv, Taken("loop"),
           NEW next \in {"inserting", "waiting", "exited"}, LoopOn(next)
    PROVE  /\ persister' = next /\ ready' \in Seq(Messages) /\ Moved(1) /\ Once'
           /\ ~LoopMsg("loop")' /\ (LoopMsg("shutdown")' <=> next = "exited")
           /\ next = "exited" =>
                \A i \in Deliveries', j \in DOMAIN ready' : ready'[j].to = "shutdown" => i < j
           /\ persister \in {"woken", "returned"} /\ batch = << >>
<1> DEFINE m == [to |-> "shutdown"]
<1>1. m \in Messages /\ m.to = "shutdown"
  BY DEF Messages
<1>2. ready # << >> /\ Head(ready) = ready[1] /\ ready[1].to = "loop" /\ 1 \in DOMAIN ready
  BY HeadFacts
<1>3. LoopMsg("loop") /\ persister \in {"woken", "returned"} /\ ~LoopMsg("shutdown") /\ Once
  BY <1>2 DEF LoopMsg, MessageInv, Once
<1>4. persister' = next /\ batch = << >>
  BY <1>3 DEF LoopOn, MessageInv
<1>5. CASE next = "exited"
  <2>1. ready' = Append(Tail(ready), m)
    BY <1>5 DEF LoopOn
  <2> HIDE DEF m
  <2>2. More(1, m) /\ Moved(1)
    BY <1>1, <1>2, <2>1, ReadyNext, MovedBy
  <2>3. /\ Once' /\ ~LoopMsg("loop")' /\ LoopMsg("shutdown")'
    BY <1>1, <1>2, <1>3, <2>2, MoreMessages
  <2>4. /\ DOMAIN ready' = 1 .. Len(ready') /\ Len(ready') \in Nat /\ Len(ready') > 0
        /\ ready'[Len(ready')] = m /\ ready' \in Seq(Messages)
    BY <2>2, LeftFacts DEF More, Left
  <2>5. ASSUME NEW i \in Deliveries', NEW j \in DOMAIN ready', ready'[j].to = "shutdown"
        PROVE  i < j
    <3>1. j = Len(ready')
      BY <1>1, <2>3, <2>4, <2>5 DEF Once
    <3>2. i \in DOMAIN ready' /\ ready'[i].to = "subscribers"
      BY DEF Deliveries
    <3>3. QED BY <2>4, <2>5, <3>1, <3>2
  <2>6. QED BY <1>3, <1>4, <1>5, <2>2, <2>3, <2>4, <2>5
<1>6. CASE next # "exited"
  <2>1. ready' = Tail(ready)
    BY <1>6 DEF LoopOn
  <2>2. Same(1) /\ Moved(1)
    BY <1>2, <2>1, ReadyTail, MovedBy
  <2>3. Once' /\ ~LoopMsg("loop")' /\ ~LoopMsg("shutdown")'
    BY <1>2, <1>3, <2>2, SameMessages
  <2>4. ready' \in Seq(Messages)
    BY <2>2 DEF Same, Left
  <2>5. QED BY <1>3, <1>4, <1>6, <2>2, <2>3, <2>4
<1>7. QED BY <1>5, <1>6

LEMMA FlushStep ==
    ASSUME TracingAssumption, Types, MessageInv, FlushSome
    PROVE  PipeTypes' /\ MessageInv' /\ DrainInv' /\ Passes
<1>1. /\ Taken("loop") /\ UNCHANGED <<emitted, stored, lost, dropped, stopping>>
  BY DEF FlushSome, runVars, stopVars
<1>2. CASE TakeBatch(Min({Len(queue), Batch})) /\ LoopOn("inserting")
  <2>1. /\ persister' = "inserting" /\ ready' \in Seq(Messages) /\ Moved(1) /\ Once'
        /\ ~LoopMsg("loop")' /\ ~LoopMsg("shutdown")' /\ batch = << >>
    BY <1>1, <1>2, LoopOnFacts
  <2>2. queue \in Seq(Events) /\ Len(queue) \in Nat /\ Len(queue) > 0 /\ Batch \in Nat \ {0}
    <3>1. queue # << >> /\ queue \in Seq(Events)
      BY <1>2 DEF TakeBatch, Types, PipeTypes
    <3>2. QED BY <3>1, SeqFacts DEF TracingAssumption
  <2>3. Min({Len(queue), Batch}) \in 1 .. Len(queue)
    <3>1. CASE Len(queue) <= Batch
      BY <2>2, <3>1 DEF Min
    <3>2. CASE Len(queue) > Batch
      BY <2>2, <3>2 DEF Min
    <3>3. QED BY <2>2, <3>1, <3>2
  <2>4. /\ batch' \in Seq(Events) /\ queue' \in Seq(Events) /\ batch' # << >>
        /\ Len(queue') <= Len(queue) /\ Kept' = Kept
    <3>1. \A n \in 1 .. Len(queue) : TakeBatch(n) =>
            /\ batch' \in Seq(Events) /\ queue' \in Seq(Events) /\ batch' # << >>
            /\ Len(queue') = Len(queue) - n /\ Kept' = Kept
      BY <1>1, <2>1, TakeFacts
    <3>2. PICK n \in 1 .. Len(queue) : TakeBatch(n)
      BY <1>2, <2>3
    <3>3. QED BY <2>2, <3>1, <3>2
  <2>5. PipeTypes'
    BY <1>1, <2>1, <2>4 DEF Types, PipeTypes
  <2>6. MessageInv'
    <3>1. Len(queue') <= MaxQueue
      <4>1. Len(queue) <= MaxQueue /\ MaxQueue \in Nat /\ Len(queue') \in Nat
        BY <2>4, SeqFacts DEF MessageInv, TracingAssumption
      <4>2. QED BY <2>2, <2>4, <4>1
    <3>2. QED BY <1>1, <2>1, <2>4, <3>1 DEF MessageInv, Once
  <2>7. DrainInv'
    BY <2>1 DEF DrainInv
  <2>8. Passes
    BY <1>1, <2>1, <2>4 DEF Passes
  <2>9. QED BY <2>5, <2>6, <2>7, <2>8
<1>3. CASE LoopOn(AfterFlush) /\ UNCHANGED <<queue, batch>>
  <2>1. AfterFlush \in {"waiting", "exited"} /\ (AfterFlush = "exited" => stopping)
    BY DEF AfterFlush
  <2>2. /\ persister' = AfterFlush /\ ready' \in Seq(Messages) /\ Moved(1) /\ Once'
        /\ ~LoopMsg("loop")' /\ (LoopMsg("shutdown")' <=> AfterFlush = "exited")
        /\ AfterFlush = "exited" =>
              \A i \in Deliveries', j \in DOMAIN ready' : ready'[j].to = "shutdown" => i < j
        /\ batch = << >>
    BY <1>1, <1>3, <2>1, LoopOnFacts
  <2>3. PipeTypes'
    BY <1>1, <1>3, <2>1, <2>2 DEF Types, PipeTypes
  <2>4. MessageInv'
    BY <1>1, <1>3, <2>1, <2>2 DEF MessageInv, Once
  <2>5. DrainInv'
    BY <2>1, <2>2 DEF DrainInv
  <2>6. Passes
    BY <1>1, <1>3, <2>2 DEF Passes, Kept
  <2>7. QED BY <2>3, <2>4, <2>5, <2>6
<1>4. QED BY <1>2, <1>3 DEF FlushSome

LEMMA ResumeStep ==
    ASSUME Types, MessageInv, Resume
    PROVE  PipeTypes' /\ MessageInv' /\ DrainInv' /\ Passes
<1>1. /\ Taken("loop") /\ LoopOn(AfterFlush)
      /\ UNCHANGED <<emitted, queue, batch, stored, lost, dropped, stopping>>
  BY DEF Resume, runVars, stopVars
<1>2. AfterFlush \in {"waiting", "exited"} /\ (AfterFlush = "exited" => stopping)
  BY DEF AfterFlush
<1>3. /\ persister' = AfterFlush /\ ready' \in Seq(Messages) /\ Moved(1) /\ Once'
      /\ ~LoopMsg("loop")' /\ (LoopMsg("shutdown")' <=> AfterFlush = "exited")
      /\ AfterFlush = "exited" =>
            \A i \in Deliveries', j \in DOMAIN ready' : ready'[j].to = "shutdown" => i < j
      /\ batch = << >>
  BY <1>1, <1>2, LoopOnFacts
<1>4. PipeTypes'
  BY <1>1, <1>2, <1>3 DEF Types, PipeTypes
<1>5. MessageInv'
  BY <1>1, <1>2, <1>3 DEF MessageInv, Once
<1>6. DrainInv'
  BY <1>2, <1>3 DEF DrainInv
<1>7. Passes
  BY <1>1, <1>3 DEF Passes, Kept
<1>8. QED BY <1>4, <1>5, <1>6, <1>7

\* The final flush: no sealed event is left behind the message it answers.
LEMMA DrainStep ==
    ASSUME TracingAssumption, Types, MessageInv, DrainInv, Drain
    PROVE  PipeTypes' /\ MessageInv' /\ DrainInv' /\ Passes
<1>1. /\ Taken("shutdown") /\ ready' = Tail(ready)
      /\ UNCHANGED <<emitted, stored, lost, dropped, stopping, sealed>>
  BY DEF Drain, Take, runVars, stopVars
<1>2. ready # << >> /\ ready[1].to = "shutdown" /\ 1 \in DOMAIN ready
  BY <1>1, HeadFacts
<1>3. LoopMsg("shutdown") /\ persister = "exited" /\ ~LoopMsg("loop") /\ Once /\ batch = << >>
      /\ stopping
  BY <1>2 DEF LoopMsg, MessageInv, Once
<1>4. Same(1) /\ Moved(1)
  BY <1>1, <1>2, ReadyTail, MovedBy
<1>5. Once' /\ ~LoopMsg("loop")' /\ ~LoopMsg("shutdown")'
  BY <1>2, <1>3, <1>4, SameMessages
<1>6. ready' \in Seq(Messages)
  BY <1>4 DEF Same, Left
<1>7. \A x \in Coming' : ~Sealed(x)'
  <2>1. \A i \in Deliveries : ~Sealed(ready[i].event)
    <3>1. ASSUME NEW i \in Deliveries, Sealed(ready[i].event) PROVE FALSE
      <4>1. i < 1
        BY <1>2, <1>3, <3>1 DEF DrainInv
      <4>2. i \in 1 .. Len(ready) /\ Len(ready) \in Nat
        BY SeqFacts DEF Deliveries, Types, PipeTypes
      <4>3. QED BY <4>1, <4>2
    <3>2. QED BY <3>1
  <2>2. \A x \in Coming : ~Sealed(x)
    BY <2>1 DEF Coming
  <2>3. \A x : Sealed(x)' <=> Sealed(x)
    BY <1>1 DEF Sealed
  <2>4. QED BY <1>4, <2>2, <2>3 DEF Moved
<1>8. CASE TakeBatch(Len(queue)) /\ persister' = "draining"
  <2>1. queue \in Seq(Events) /\ Len(queue) \in 1 .. Len(queue) /\ Len(queue) \in Nat
    <3>1. queue # << >> /\ queue \in Seq(Events)
      BY <1>8 DEF TakeBatch, Types, PipeTypes
    <3>2. Len(queue) \in Nat /\ Len(queue) # 0
      BY <3>1, SeqFacts
    <3>3. QED BY <3>1, <3>2
  <2>2. /\ batch' \in Seq(Events) /\ queue' \in Seq(Events) /\ batch' # << >>
        /\ Len(queue') = Len(queue) - Len(queue) /\ Kept' = Kept
    BY <1>1, <1>3, <1>8, <2>1, TakeFacts
  <2>3. queue' = << >> /\ Len(queue') <= MaxQueue
    BY <2>1, <2>2, SeqFacts DEF TracingAssumption
  <2>4. PipeTypes'
    BY <1>1, <1>6, <1>8, <2>2 DEF Types, PipeTypes
  <2>5. MessageInv'
    BY <1>1, <1>3, <1>5, <1>8, <2>2, <2>3 DEF MessageInv, Once
  <2>6. DrainInv'
    BY <1>7, <1>8, <2>3 DEF DrainInv, ToSet
  <2>7. Passes
    BY <1>1, <1>4, <2>2 DEF Passes
  <2>8. QED BY <2>4, <2>5, <2>6, <2>7
<1>9. CASE queue = << >> /\ persister' = "stopped" /\ UNCHANGED <<queue, batch>>
  <2>1. PipeTypes'
    BY <1>1, <1>6, <1>9 DEF Types, PipeTypes
  <2>2. MessageInv'
    BY <1>1, <1>3, <1>5, <1>9 DEF MessageInv, Once
  <2>3. DrainInv'
    BY <1>7, <1>9 DEF DrainInv, ToSet
  <2>4. Passes
    BY <1>1, <1>4, <1>9 DEF Passes, Kept
  <2>5. QED BY <2>1, <2>2, <2>3, <2>4
<1>10. QED BY <1>8, <1>9 DEF Drain

LEMMA DrainEndStep ==
    ASSUME Types, MessageInv, DrainInv, DrainEnds
    PROVE  PipeTypes' /\ MessageInv' /\ DrainInv' /\ (Passes \/ Loses)
<1>1. /\ persister = "draining" /\ persister' = "stopped" /\ Inserted("stopped")
      /\ UNCHANGED <<ready, emitted, queue, dropped, stopping, sealed>>
  BY DEF DrainEnds, Inserted, runVars, stopVars
<1>2. Same(0) /\ Moved(0)
  BY <1>1, ReadySame, MovedBy
<1>3. /\ Once' /\ \A to \in {"loop", "shutdown"} : LoopMsg(to)' <=> LoopMsg(to)
  BY <1>1, <1>2, SameMessages DEF MessageInv, Once
<1>4. /\ stored' \in Seq(Events) /\ batch' = << >> /\ batch' \in Seq(Events)
      /\ \/ Kept' = Kept /\ lost' = lost
         \/ Kept' = stored \o queue /\ lost' = lost \cup ToSet(batch)
  BY <1>1, InsertFacts
<1>5. PipeTypes'
  BY <1>1, <1>4 DEF Types, PipeTypes
<1>6. MessageInv'
  BY <1>1, <1>3, <1>4 DEF MessageInv, Once
<1>7. DrainInv'
  <2>1. \A x : Sealed(x)' <=> Sealed(x)
    BY <1>1 DEF Sealed
  <2>2. Coming' = Coming /\ ToSet(queue') = ToSet(queue)
    BY <1>1, <1>2 DEF Moved
  <2>3. QED BY <1>1, <2>1, <2>2 DEF DrainInv
<1>8. Passes \/ Loses
  BY <1>1, <1>2, <1>4 DEF Passes, Loses
<1>9. QED BY <1>5, <1>6, <1>7, <1>8

\* The subscribers take the event at the head: it is queued, or refused.
LEMMA DeliverStep ==
    ASSUME TracingAssumption, Types, MessageInv, DrainInv, Deliver
    PROVE  PipeTypes' /\ MessageInv' /\ DrainInv' /\ Arrives
<1> DEFINE e == ready[1].event
<1>1. /\ Taken("subscribers") /\ ready' = Tail(ready) /\ QueueEvent(Head(ready).event)
      /\ UNCHANGED <<emitted, batch, persister, stored, lost, stopping, sealed>>
  BY DEF Deliver, Take, runVars, stopVars
<1>2. ready # << >> /\ Head(ready) = ready[1] /\ ready[1].to = "subscribers"
      /\ 1 \in DOMAIN ready /\ ready[1] \in Messages
  BY <1>1, HeadFacts
<1>3. e \in Events /\ QueueEvent(e) /\ 1 \in Deliveries /\ e \in Coming
  BY <1>1, <1>2 DEF Messages, Deliveries, Coming
<1> HIDE DEF e
<1>4. Same(1)
  BY <1>1, <1>2, ReadyTail
<1>5. Once' /\ \A to \in {"loop", "shutdown"} : LoopMsg(to)' <=> LoopMsg(to)
  BY <1>2, <1>4, SameMessages DEF MessageInv, Once
<1>6. /\ queue' \in Seq(Events) /\ Len(queue') <= MaxQueue
      /\ ToSet(queue') \subseteq ToSet(queue) \cup {e}
      /\ \/ Kept' = Append(Kept, e) /\ dropped' = dropped
         \/ Kept' = Kept /\ dropped' = dropped \cup {e}
  <2>1. queue \in Seq(Events) /\ Len(queue) \in Nat /\ Len(queue) <= MaxQueue /\ MaxQueue \in Nat
    BY SeqFacts DEF Types, PipeTypes, MessageInv, TracingAssumption
  <2>2. CASE queue' = Append(queue, e) /\ Len(queue) < MaxQueue /\ dropped' = dropped
    <3>1. /\ queue' \in Seq(Events) /\ Len(queue') = Len(queue) + 1
          /\ DOMAIN queue' = 1 .. Len(queue) + 1
          /\ \A i \in 1 .. Len(queue) : queue'[i] = queue[i]
          /\ queue'[Len(queue) + 1] = e
      BY <1>3, <2>1, <2>2, AppendFacts
    <3>2. ToSet(queue') \subseteq ToSet(queue) \cup {e}
      <4>1. DOMAIN queue = 1 .. Len(queue)
        BY <2>1, SeqFacts
      <4>2. QED BY <2>1, <3>1, <4>1 DEF ToSet
    <3>3. Kept' = Append(Kept, e)
      <4> DEFINE k == stored \o batch
      <4>1. Kept = k \o queue /\ Kept' = k \o Append(queue, e)
        BY <1>1, <2>2 DEF Kept
      <4>2. k \in Seq(Events)
        BY ConcatFacts DEF Types, PipeTypes
      <4> HIDE DEF k
      <4>3. k \o Append(queue, e) = Append(k \o queue, e)
        BY ONLY <1>3, <2>1, <4>2, ConcatAppend
      <4>4. QED BY <4>1, <4>3
    <3>4. QED BY <2>1, <2>2, <3>1, <3>2, <3>3
  <2>3. CASE dropped' = dropped \cup {e} /\ queue' = queue
    BY <1>1, <2>1, <2>3 DEF Kept
  <2>4. QED BY <1>3, <2>2, <2>3 DEF QueueEvent
<1>7. PipeTypes'
  BY <1>1, <1>4, <1>6 DEF Types, PipeTypes, Same, Left
<1>8. MessageInv'
  BY <1>1, <1>5, <1>6 DEF MessageInv, Once
<1>9. \A i \in DOMAIN ready' : i + 1 \in DOMAIN ready /\ ready'[i] = ready[i + 1] /\ i \in Int
  BY <1>4, LeftFacts DEF Same
<1>10. Coming' \subseteq Coming
  BY <1>9 DEF Coming, Deliveries
<1>11. DrainInv'
  <2>1. ASSUME persister' = "exited", NEW i \in Deliveries', NEW j \in DOMAIN ready',
               ready'[j].to = "shutdown",
               NEW n \in 1 .. sealed', emitted'[n] = ready'[i].event
        PROVE  i < j
    <3>1. i + 1 \in Deliveries /\ ready'[i] = ready[i + 1] /\ i \in Int
      BY <1>9 DEF Deliveries
    <3>2. Sealed(ready[i + 1].event)
      BY <1>1, <2>1, <3>1 DEF Sealed
    <3>3. j + 1 \in DOMAIN ready /\ ready[j + 1].to = "shutdown" /\ j \in Int
      BY <1>9, <2>1
    <3>4. i + 1 < j + 1
      BY <1>1, <2>1, <3>1, <3>2, <3>3 DEF DrainInv
    <3>5. QED BY <3>1, <3>3, <3>4
  <2>2. ASSUME persister' \in {"draining", "stopped"}, NEW x \in Coming' \cup ToSet(queue'),
               NEW n \in 1 .. sealed', emitted'[n] = x
        PROVE  FALSE
    <3>1. x \in Coming \cup ToSet(queue) /\ Sealed(x)
      BY <1>1, <1>3, <1>6, <1>10, <2>2 DEF Sealed
    <3>2. QED BY <1>1, <2>2, <3>1 DEF DrainInv
  <2>3. QED BY <2>1, <2>2 DEF DrainInv, Sealed
<1>12. Arrives
  BY <1>1, <1>3, <1>4, <1>6 DEF Arrives, e
<1>13. QED BY <1>7, <1>8, <1>11, <1>12

\* An emission is not among the sealed events, and its delivery is the last.
LEMMA EmitStep ==
    ASSUME Types, MessageInv, DrainInv, NEW e \in Events, Emits(e)
    PROVE  /\ PipeTypes' /\ MessageInv' /\ DrainInv'
           /\ Kept' = Kept /\ UNCHANGED <<lost, dropped>>
           /\ More(0, [to |-> "subscribers", event |-> e])
<1> DEFINE m == [to |-> "subscribers", event |-> e]
<1>1. /\ ready' = Append(ready, m) /\ emitted' = Append(emitted, e)
      /\ UNCHANGED <<queue, batch, persister, stored, lost, dropped, stopping, sealed>>
  BY DEF Emits, Emit, persistVars, stopVars
<1>2. m \in Messages /\ m.to = "subscribers" /\ m.event = e
  BY DEF Messages
<1> HIDE DEF m
<1>3. More(0, m)
  BY <1>1, <1>2, ReadyMore
<1>4. /\ Once' /\ \A to \in {"loop", "shutdown"} : LoopMsg(to)' <=> LoopMsg(to)
  BY <1>2, <1>3, MoreMessages DEF MessageInv, Once
<1>5. PipeTypes'
  BY <1>1, <1>3 DEF Types, PipeTypes, More, Left
<1>6. MessageInv'
  BY <1>1, <1>4 DEF MessageInv, Once
<1>7. /\ \A n \in 1 .. sealed : n \in DOMAIN emitted /\ emitted'[n] = emitted[n]
  <2>1. DOMAIN emitted = 1 .. Len(emitted) /\ Len(emitted) \in Nat /\ sealed \in 0 .. Len(emitted)
    BY SeqFacts DEF Types
  <2>2. \A n \in 1 .. sealed : n \in 1 .. Len(emitted)
    BY <2>1
  <2>3. QED BY <2>1, <2>2, EmitFacts
<1>8. \A n \in 1 .. sealed : emitted[n] # e
  BY <1>7 DEF Emits, ToSet
<1>9. /\ DOMAIN ready = 1 .. Len(ready) /\ DOMAIN ready' = 1 .. Len(ready) + 1
      /\ Len(ready) \in Nat /\ ready'[Len(ready) + 1] = m
      /\ \A i \in DOMAIN ready : ready'[i] = ready[i]
  <2>1. ready \in Seq(Messages)
    BY DEF Types, PipeTypes
  <2>2. QED BY <1>1, <1>2, <2>1, SeqFacts, AppendFacts
<1>10. \A i \in DOMAIN ready' :
          \/ i \in DOMAIN ready /\ ready'[i] = ready[i]
          \/ i = Len(ready) + 1 /\ ready'[i] = m
  BY <1>9
<1>11. DrainInv'
  <2>1. ASSUME persister' = "exited", NEW i \in Deliveries', NEW j \in DOMAIN ready',
               ready'[j].to = "shutdown",
               NEW n \in 1 .. sealed', emitted'[n] = ready'[i].event
        PROVE  i < j
    <3>1. n \in 1 .. sealed /\ emitted[n] = ready'[i].event
      BY <1>1, <1>7, <2>1
    <3>2. i \in DOMAIN ready /\ ready'[i] = ready[i] /\ i \in Deliveries
      <4>1. ready'[i] # m /\ i \in DOMAIN ready' /\ ready'[i].to = "subscribers"
        BY <1>2, <1>8, <3>1 DEF Deliveries
      <4>2. QED BY <1>10, <4>1 DEF Deliveries
    <3>3. Sealed(ready[i].event)
      BY <3>1, <3>2 DEF Sealed
    <3>4. j \in DOMAIN ready /\ ready[j].to = "shutdown"
      BY <1>2, <1>10, <2>1
    <3>5. QED BY <1>1, <2>1, <3>2, <3>3, <3>4 DEF DrainInv
  <2>2. ASSUME persister' \in {"draining", "stopped"}, NEW x \in Coming' \cup ToSet(queue'),
               NEW n \in 1 .. sealed', emitted'[n] = x
        PROVE  FALSE
    <3>1. n \in 1 .. sealed /\ emitted[n] = x /\ x # e
      BY <1>1, <1>7, <1>8, <2>2
    <3>2. ASSUME x \in Coming' PROVE x \in Coming
      <4>1. PICK i \in Deliveries' : x = ready'[i].event
        BY <3>2 DEF Coming
      <4>2. ready'[i] # m /\ i \in DOMAIN ready' /\ ready'[i].to = "subscribers"
        BY <1>2, <3>1, <4>1 DEF Deliveries
      <4>3. i \in Deliveries /\ ready'[i] = ready[i]
        BY <1>10, <4>2 DEF Deliveries
      <4>4. QED BY <4>1, <4>3 DEF Coming
    <3>3. x \in Coming \cup ToSet(queue)
      BY <1>1, <2>2, <3>2
    <3>4. QED BY <1>1, <2>2, <3>1, <3>3 DEF DrainInv, Sealed
  <2>3. QED BY <2>1, <2>2 DEF DrainInv, Sealed
<1>12. QED BY <1>1, <1>3, <1>5, <1>6, <1>11 DEF Kept, m

-----------------------------------------------------------------------------
(* Every event is accounted for.                                           *)

LEMMA OrderedConcat ==
    ASSUME NEW es, NEW S, NEW s \in Seq(S), NEW t \in Seq(S)
    PROVE  Ordered(es, s \o t) <=>
             /\ Ordered(es, s) /\ Ordered(es, t)
             /\ \A x \in ToSet(s), y \in ToSet(t) : Before(es, x, y)
<1>1. /\ Len(s) \in Nat /\ DOMAIN s = 1 .. Len(s) /\ Len(t) \in Nat /\ DOMAIN t = 1 .. Len(t)
      /\ DOMAIN (s \o t) = 1 .. Len(s) + Len(t)
      /\ \A i \in 1 .. Len(s) : (s \o t)[i] = s[i]
      /\ \A i \in 1 .. Len(t) : (s \o t)[Len(s) + i] = t[i]
  BY SeqFacts, ConcatFacts
<1> DEFINE st == s \o t
<1>2. \A i \in DOMAIN st : \/ i \in DOMAIN s /\ st[i] = s[i]
                           \/ i - Len(s) \in DOMAIN t /\ st[i] = t[i - Len(s)] /\ i > Len(s)
  <2>1. ASSUME NEW i \in DOMAIN st, i \notin DOMAIN s
        PROVE  i - Len(s) \in DOMAIN t /\ st[i] = t[i - Len(s)] /\ i > Len(s)
    <3>1. i - Len(s) \in 1 .. Len(t) /\ Len(s) + (i - Len(s)) = i /\ i > Len(s)
      BY <1>1, <2>1
    <3>2. st[Len(s) + (i - Len(s))] = t[i - Len(s)]
      BY <1>1, <3>1
    <3>3. QED BY <1>1, <3>1, <3>2
  <2>2. QED BY <1>1, <2>1
<1>3. \A i \in DOMAIN s : i \in DOMAIN st /\ st[i] = s[i] /\ i <= Len(s) /\ i \in Int
  BY <1>1
<1>4. \A i \in DOMAIN t : Len(s) + i \in DOMAIN st /\ st[Len(s) + i] = t[i] /\ i > 0 /\ i \in Int
  BY <1>1
<1> HIDE DEF st
<1>5. ASSUME Ordered(es, st)
      PROVE  /\ Ordered(es, s) /\ Ordered(es, t)
             /\ \A x \in ToSet(s), y \in ToSet(t) : Before(es, x, y)
  <2>1. Ordered(es, s)
    BY <1>3, <1>5 DEF Ordered
  <2>2. ASSUME NEW i \in DOMAIN t, NEW j \in DOMAIN t, i < j PROVE Before(es, t[i], t[j])
    <3>1. Len(s) + i < Len(s) + j
      BY <1>1, <1>4, <2>2
    <3>2. QED BY <1>4, <1>5, <3>1 DEF Ordered
  <2>3. ASSUME NEW i \in DOMAIN s, NEW j \in DOMAIN t PROVE Before(es, s[i], t[j])
    <3>1. i < Len(s) + j
      BY <1>1, <1>3, <1>4
    <3>2. QED BY <1>3, <1>4, <1>5, <3>1 DEF Ordered
  <2>4. QED BY <2>1, <2>2, <2>3 DEF Ordered, ToSet
<1>6. ASSUME Ordered(es, s), Ordered(es, t),
             \A x \in ToSet(s), y \in ToSet(t) : Before(es, x, y)
      PROVE  Ordered(es, st)
  <2>1. \A i \in DOMAIN s, j \in DOMAIN t : Before(es, s[i], t[j])
    BY <1>6 DEF ToSet
  <2>2. ASSUME NEW i \in DOMAIN st, NEW j \in DOMAIN st, i < j PROVE Before(es, st[i], st[j])
    <3>1. CASE i \in DOMAIN s /\ j \in DOMAIN s
      BY <1>3, <1>6, <2>2, <3>1 DEF Ordered
    <3>2. CASE i \in DOMAIN s /\ j \notin DOMAIN s
      BY <1>2, <1>3, <2>1, <3>2
    <3>3. CASE i \notin DOMAIN s
      <4>1. /\ i - Len(s) \in DOMAIN t /\ st[i] = t[i - Len(s)] /\ i > Len(s)
            /\ i \in Int /\ j \in Int /\ Len(s) \in Int
        BY <1>1, <1>2, <3>3 DEF st
      <4>2. j \notin DOMAIN s
        BY <1>1, <2>2, <4>1
      <4>3. j - Len(s) \in DOMAIN t /\ st[j] = t[j - Len(s)]
        BY <1>2, <4>2
      <4>4. i - Len(s) < j - Len(s)
        BY <2>2, <4>1
      <4>5. QED BY <1>6, <4>1, <4>3, <4>4 DEF Ordered
    <3>4. QED BY <3>1, <3>2, <3>3
  <2>3. QED BY <2>2 DEF Ordered
<1>7. QED BY <1>5, <1>6 DEF st

LEMMA OrderedAppend ==
    ASSUME NEW es, NEW S, NEW s \in Seq(S), NEW x \in S
    PROVE  /\ ToSet(Append(s, x)) = ToSet(s) \cup {x}
           /\ Ordered(es, s) /\ (\A y \in ToSet(s) : Before(es, y, x))
                => Ordered(es, Append(s, x))
<1> DEFINE r == Append(s, x)
<1>1. /\ Len(s) \in Nat /\ DOMAIN s = 1 .. Len(s) /\ DOMAIN r = 1 .. Len(s) + 1
      /\ \A i \in 1 .. Len(s) : r[i] = s[i]
      /\ r[Len(s) + 1] = x
  BY SeqFacts, AppendFacts
<1> HIDE DEF r
<1>2. \A i \in DOMAIN r : \/ i \in DOMAIN s /\ r[i] = s[i]
                          \/ i = Len(s) + 1 /\ r[i] = x
  BY <1>1
<1>3. Len(s) + 1 \in DOMAIN r /\ \A i \in DOMAIN s : i \in DOMAIN r
  BY <1>1
<1>4. ToSet(r) = ToSet(s) \cup {x}
  BY <1>1, <1>2, <1>3 DEF ToSet
<1>5. ASSUME Ordered(es, s), \A y \in ToSet(s) : Before(es, y, x),
             NEW i \in DOMAIN r, NEW j \in DOMAIN r, i < j
      PROVE  Before(es, r[i], r[j])
  <2>1. i \in DOMAIN s /\ r[i] = s[i]
    BY <1>1, <1>2, <1>5
  <2>2. CASE j \in DOMAIN s
    BY <1>1, <1>5, <2>1, <2>2 DEF Ordered
  <2>3. CASE j = Len(s) + 1
    BY <1>1, <1>5, <2>1, <2>3 DEF ToSet
  <2>4. QED BY <1>2, <2>2, <2>3
<1>6. QED BY <1>4, <1>5 DEF Ordered, r

AccountInv ==
    /\ Ordered(emitted, Kept)
    /\ \A i, j \in Deliveries : i < j => Before(emitted, ready[i].event, ready[j].event)
    /\ \A x \in ToSet(Kept), y \in Coming : Before(emitted, x, y)
    /\ ToSet(emitted) = ToSet(Kept) \cup Coming \cup lost \cup dropped
    /\ (lost \cup dropped) \cap (ToSet(Kept) \cup Coming) = {} /\ lost \cap dropped = {}

LEMMA PassesAccount ==
    ASSUME Types, AccountInv, Passes
    PROVE  AccountInv'
<1>1. /\ Kept' = Kept /\ emitted' = emitted /\ lost' = lost /\ dropped' = dropped
      /\ \E d \in {0, 1} : Moved(d)
  BY DEF Passes
<1>2. PICK d \in {0, 1} : Moved(d)
  BY <1>1
<1>3. Coming' = Coming
  BY <1>2 DEF Moved
<1>4. ASSUME NEW i \in Deliveries', NEW j \in Deliveries', i < j
      PROVE  Before(emitted', ready'[i].event, ready'[j].event)
  <2>1. i + d \in Deliveries /\ ready'[i] = ready[i + d] /\ j + d \in Deliveries /\ ready'[j] = ready[j + d]
    BY <1>2 DEF Moved
  <2>2. i \in Int /\ j \in Int
    BY <1>2 DEF Moved
  <2>3. i + d < j + d
    BY <1>4, <2>2
  <2>4. QED BY <1>1, <2>1, <2>3 DEF AccountInv
<1>5. QED BY <1>1, <1>3, <1>4 DEF AccountInv

LEMMA LosesAccount ==
    ASSUME Types, SpanInv, AccountInv, Loses
    PROVE  AccountInv'
<1>1. /\ Kept' = stored \o queue /\ emitted' = emitted /\ lost' = lost \cup ToSet(batch)
      /\ dropped' = dropped /\ Moved(0)
  BY DEF Loses
<1>2. stored \in Seq(Events) /\ batch \in Seq(Events) /\ queue \in Seq(Events)
  BY DEF Types, PipeTypes
<1> DEFINE k == stored \o batch
<1>3. k \in Seq(Events) /\ ToSet(k) = ToSet(stored) \cup ToSet(batch)
  BY <1>2, ConcatFacts
<1>4. /\ Ordered(emitted, stored) /\ Ordered(emitted, queue)
      /\ \A x \in ToSet(stored), y \in ToSet(batch) : Before(emitted, x, y)
      /\ \A x \in ToSet(stored) \cup ToSet(batch), y \in ToSet(queue) : Before(emitted, x, y)
  <2>1. Kept = k \o queue
    BY DEF Kept
  <2>2. Ordered(emitted, k \o queue)
    BY <2>1 DEF AccountInv
  <2> HIDE DEF k
  <2>3. /\ Ordered(emitted, k) /\ Ordered(emitted, queue)
        /\ \A x \in ToSet(k), y \in ToSet(queue) : Before(emitted, x, y)
    BY <1>2, <1>3, <2>2, OrderedConcat
  <2>4. /\ Ordered(emitted, stored)
        /\ \A x \in ToSet(stored), y \in ToSet(batch) : Before(emitted, x, y)
    BY <1>2, <2>3, OrderedConcat DEF k
  <2>5. QED BY <1>3, <2>3, <2>4
<1>5. Ordered(emitted, stored \o queue) /\ ToSet(stored \o queue) = ToSet(stored) \cup ToSet(queue)
  BY <1>2, <1>4, OrderedConcat, ConcatFacts
<1>6. ToSet(Kept) = ToSet(stored) \cup ToSet(batch) \cup ToSet(queue)
  BY KeptFacts
<1>7. /\ ToSet(batch) \cap ToSet(Kept') = {} /\ ToSet(Kept') = ToSet(stored) \cup ToSet(queue)
  <2>1. \A x : ~Before(emitted, x, x)
    BY BeforeIsStrict
  <2>2. QED BY <1>1, <1>4, <1>5, <2>1
<1>8. ToSet(batch) \cap Coming = {}
  <2>1. \A x : ~Before(emitted, x, x)
    BY BeforeIsStrict
  <2>2. QED BY <1>6, <2>1 DEF AccountInv
<1>9. /\ Coming' = Coming /\ \A i \in Deliveries' : i \in Deliveries /\ ready'[i] = ready[i]
  <2>1. Coming' = Coming /\ \A i \in Deliveries' : i + 0 \in Deliveries /\ ready'[i] = ready[i + 0]
    BY <1>1 DEF Moved
  <2>2. \A i \in Deliveries' : i \in Int
    BY <1>1 DEF Moved
  <2>3. QED BY <2>1, <2>2
<1>10. QED BY <1>1, <1>5, <1>6, <1>7, <1>8, <1>9 DEF AccountInv

LEMMA ArrivesAccount ==
    ASSUME Types, SpanInv, AccountInv, Arrives
    PROVE  AccountInv'
<1> DEFINE e == ready[1].event
<1>1. /\ Same(1) /\ 1 \in Deliveries /\ emitted' = emitted /\ lost' = lost
      /\ \/ Kept' = Append(Kept, e) /\ dropped' = dropped
         \/ Kept' = Kept /\ dropped' = dropped \cup {e}
  BY DEF Arrives
<1>2. \A i \in Deliveries' : i + 1 \in Deliveries /\ ready'[i] = ready[i + 1] /\ i \in Nat /\ i >= 1
  <2>1. ASSUME NEW i \in DOMAIN ready'
        PROVE  i + 1 \in DOMAIN ready /\ ready'[i] = ready[i + 1] /\ i \in Nat /\ i >= 1
    <3>1. i \in 1 .. Len(ready')
      BY <1>1, LeftFacts DEF Same
    <3>2. i \in 1 .. Len(ready) - 1
      BY <1>1, <3>1 DEF Same
    <3>3. QED BY <1>1, <3>1, <3>2, LeftFacts DEF Same
  <2>2. QED BY <2>1 DEF Deliveries
<1>3. \A i \in Deliveries : i # 1 => i > 1 /\ i - 1 \in Deliveries' /\ ready'[i - 1] = ready[i]
  <2>1. ASSUME NEW i \in DOMAIN ready, i # 1
        PROVE  i > 1 /\ i - 1 \in DOMAIN ready' /\ ready'[i - 1] = ready[i]
    <3>1. i \in 1 .. Len(ready)
      BY <1>1, LeftFacts DEF Same
    <3>2. i > 1
      BY <2>1, <3>1
    <3>3. QED BY <1>1, <3>1, <3>2, LeftFacts DEF Same
  <2>2. QED BY <2>1 DEF Deliveries
<1> HIDE DEF e
<1>4. e \in Coming /\ Coming \subseteq Coming' \cup {e} /\ Coming' \subseteq Coming
  <2>1. e \in Coming
    BY <1>1 DEF Coming, e
  <2>2. \A i \in Deliveries : ready[i].event \in Coming' \cup {e}
    BY <1>3 DEF Coming, e
  <2>3. \A i \in Deliveries' : ready'[i].event \in Coming
    BY <1>2 DEF Coming
  <2>4. \A x \in Coming' : x \in Coming
    BY <2>3 DEF Coming
  <2>5. \A x \in Coming : x \in Coming' \cup {e}
    BY <2>2 DEF Coming
  <2>6. QED BY <2>1, <2>4, <2>5
<1>5. \A y \in Coming' : Before(emitted, e, y)
  <2>1. ASSUME NEW i \in Deliveries' PROVE Before(emitted, e, ready'[i].event)
    <3>1. i + 1 \in Deliveries /\ ready'[i] = ready[i + 1] /\ 1 < i + 1
      BY <1>2
    <3>2. QED BY <1>1, <3>1 DEF AccountInv, e
  <2>2. QED BY <2>1 DEF Coming
<1>6. e \notin Coming' /\ e \notin ToSet(Kept)
  <2>1. \A x : ~Before(emitted, x, x)
    BY BeforeIsStrict
  <2>2. QED BY <1>4, <1>5, <2>1 DEF AccountInv
<1>7. \A i, j \in Deliveries' : i < j => Before(emitted, ready'[i].event, ready'[j].event)
  <2>1. ASSUME NEW i \in Deliveries', NEW j \in Deliveries', i < j
        PROVE  Before(emitted, ready'[i].event, ready'[j].event)
    <3>1. /\ i + 1 \in Deliveries /\ ready'[i] = ready[i + 1] /\ i \in Nat
          /\ j + 1 \in Deliveries /\ ready'[j] = ready[j + 1] /\ j \in Nat
      BY <1>2
    <3>2. i + 1 < j + 1
      BY <2>1, <3>1
    <3>3. QED BY <3>1, <3>2 DEF AccountInv
  <2>2. QED BY <2>1
<1>8. CASE Kept' = Append(Kept, e) /\ dropped' = dropped
  <2>1. Kept \in Seq(Events) /\ e \in Events
    <3>1. ready[1] \in Messages /\ ready[1].to = "subscribers"
      BY <1>1, SeqFacts DEF Deliveries, Types, PipeTypes
    <3>2. QED BY <3>1, KeptFacts DEF Messages, e
  <2>2. \A x \in ToSet(Kept) : Before(emitted, x, e)
    BY <1>4 DEF AccountInv
  <2>3. ToSet(Kept') = ToSet(Kept) \cup {e} /\ Ordered(emitted, Kept')
    BY <1>8, <2>1, <2>2, OrderedAppend DEF AccountInv
  <2>4. QED BY <1>1, <1>4, <1>5, <1>6, <1>7, <1>8, <2>3 DEF AccountInv
<1>9. CASE Kept' = Kept /\ dropped' = dropped \cup {e}
  BY <1>1, <1>4, <1>6, <1>7, <1>9 DEF AccountInv
<1>10. QED BY <1>1, <1>8, <1>9

LEMMA EmitAccount ==
    ASSUME Types, SpanInv, AccountInv, NEW e \in Events, Emits(e),
           Kept' = Kept, UNCHANGED <<lost, dropped>>,
           More(0, [to |-> "subscribers", event |-> e])
    PROVE  AccountInv'
<1> DEFINE m == [to |-> "subscribers", event |-> e]
<1>1. m.to = "subscribers" /\ m.event = e
  OBVIOUS
<1>2. /\ DOMAIN ready = 1 .. Len(ready) /\ DOMAIN ready' = 1 .. Len(ready) + 1
      /\ Len(ready) \in Nat /\ ready'[Len(ready) + 1] = m
      /\ \A i \in DOMAIN ready : ready'[i] = ready[i]
  <2>1. ready' = Append(ready, m) /\ ready \in Seq(Messages) /\ m \in Messages
    BY DEF Emits, Emit, Types, PipeTypes, Messages
  <2> HIDE DEF m
  <2>2. QED BY <2>1, SeqFacts, AppendFacts
<1> HIDE DEF m
<1>3. /\ Deliveries' = Deliveries \cup {Len(ready) + 1}
      /\ \A i \in Deliveries : ready'[i] = ready[i] /\ i \in Nat /\ i < Len(ready) + 1
  BY <1>1, <1>2 DEF Deliveries
<1>4. Coming' = Coming \cup {e}
  BY <1>1, <1>2, <1>3 DEF Coming
<1>5. /\ ToSet(emitted') = ToSet(emitted) \cup {e}
      /\ \A x \in ToSet(emitted) : Before(emitted', x, e)
      /\ \A x, y : Before(emitted, x, y) => Before(emitted', x, y)
      /\ e \notin ToSet(emitted)
  BY EmitFacts DEF Emits
<1>6. Ordered(emitted', Kept')
  BY <1>5 DEF AccountInv, Ordered
<1>7. ASSUME NEW i \in Deliveries', NEW j \in Deliveries', i < j
      PROVE  Before(emitted', ready'[i].event, ready'[j].event)
  <2>1. i \in Deliveries
    BY <1>2, <1>3, <1>7
  <2>2. ready[i].event \in ToSet(emitted) /\ ready'[i] = ready[i]
    BY <1>3, <2>1 DEF AccountInv, Coming
  <2>3. CASE j \in Deliveries
    BY <1>3, <1>5, <1>7, <2>1, <2>2, <2>3 DEF AccountInv
  <2>4. CASE j = Len(ready) + 1
    BY <1>1, <1>2, <1>5, <2>2, <2>4
  <2>5. QED BY <1>3, <2>3, <2>4
<1>8. \A x \in ToSet(Kept'), y \in Coming' : Before(emitted', x, y)
  BY <1>4, <1>5 DEF AccountInv
<1>9. QED BY <1>4, <1>5, <1>6, <1>7, <1>8 DEF AccountInv

-----------------------------------------------------------------------------
(* The stream.                                                             *)

Mine(es) == {es[n] : n \in {m \in since + 1 .. Len(es) : es[m].trace = Followed}}
Shows(s) == ToSet(s) = Mine(emitted) /\ Ordered(emitted, s)
StreamInv ==
    /\ stream = "idle" => shown = << >> /\ waiting = << >>
    /\ stream = "open" => Shows(shown \o waiting)
    /\ stream = "closed" =>
         /\ Shows(shown)
         /\ \E n \in DOMAIN emitted : RunEnd(emitted[n]) /\ emitted[n].trace = Followed

StreamTypes ==
    /\ stream \in {"idle", "open", "closed"} /\ since \in 0 .. Len(emitted)
    /\ waiting \in Seq(Events) /\ shown \in Seq(Events)

LEMMA EmitStream ==
    ASSUME Types, SpanInv, StreamInv, NEW e \in Events, Emits(e)
    PROVE  StreamTypes' /\ StreamInv' /\ sealed' \in 0 .. Len(emitted')
<1>1. /\ stream' = stream /\ shown' = shown /\ since' = since /\ sealed' = sealed
      /\ waiting' = IF stream = "open" /\ e.trace = Followed THEN Append(waiting, e) ELSE waiting
  BY DEF Emits, Emit, stopVars
<1>2. /\ emitted' \in Seq(Events) /\ Len(emitted') = Len(emitted) + 1 /\ Len(emitted) \in Nat
      /\ \A n \in 1 .. Len(emitted) : emitted'[n] = emitted[n]
      /\ emitted'[Len(emitted) + 1] = e
      /\ \A x \in ToSet(emitted) : Before(emitted', x, e)
      /\ \A x, y : Before(emitted, x, y) => Before(emitted', x, y)
  BY EmitFacts, SeqFacts DEF Types
<1>3. since \in 0 .. Len(emitted) /\ sealed \in 0 .. Len(emitted)
      /\ waiting \in Seq(Events) /\ shown \in Seq(Events)
  BY DEF Types
<1>4. Mine(emitted)' = IF e.trace = Followed THEN Mine(emitted) \cup {e} ELSE Mine(emitted)
  <2>1. \A n \in since + 1 .. Len(emitted) : n \in since + 1 .. Len(emitted') /\ emitted'[n] = emitted[n]
    BY <1>2, <1>3
  <2>2. \A n \in since + 1 .. Len(emitted') :
            n \in since + 1 .. Len(emitted) \/ (n = Len(emitted) + 1 /\ emitted'[n] = e)
    BY <1>2, <1>3
  <2>3. Len(emitted) + 1 \in since + 1 .. Len(emitted')
    BY <1>2, <1>3
  <2>4. QED BY <1>1, <1>2, <2>1, <2>2, <2>3 DEF Mine
<1>5. Mine(emitted) \subseteq ToSet(emitted)
  BY <1>2, <1>3, SeqFacts DEF Mine, ToSet, Types
<1>6. \A s : Ordered(emitted, s) => Ordered(emitted', s)
  BY <1>2 DEF Ordered
<1>7. StreamTypes' /\ sealed' \in 0 .. Len(emitted')
  <2>1. since' \in 0 .. Len(emitted') /\ sealed' \in 0 .. Len(emitted')
    BY <1>1, <1>2, <1>3
  <2>2. waiting' \in Seq(Events)
    BY <1>1, <1>3, AppendFacts
  <2>3. QED BY <1>1, <1>3, <2>1, <2>2 DEF StreamTypes, Types
<1>8. CASE stream = "idle"
  BY <1>1, <1>7, <1>8 DEF StreamInv
<1>9. CASE stream = "open" /\ e.trace = Followed
  <2> DEFINE q == shown \o waiting
  <2>1. /\ q \in Seq(Events) /\ ToSet(q) = Mine(emitted) /\ Ordered(emitted', q)
    BY <1>3, <1>6, <1>9, ConcatFacts DEF StreamInv, Shows
  <2>2. shown' \o waiting' = Append(q, e)
    BY <1>1, <1>3, <1>9, ConcatAppend
  <2> HIDE DEF q
  <2>3. \A x \in ToSet(q) : Before(emitted', x, e)
    BY <1>2, <1>5, <2>1
  <2>4. Ordered(emitted', Append(q, e)) /\ ToSet(Append(q, e)) = Mine(emitted) \cup {e}
    BY <2>1, <2>3, OrderedAppend
  <2>5. QED BY <1>1, <1>4, <1>7, <1>9, <2>2, <2>4 DEF StreamInv, Shows
<1>10. CASE stream = "open" /\ e.trace # Followed
  BY <1>1, <1>4, <1>6, <1>7, <1>10 DEF StreamInv, Shows
<1>11. CASE stream = "closed"
  <2>1. e.trace # Followed
    BY <1>11 DEF StreamInv, Emits
  <2>2. \E n \in DOMAIN emitted' : RunEnd(emitted'[n]) /\ emitted'[n].trace = Followed
    <3>1. PICK n \in DOMAIN emitted : RunEnd(emitted[n]) /\ emitted[n].trace = Followed
      BY <1>11 DEF StreamInv
    <3>2. n \in 1 .. Len(emitted)
      BY SeqFacts DEF Types
    <3>3. n \in DOMAIN emitted' /\ emitted'[n] = emitted[n]
      BY <1>2, <3>2, SeqFacts
    <3>4. QED BY <3>1, <3>3
  <2>3. QED BY <1>1, <1>4, <1>6, <1>7, <1>11, <2>1, <2>2 DEF StreamInv, Shows, RunEnd
<1>12. QED BY <1>3, <1>8, <1>9, <1>10, <1>11 DEF Types

LEMMA HeadMoves ==
    ASSUME NEW S, NEW s \in Seq(S), NEW t \in Seq(S), t # << >>
    PROVE  Append(s, Head(t)) \o Tail(t) = s \o t
<1> DEFINE l == Append(s, Head(t)) \o Tail(t)
<1>1. /\ s \in Seq(S) /\ Len(s) \in Nat /\ Len(t) \in Nat /\ Len(t) >= 1 /\ t[1] \in S
      /\ Head(t) = t[1] /\ Tail(t) \in Seq(S) /\ Len(Tail(t)) = Len(t) - 1
      /\ \A i \in 1 .. Len(t) - 1 : Tail(t)[i] = t[i + 1]
  BY SeqFacts, TailFacts
<1>2. /\ Append(s, t[1]) \in Seq(S) /\ Len(Append(s, t[1])) = Len(s) + 1
      /\ \A i \in 1 .. Len(s) : Append(s, t[1])[i] = s[i]
      /\ Append(s, t[1])[Len(s) + 1] = t[1]
  BY <1>1, AppendFacts
<1>3. /\ l \in Seq(S) /\ Len(l) = Len(s) + Len(t)
      /\ \A i \in 1 .. Len(s) + 1 : l[i] = Append(s, t[1])[i]
      /\ \A i \in 1 .. Len(t) - 1 : l[Len(s) + 1 + i] = t[i + 1]
  <2>1. /\ l \in Seq(S) /\ Len(l) = Len(Append(s, t[1])) + Len(Tail(t))
        /\ \A i \in 1 .. Len(Append(s, t[1])) : l[i] = Append(s, t[1])[i]
        /\ \A i \in 1 .. Len(Tail(t)) : l[Len(Append(s, t[1])) + i] = Tail(t)[i]
    BY <1>1, <1>2, ConcatFacts
  <2> HIDE DEF l
  <2>2. QED BY <1>1, <1>2, <2>1
<1>4. /\ s \o t \in Seq(S) /\ Len(s \o t) = Len(s) + Len(t)
      /\ \A i \in 1 .. Len(s) : (s \o t)[i] = s[i]
      /\ \A i \in 1 .. Len(t) : (s \o t)[Len(s) + i] = t[i]
  BY ConcatFacts
<1> HIDE DEF l
<1>5. ASSUME NEW i \in 1 .. Len(s) + Len(t) PROVE l[i] = (s \o t)[i]
  <2>1. CASE i \in 1 .. Len(s)
    BY <1>1, <1>2, <1>3, <1>4, <2>1
  <2>2. CASE i = Len(s) + 1
    <3>1. (s \o t)[Len(s) + 1] = t[1]
      BY <1>1, <1>4
    <3>2. QED BY <1>1, <1>2, <1>3, <2>2, <3>1
  <2>3. CASE i > Len(s) + 1
    <3>1. i - Len(s) - 1 \in 1 .. Len(t) - 1 /\ i - Len(s) \in 1 .. Len(t)
      BY <1>1, <2>3
    <3>2. /\ l[Len(s) + 1 + (i - Len(s) - 1)] = t[(i - Len(s) - 1) + 1]
          /\ (s \o t)[Len(s) + (i - Len(s))] = t[i - Len(s)]
      BY <1>3, <1>4, <3>1
    <3>3. /\ Len(s) + 1 + (i - Len(s) - 1) = i /\ (i - Len(s) - 1) + 1 = i - Len(s)
          /\ Len(s) + (i - Len(s)) = i
      BY <1>1
    <3>4. QED BY <3>2, <3>3
  <2>4. QED BY <1>1, <2>1, <2>2, <2>3
<1>6. QED BY <1>3, <1>4, <1>5, SeqEqual DEF l

LEMMA ShowStep ==
    ASSUME Types, SpanInv, StreamInv, Show
    PROVE  StreamTypes' /\ StreamInv'
<1> DEFINE h == Head(waiting)
<1>1. /\ stream = "open" /\ waiting # << >> /\ shown' = Append(shown, h)
      /\ waiting' = Tail(waiting) /\ since' = since /\ emitted' = emitted
      /\ stream' = IF h.name = Root /\ h.phase = "end" THEN "closed" ELSE "open"
  BY DEF Show, runVars
<1>2. shown \in Seq(Events) /\ waiting \in Seq(Events)
  BY DEF Types
<1>3. /\ h = waiting[1] /\ h \in Events /\ Len(waiting) \in Nat /\ Len(waiting) >= 1
      /\ waiting' \in Seq(Events) /\ Len(waiting') = Len(waiting) - 1
      /\ DOMAIN waiting = 1 .. Len(waiting)
  BY <1>1, <1>2, TailFacts, SeqFacts
<1>4. shown' \in Seq(Events) /\ shown' \o waiting' = shown \o waiting
  BY <1>1, <1>2, <1>3, AppendFacts, HeadMoves
<1> HIDE DEF h
<1>5. Mine(emitted)' = Mine(emitted)
  BY <1>1 DEF Mine
<1>6. Shows(shown \o waiting)
  BY <1>1 DEF StreamInv
<1>7. /\ ToSet(shown') \cup ToSet(waiting') = Mine(emitted)
      /\ ToSet(shown) \cup ToSet(waiting) = Mine(emitted) /\ Ordered(emitted, waiting)
  <2>1. ToSet(shown') \cup ToSet(waiting') = Mine(emitted)
    <3>1. shown' \in Seq(Events) /\ waiting' \in Seq(Events)
      BY <1>3, <1>4
    <3>2. ToSet(shown' \o waiting') = ToSet(shown') \cup ToSet(waiting')
      BY <3>1, ConcatFacts
    <3>3. QED BY <1>4, <1>6, <3>2 DEF Shows
  <2>2. ToSet(shown) \cup ToSet(waiting) = Mine(emitted) /\ Ordered(emitted, waiting)
    <3>1. ToSet(shown \o waiting) = ToSet(shown) \cup ToSet(waiting)
      BY <1>2, ConcatFacts
    <3>2. ToSet(shown \o waiting) = Mine(emitted) /\ Ordered(emitted, shown \o waiting)
      BY <1>6 DEF Shows
    <3>3. Ordered(emitted, waiting)
      BY <1>2, <3>2, OrderedConcat
    <3>4. QED BY <3>1, <3>2, <3>3
  <2>3. QED BY <2>1, <2>2
<1>8. StreamTypes'
  BY <1>1, <1>3, <1>4 DEF StreamTypes, Types
<1>9. CASE stream' = "open"
  BY <1>1, <1>4, <1>5, <1>6, <1>8, <1>9 DEF StreamInv, Shows
<1>10. CASE stream' = "closed"
  <2>1. RunEnd(h)
    BY <1>1, <1>10 DEF RunEnd
  <2>2. h \in Mine(emitted)
    BY <1>3, <1>7 DEF ToSet
  <2>3. \A x \in Mine(emitted) : x \in ToSet(emitted) /\ x.trace = Followed
    <3>1. since \in Nat /\ DOMAIN emitted = 1 .. Len(emitted) /\ Len(emitted) \in Nat
      BY SeqFacts DEF Types
    <3>2. \A n \in since + 1 .. Len(emitted) : n \in DOMAIN emitted
      BY <3>1
    <3>3. QED BY <3>2 DEF Mine, ToSet
  <2>4. \E n \in DOMAIN emitted : RunEnd(emitted[n]) /\ emitted[n].trace = Followed
    BY <2>1, <2>2, <2>3 DEF ToSet
  <2>5. Len(waiting) = 1
    <3>1. ASSUME Len(waiting) >= 2 PROVE FALSE
      <4>1. 1 \in DOMAIN waiting /\ 2 \in DOMAIN waiting
        BY <1>3, <3>1
      <4>2. waiting[2].trace = Followed /\ h.trace = Followed
        BY <1>7, <2>2, <2>3, <4>1 DEF ToSet
      <4>3. PICK m \in DOMAIN emitted, n \in DOMAIN emitted :
                m < n /\ emitted[m] = h /\ emitted[n] = waiting[2]
        BY <1>3, <1>7, <4>1 DEF Ordered, Before
      <4>4. QED BY <2>1, <4>2, <4>3 DEF SpanInv
    <3>2. QED BY <1>3, <3>1
  <2>6. waiting' = << >>
    BY <1>3, <2>5, SeqFacts
  <2>7. shown' \o waiting' = shown'
    BY <1>4, <2>6, ConcatEmptySeq
  <2>8. Shows(shown')
    BY <1>4, <1>6, <2>7
  <2>9. QED BY <1>1, <1>5, <1>8, <1>10, <2>4, <2>8 DEF StreamInv, Shows, RunEnd
<1>11. QED BY <1>1, <1>8, <1>9, <1>10

LEMMA SubscribeStep ==
    ASSUME Types, StreamInv, Subscribe \/ Disconnect
    PROVE  StreamTypes' /\ StreamInv'
<1>1. emitted' = emitted /\ Len(emitted) \in Nat
  BY SeqFacts DEF Subscribe, Disconnect, runVars, Types
<1>2. << >> \in Seq(Events) /\ << >> \o << >> = << >> /\ ToSet(<< >>) = {} /\ DOMAIN << >> = {}
  BY EmptySeq, ConcatEmptySeq DEF ToSet
<1>3. CASE Subscribe
  <2>1. /\ stream = "idle" /\ stream' = "open" /\ since' = Len(emitted)
        /\ waiting' = waiting /\ shown' = shown
    BY <1>3 DEF Subscribe
  <2>2. waiting = << >> /\ shown = << >>
    BY <2>1 DEF StreamInv
  <2>3. Mine(emitted)' = {}
    <3>1. since' + 1 .. Len(emitted') = {}
      BY <1>1, <2>1
    <3>2. QED BY <3>1 DEF Mine
  <2>4. shown' \o waiting' = << >>
    BY <1>2, <2>1, <2>2
  <2>5. Ordered(emitted', << >>)
    BY <1>2 DEF Ordered
  <2>6. StreamTypes'
    BY <1>1, <2>1 DEF StreamTypes, Types
  <2>7. QED BY <1>2, <2>1, <2>3, <2>4, <2>5, <2>6 DEF StreamInv, Shows
<1>4. CASE Disconnect
  BY <1>1, <1>2, <1>4 DEF Disconnect, StreamTypes, StreamInv
<1>5. QED BY <1>3, <1>4

-----------------------------------------------------------------------------
(* Sums over a finite set.                                                 *)

\* A set of numbers has a least one.
Less == OpToRel(<, Nat)
LEMMA LeastNat ==
    ASSUME NEW T \in SUBSET Nat, T # {} PROVE \E x \in T : \A y \in T : x <= y
<1>1. IsWellFoundedOn(Less, Nat)
  BY NatLessThanWellFounded DEF Less
<1>2. PICK x \in T : \A y \in T : <<y, x>> \notin Less
  BY <1>1, WFMin
<1>3. Less = {ss \in Nat \X Nat : ss[1] < ss[2]}
  BY DEF Less, OpToRel
<1>4. \A y \in T : ~(y < x)
  BY <1>2, <1>3
<1>5. QED BY <1>4

\* f sums the weights w over the subsets of S, taking the elements as the
\* library's fold does.
Chosen(s) == CHOOSE x \in s : TRUE
SumsUpTo(f, w, S, n) ==
    \A s \in SUBSET S : Cardinality(s) <= n =>
        f[s] = IF s = {} THEN 0 ELSE w[Chosen(s)] + f[s \ {Chosen(s)}]
Adds(f, w, S) ==
    \A s \in SUBSET S : f[s] = IF s = {} THEN 0 ELSE w[Chosen(s)] + f[s \ {Chosen(s)}]
Sums(f, w, S) == f \in [SUBSET S -> Nat] /\ Adds(f, w, S)

LEMMA ChosenFacts ==
    ASSUME NEW S, IsFiniteSet(S), NEW s \in SUBSET S
    PROVE  /\ IsFiniteSet(s) /\ Cardinality(s) \in Nat /\ (Cardinality(s) = 0 <=> s = {})
           /\ \A x \in s : s \ {x} \in SUBSET S /\ Cardinality(s \ {x}) = Cardinality(s) - 1
           /\ s # {} => Chosen(s) \in s
<1>1. IsFiniteSet(s)
  BY FS_Subset
<1>2. s # {} => Chosen(s) \in s
  BY DEF Chosen
<1>3. QED BY <1>1, <1>2, FS_CardinalityType, FS_EmptySet, FS_RemoveElement

LEMMA SumExists ==
    ASSUME NEW S, IsFiniteSet(S), NEW w \in [S -> Nat]
    PROVE  \E f : Sums(f, w, S)
<1> DEFINE Good(n) == \E f \in [SUBSET S -> Nat] : SumsUpTo(f, w, S, n)
<1>1. Good(0)
  <2>1. \A s \in SUBSET S : Cardinality(s) <= 0 => s = {}
    BY ChosenFacts
  <2>2. SumsUpTo([s \in SUBSET S |-> 0], w, S, 0)
    BY <2>1 DEF SumsUpTo
  <2>3. [s \in SUBSET S |-> 0] \in [SUBSET S -> Nat]
    OBVIOUS
  <2>4. QED BY <2>2, <2>3
<1>2. ASSUME NEW n \in Nat, Good(n) PROVE Good(n + 1)
  <2>1. PICK f \in [SUBSET S -> Nat] : SumsUpTo(f, w, S, n)
    BY <1>2
  <2> DEFINE g == [s \in SUBSET S |-> IF Cardinality(s) <= n \/ s = {} THEN f[s]
                                      ELSE w[Chosen(s)] + f[s \ {Chosen(s)}]]
  <2>2. g \in [SUBSET S -> Nat]
    <3>1. ASSUME NEW s \in SUBSET S, s # {} PROVE w[Chosen(s)] + f[s \ {Chosen(s)}] \in Nat
      <4>1. Chosen(s) \in S /\ s \ {Chosen(s)} \in SUBSET S
        BY <3>1, ChosenFacts
      <4>2. w[Chosen(s)] \in Nat /\ f[s \ {Chosen(s)}] \in Nat
        BY <4>1
      <4>3. QED BY <4>2
    <3>2. QED BY <3>1
  <2>3. ASSUME NEW s \in SUBSET S, Cardinality(s) <= n + 1
        PROVE  g[s] = IF s = {} THEN 0 ELSE w[Chosen(s)] + g[s \ {Chosen(s)}]
    <3>1. CASE s = {}
      <4>1. Cardinality(s) <= n
        BY <3>1, FS_EmptySet
      <4>2. QED BY <2>1, <3>1, <4>1 DEF SumsUpTo
    <3>2. CASE s # {}
      <4>1. /\ s \ {Chosen(s)} \in SUBSET S
            /\ Cardinality(s \ {Chosen(s)}) = Cardinality(s) - 1 /\ Cardinality(s) \in Nat
        BY <3>2, ChosenFacts
      <4>2. Cardinality(s \ {Chosen(s)}) <= n
        BY <2>3, <4>1
      <4>3. g[s \ {Chosen(s)}] = f[s \ {Chosen(s)}]
        BY <4>1, <4>2
      <4>4. g[s] = w[Chosen(s)] + f[s \ {Chosen(s)}]
        BY <2>1, <3>2 DEF SumsUpTo
      <4>5. QED BY <3>2, <4>3, <4>4
    <3>3. QED BY <3>1, <3>2
  <2>4. SumsUpTo(g, w, S, n + 1)
    BY <2>3 DEF SumsUpTo
  <2>5. QED BY <2>2, <2>4
<1> DEFINE Bad == {n \in Nat : ~Good(n)}
<1> HIDE DEF Good
<1>3. Bad = {}
  <2>1. ASSUME Bad # {} PROVE FALSE
    <3>1. PICK n \in Bad : \A k \in Bad : n <= k
      <4>1. Bad \in SUBSET Nat
        OBVIOUS
      <4> HIDE DEF Bad
      <4>2. QED BY <2>1, <4>1, LeastNat
    <3>2. n \in Nat /\ n # 0 /\ ~Good(n)
      BY <1>1
    <3>3. n - 1 \in Nat /\ (n - 1) + 1 = n /\ ~(n <= n - 1)
      BY <3>2
    <3>4. Good(n - 1)
      BY <3>1, <3>3
    <3>5. QED BY <1>2, <3>2, <3>3, <3>4
  <2>2. QED BY <2>1
<1>4. Cardinality(S) \in Nat
  BY FS_CardinalityType
<1>5. PICK f \in [SUBSET S -> Nat] : SumsUpTo(f, w, S, Cardinality(S))
  BY <1>3, <1>4 DEF Good
<1>6. \A s \in SUBSET S : Cardinality(s) <= Cardinality(S)
  BY FS_Subset
<1>7. QED BY <1>5, <1>6 DEF SumsUpTo, Sums, Adds

\* The order of the elements does not matter.
LEMMA SumSplit ==
    ASSUME NEW S, IsFiniteSet(S), NEW w \in [S -> Nat], NEW f, Sums(f, w, S),
           NEW s \in SUBSET S, NEW x \in s
    PROVE  f[s] = w[x] + f[s \ {x}]
<1> DEFINE Bad == {r \in SUBSET S : \E y \in r : f[r] # w[y] + f[r \ {y}]}
<1>1. ASSUME Bad # {} PROVE FALSE
  <2> DEFINE Sizes == {Cardinality(r) : r \in Bad}
  <2>1. PICK r \in Bad : \A q \in Bad : Cardinality(r) <= Cardinality(q)
    <3>1. Sizes \in SUBSET Nat /\ Sizes # {}
      BY <1>1, ChosenFacts
    <3>2. PICK n \in Sizes : \A k \in Sizes : n <= k
      <4> HIDE DEF Sizes
      <4>1. QED BY <3>1, LeastNat
    <3>3. QED BY <3>2
  <2>2. PICK y \in r : f[r] # w[y] + f[r \ {y}]
    OBVIOUS
  <2> DEFINE c == Chosen(r)
  <2>3. /\ r \in SUBSET S /\ c \in r /\ y \in r /\ Cardinality(r) \in Nat
        /\ r \ {c} \in SUBSET S /\ Cardinality(r \ {c}) = Cardinality(r) - 1
        /\ r \ {y} \in SUBSET S /\ Cardinality(r \ {y}) = Cardinality(r) - 1
    BY ChosenFacts
  <2>4. f[r] = w[c] + f[r \ {c}] /\ c # y
    BY <2>2, <2>3 DEF Sums, Adds
  <2>5. r \ {c} \notin Bad /\ r \ {y} \notin Bad
    <3> HIDE DEF Bad, c
    <3>1. \A q \in Bad : ~(Cardinality(q) = Cardinality(r) - 1)
      BY <2>1, <2>3
    <3>2. QED BY <2>3, <3>1
  <2> HIDE DEF c
  <2>6. f[r \ {c}] = w[y] + f[(r \ {c}) \ {y}]
    BY <2>3, <2>4, <2>5
  <2>7. f[r \ {y}] = w[c] + f[(r \ {y}) \ {c}]
    BY <2>3, <2>4, <2>5
  <2>8. (r \ {c}) \ {y} = (r \ {y}) \ {c} /\ (r \ {c}) \ {y} \in SUBSET S
    BY <2>3
  <2>9. w[c] \in Nat /\ w[y] \in Nat /\ f[(r \ {c}) \ {y}] \in Nat
    BY <2>3, <2>8 DEF Sums
  <2>10. f[r] = w[y] + f[r \ {y}]
    <3>1. f[(r \ {y}) \ {c}] = f[(r \ {c}) \ {y}]
      BY <2>8
    <3>2. QED BY <2>4, <2>6, <2>7, <2>9, <3>1
  <2>11. QED BY <2>2, <2>10
<1>2. QED BY <1>1

\* A sum depends on the weights only.
LEMMA SumSame ==
    ASSUME NEW S, IsFiniteSet(S), NEW w, NEW f, Adds(f, w, S),
           NEW R, NEW v, NEW g, Adds(g, v, R),
           NEW T \in SUBSET S, T \in SUBSET R, \A x \in T : w[x] = v[x]
    PROVE  f[T] = g[T]
<1> DEFINE Bad == {r \in SUBSET T : f[r] # g[r]}
<1>1. ASSUME Bad # {} PROVE FALSE
  <2> DEFINE Sizes == {Cardinality(r) : r \in Bad}
  <2>1. PICK r \in Bad : \A q \in Bad : Cardinality(r) <= Cardinality(q)
    <3>1. Sizes \in SUBSET Nat /\ Sizes # {}
      BY <1>1, ChosenFacts
    <3>2. PICK n \in Sizes : \A k \in Sizes : n <= k
      <4> HIDE DEF Sizes
      <4>1. QED BY <3>1, LeastNat
    <3>3. QED BY <3>2
  <2>2. r \in SUBSET T /\ r \in SUBSET S /\ r \in SUBSET R /\ f[r] # g[r]
    OBVIOUS
  <2>3. r # {}
    BY <2>2 DEF Adds
  <2> DEFINE c == Chosen(r)
  <2>4. /\ c \in r /\ r \ {c} \in SUBSET T /\ Cardinality(r) \in Nat
        /\ Cardinality(r \ {c}) = Cardinality(r) - 1
    BY <2>2, <2>3, ChosenFacts
  <2>5. f[r] = w[c] + f[r \ {c}] /\ g[r] = v[c] + g[r \ {c}]
    BY <2>2, <2>3 DEF Adds
  <2>6. r \ {c} \notin Bad
    <3> HIDE DEF Bad, c
    <3>1. \A q \in Bad : ~(Cardinality(q) = Cardinality(r) - 1)
      BY <2>1, <2>4
    <3>2. QED BY <2>4, <3>1
  <2>7. QED BY <2>2, <2>4, <2>5, <2>6
<1>2. QED BY <1>1

-----------------------------------------------------------------------------
(* The metrics.                                                            *)

\* A map of counters.
Counters(map) ==
    /\ IsFiniteSet(DOMAIN map) /\ map = [k \in DOMAIN map |-> map[k]]
    /\ \A k \in DOMAIN map : map[k] \in [Phases -> Nat]

LEMMA TotalFacts ==
    ASSUME NEW map, Counters(map), NEW ph \in Phases
    PROVE  \E f : /\ Sums(f, [k \in DOMAIN map |-> map[k][ph]], DOMAIN map)
                  /\ Total(map, ph) = f[DOMAIN map]
<1> DEFINE S == DOMAIN map
<1> DEFINE w == [k \in S |-> map[k][ph]]
<1>1. IsFiniteSet(S) /\ w \in [S -> Nat]
  BY DEF Counters
<1> DEFINE Is(f) == f = [s \in SUBSET S |-> IF s = {} THEN 0
                           ELSE map[Chosen(s)][ph] + f[s \ {Chosen(s)}]]
<1> DEFINE iter == CHOOSE f : Is(f)
<1>2. \E f : Is(f)
  <2>1. PICK f : Sums(f, w, S)
    <3> HIDE DEF w, S
    <3>1. QED BY <1>1, SumExists
  <2>2. \A s \in SUBSET S : s # {} => w[Chosen(s)] = map[Chosen(s)][ph]
    BY <1>1, ChosenFacts
  <2>3. Is(f)
    BY <2>1, <2>2 DEF Sums, Adds
  <2>4. QED BY <2>3
<1>3. Is(iter)
  <2> HIDE DEF Is
  <2>1. QED BY <1>2
<1>4. Total(map, ph) = iter[S]
  BY DEF Total, MapThenSumSet, MapThenFoldSet, Chosen
<1> HIDE DEF iter
<1>5. PICK f : Sums(f, w, S)
  <2> HIDE DEF w, S
  <2>1. QED BY <1>1, SumExists
<1>6. Adds(iter, w, S)
  <2>1. \A s \in SUBSET S : s # {} => w[Chosen(s)] = map[Chosen(s)][ph]
    BY <1>1, ChosenFacts
  <2>2. QED BY <1>3, <2>1 DEF Adds
<1>7. iter[S] = f[S]
  <2> HIDE DEF w, S, Is
  <2>1. S \in SUBSET S /\ \A x \in S : w[x] = w[x]
    OBVIOUS
  <2>2. Adds(f, w, S)
    BY <1>5 DEF Sums
  <2>3. QED BY <1>1, <1>6, <2>1, <2>2, SumSame
<1>8. QED BY <1>4, <1>5, <1>7

LEMMA CountFacts ==
    ASSUME NEW map, Counters(map), NEW key, NEW ph \in Phases
    PROVE  /\ Counters(Count(map, key, ph)) /\ DOMAIN Count(map, key, ph) = DOMAIN map \cup {key}
           /\ \A k \in DOMAIN map \ {key} : Count(map, key, ph)[k] = map[k]
           /\ Count(map, key, ph)[key] =
                [(IF key \in DOMAIN map THEN map[key] ELSE Zero) EXCEPT ![ph] = @ + 1]
<1>1. Zero \in [Phases -> Nat]
  BY DEF Zero
<1>2. \A c \in [Phases -> Nat] : [c EXCEPT ![ph] = @ + 1] \in [Phases -> Nat]
  OBVIOUS
<1>3. IsFiniteSet(DOMAIN map \cup {key})
  BY FS_AddElement DEF Counters
<1>4. /\ DOMAIN Count(map, key, ph) = DOMAIN map \cup {key}
      /\ \A k \in DOMAIN map \ {key} : Count(map, key, ph)[k] = map[k]
      /\ Count(map, key, ph)[key] =
            [(IF key \in DOMAIN map THEN map[key] ELSE Zero) EXCEPT ![ph] = @ + 1]
      /\ Count(map, key, ph) = [k \in DOMAIN Count(map, key, ph) |-> Count(map, key, ph)[k]]
  BY DEF Count
<1>5. \A k \in DOMAIN Count(map, key, ph) : Count(map, key, ph)[k] \in [Phases -> Nat]
  <2>1. \A k \in DOMAIN map : map[k] \in [Phases -> Nat]
    BY DEF Counters
  <2>2. Count(map, key, ph)[key] \in [Phases -> Nat]
    <3>1. (IF key \in DOMAIN map THEN map[key] ELSE Zero) \in [Phases -> Nat]
      BY <1>1, <2>1
    <3>2. QED BY <1>2, <1>4, <3>1
  <2>3. QED BY <1>4, <2>1, <2>2
<1>6. QED BY <1>3, <1>4, <1>5 DEF Counters

LEMMA CountTotal ==
    ASSUME NEW map, Counters(map), NEW key, NEW p \in Phases, NEW ph \in Phases
    PROVE  Total(Count(map, key, p), ph) = Total(map, ph) + (IF ph = p THEN 1 ELSE 0)
<1> DEFINE new == Count(map, key, p)
<1> DEFINE S == DOMAIN map
<1> DEFINE R == DOMAIN map \cup {key}
<1> DEFINE w == [k \in DOMAIN map |-> map[k][ph]]
<1> DEFINE v == [k \in DOMAIN new |-> new[k][ph]]
<1>1. /\ Counters(new) /\ DOMAIN new = R
      /\ \A k \in S \ {key} : new[k] = map[k]
      /\ new[key] = [(IF key \in S THEN map[key] ELSE Zero) EXCEPT ![p] = @ + 1]
  <2>1. Counters(new) /\ DOMAIN new = R
    BY CountFacts
  <2>2. \A k \in S \ {key} : new[k] = map[k]
    BY DEF Count
  <2>3. new[key] = [(IF key \in S THEN map[key] ELSE Zero) EXCEPT ![p] = @ + 1]
    BY DEF Count
  <2>4. QED BY <2>1, <2>2, <2>3
<1>2. PICK f : Sums(f, w, S) /\ Total(map, ph) = f[S]
  BY TotalFacts
<1> HIDE DEF new
<1>3. PICK g : Sums(g, v, R) /\ Total(new, ph) = g[R]
  <2>1. \E g : Sums(g, v, DOMAIN new) /\ Total(new, ph) = g[DOMAIN new]
    BY <1>1, TotalFacts
  <2>2. QED BY <1>1, <2>1
<1>4. /\ IsFiniteSet(S) /\ IsFiniteSet(R) /\ w \in [S -> Nat] /\ v \in [R -> Nat]
  BY <1>1 DEF Counters
<1>5. \A k \in S \ {key} : w[k] = v[k]
  BY <1>1
<1>6. v[key] = (IF key \in S THEN w[key] ELSE 0) + (IF ph = p THEN 1 ELSE 0)
  <2> DEFINE c == IF key \in S THEN map[key] ELSE Zero
  <2>1. c \in [Phases -> Nat] /\ c[ph] = IF key \in S THEN w[key] ELSE 0
    BY DEF Counters, Zero
  <2>2. v[key] = [c EXCEPT ![p] = @ + 1][ph]
    BY <1>1
  <2> HIDE DEF c, v, w
  <2>3. [c EXCEPT ![p] = @ + 1][ph] = c[ph] + (IF ph = p THEN 1 ELSE 0)
    BY <2>1
  <2>4. QED BY <2>1, <2>2, <2>3
<1>7. key \in R /\ R \in SUBSET R /\ S \in SUBSET S /\ R \ {key} = S \ {key}
      /\ S \ {key} \in SUBSET S /\ S \ {key} \in SUBSET R
  OBVIOUS
<1> HIDE DEF v, w, S, R
<1>8. g[R] = v[key] + g[R \ {key}]
  BY <1>3, <1>4, <1>7, SumSplit
<1>9. f[S \ {key}] = g[S \ {key}]
  BY <1>2, <1>3, <1>4, <1>5, <1>7, SumSame DEF Sums
<1>10. f[S] = (IF key \in S THEN w[key] ELSE 0) + f[S \ {key}]
  <2>1. CASE key \in S
    BY <1>2, <1>4, <1>7, <2>1, SumSplit
  <2>2. CASE key \notin S
    <3>1. S \ {key} = S /\ f[S] \in Nat
      BY <1>2, <1>7, <2>2 DEF Sums
    <3>2. f[S \ {key}] = f[S]
      BY <3>1
    <3>3. QED BY <2>2, <3>1, <3>2
  <2>3. QED BY <2>1, <2>2
<1>11. /\ (IF key \in S THEN w[key] ELSE 0) \in Nat /\ f[S \ {key}] \in Nat
  BY <1>2, <1>4, <1>7 DEF Sums
<1>12. g[R] = f[S] + (IF ph = p THEN 1 ELSE 0)
  <2>1. g[R \ {key}] = f[S \ {key}]
    BY <1>7, <1>9
  <2>2. QED BY <1>6, <1>8, <1>10, <1>11, <2>1
<1>13. QED BY <1>2, <1>3, <1>12 DEF new

\* Both maps count every event, and the cap on the names leaves room for one.
MetricInv ==
    /\ Counters(byKind) /\ Counters(byName) /\ counted \in [Phases -> Nat]
    /\ \A ph \in Phases : Total(byKind, ph) = counted[ph] /\ Total(byName, ph) = counted[ph]
    /\ Cardinality(DOMAIN byName) <= MaxNames + (IF Other \in DOMAIN byName THEN 1 ELSE 0)

LEMMA CountStep ==
    ASSUME TracingAssumption, MetricInv, NEW e \in Events, CountEvent(e)
    PROVE  MetricInv'
<1>1. /\ byKind' = Count(byKind, Kind(e.name), e.phase)
      /\ byName' = Count(byName, Bucket(e.name), e.phase)
      /\ counted' = [counted EXCEPT ![e.phase] = @ + 1] /\ e.phase \in Phases
  BY DEF CountEvent, Events
<1>2. /\ Counters(byKind') /\ Counters(byName')
      /\ DOMAIN byName' = DOMAIN byName \cup {Bucket(e.name)}
  BY <1>1, CountFacts DEF MetricInv
<1>3. counted' \in [Phases -> Nat]
  BY <1>1 DEF MetricInv
<1>4. /\ IsFiniteSet(DOMAIN byName) /\ Cardinality(DOMAIN byName) \in Nat /\ MaxNames \in Nat
      /\ Cardinality(DOMAIN byName') =
            IF Bucket(e.name) \in DOMAIN byName THEN Cardinality(DOMAIN byName)
            ELSE Cardinality(DOMAIN byName) + 1
  BY <1>2, FS_AddElement, FS_CardinalityType DEF MetricInv, Counters, TracingAssumption
<1>5. Cardinality(DOMAIN byName') <= MaxNames + (IF Other \in DOMAIN byName' THEN 1 ELSE 0)
  <2>1. CASE Bucket(e.name) \in DOMAIN byName
    <3>1. DOMAIN byName' = DOMAIN byName
      BY <1>2, <2>1
    <3>2. QED BY <3>1 DEF MetricInv
  <2>2. CASE Bucket(e.name) \notin DOMAIN byName /\ Cardinality(DOMAIN byName) < MaxNames
    BY <1>4, <2>2
  <2>3. CASE Bucket(e.name) \notin DOMAIN byName /\ ~(Cardinality(DOMAIN byName) < MaxNames)
    <3>1. Bucket(e.name) = Other
      BY <2>3 DEF Bucket
    <3>2. Other \in DOMAIN byName' /\ Other \notin DOMAIN byName
      BY <1>2, <2>3, <3>1
    <3>3. Cardinality(DOMAIN byName) <= MaxNames
      BY <1>4, <3>2 DEF MetricInv
    <3>4. QED BY <1>4, <2>3, <3>2, <3>3
  <2>4. QED BY <2>1, <2>2, <2>3
<1>6. ASSUME NEW ph \in Phases
      PROVE  Total(byKind', ph) = counted'[ph] /\ Total(byName', ph) = counted'[ph]
  <2>1. /\ Total(byKind', ph) = Total(byKind, ph) + (IF ph = e.phase THEN 1 ELSE 0)
        /\ Total(byName', ph) = Total(byName, ph) + (IF ph = e.phase THEN 1 ELSE 0)
    BY <1>1, CountTotal DEF MetricInv
  <2>2. counted'[ph] = counted[ph] + (IF ph = e.phase THEN 1 ELSE 0) /\ counted[ph] \in Nat
    BY <1>1 DEF MetricInv
  <2>3. QED BY <2>1, <2>2 DEF MetricInv
<1>7. QED BY <1>2, <1>3, <1>5, <1>6 DEF MetricInv

-----------------------------------------------------------------------------
(* The inductive invariant.                                                *)

IInv ==
    /\ Types /\ SpanInv /\ MessageInv /\ DrainInv /\ AccountInv /\ StreamInv /\ MetricInv

LEMMA InitInv ==
    ASSUME TracingAssumption, Init
    PROVE  IInv
<1>1. Types /\ SpanInv
  BY Initially
<1>2. /\ emitted = << >> /\ ready = << >> /\ queue = << >> /\ batch = << >> /\ stored = << >>
      /\ persister = "waiting" /\ stopping = FALSE /\ lost = {} /\ dropped = {}
      /\ stream = "idle" /\ waiting = << >> /\ shown = << >>
      /\ byKind = << >> /\ byName = << >> /\ counted = Zero
  BY DEF Init
<1>3. /\ Len(<< >>) = 0 /\ DOMAIN << >> = {} /\ ToSet(<< >>) = {}
  BY DEF ToSet
<1>4. Deliveries = {} /\ Coming = {}
  BY <1>2, <1>3 DEF Deliveries, Coming
<1>5. MessageInv
  BY <1>2, <1>3 DEF MessageInv, LoopMsg, TracingAssumption
<1>6. DrainInv
  BY <1>2 DEF DrainInv
<1>7. Kept = << >>
  BY <1>2 DEF Kept
<1>8. AccountInv
  BY <1>2, <1>3, <1>4, <1>7 DEF AccountInv, Ordered
<1>9. StreamInv
  BY <1>2 DEF StreamInv
<1>10. MetricInv
  <2>1. Counters(<< >>)
    BY <1>3, FS_EmptySet DEF Counters
  <2>2. Cardinality(DOMAIN byName) = 0 /\ MaxNames \in Nat
    BY <1>2, <1>3, FS_EmptySet DEF TracingAssumption
  <2>3. Zero \in [Phases -> Nat]
    BY DEF Zero
  <2>4. ASSUME NEW ph \in Phases PROVE Total(<< >>, ph) = 0 /\ Zero[ph] = 0
    <3>1. PICK f : /\ Sums(f, [k \in DOMAIN << >> |-> << >>[k][ph]], DOMAIN << >>)
                   /\ Total(<< >>, ph) = f[DOMAIN << >>]
      BY <2>1, TotalFacts
    <3>2. f[{}] = 0 /\ DOMAIN << >> = {}
      BY <1>3, <3>1 DEF Sums, Adds
    <3>3. QED BY <3>1, <3>2 DEF Zero
  <2>5. QED BY <1>2, <1>3, <2>1, <2>2, <2>3, <2>4 DEF MetricInv
<1>11. QED BY <1>1, <1>5, <1>6, <1>8, <1>9, <1>10 DEF IInv

LEMMA StepInv ==
    ASSUME TracingAssumption, IInv, [Next]_vars
    PROVE  IInv'
<1> USE DEF IInv
\* A step of a run.
<1>1. ASSUME NEW t \in Traces, OpenSpan(t) \/ CloseSpan(t) PROVE IInv'
  <2>1. /\ SpanInv' /\ spans' \in Nat /\ stack' \in [Traces -> Seq(Spans)]
        /\ ended' \subseteq Traces /\ \E e \in Events : Emits(e)
    BY <1>1, OpenStep, CloseStep DEF TracingAssumption
  <2>2. PICK e \in Events : Emits(e)
    BY <2>1
  <2>3. /\ PipeTypes' /\ MessageInv' /\ DrainInv'
        /\ Kept' = Kept /\ UNCHANGED <<lost, dropped>>
        /\ More(0, [to |-> "subscribers", event |-> e])
    BY <2>2, EmitStep
  <2>4. AccountInv'
    BY <2>2, <2>3, EmitAccount
  <2>5. StreamTypes' /\ StreamInv' /\ sealed' \in 0 .. Len(emitted')
    BY <2>2, EmitStream
  <2>6. Types'
    BY <2>1, <2>2, <2>3, <2>5, EmitFacts DEF Types, StreamTypes
  <2>7. MetricInv'
    BY <2>2 DEF Emits, Emit, metricVars, MetricInv, Counters
  <2>8. QED BY <2>1, <2>3, <2>4, <2>5, <2>6, <2>7
\* A step of the persister, which leaves the runs and the streams alone.
<1>2. ASSUME PipeTypes', MessageInv', DrainInv', Passes \/ Loses \/ Arrives,
             UNCHANGED <<runVars, streamVars>>, sealed' \in 0 .. Len(emitted), MetricInv'
      PROVE  IInv'
  <2>1. AccountInv'
    BY <1>2, PassesAccount, LosesAccount, ArrivesAccount
  <2>2. Types'
    BY <1>2 DEF Types, runVars, streamVars
  <2>3. SpanInv'
    BY <1>2 DEF SpanInv, Distinct, runVars
  <2>4. StreamInv'
    <3>1. Mine(emitted)' = Mine(emitted)
      BY <1>2 DEF Mine, runVars, streamVars
    <3>2. QED BY <1>2, <3>1 DEF StreamInv, Shows, runVars, streamVars
  <2>5. QED BY <1>2, <2>1, <2>2, <2>3, <2>4
<1>3. sealed \in 0 .. Len(emitted) /\ Len(emitted) \in 0 .. Len(emitted)
  BY SeqFacts DEF Types
<1>4. ASSUME UNCHANGED metricVars PROVE MetricInv'
  BY <1>4 DEF MetricInv, Counters, metricVars
<1>5. CASE Deliver
  <2>1. MetricInv'
    <3>1. ready[1].event \in Events /\ Head(ready) = ready[1]
      BY <1>5, HeadFacts DEF Deliver, Take, Messages
    <3>2. QED BY <1>5, <3>1, CountStep DEF Deliver
  <2>2. UNCHANGED <<runVars, streamVars>> /\ sealed' \in 0 .. Len(emitted)
    BY <1>3, <1>5 DEF Deliver, stopVars
  <2>3. QED BY <1>2, <1>5, <2>1, <2>2, DeliverStep
<1>6. CASE FlushSome
  BY <1>2, <1>3, <1>4, <1>6, FlushStep DEF FlushSome, stopVars
<1>7. CASE Resume
  BY <1>2, <1>3, <1>4, <1>7, ResumeStep DEF Resume, stopVars
<1>8. CASE Drain
  BY <1>2, <1>3, <1>4, <1>8, DrainStep DEF Drain, stopVars
<1>9. CASE Interval
  BY <1>2, <1>3, <1>4, <1>9, IntervalStep DEF Interval, stopVars
<1>10. CASE InsertEnds
  BY <1>2, <1>3, <1>4, <1>10, InsertStep DEF InsertEnds, stopVars
<1>11. CASE DrainEnds
  BY <1>2, <1>3, <1>4, <1>11, DrainEndStep DEF DrainEnds, stopVars
<1>12. CASE Stop
  BY <1>2, <1>3, <1>4, <1>12, StopStep DEF Stop
<1>13. CASE StopTimesOut
  BY <1>2, <1>3, <1>4, <1>13, TimeoutStep DEF StopTimesOut, stopVars
\* A step of the stream.
<1>14. ASSUME StreamTypes', StreamInv', UNCHANGED <<runVars, ready, persistVars, stopVars, metricVars>>
       PROVE  IInv'
  <2>1. Types'
    BY <1>14 DEF Types, PipeTypes, StreamTypes, runVars, persistVars, stopVars
  <2>2. SpanInv'
    BY <1>14 DEF SpanInv, Distinct, runVars
  <2>3. MessageInv'
    BY <1>14 DEF MessageInv, LoopMsg, persistVars, stopVars
  <2>4. DrainInv'
    BY <1>14 DEF DrainInv, Deliveries, Coming, Sealed, runVars, persistVars, stopVars
  <2>5. AccountInv'
    BY <1>14 DEF AccountInv, Deliveries, Coming, Kept, runVars, persistVars
  <2>6. QED BY <1>4, <1>14, <2>1, <2>2, <2>3, <2>4, <2>5
<1>15. CASE Subscribe \/ Disconnect
  BY <1>14, <1>15, SubscribeStep DEF Subscribe, Disconnect
<1>16. CASE Show
  BY <1>14, <1>16, ShowStep DEF Show
<1>17. CASE UNCHANGED vars
  <2>1. StreamTypes' /\ StreamInv'
    <3>1. Mine(emitted)' = Mine(emitted)
      BY <1>17 DEF Mine, vars, runVars, streamVars
    <3>2. QED BY <1>17, <3>1 DEF Types, StreamTypes, StreamInv, Shows, vars, runVars, streamVars
  <2>2. UNCHANGED <<runVars, ready, persistVars, stopVars, metricVars>>
    BY <1>17 DEF vars
  <2>3. QED BY <1>14, <2>1, <2>2
<1>18. QED
  BY <1>1, <1>5, <1>6, <1>7, <1>8, <1>9, <1>10, <1>11, <1>12, <1>13, <1>15, <1>16, <1>17
  DEF Next, ReadyStep, PersisterStep

\* Every reachable state satisfies the inductive invariant.
THEOREM Invariant == Spec => []IInv
<1>1. TracingAssumption
  BY TracingAssumption
<1>2. Init => IInv
  BY <1>1, InitInv
<1>3. IInv /\ [Next]_vars => IInv'
  BY <1>1, StepInv
<1>4. QED BY <1>2, <1>3, PTL DEF Spec

-----------------------------------------------------------------------------
(* What follows for the checked properties.                                *)

LEMMA TypesImplied == IInv => TypeOK
<1> SUFFICES ASSUME IInv PROVE TypeOK
  OBVIOUS
<1> USE DEF IInv
<1>1. \A t \in Traces : stack[t] # << >> =>
         /\ t \notin ended /\ Head(stack[t]).name = Root
         /\ \A i \in 2 .. Len(stack[t]) : stack[t][i].name \in Names
  <2>1. \A t \in Traces : stack[t] # << >> => Head(stack[t]) = stack[t][1]
    OBVIOUS
  <2>2. QED BY <2>1 DEF SpanInv
<1>2. persister \in {"woken", "returned"} <=> \E i \in DOMAIN ready : ready[i].to = "loop"
  BY DEF MessageInv, LoopMsg
<1>3. \A m \in CounterMaps : \A k \in DOMAIN m : m[k] \in [Phases -> Nat]
  BY DEF CounterMaps, MetricInv, Counters
<1>4. QED BY <1>1, <1>2, <1>3 DEF TypeOK, Types, PipeTypes, MessageInv

\* The type invariant, with the messages that are pending in each state of the
\* persister.
THEOREM TypeCorrect == Spec => []TypeOK
BY Invariant, TypesImplied, PTL

LEMMA OrderedByPlace ==
    ASSUME Types, SpanInv, NEW s, Ordered(emitted, s)
    PROVE  InOrder(s)
BY BeforeIsByPlace DEF Ordered, InOrder

LEMMA AccountImplied == IInv => EventsAccounted
<1> SUFFICES ASSUME IInv PROVE EventsAccounted
  OBVIOUS
<1> USE DEF IInv
<1>1. InOrder(Kept)
  BY OrderedByPlace DEF AccountInv
<1>2. \A i, j \in Deliveries : i < j => Place(ready[i].event) < Place(ready[j].event)
  BY BeforeIsByPlace DEF AccountInv
<1>3. \A i \in DOMAIN Kept, e \in Coming : Place(Kept[i]) < Place(e)
  BY BeforeIsByPlace DEF AccountInv, ToSet
<1>4. QED BY <1>1, <1>2, <1>3 DEF EventsAccounted, AccountInv, MessageInv

\* Between emission and the table no event is doubled, overtaken or lost
\* without trace, whatever inserts fail and however small the queue is
\* (Tracer.emit, TracePersister.__call__, _flush_once and _loop).
THEOREM EventsAlwaysAccounted == Spec => []EventsAccounted
BY Invariant, AccountImplied, PTL

LEMMA DrainImplied == IInv => DrainStoresAll
<1> SUFFICES ASSUME IInv, persister = "stopped", NEW i \in 1 .. sealed
             PROVE  emitted[i] \in ToSet(stored) \cup lost \cup dropped
  BY DEF DrainStoresAll
<1> USE DEF IInv
<1>1. i \in DOMAIN emitted
  <2>1. DOMAIN emitted = 1 .. Len(emitted) /\ Len(emitted) \in Nat /\ sealed \in 0 .. Len(emitted)
    BY SeqFacts DEF Types
  <2>2. QED BY <2>1
<1>2. emitted[i] \in ToSet(stored) \cup ToSet(batch) \cup ToSet(queue) \cup Coming \cup lost \cup dropped
  <2>1. emitted[i] \in ToSet(emitted)
    BY <1>1 DEF ToSet
  <2>2. QED BY <2>1, KeptFacts DEF AccountInv
<1>3. emitted[i] \notin Coming \cup ToSet(queue)
  BY DEF DrainInv, Sealed
<1>4. batch = << >> /\ ToSet(batch) = {}
  BY DEF MessageInv, ToSet
<1>5. QED BY <1>2, <1>3, <1>4

\* What was emitted before shutdown began is in the table when the persister
\* has stopped, unless its insert failed or the queue was full
\* (TracePersister.stop): the drain comes after every earlier delivery.
THEOREM DrainAlwaysStoresAll == Spec => []DrainStoresAll
BY Invariant, DrainImplied, PTL

LEMMA StreamImplied == IInv => StreamSeesAll
<1> SUFFICES ASSUME IInv PROVE StreamSeesAll
  OBVIOUS
<1>1. \A s : Shows(s) => ToSet(s) = Mine(emitted) /\ InOrder(s)
  BY OrderedByPlace DEF IInv, Shows
<1>2. QED BY <1>1 DEF IInv, StreamInv, StreamSeesAll, Mine

\* A stream shows every event of its trace since it subscribed, in order, and
\* one that closed by itself has shown all: nothing follows the end of a run
\* (the route /traces/{trace_id}/stream and trace_span).
THEOREM StreamAlwaysSeesAll == Spec => []StreamSeesAll
BY Invariant, StreamImplied, PTL

LEMMA MetricsImplied == IInv => MetricsConsistent
<1> SUFFICES ASSUME IInv PROVE MetricsConsistent
  OBVIOUS
<1>1. Cardinality(DOMAIN byName) \in Nat /\ MaxNames \in Nat
  BY TracingAssumption, FS_CardinalityType DEF IInv, MetricInv, Counters, TracingAssumption
<1>2. Cardinality(DOMAIN byName) <= MaxNames + 1
  BY <1>1 DEF IInv, MetricInv
<1>3. QED BY <1>2 DEF IInv, MetricInv, MetricsConsistent

\* The counters by kind and by name add up to the events delivered, in every
\* phase, and the names stay bounded (MetricsCollector.__call__).
THEOREM MetricsAlwaysConsistent == Spec => []MetricsConsistent
BY Invariant, MetricsImplied, PTL
-----------------------------------------------------------------------------
(* The way to the end of a shutdown.  That it is gone is TLC's; that       *)
(* nothing that runs beside it leads back, or leaves it waiting for a      *)
(* message that is not there, is safety.                                   *)

AwaitsTurn == persister \in {"woken", "returned", "exited"}
\* What is still to come of the persister, from the loop's last flush to the
\* final one.
LeftPhases ==
    CASE persister = "waiting" -> 6
      [] persister = "woken" -> 5
      [] persister = "inserting" -> 4
      [] persister = "returned" -> 3
      [] persister = "exited" -> 2
      [] persister = "draining" -> 1
      [] persister \in {"stopped", "timedout"} -> 0
\* The place in the ready queue of the message it is waiting for.
Awaited == IF persister = "exited" THEN "shutdown" ELSE "loop"
IsTurn(n) == n \in DOMAIN ready /\ ready[n].to = Awaited
Turn == CHOOSE n \in DOMAIN ready : IsTurn(n)

ShutdownGoesOn == stopping => persister # "waiting" /\ (AwaitsTurn => IsTurn(Turn))

\* One phase less; or the same phase, and its turn in the event loop is no
\* further, and nearer when the loop has turned.
Nearer ==
    \/ LeftPhases' < LeftPhases
    \/ /\ LeftPhases' = LeftPhases /\ persister' = persister
       /\ AwaitsTurn => /\ Turn' <= Turn
                        /\ Len(ready') < Len(ready) => Turn' < Turn

\* A loop that has once found the stop flag does not sleep again.
Awake == stopping => persister # "waiting"

LEMMA TurnFact == IInv /\ AwaitsTurn => IsTurn(Turn)
BY DEF IInv, MessageInv, LoopMsg, AwaitsTurn, Awaited, IsTurn, Turn

\* What is taken from the head of the ready queue brings the turn nearer,
\* what is appended leaves it where it is.
LEMMA TurnMoves ==
    ASSUME IInv, IInv', persister' = persister,
           NEW d \in {0, 1}, Left(d), d = 1 => ready[1].to = "subscribers"
    PROVE  Nearer
<1> USE DEF IInv
<1>1. LeftPhases' = LeftPhases
    BY DEF LeftPhases
<1>2. ASSUME AwaitsTurn
      PROVE  Turn' <= Turn /\ (Len(ready') < Len(ready) => Turn' < Turn)
    <2>1. IsTurn(Turn) /\ Awaited' = Awaited /\ Awaited \in {"loop", "shutdown"}
        BY <1>2, TurnFact DEF Awaited
    <2>2. Turn \in 1 .. Len(ready) /\ Len(ready) \in Nat /\ Len(ready') \in Nat
        BY <2>1, LeftFacts DEF IsTurn
    <2>3. Turn > d
        BY <2>1, <2>2 DEF IsTurn
    <2>4. PICK n \in Nat : n = Turn - d
        BY <2>2, <2>3
    <2>5. n \in DOMAIN ready' /\ ready'[n].to = Awaited'
        BY <2>1, <2>3, <2>4, LeftFacts DEF IsTurn
    <2>6. Turn' = n
        <3>1. \A i, j \in DOMAIN ready' :
                ready'[i].to = ready'[j].to /\ ready'[i].to # "subscribers" => i = j
            BY DEF MessageInv
        <3>2. \A i \in DOMAIN ready' : ready'[i].to = Awaited' => i = n
            BY <2>1, <2>5, <3>1
        <3> QED
            BY <2>5, <3>2 DEF IsTurn, Turn
    <2>7. Len(ready') < Len(ready) => d = 1
        BY <2>2 DEF Left
    <2> QED
        BY <2>2, <2>4, <2>6, <2>7
<1> QED
    BY <1>1, <1>2 DEF Nearer

LEMMA StopNearer ==
    ASSUME IInv, IInv', Next, stopping, Awake
    PROVE  Nearer
<1> USE DEF IInv
<1>1. persister # "waiting"
    BY DEF Awake
<1>2. ASSUME UNCHANGED ready, persister' = persister
      PROVE  Nearer
    BY <1>2, ReadySame, TurnMoves DEF Same
<1>3. ASSUME NEW t \in Traces, OpenSpan(t) \/ CloseSpan(t)
      PROVE  Nearer
    <2>1. PICK e \in Events : Emits(e)
        BY <1>3, OpenStep, CloseStep, TracingAssumption DEF TracingAssumption
    <2>2. persister' = persister
        BY <2>1 DEF Emits, Emit, persistVars
    <2>3. Left(0)
        BY <2>1, EmitStep DEF More
    <2> QED
        BY <2>2, <2>3, TurnMoves
<1>4. CASE Deliver
    <2>1. /\ ready # << >> /\ ready' = Tail(ready) /\ persister' = persister
          /\ ready[1].to = "subscribers"
        BY <1>4, HeadFacts DEF Deliver, Take, Taken
    <2>2. Left(1)
        BY <2>1, ReadyTail DEF Same
    <2> QED
        BY <2>1, <2>2, TurnMoves
<1>5. CASE FlushSome
    <2>1. persister = "woken" /\ persister' \in {"inserting", "exited"}
        BY <1>5 DEF FlushSome, LoopOn, AfterFlush
    <2> QED
        BY <2>1 DEF Nearer, LeftPhases
<1>6. CASE Resume
    <2>1. persister = "returned" /\ persister' = "exited"
        BY <1>6 DEF Resume, LoopOn, AfterFlush
    <2> QED
        BY <2>1 DEF Nearer, LeftPhases
<1>7. CASE Drain
    <2>1. persister = "exited"
        <3>1. 1 \in DOMAIN ready /\ ready[1].to = "shutdown"
            BY <1>7, HeadFacts DEF Drain, Take
        <3> QED
            BY <3>1 DEF MessageInv, LoopMsg
    <2>2. persister' \in {"draining", "stopped"}
        BY <1>7 DEF Drain
    <2> QED
        BY <2>1, <2>2 DEF Nearer, LeftPhases
<1>8. CASE InsertEnds \/ StopTimesOut
    <2>1. persister = "inserting" /\ persister' \in {"returned", "timedout"}
        BY <1>8 DEF InsertEnds, StopTimesOut, Inserted
    <2> QED
        BY <2>1 DEF Nearer, LeftPhases
<1>9. CASE DrainEnds
    <2>1. persister = "draining" /\ persister' = "stopped"
        BY <1>9 DEF DrainEnds, Inserted
    <2> QED
        BY <2>1 DEF Nearer, LeftPhases
<1>10. CASE Interval \/ Stop
    BY <1>1, <1>10 DEF Interval, Stop
<1>11. CASE Subscribe \/ Show \/ Disconnect
    BY <1>2, <1>11 DEF Subscribe, Show, Disconnect, persistVars
<1> QED
    BY <1>3, <1>4, <1>5, <1>6, <1>7, <1>8, <1>9, <1>10, <1>11
    DEF Next, ReadyStep, PersisterStep

LEMMA AwakeStays ==
    ASSUME IInv, Awake, [Next]_vars
    PROVE  Awake'
<1>1. CASE stopping
    <2>1. stopping'
        BY <1>1 DEF Next, ReadyStep, PersisterStep, OpenSpan, CloseSpan, Emit,
                    Deliver, FlushSome, Resume, Drain, Interval, InsertEnds,
                    DrainEnds, Stop, StopTimesOut, Subscribe, Show, Disconnect,
                    vars, stopVars
    <2>2. persister' = persister \/ persister' # "waiting"
        BY <1>1 DEF Next, ReadyStep, PersisterStep, OpenSpan, CloseSpan, Emit,
                    Deliver, FlushSome, Resume, Drain, Interval, InsertEnds,
                    DrainEnds, Stop, StopTimesOut, Subscribe, Show, Disconnect,
                    vars, persistVars, LoopOn, AfterFlush, Inserted, Wake
    <2> QED
        BY <1>1, <2>1, <2>2 DEF Awake
<1>2. CASE ~stopping
    <2>1. CASE Stop
        BY <2>1 DEF Stop, Wake, Awake
    <2>2. CASE ~Stop
        BY <1>2, <2>2 DEF Next, ReadyStep, PersisterStep, OpenSpan, CloseSpan,
                    Emit, Deliver, FlushSome, Resume, Drain, Interval, InsertEnds,
                    DrainEnds, StopTimesOut, Subscribe, Show, Disconnect,
                    vars, stopVars, Awake
    <2> QED
        BY <2>1, <2>2
<1> QED
    BY <1>1, <1>2

\* A shutdown that has begun never waits for what does not come: the loop
\* does not sleep again, the message that resumes loop or shutdown is in the
\* ready queue, and no event, stream or flush leads back to an earlier phase
\* or before an earlier message (TracePersister.stop and _loop).  Together
\* with a loop that turns and inserts that end this is ShutdownEnds.
THEOREM ShutdownAlwaysNearer ==
    Spec => []ShutdownGoesOn /\ [][stopping => Nearer]_vars
<1>1. Init => Awake
    BY DEF Init, Awake
<1>2. IInv /\ Awake /\ [Next]_vars => Awake'
    BY AwakeStays
<1>3. IInv /\ Awake => ShutdownGoesOn
    BY TurnFact DEF Awake, ShutdownGoesOn
<1>4. IInv /\ IInv' /\ Awake /\ [Next]_vars => [stopping => Nearer]_vars
    BY StopNearer
<1> QED
    BY <1>1, <1>2, <1>3, <1>4, Invariant, PTL DEF Spec
=============================================================================
