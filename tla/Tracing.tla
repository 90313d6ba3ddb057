------------------------------- MODULE Tracing -------------------------------
(***************************************************************************)
(* What becomes of a trace event.  Runs open and close spans (trace_span); *)
(* each event goes at once to the queues of the streams that follow the    *)
(* trace (Tracer.emit), and by a task of its own to each global subscriber:*)
(* the metrics and the persister, which keeps a bounded queue, writes it in*)
(* batches and is drained when the process shuts down (lifespan).          *)
(*                                                                         *)
(* All of it runs on one event loop, which takes the tasks that are ready  *)
(* in the order they became ready: `ready` holds the deliveries and the    *)
(* wake-ups of the persister's loop.  That order is what makes the drain   *)
(* complete.                                                               *)
(***************************************************************************)
EXTENDS Integers, Sequences, FiniteSets, SequencesExt, FiniteSetsExt

CONSTANTS
    Traces,
    Followed,   \* the trace a stream is opened for
    Names,      \* names of the spans inside a run
    Root,       \* the name of a run's outermost span: orchestrator.run
    Other,      \* the bucket of the names beyond MaxNames
    MaxNames,   \* MetricsCollector.MAX_NAMES
    MaxQueue,   \* the persister's max_queue
    Batch,      \* the persister's flush_batch
    MaxSpans,   \* bound: spans of all runs
    MaxLost,    \* bound: an insert may fail until as many events are lost
    Early       \* bound: events before the last subscription

ASSUME TracingAssumption ==
    /\ Followed \in Traces /\ Root \notin Names /\ Other \notin Names \cup {Root}
    /\ {MaxNames, MaxQueue, Batch} \subseteq Nat \ {0}
    /\ MaxSpans \in Nat /\ {MaxLost, Early} \subseteq Nat

VARIABLES
    emitted,   \* history: the events in the order of emission
    spans,     \* the spans opened so far
    stack,     \* per trace: its open spans, the innermost last
    ended,     \* the traces whose run has ended
    ready,     \* the event loop's ready queue
    queue,     \* the persister's queue
    batch,     \* the events of the insert in progress
    persister, \* what the persister's loop, or its shutdown, does
    stopping,  \* shutdown has begun
    stored,    \* the rows of the traces table, in order of insertion
    lost,      \* history: events of failed inserts
    dropped,   \* history: events refused by the full queue
    sealed,    \* history: events emitted before shutdown began
    stream,    \* the SSE stream: idle, open or closed
    waiting,   \* its queue
    shown,     \* what it has sent
    since,     \* history: events emitted before it subscribed
    byKind,    \* the metrics: counters by kind and by name
    byName,
    counted    \* history: events counted

runVars     == <<emitted, spans, stack, ended>>
persistVars == <<queue, batch, persister, stored, lost, dropped>>
stopVars    == <<stopping, sealed>>
streamVars  == <<stream, waiting, shown, since>>
metricVars  == <<byKind, byName, counted>>
vars == <<runVars, ready, persistVars, stopVars, streamVars, metricVars>>

-----------------------------------------------------------------------------
Kinds  == {"system", "agent"}
Phases == {"start", "end", "error"}
Kind(name) == IF name = Root THEN "system" ELSE "agent"

Zero == [ph \in Phases |-> 0]
\* A counter of a map that is created when it is first needed.
Count(map, key, phase) ==
    [k \in DOMAIN map \cup {key} |->
        LET c == IF k \in DOMAIN map THEN map[k] ELSE Zero
        IN  IF k = key THEN [c EXCEPT ![phase] = @ + 1] ELSE c]

\* The key a name is counted under; names are never evicted.
Bucket(name) ==
    IF name \in DOMAIN byName \/ Cardinality(DOMAIN byName) < MaxNames
    THEN name ELSE Other

Init ==
    /\ emitted = << >> /\ spans = 0
    /\ stack = [t \in Traces |-> << >>] /\ ended = {}
    /\ ready = << >>
    /\ queue = << >> /\ batch = << >> /\ persister = "waiting"
    /\ stored = << >> /\ lost = {} /\ dropped = {}
    /\ stopping = FALSE /\ sealed = 0
    /\ stream = "idle" /\ waiting = << >> /\ shown = << >> /\ since = 0
    /\ byKind = << >> /\ byName = << >> /\ counted = Zero

-----------------------------------------------------------------------------
(* Runs and their spans.                                                   *)

\* Tracer.emit: the streams get the event now, the subscribers by tasks that
\* run one after the other, as neither awaits anything.
Emit(e) ==
    /\ emitted' = Append(emitted, e)
    /\ ready' = Append(ready, [to |-> "subscribers", event |-> e])
    /\ waiting' = IF stream = "open" /\ e.trace = Followed
                  THEN Append(waiting, e) ELSE waiting
    /\ UNCHANGED <<persistVars, stopVars, stream, shown, since, metricVars>>

Event(t, id, name, phase) ==
    [trace |-> t, span |-> id, name |-> name, phase |-> phase]

\* Entering trace_span.
OpenSpan(t) ==
    /\ t \notin ended /\ spans < MaxSpans
    /\ \E name \in IF stack[t] = << >> THEN {Root} ELSE Names :
         /\ stack' = [stack EXCEPT ![t] =
                         Append(@, [id |-> spans + 1, name |-> name])]
         /\ Emit(Event(t, spans + 1, name, "start"))
    /\ spans' = spans + 1
    /\ UNCHANGED ended

\* Leaving it, normally or by an exception, which the code around the span
\* may handle.  A cancelled run emits nothing more: it need not take this step.
CloseSpan(t) ==
    /\ stack[t] # << >>
    /\ stack' = [stack EXCEPT ![t] = Front(@)]
    /\ ended' = IF Len(stack[t]) = 1 THEN ended \cup {t} ELSE ended
    /\ \E phase \in {"end", "error"} :
         Emit(Event(t, Last(stack[t]).id, Last(stack[t]).name, phase))
    /\ UNCHANGED spans

-----------------------------------------------------------------------------
(* The event loop's ready queue.                                           *)

Taken(to) == ready # << >> /\ Head(ready).to = to
Take(to)  == Taken(to) /\ ready' = Tail(ready)

\* The loop goes on, or has ended, which wakes the shutdown.
LoopOn(next) ==
    /\ persister' = next
    /\ ready' = IF next = "exited"
                THEN Append(Tail(ready), [to |-> "shutdown"])
                ELSE Tail(ready)
\* Mutant: the loop never looks at its stop flag again.
SleepAgain == "waiting"
AfterFlush == IF stopping THEN "exited" ELSE "waiting"

\* Mutant: names beyond the cap are not counted by name.
CountKnown(e) ==
    /\ byKind' = Count(byKind, Kind(e.name), e.phase)
    /\ byName' = IF Bucket(e.name) = e.name THEN Count(byName, e.name, e.phase)
                ELSE byName
    /\ counted' = [counted EXCEPT ![e.phase] = @ + 1]

\* MetricsCollector.__call__.
CountEvent(e) ==
    /\ byKind' = Count(byKind, Kind(e.name), e.phase)
    /\ byName' = Count(byName, Bucket(e.name), e.phase)
    /\ counted' = [counted EXCEPT ![e.phase] = @ + 1]

\* Mutant: the oldest event makes room for the newest.
QueueNewest(e) ==
    /\ queue' = Append(IF Len(queue) < MaxQueue THEN queue ELSE Tail(queue), e)
    /\ UNCHANGED dropped

\* TracePersister.__call__.
QueueEvent(e) ==
    IF Len(queue) < MaxQueue
    THEN queue' = Append(queue, e) /\ UNCHANGED dropped
    ELSE dropped' = dropped \cup {e} /\ UNCHANGED queue

\* The tasks of _safe_invoke.
Deliver ==
    /\ Take("subscribers")
    /\ CountEvent(Head(ready).event) /\ QueueEvent(Head(ready).event)
    /\ UNCHANGED <<runVars, batch, persister, stored, lost, stopVars,
                   streamVars>>

\* Take n events for an insert.
TakeBatch(n) ==
    /\ queue # << >>
    /\ batch' = SubSeq(queue, 1, n)
    /\ queue' = SubSeq(queue, n + 1, Len(queue))

\* The loop runs after its interval, or because of shutdown.
FlushSome ==
    /\ Taken("loop") /\ persister = "woken"
    /\ \/ TakeBatch(Min({Len(queue), Batch})) /\ LoopOn("inserting")
       \/ queue = << >> /\ LoopOn(AfterFlush) /\ UNCHANGED <<queue, batch>>
    /\ UNCHANGED <<runVars, stored, lost, dropped, stopVars, streamVars,
                   metricVars>>

Wake == ready' = Append(ready, [to |-> "loop"]) /\ persister' = "woken"

Interval ==
    /\ persister = "waiting" /\ Wake
    /\ UNCHANGED <<runVars, queue, batch, stored, lost, dropped, stopVars,
                   streamVars, metricVars>>

\* The insert of a batch ends: the rows are there, or the batch is lost with
\* a warning.
Inserted(next) ==
    /\ \/ stored' = stored \o batch /\ UNCHANGED lost
       \/ /\ Cardinality(lost) < MaxLost
          /\ lost' = lost \cup ToSet(batch) /\ UNCHANGED stored
    /\ batch' = << >>
    /\ persister' = next

InsertEnds ==
    /\ persister = "inserting" /\ Inserted("returned")
    /\ ready' = Append(ready, [to |-> "loop"])
    /\ UNCHANGED <<runVars, queue, dropped, stopVars, streamVars, metricVars>>

\* The loop is resumed, and ends or waits for its interval.
Resume ==
    /\ Taken("loop") /\ persister = "returned" /\ LoopOn(AfterFlush)
    /\ UNCHANGED <<runVars, queue, batch, stored, lost, dropped, stopVars,
                   streamVars, metricVars>>

-----------------------------------------------------------------------------
(* Shutdown.                                                               *)

Stop ==
    /\ ~stopping /\ stopping' = TRUE
    /\ sealed' = Len(emitted)
    /\ IF persister = "waiting" THEN Wake ELSE UNCHANGED <<ready, persister>>
    /\ UNCHANGED <<runVars, queue, batch, stored, lost, dropped, streamVars,
                   metricVars>>

\* Mutant: the final flush takes one batch like any other.
DrainBatch ==
    /\ Take("shutdown")
    /\ \/ TakeBatch(Min({Len(queue), Batch})) /\ persister' = "draining"
       \/ queue = << >> /\ persister' = "stopped" /\ UNCHANGED <<queue, batch>>
    /\ UNCHANGED <<runVars, stored, lost, dropped, stopVars, streamVars,
                   metricVars>>

\* Once the loop is gone, everything that is queued.
Drain ==
    /\ Take("shutdown")
    /\ \/ TakeBatch(Len(queue)) /\ persister' = "draining"
       \/ queue = << >> /\ persister' = "stopped" /\ UNCHANGED <<queue, batch>>
    /\ UNCHANGED <<runVars, stored, lost, dropped, stopVars, streamVars,
                   metricVars>>

DrainEnds ==
    /\ persister = "draining" /\ Inserted("stopped")
    /\ UNCHANGED <<runVars, ready, queue, dropped, stopVars, streamVars,
                   metricVars>>

\* The wait for the loop times out: the insert is cancelled, whose commit may
\* or may not have got through, and the TimeoutError skips the final flush.
StopTimesOut ==
    /\ stopping /\ persister = "inserting"
    /\ Inserted("timedout")
    /\ UNCHANGED <<runVars, ready, queue, dropped, stopVars, streamVars,
                   metricVars>>

-----------------------------------------------------------------------------
(* GET /traces/{trace_id}/stream.                                         *)

Subscribe ==
    /\ stream = "idle" /\ stream' = "open" /\ Len(emitted) <= Early
    /\ since' = Len(emitted)
    /\ UNCHANGED <<runVars, ready, persistVars, stopVars, waiting, shown,
                   metricVars>>

\* Mutant: the end of any span of the run closes the stream.
ShowToFirstEnd ==
    /\ stream = "open" /\ waiting # << >>
    /\ shown' = Append(shown, Head(waiting))
    /\ waiting' = Tail(waiting)
    /\ stream' = IF Head(waiting).phase = "end" THEN "closed" ELSE "open"
    /\ UNCHANGED <<runVars, ready, persistVars, stopVars, since, metricVars>>

\* The end of the run closes the stream; an event that ended in an error, or
\* that nobody emits any more, does not.
Show ==
    /\ stream = "open" /\ waiting # << >>
    /\ shown' = Append(shown, Head(waiting))
    /\ waiting' = Tail(waiting)
    /\ stream' = IF Head(waiting).name = Root /\ Head(waiting).phase = "end"
                 THEN "closed" ELSE "open"
    /\ UNCHANGED <<runVars, ready, persistVars, stopVars, since, metricVars>>

Disconnect ==
    /\ stream = "open" /\ stream' = "idle"
    /\ waiting' = << >> /\ shown' = << >> /\ since' = 0
    /\ UNCHANGED <<runVars, ready, persistVars, stopVars, metricVars>>

ReadyStep == Deliver \/ FlushSome \/ Resume \/ Drain
PersisterStep == Interval \/ InsertEnds \/ DrainEnds

Next == \/ \E t \in Traces : OpenSpan(t) \/ CloseSpan(t)
        \/ ReadyStep \/ PersisterStep \/ Stop \/ StopTimesOut
        \/ Subscribe \/ Show \/ Disconnect

Spec == Init /\ [][Next]_vars

\* The event loop turns, and an insert ends, one way or the other.
FairSpec == Spec /\ WF_vars(ReadyStep \/ PersisterStep)

-----------------------------------------------------------------------------
(* Properties.                                                             *)

CounterMaps == {byKind, byName}

TypeOK ==
    /\ \A t \in Traces : stack[t] # << >> =>
         /\ t \notin ended /\ Head(stack[t]).name = Root
         /\ \A i \in 2 .. Len(stack[t]) : stack[t][i].name \in Names
    /\ persister \in {"waiting", "woken", "inserting", "returned", "exited",
                      "draining", "stopped", "timedout"}
    /\ persister \in {"woken", "returned"} <=> \E i \in DOMAIN ready : ready[i].to = "loop"
    /\ persister \in {"inserting", "draining"} <=> batch # << >>
    /\ persister \in {"exited", "draining", "stopped", "timedout"} => stopping
    /\ Len(queue) <= MaxQueue
    /\ stream \in {"idle", "open", "closed"}
    /\ \A m \in CounterMaps : \A k \in DOMAIN m : m[k] \in [Phases -> Nat]

\* The place of an event in the order of emission.
Place(e) == CHOOSE n \in DOMAIN emitted : emitted[n] = e
InOrder(s) == \A i, j \in DOMAIN s : i < j => Place(s[i]) < Place(s[j])

Deliveries == {i \in DOMAIN ready : ready[i].to = "subscribers"}
Coming == {ready[i].event : i \in Deliveries}
Kept   == stored \o batch \o queue

\* Between emission and the table no event is doubled, overtaken or lost
\* without trace: whatever fails, each event is in the table, in the
\* persister or on its way to it, once and in the order of emission, except
\* those of failed inserts and of a full queue, which keeps its bound.
EventsAccounted ==
    /\ InOrder(Kept)
    /\ \A i, j \in Deliveries : i < j => Place(ready[i].event) < Place(ready[j].event)
    /\ \A i \in DOMAIN Kept, e \in Coming : Place(Kept[i]) < Place(e)
    /\ ToSet(emitted) = ToSet(Kept) \cup Coming \cup lost \cup dropped
    /\ (lost \cup dropped) \cap (ToSet(Kept) \cup Coming) = {} /\ lost \cap dropped = {}
    /\ Len(queue) <= MaxQueue

\* "On shutdown the buffer is drained": an event emitted before shutdown
\* began is in the table when the persister has stopped, also when its
\* delivery was still under way and when a flush was in progress, unless its
\* insert failed or the queue was full.
DrainStoresAll ==
    persister = "stopped" =>
        \A i \in 1 .. sealed :
            emitted[i] \in ToSet(stored) \cup lost \cup dropped

\* An open stream shows every event of its trace since it subscribed, in
\* order, and a stream that closed by itself showed all up to the run's end.
StreamSeesAll ==
    LET mine == {emitted[n] : n \in {m \in since + 1 .. Len(emitted) :
                                        emitted[m].trace = Followed}}
        IsShown(s) == ToSet(s) = mine /\ InOrder(s)
    IN  /\ stream = "open" => IsShown(shown \o waiting)
        /\ stream = "closed" => IsShown(shown)

Total(map, phase) == MapThenSumSet(LAMBDA k : map[k][phase], DOMAIN map)

\* The two views of the metrics agree with each other and with the events
\* delivered, however names are bucketed, and the names
\* stay bounded.
MetricsConsistent ==
    /\ \A ph \in Phases : Total(byKind, ph) = counted[ph]
                          /\ Total(byName, ph) = counted[ph]
    /\ Cardinality(DOMAIN byName) <= MaxNames + 1

\* A shutdown that has begun ends, whatever the persister was doing.
ShutdownEnds == stopping ~> persister \in {"stopped", "timedout"}
=============================================================================
