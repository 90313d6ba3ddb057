---------------------------- MODULE MemoryStore -----------------------------
(***************************************************************************)
(* Requests that write long-term memory, side by side.                     *)
(*                                                                         *)
(* A request owns one database session, that is one transaction, for its   *)
(* whole life (get_db_session): a chat run opens its episode in it, later  *)
(* remembers what its memory agent proposes and finishes the episode;      *)
(* POST /memory remembers one content; DELETE /memory archives one row.    *)
(* The vector index has no transactions: a point is written and deleted at *)
(* once, whatever becomes of the row.                                      *)
(*                                                                         *)
(* A chat run can lose its client (Disconnect): sse-starlette cancels the  *)
(* stream and returns, so nothing is raised into get_db_session, which     *)
(* commits what the run had flushed.                                       *)
(*                                                                         *)
(* Of PostgreSQL (READ COMMITTED) the model keeps what these statements    *)
(* meet: a SELECT sees committed rows and the ones of its own transaction; *)
(* a row inserted or updated is locked until its transaction ends, and an  *)
(* INSERT of the same key waits for that lock; then it succeeds, or breaks *)
(* the unique constraint; one transaction of a deadlock is aborted.        *)
(* Of SQLAlchemy: a failed flush rolls the transaction back and leaves the *)
(* session unusable until a rollback that only get_db_session makes.       *)
(***************************************************************************)
EXTENDS Integers, Sequences, FiniteSets

CONSTANTS
    Requests,   \* requests in flight
    Users,
    Demo,       \* the user "demo", to whom POST /memory belongs
    Contents,   \* normalised contents, one content_sha each
    Nobody,     \* no user, no request
    MaxWrites   \* bound: memories one chat run proposes

ASSUME MemoryAssumption ==
    /\ Nobody \notin Requests \cup Users
    /\ Demo \in Users
    /\ MaxWrites \in Nat \ {0}
    /\ IsFiniteSet(Requests)

\* The unique key of the memories table.
Keys == Users \X Contents

VARIABLES
    kind,      \* what each request is: chat, post or delete
    user,      \* for which user
    todo,      \* the contents it still has to remember or archive
    pc,        \* the await it has reached
    session,   \* its SQLAlchemy session: usable or broken
    episode,   \* the episode row its transaction wrote
    gotVector, \* vector_id of the memory it is about to insert is set
    told,      \* history: memories it announced as created
    outcome,   \* how its transaction ended
    gone,      \* history: the chat runs whose client left
    author,    \* per key: the request that inserted the row, or Nobody
    committed, \* the keys whose row is committed
    archived,  \* the committed rows with is_archived
    indexed,   \* the rows with a vector_id
    lock,      \* per key: the transaction that wrote the row last
    point,     \* per content: the user in the payload of its vector point
    dropped    \* history: the contents whose point an archive deleted

requestVars == <<kind, user, todo, pc, session, episode, gotVector, told,
                 outcome, gone>>
rowVars     == <<author, committed, archived, indexed, lock>>
pointVars   == <<point, dropped>>
vars == <<requestVars, rowVars, pointVars>>

-----------------------------------------------------------------------------
Key(t) == <<user[t], Head(todo[t])>>
Visible(t, k) == k \in committed \/ author[k] = t
Free(t, k) == lock[k] \in {Nobody, t}

At(t, s)   == pc[t] = s
Goto(t, s) == pc' = [pc EXCEPT ![t] = s]

\* Where a request goes when it is through with a content.
AfterContent(t) ==
    /\ todo' = [todo EXCEPT ![t] = Tail(@)]
    /\ Goto(t, IF Tail(todo[t]) # << >> THEN "select"
               ELSE IF kind[t] = "chat" THEN "finish" ELSE "commit")

Unlocked(t) == [k \in Keys |-> IF lock[k] = t THEN Nobody ELSE lock[k]]
\* The database forgets what the transaction inserted and locked.
Rollback(t) ==
    /\ episode' = [episode EXCEPT ![t] = "none"]
    /\ author' = [k \in Keys |-> IF author[k] = t THEN Nobody ELSE author[k]]
    /\ indexed' = {k \in indexed : author'[k] # Nobody}
    /\ lock' = Unlocked(t)
    /\ UNCHANGED <<committed, archived>>

End(t, how) ==
    /\ Goto(t, "ended")
    /\ outcome' = [outcome EXCEPT ![t] = how]

-----------------------------------------------------------------------------
Init ==
    /\ kind \in [Requests -> {"chat", "post", "delete"}]
    /\ user \in [Requests -> Users]
    /\ todo \in [Requests -> UNION {[1 .. n -> Contents] : n \in 0 .. MaxWrites}]
    /\ \A t \in Requests : kind[t] # "chat" => Len(todo[t]) = 1
    /\ \A t \in Requests : kind[t] = "post" => user[t] = Demo
    /\ pc = [t \in Requests |-> IF kind[t] = "chat" THEN "open" ELSE "select"]
    /\ session = [t \in Requests |-> "usable"]
    /\ episode = [t \in Requests |-> "none"]
    /\ gotVector = [t \in Requests |-> FALSE]
    /\ told = [t \in Requests |-> {}]
    /\ outcome = [t \in Requests |-> "none"]
    /\ gone = {}
    /\ author = [k \in Keys |-> Nobody]
    /\ committed = {} /\ archived = {} /\ indexed = {}
    /\ lock = [k \in Keys |-> Nobody]
    /\ point = [c \in Contents |-> Nobody]
    /\ dropped = {}

\* start_episode: the row is flushed, and seen by nobody else yet.
OpenEpisode(t) ==
    /\ At(t, "open")
    /\ episode' = [episode EXCEPT ![t] = "pending"]
    /\ Goto(t, "agents")
    /\ UNCHANGED <<kind, user, todo, session, gotVector, told, outcome,
                   gone, rowVars, pointVars>>

\* Mutant: the memory phase starts even when nothing was proposed.
AgentsAlwaysWrite(t) ==
    /\ At(t, "agents")
    /\ Goto(t, "select")
    /\ UNCHANGED <<kind, user, todo, session, episode, gotVector, told,
                   outcome, gone, rowVars, pointVars>>

\* The run reaches its memory phase.
AgentsFinish(t) ==
    /\ At(t, "agents")
    /\ Goto(t, IF todo[t] = << >> THEN "finish" ELSE "select")
    /\ UNCHANGED <<kind, user, todo, session, episode, gotVector, told,
                   outcome, gone, rowVars, pointVars>>

\* The planner failed or an agent raised: the request ends without it.
AgentsFail(t) ==
    /\ At(t, "agents")
    /\ Goto(t, "commit")
    /\ UNCHANGED <<kind, user, todo, session, episode, gotVector, told,
                   outcome, gone, rowVars, pointVars>>

\* The SELECT by (user_id, content_sha) before a write, by id before an
\* archive.
Select(t) ==
    /\ At(t, "select") /\ session[t] = "usable"
    /\ Goto(t, IF kind[t] = "delete"
               THEN IF Visible(t, Key(t)) THEN "drop" ELSE "commit"
               ELSE IF Visible(t, Key(t)) THEN "touch" ELSE "embed")
    /\ UNCHANGED <<kind, user, todo, session, episode, gotVector, told,
                   outcome, gone, rowVars, pointVars>>

\* In a broken session every statement raises; a chat run catches that and
\* goes on to the next memory.
SelectRaises(t) ==
    /\ At(t, "select") /\ session[t] = "broken"
    /\ AfterContent(t)
    /\ UNCHANGED <<kind, user, session, episode, gotVector, told, outcome,
                   gone, rowVars, pointVars>>

\* The row exists: its counters are updated.
Touch(t) ==
    /\ At(t, "touch") /\ Free(t, Key(t))
    /\ lock' = [lock EXCEPT ![Key(t)] = t]
    /\ AfterContent(t)
    /\ UNCHANGED <<kind, user, session, episode, gotVector, told, outcome,
                   gone, author, committed, archived, indexed, pointVars>>

\* The point of the content in hand, written for the request's user.
PointWritten(t) == [point EXCEPT ![Head(todo[t])] = user[t]]

\* Mutant: the vector_id is set whether or not the point was written.
EmbedUnchecked(t) ==
    /\ At(t, "embed")
    /\ \E applied \in BOOLEAN :
         /\ point' = IF applied THEN PointWritten(t) ELSE point
         /\ gotVector' = [gotVector EXCEPT ![t] = TRUE]
    /\ Goto(t, "insert")
    /\ UNCHANGED <<kind, user, todo, session, episode, told, outcome, gone,
                   rowVars, dropped>>

\* The content is embedded and its point written; a failure, also one after
\* the point was written, only leaves vector_id unset.
Embed(t) ==
    /\ At(t, "embed")
    /\ \E applied, known \in BOOLEAN :
         /\ known => applied
         /\ point' = IF applied THEN PointWritten(t) ELSE point
         /\ gotVector' = [gotVector EXCEPT ![t] = known]
    /\ Goto(t, "insert")
    /\ UNCHANGED <<kind, user, todo, session, episode, told, outcome, gone,
                   rowVars, dropped>>

Insert(t) ==
    /\ At(t, "insert") /\ Free(t, Key(t)) /\ Key(t) \notin committed
    /\ author' = [author EXCEPT ![Key(t)] = t]
    /\ lock' = [lock EXCEPT ![Key(t)] = t]
    /\ indexed' = IF gotVector[t] THEN indexed \cup {Key(t)} ELSE indexed
    /\ told' = [told EXCEPT ![t] = @ \cup {Key(t)}]
    /\ AfterContent(t)
    /\ UNCHANGED <<kind, user, session, episode, gotVector, outcome, gone,
                   committed, archived, pointVars>>

\* Mutant: the handler of a failed write rolls the session back and goes on.
FlushRecovers(t) ==
    /\ Rollback(t)
    /\ IF kind[t] = "chat"
       THEN AfterContent(t) /\ UNCHANGED outcome
       ELSE End(t, "rolledback") /\ UNCHANGED todo
    /\ UNCHANGED <<kind, user, session, gotVector, told, gone, pointVars>>

\* A flush fails.  A chat run catches it, in a session no longer usable;
\* the other requests answer with an error.
FlushFails(t) ==
    /\ Rollback(t)
    /\ session' = [session EXCEPT ![t] = "broken"]
    /\ IF kind[t] = "chat"
       THEN AfterContent(t) /\ UNCHANGED outcome
       ELSE End(t, "rolledback") /\ UNCHANGED todo
    /\ UNCHANGED <<kind, user, gotVector, told, gone, pointVars>>

\* The row was committed after the SELECT did not see it.
InsertConflicts(t) ==
    /\ At(t, "insert") /\ Free(t, Key(t)) /\ Key(t) \in committed
    /\ FlushFails(t)

\* The transactions that wait for each other's locks.
Waits(t) == pc[t] \in {"touch", "insert", "flush"} /\ ~Free(t, Key(t))
InCycle(t) ==
    LET n == Cardinality(Requests)
        step[i \in 0 .. n] ==
            IF i = 0 THEN t
            ELSE IF Waits(step[i - 1]) THEN lock[Key(step[i - 1])]
            ELSE step[i - 1]
    IN  Waits(t) /\ \E i \in 1 .. n : step[i] = t

Deadlock(t) == InCycle(t) /\ FlushFails(t)

-----------------------------------------------------------------------------
(* DELETE /memory/{id}.                                                    *)

\* The point is deleted before the row is archived; a failure is ignored.
DropPoint(t) ==
    /\ At(t, "drop")
    /\ IF Key(t) \in indexed
       THEN \/ /\ point' = [point EXCEPT ![Head(todo[t])] = Nobody]
               /\ dropped' = dropped \cup {Head(todo[t])}
            \/ UNCHANGED pointVars
       ELSE UNCHANGED pointVars
    /\ Goto(t, "flush")
    /\ UNCHANGED <<kind, user, todo, session, episode, gotVector, told,
                   outcome, gone, rowVars>>

FlushArchive(t) ==
    /\ At(t, "flush") /\ Free(t, Key(t))
    /\ lock' = [lock EXCEPT ![Key(t)] = t]
    /\ Goto(t, "commit")
    /\ UNCHANGED <<kind, user, todo, session, episode, gotVector, told,
                   outcome, gone, author, committed, archived, indexed,
                   pointVars>>

-----------------------------------------------------------------------------
(* The end of a request.                                                   *)

\* The attributes finish sets on the row, if it can read it.
EpisodeFilled(t) ==
    IF session[t] = "usable" /\ episode[t] = "pending"
    THEN [episode EXCEPT ![t] = "finished"] ELSE episode

\* finish_episode; without a usable session and the row it raises, which is
\* caught.
FinishEpisode(t) ==
    /\ At(t, "finish")
    /\ episode' = EpisodeFilled(t)
    /\ Goto(t, "commit")
    /\ UNCHANGED <<kind, user, todo, session, gotVector, told, outcome,
                   gone, rowVars, pointVars>>

\* The session dependency commits.
Commit(t) ==
    /\ At(t, "commit") /\ session[t] = "usable"
    /\ committed' = committed \cup {k \in Keys : author[k] = t}
    /\ archived' = IF kind[t] = "delete"
                   THEN archived \cup {k \in {Key(t)} : lock[k] = t}
                   ELSE archived
    /\ lock' = Unlocked(t)
    /\ End(t, "committed")
    /\ UNCHANGED <<kind, user, todo, session, episode, gotVector, told, gone,
                   author, indexed, pointVars>>

\* The commit of a broken session raises: the dependency rolls back.
CommitRaises(t) ==
    /\ At(t, "commit") /\ session[t] = "broken"
    /\ Rollback(t)
    /\ End(t, "rolledback")
    /\ UNCHANGED <<kind, user, todo, session, gotVector, told, gone, pointVars>>

\* Mutant: what was flushed stays in the tables.
AbandonKeepsRows(t) ==
    /\ pc[t] # "ended"
    /\ lock' = Unlocked(t)
    /\ End(t, "rolledback")
    /\ UNCHANGED <<kind, user, todo, session, episode, gotVector, told, gone,
                   author, committed, archived, indexed, pointVars>>

\* Mutant: the session is never closed.
AbandonLeaks(t) ==
    /\ pc[t] # "ended"
    /\ End(t, "rolledback")
    /\ UNCHANGED <<kind, user, todo, session, episode, gotVector, told, gone,
                   rowVars, pointVars>>

\* The server process stops, or the database takes its connection away.
Abandon(t) ==
    /\ pc[t] # "ended"
    /\ Rollback(t)
    /\ End(t, "rolledback")
    /\ UNCHANGED <<kind, user, todo, session, gotVector, told, gone, pointVars>>

\* The client of a chat run leaves: the await in hand is cancelled and the
\* request goes straight to its commit.  A cancelled statement takes its
\* connection with it, which leaves the session broken; between statements
\* (an event on its way, a model or vector call) what was flushed stays, and
\* the call may have been applied.
Disconnect(t) ==
    /\ kind[t] = "chat" /\ pc[t] \notin {"commit", "ended"}
    /\ gone' = gone \cup {t}
    /\ Goto(t, "commit")
    /\ \/ /\ ~At(t, "embed")
          /\ Rollback(t)
          /\ session' = [session EXCEPT ![t] = "broken"]
          /\ UNCHANGED pointVars
       \/ /\ pc[t] \notin {"touch", "insert"}
          /\ \/ UNCHANGED <<episode, point>>
             \/ At(t, "embed") /\ point' = PointWritten(t) /\ UNCHANGED episode
             \/ At(t, "finish") /\ episode' = EpisodeFilled(t) /\ UNCHANGED point
          /\ UNCHANGED <<session, rowVars, dropped>>
    /\ UNCHANGED <<kind, user, todo, gotVector, told, outcome>>

\* What happens to a request from outside.
Cut(t) == Disconnect(t) \/ Abandon(t)

Step(t) ==
    \/ OpenEpisode(t) \/ AgentsFinish(t) \/ AgentsFail(t)
    \/ Select(t) \/ SelectRaises(t) \/ Touch(t) \/ Embed(t)
    \/ Insert(t) \/ InsertConflicts(t) \/ Deadlock(t)
    \/ DropPoint(t) \/ FlushArchive(t)
    \/ FinishEpisode(t) \/ Commit(t) \/ CommitRaises(t)

Ended == (\A t \in Requests : pc[t] = "ended") /\ UNCHANGED vars

Next == Ended \/ \E t \in Requests : Step(t) \/ Cut(t)

Spec == Init /\ [][Next]_vars

\* Every await of a request returns, unless it waits for a lock; nothing need
\* ever cut a request short.
FairSpec == Spec /\ \A t \in Requests : WF_vars(Step(t))
-----------------------------------------------------------------------------
(* Properties.                                                             *)

TypeOK ==
    /\ kind \in [Requests -> {"chat", "post", "delete"}]
    /\ user \in [Requests -> Users]
    /\ todo \in [Requests -> Seq(Contents)]
    /\ pc \in [Requests -> {"open", "agents", "select", "touch", "embed",
                            "insert", "drop", "flush", "finish", "commit",
                            "ended"}]
    /\ \A t \in Requests :
         pc[t] \in {"select", "touch", "embed", "insert", "drop", "flush"} =>
             todo[t] # << >>
    /\ session \in [Requests -> {"usable", "broken"}]
    /\ episode \in [Requests -> {"none", "pending", "finished"}]
    /\ gotVector \in [Requests -> BOOLEAN]
    /\ told \in [Requests -> SUBSET Keys]
    /\ outcome \in [Requests -> {"none", "committed", "rolledback"}]
    /\ gone \subseteq Requests
    /\ author \in [Keys -> Requests \cup {Nobody}]
    /\ committed \subseteq Keys /\ archived \subseteq committed
    /\ indexed \subseteq {k \in Keys : author[k] # Nobody}
    /\ lock \in [Keys -> Requests \cup {Nobody}]
    /\ point \in [Contents -> Users \cup {Nobody}]
    /\ dropped \subseteq Contents

\* A memory a chat run wrote is durable only with the run's episode, and
\* that episode is finished unless the client left: the handlers that swallow
\* a failed write and a failed finish never leave one without the other, and
\* a disconnect, which commits, never leaves a memory without its episode.
MemoriesHaveEpisode ==
    \A k \in committed :
        kind[author[k]] = "chat" =>
            /\ outcome[author[k]] = "committed"
            /\ episode[author[k]] # "none"
            /\ episode[author[k]] = "finished" \/ author[k] \in gone

\* What a request announced as created is durable when the request commits,
\* all of it, and nothing of it is when it does not.
AnnouncedAllOrNothing ==
    \A t \in Requests :
        /\ outcome[t] = "committed" =>
             \A k \in Keys : k \in told[t] <=> k \in committed /\ author[k] = t
        /\ outcome[t] = "rolledback" => \A k \in Keys : author[k] # t

\* A row others can see names a vector only if the point was written: a
\* crash between the two stores leaves a point without a row, never a row
\* without its point, unless an archive deleted the point.
PointBeforeRow ==
    \A k \in committed \cap indexed :
        point[k[2]] # Nobody \/ k[2] \in dropped

\* No pair of requests blocks each other for ever: every request ends.
EveryRequestEnds == \A t \in Requests : <>(pc[t] = "ended")

-----------------------------------------------------------------------------
(* A claim of the code's comments that the behaviours refute.              *)

\* "It always has: a relational row in Postgres, a vector point in Qdrant
\* under `vector_id`": the point a live memory names is that of the memory,
\* which the recall of its user finds, as long as no archive deletes points.
MemoryHasItsPoint ==
    \A k \in (committed \ archived) \cap indexed :
        k[2] \notin dropped => point[k[2]] = k[1]
=============================================================================
