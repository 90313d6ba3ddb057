-------------------------- MODULE MemoryStoreProofs --------------------------
(***************************************************************************)
(* Safety of the memory store, for any number of requests, users and       *)
(* contents.                                                               *)
(*                                                                         *)
(* The properties are about ended requests and committed rows.  What makes *)
(* them inductive is about the requests still running: an uncommitted row  *)
(* is locked by the request that inserted it (so nobody else can overwrite *)
(* its author), a broken session has no rows left, a usable one has        *)
(* exactly the rows it announced, and a chat run that has rows also has    *)
(* its pending episode.                                                    *)
(***************************************************************************)
EXTENDS MemoryStore, FiniteSetTheorems, WellFoundedInduction, TLAPS

\* The rows a request inserted, committed or not.
Own(t) == {k \in Keys : author[k] = t}

\* Which kinds of request reach which await.
OnPath(t) ==
    /\ pc[t] \in {"open", "agents", "finish"} => kind[t] = "chat"
    /\ pc[t] \in {"drop", "flush"} => kind[t] = "delete"
    /\ kind[t] = "delete" /\ pc[t] # "ended" =>
         /\ session[t] = "usable" /\ todo[t] # << >>
         /\ pc[t] \in {"select", "drop", "flush", "commit"}
         /\ Own(t) = {}
         /\ pc[t] \in {"drop", "flush"} => Key(t) \in committed
         /\ lock[Key(t)] = t => Key(t) \in committed
    /\ session[t] = "broken" =>
         pc[t] \in {"select", "finish", "commit", "ended"}
    /\ pc[t] = "ended" <=> outcome[t] # "none"
Path == \A t \in Requests : OnPath(t)

\* A row that is not committed is locked by its author, who is running.
Held == \A k \in Keys :
    author[k] # Nobody /\ k \notin committed =>
        lock[k] = author[k] /\ pc[author[k]] # "ended"

\* A committed row was committed by its author.
Durable == \A k \in committed :
    author[k] \in Requests /\ outcome[author[k]] = "committed"

\* The rows of a request are those it announced, or none.
Booked(t) ==
    /\ session[t] = "broken" \/ outcome[t] = "rolledback" => Own(t) = {}
    /\ session[t] = "usable" /\ outcome[t] # "rolledback" => told[t] = Own(t)
    /\ outcome[t] = "committed" => session[t] = "usable"
Books == \A t \in Requests : Booked(t)

\* A chat run with rows has its episode, which is finished before it commits,
\* unless its client left.
InDiary(t) ==
    kind[t] = "chat" =>
        /\ pc[t] \in {"open", "agents"} => Own(t) = {}
        /\ /\ session[t] = "usable"
           /\ pc[t] \in {"agents", "select", "touch", "embed", "insert",
                         "finish"}
           => episode[t] = "pending"
        /\ /\ session[t] = "usable"
           /\ pc[t] = "commit" \/ outcome[t] = "committed"
           => \/ episode[t] = "finished" \/ Own(t) = {}
              \/ episode[t] = "pending" /\ t \in gone
Diary == \A t \in Requests : InDiary(t)

\* A point that was written stays until an archive deletes it.
Pointed(c) == point[c] # Nobody \/ c \in dropped
Points ==
    /\ \A k \in indexed : Pointed(k[2])
    /\ \A t \in Requests :
         pc[t] = "insert" /\ gotVector[t] => Pointed(Head(todo[t]))

IInv == TypeOK /\ Path /\ Held /\ Durable /\ Books /\ Diary /\ Points

-----------------------------------------------------------------------------
(* What the shared pieces of the actions do.                               *)

Places    == {"open", "agents", "select", "touch", "embed", "insert", "drop",
              "flush", "finish", "commit", "ended"}
AtContent == {"select", "touch", "embed", "insert", "drop", "flush"}

LEMMA KeyType ==
    ASSUME TypeOK, NEW t \in Requests, todo[t] # << >>
    PROVE  /\ Key(t) \in Keys /\ Key(t)[2] = Head(todo[t])
           /\ Head(todo[t]) \in Contents /\ user[t] \in Users
           /\ Tail(todo[t]) \in Seq(Contents)
<1>1. todo[t] \in Seq(Contents) /\ user[t] \in Users
    BY DEF TypeOK
<1>2. Head(todo[t]) \in Contents /\ Tail(todo[t]) \in Seq(Contents)
    BY <1>1
<1> QED
    BY <1>1, <1>2 DEF Key, Keys

LEMMA GotoEffect ==
    ASSUME TypeOK, NEW t \in Requests, NEW s, Goto(t, s)
    PROVE  /\ pc'[t] = s /\ \A r \in Requests \ {t} : pc'[r] = pc[r]
           /\ s \in Places => pc' \in [Requests -> Places]
BY DEF TypeOK, Goto, Places

\* A request that is through with a content goes on, or leaves the loop.
LEMMA AfterContentEffect ==
    ASSUME TypeOK, NEW t \in Requests, todo[t] # << >>, AfterContent(t)
    PROVE  /\ todo' \in [Requests -> Seq(Contents)]
           /\ \A r \in Requests \ {t} : todo'[r] = todo[r] /\ pc'[r] = pc[r]
           /\ pc' \in [Requests -> Places]
           /\ pc'[t] \in {"select", "finish", "commit"}
           /\ pc'[t] = "select" => todo'[t] # << >>
           /\ pc'[t] = "finish" => kind[t] = "chat"
           /\ kind[t] = "chat" => pc'[t] # "commit"
<1>1. Tail(todo[t]) \in Seq(Contents)
    BY KeyType
<1>2. /\ todo' = [todo EXCEPT ![t] = Tail(@)]
      /\ todo \in [Requests -> Seq(Contents)] /\ DOMAIN pc = Requests
    BY DEF AfterContent, TypeOK
<1>3. todo'[t] = Tail(todo[t]) /\ todo' \in [Requests -> Seq(Contents)]
    BY <1>1, <1>2
<1>4. Goto(t, IF Tail(todo[t]) # << >> THEN "select"
              ELSE IF kind[t] = "chat" THEN "finish" ELSE "commit")
    BY DEF AfterContent
<1>5. /\ pc' = [pc EXCEPT ![t] = pc'[t]]
      /\ \/ pc'[t] = "select" /\ todo'[t] # << >>
         \/ pc'[t] = "finish" /\ kind[t] = "chat"
         \/ pc'[t] = "commit" /\ kind[t] # "chat"
    BY <1>2, <1>3, <1>4 DEF Goto
<1>6. pc' \in [Requests -> Places]
    BY <1>5 DEF TypeOK, Places
<1> QED
    BY <1>2, <1>3, <1>5, <1>6

\* A rollback removes the rows and the locks of the request, and no other.
LEMMA RollbackEffect ==
    ASSUME TypeOK, NEW t \in Requests, Rollback(t)
    PROVE  /\ author' \in [Keys -> Requests \cup {Nobody}]
           /\ lock' \in [Keys -> Requests \cup {Nobody}]
           /\ indexed' \subseteq {k \in Keys : author'[k] # Nobody}
           /\ indexed' \subseteq indexed
           /\ episode' \in [Requests -> {"none", "pending", "finished"}]
           /\ Own(t)' = {} /\ \A r \in Requests \ {t} : Own(r)' = Own(r)
           /\ \A k \in Keys : /\ author[k] # t => author'[k] = author[k]
                              /\ author[k] = t => author'[k] = Nobody
                              /\ lock[k] # t => lock'[k] = lock[k]
                              /\ lock[k] = t => lock'[k] = Nobody
           /\ \A r \in Requests \ {t} : episode'[r] = episode[r]
           /\ UNCHANGED <<committed, archived>>
<1>1. t # Nobody
    BY MemoryAssumption
<1>2. /\ author \in [Keys -> Requests \cup {Nobody}]
      /\ lock \in [Keys -> Requests \cup {Nobody}]
      /\ episode \in [Requests -> {"none", "pending", "finished"}]
      /\ indexed \subseteq {k \in Keys : author[k] # Nobody}
    BY DEF TypeOK
<1>3. /\ episode' = [episode EXCEPT ![t] = "none"]
      /\ author' = [k \in Keys |-> IF author[k] = t THEN Nobody ELSE author[k]]
      /\ indexed' = {k \in indexed : author'[k] # Nobody}
      /\ lock' = [k \in Keys |-> IF lock[k] = t THEN Nobody ELSE lock[k]]
      /\ UNCHANGED <<committed, archived>>
    BY DEF Rollback, Unlocked
<1>4. /\ author' \in [Keys -> Requests \cup {Nobody}]
      /\ lock' \in [Keys -> Requests \cup {Nobody}]
      /\ episode' \in [Requests -> {"none", "pending", "finished"}]
      /\ \A r \in Requests \ {t} : episode'[r] = episode[r]
    BY <1>2, <1>3
<1>5. \A k \in Keys : /\ author[k] # t => author'[k] = author[k]
                      /\ author[k] = t => author'[k] = Nobody
                      /\ lock[k] # t => lock'[k] = lock[k]
                      /\ lock[k] = t => lock'[k] = Nobody
    BY <1>1, <1>3
<1>6. Own(t)' = {}
    BY <1>1, <1>5 DEF Own
<1>7. ASSUME NEW r \in Requests \ {t} PROVE Own(r)' = Own(r)
    <2>1. r # Nobody
        BY MemoryAssumption
    <2>2. \A k \in Keys : author'[k] = r <=> author[k] = r
        BY <1>5, <2>1
    <2> QED
        BY <2>2 DEF Own
<1> QED
    BY <1>2, <1>3, <1>4, <1>5, <1>6, <1>7
-----------------------------------------------------------------------------
(* Types.                                                                  *)

\* A request that is with a content has one to be with.
HasContent == \A r \in Requests : pc[r] \in AtContent => todo[r] # << >>

\* The types of what belongs to a request, and of what it shares.
RequestTypes ==
    /\ kind \in [Requests -> {"chat", "post", "delete"}]
    /\ user \in [Requests -> Users]
    /\ todo \in [Requests -> Seq(Contents)]
    /\ pc \in [Requests -> Places]
    /\ HasContent
    /\ session \in [Requests -> {"usable", "broken"}]
    /\ episode \in [Requests -> {"none", "pending", "finished"}]
    /\ gotVector \in [Requests -> BOOLEAN]
    /\ told \in [Requests -> SUBSET Keys]
    /\ outcome \in [Requests -> {"none", "committed", "rolledback"}]
    /\ gone \subseteq Requests
RowTypes ==
    /\ author \in [Keys -> Requests \cup {Nobody}]
    /\ committed \subseteq Keys /\ archived \subseteq committed
    /\ indexed \subseteq {k \in Keys : author[k] # Nobody}
    /\ lock \in [Keys -> Requests \cup {Nobody}]
PointTypes ==
    /\ point \in [Contents -> Users \cup {Nobody}]
    /\ dropped \subseteq Contents

LEMMA TypeParts == TypeOK <=> RequestTypes /\ RowTypes /\ PointTypes
BY DEF TypeOK, RequestTypes, RowTypes, PointTypes, HasContent, Places,
       AtContent
LEMMA TypePartsNext == TypeOK' <=> RequestTypes' /\ RowTypes' /\ PointTypes'
BY DEF TypeOK, RequestTypes, RowTypes, PointTypes, HasContent, Places,
       AtContent

LEMMA AfterContentTypes ==
    ASSUME TypeOK, NEW t \in Requests, todo[t] # << >>, AfterContent(t)
    PROVE  HasContent'
<1> SUFFICES ASSUME NEW r \in Requests, pc'[r] \in AtContent
             PROVE  todo'[r] # << >>
    BY DEF HasContent
<1>1. CASE r = t
    BY <1>1, AfterContentEffect DEF AtContent
<1>2. CASE r # t
    BY <1>2, AfterContentEffect, TypeParts DEF RequestTypes, HasContent
<1> QED
    BY <1>1, <1>2

\* The steps that leave the rows alone, but for the vector index.
Quiet(t) ==
    \/ OpenEpisode(t) \/ AgentsFinish(t) \/ AgentsFail(t) \/ Select(t)
    \/ SelectRaises(t) \/ Embed(t) \/ DropPoint(t) \/ FinishEpisode(t)

\* A step that only moves the program counter.
LEMMA Moves ==
    ASSUME TypeOK, NEW t \in Requests, NEW s \in Places, Goto(t, s),
           UNCHANGED todo, s \in AtContent => todo[t] # << >>
    PROVE  /\ pc' \in [Requests -> Places] /\ HasContent' /\ pc'[t] = s
           /\ todo' \in [Requests -> Seq(Contents)]
           /\ \A r \in Requests \ {t} : pc'[r] = pc[r] /\ todo'[r] = todo[r]
<1>1. HasContent /\ todo \in [Requests -> Seq(Contents)]
    BY TypeParts DEF RequestTypes
<1> QED
    BY <1>1, GotoEffect DEF HasContent

LEMMA QuietTypes ==
    ASSUME TypeOK, NEW t \in Requests, Quiet(t)
    PROVE  /\ RequestTypes' /\ PointTypes'
           /\ UNCHANGED <<rowVars, gone, kind, user, session, told, outcome>>
           /\ pc[t] # "ended" /\ pc'[t] # "ended"
           /\ \A r \in Requests \ {t} : pc'[r] = pc[r] /\ todo'[r] = todo[r]
<1>0. RequestTypes /\ PointTypes
    BY TypeParts
<1> USE DEF At
<1>1. CASE OpenEpisode(t)
    <2>1. /\ At(t, "open") /\ Goto(t, "agents")
          /\ episode' = [episode EXCEPT ![t] = "pending"]
          /\ UNCHANGED <<rowVars, gone, kind, user, todo, session, gotVector, told,
                         outcome, point, dropped>>
        BY <1>1 DEF OpenEpisode, pointVars
    <2> QED
        BY <1>0, <2>1, Moves DEF RequestTypes, PointTypes, Places, AtContent
<1>2. CASE AgentsFinish(t) \/ AgentsFail(t)
    <2>1. /\ At(t, "agents")
          /\ \E s \in {"finish", "select", "commit"} :
               Goto(t, s) /\ (s = "select" => todo[t] # << >>)
          /\ UNCHANGED <<rowVars, gone, kind, user, todo, session, episode, gotVector,
                         told, outcome, point, dropped>>
        BY <1>2 DEF AgentsFinish, AgentsFail, pointVars
    <2> QED
        BY <1>0, <2>1, Moves DEF RequestTypes, PointTypes, Places, AtContent
<1>3. CASE Select(t)
    <2>1. /\ At(t, "select")
          /\ \E s \in {"drop", "commit", "touch", "embed"} : Goto(t, s)
          /\ UNCHANGED <<rowVars, gone, kind, user, todo, session, episode, gotVector,
                         told, outcome, point, dropped>>
        BY <1>3 DEF Select, pointVars
    <2>2. todo[t] # << >>
        BY <1>0, <2>1 DEF RequestTypes, HasContent, AtContent
    <2> QED
        BY <1>0, <2>1, <2>2, Moves DEF RequestTypes, PointTypes, Places
<1>4. CASE SelectRaises(t)
    <2>1. /\ At(t, "select") /\ AfterContent(t)
          /\ UNCHANGED <<rowVars, gone, kind, user, session, episode, gotVector, told,
                         outcome, point, dropped>>
        BY <1>4 DEF SelectRaises, pointVars
    <2>2. todo[t] # << >>
        BY <1>0, <2>1 DEF RequestTypes, HasContent, AtContent
    <2>3. HasContent'
        BY <2>1, <2>2, AfterContentTypes
    <2> QED
        BY <1>0, <2>1, <2>2, <2>3, AfterContentEffect
        DEF RequestTypes, PointTypes
<1>5. CASE Embed(t)
    <2>1. /\ At(t, "embed") /\ Goto(t, "insert")
          /\ gotVector' \in [Requests -> BOOLEAN]
          /\ point' \in {point, [point EXCEPT ![Head(todo[t])] = user[t]]}
          /\ UNCHANGED <<rowVars, gone, kind, user, todo, session, episode, told,
                         outcome, dropped>>
        BY <1>0, <1>5 DEF Embed, RequestTypes, PointWritten
    <2>2. todo[t] # << >>
        BY <1>0, <2>1 DEF RequestTypes, HasContent, AtContent
    <2>3. point' \in [Contents -> Users \cup {Nobody}]
        BY <1>0, <2>1, <2>2, KeyType DEF PointTypes
    <2> QED
        BY <1>0, <2>1, <2>2, <2>3, Moves DEF RequestTypes, PointTypes, Places
<1>6. CASE DropPoint(t)
    <2>1. /\ At(t, "drop") /\ Goto(t, "flush")
          /\ \/ UNCHANGED <<point, dropped>>
             \/ /\ point' = [point EXCEPT ![Head(todo[t])] = Nobody]
                /\ dropped' = dropped \cup {Head(todo[t])}
          /\ UNCHANGED <<rowVars, gone, kind, user, todo, session, episode, gotVector,
                         told, outcome>>
        BY <1>6 DEF DropPoint, pointVars
    <2>2. todo[t] # << >>
        BY <1>0, <2>1 DEF RequestTypes, HasContent, AtContent
    <2>3. PointTypes'
        BY <1>0, <2>1, <2>2, KeyType DEF PointTypes
    <2> QED
        BY <1>0, <2>1, <2>2, <2>3, Moves DEF RequestTypes, Places
<1>7. CASE FinishEpisode(t)
    <2>1. /\ At(t, "finish") /\ Goto(t, "commit")
          /\ episode' \in {episode, [episode EXCEPT ![t] = "finished"]}
          /\ UNCHANGED <<rowVars, gone, kind, user, todo, session, gotVector, told,
                         outcome, point, dropped>>
        BY <1>7 DEF FinishEpisode, EpisodeFilled, pointVars
    <2> QED
        BY <1>0, <2>1, Moves DEF RequestTypes, PointTypes, Places, AtContent
<1> QED
    BY <1>1, <1>2, <1>3, <1>4, <1>5, <1>6, <1>7 DEF Quiet
\* The steps that only lock a row.
Locks(t) == Touch(t) \/ FlushArchive(t)

LEMMA LocksTypes ==
    ASSUME TypeOK, NEW t \in Requests, Locks(t)
    PROVE  /\ TypeOK'
           /\ Key(t) \in Keys /\ Free(t, Key(t))
           /\ lock' = [lock EXCEPT ![Key(t)] = t]
           /\ UNCHANGED <<author, committed, archived, indexed, gone, kind, user,
                          session, episode, gotVector, told, outcome, pointVars>>
           /\ \/ pc[t] = "touch" /\ pc'[t] \in {"select", "finish", "commit"}
              \/ pc[t] = "flush" /\ pc'[t] = "commit" /\ todo' = todo
           /\ pc'[t] = "finish" => kind[t] = "chat"
           /\ pc[t] = "touch" /\ kind[t] = "chat" => pc'[t] # "commit"
           /\ \A r \in Requests \ {t} : pc'[r] = pc[r] /\ todo'[r] = todo[r]
<1>0. RequestTypes /\ RowTypes /\ PointTypes
    BY TypeParts
<1>1. pc[t] \in {"touch", "flush"} /\ todo[t] # << >>
    BY <1>0 DEF Locks, Touch, FlushArchive, At, RequestTypes, HasContent,
                AtContent
<1>2. Key(t) \in Keys
    BY <1>1, KeyType
<1>3. /\ lock' = [lock EXCEPT ![Key(t)] = t] /\ Free(t, Key(t))
      /\ UNCHANGED <<author, committed, archived, indexed, gone, kind, user,
                     session, episode, gotVector, told, outcome, pointVars>>
    BY DEF Locks, Touch, FlushArchive
<1>4. RowTypes' /\ PointTypes'
    BY <1>0, <1>2, <1>3 DEF RowTypes, PointTypes, pointVars
<1>5. CASE Touch(t)
    <2>1. AfterContent(t) /\ pc[t] = "touch"
        BY <1>5 DEF Touch, At
    <2>2. HasContent'
        BY <1>1, <2>1, AfterContentTypes
    <2>3. RequestTypes'
        BY <1>0, <1>1, <1>3, <2>1, <2>2, AfterContentEffect DEF RequestTypes
    <2> QED
        BY <1>1, <1>2, <1>3, <1>4, <2>1, <2>3, AfterContentEffect,
           TypePartsNext
<1>6. CASE FlushArchive(t)
    <2>1. Goto(t, "commit") /\ UNCHANGED todo /\ pc[t] = "flush"
        BY <1>6 DEF FlushArchive, At
    <2>2. /\ pc' \in [Requests -> Places] /\ HasContent' /\ pc'[t] = "commit"
          /\ \A r \in Requests \ {t} : pc'[r] = pc[r] /\ todo'[r] = todo[r]
        BY <2>1, Moves DEF Places, AtContent
    <2>3. RequestTypes'
        BY <1>0, <1>3, <2>1, <2>2 DEF RequestTypes
    <2> QED
        BY <1>2, <1>3, <1>4, <2>1, <2>2, <2>3, TypePartsNext
<1> QED
    BY <1>5, <1>6 DEF Locks

LEMMA InsertTypes ==
    ASSUME TypeOK, NEW t \in Requests, Insert(t)
    PROVE  /\ TypeOK'
           /\ pc[t] = "insert" /\ pc'[t] \in {"select", "finish", "commit"}
           /\ pc'[t] = "finish" => kind[t] = "chat"
           /\ kind[t] = "chat" => pc'[t] # "commit"
           /\ Key(t) \in Keys \ committed /\ Free(t, Key(t))
           /\ author' = [author EXCEPT ![Key(t)] = t]
           /\ lock' = [lock EXCEPT ![Key(t)] = t]
           /\ told' = [told EXCEPT ![t] = @ \cup {Key(t)}]
           /\ indexed' = IF gotVector[t] THEN indexed \cup {Key(t)} ELSE indexed
           /\ UNCHANGED <<committed, archived, gone, kind, user, session, episode,
                          gotVector, outcome, pointVars>>
           /\ \A r \in Requests \ {t} : pc'[r] = pc[r] /\ todo'[r] = todo[r]
<1>0. RequestTypes /\ RowTypes /\ PointTypes
    BY TypeParts
<1>1. pc[t] = "insert" /\ todo[t] # << >>
    BY <1>0 DEF Insert, At, RequestTypes, HasContent, AtContent
<1>2. Key(t) \in Keys
    BY <1>1, KeyType
<1>3. /\ author' = [author EXCEPT ![Key(t)] = t]
      /\ lock' = [lock EXCEPT ![Key(t)] = t]
      /\ told' = [told EXCEPT ![t] = @ \cup {Key(t)}]
      /\ indexed' = IF gotVector[t] THEN indexed \cup {Key(t)} ELSE indexed
      /\ Key(t) \notin committed /\ Free(t, Key(t)) /\ AfterContent(t)
      /\ UNCHANGED <<committed, archived, gone, kind, user, session, episode,
                     gotVector, outcome, pointVars>>
    BY DEF Insert
<1>4. t # Nobody
    BY MemoryAssumption
<1>5. RowTypes'
    <2>1. /\ author' \in [Keys -> Requests \cup {Nobody}]
          /\ lock' \in [Keys -> Requests \cup {Nobody}]
        BY <1>0, <1>2, <1>3 DEF RowTypes
    <2>2. \A k \in Keys : author[k] # Nobody => author'[k] # Nobody
        BY <1>0, <1>2, <1>3, <1>4 DEF RowTypes
    <2>3. author'[Key(t)] # Nobody
        BY <1>0, <1>2, <1>3, <1>4 DEF RowTypes
    <2>4. indexed' \subseteq {k \in Keys : author'[k] # Nobody}
        BY <1>0, <1>2, <1>3, <2>2, <2>3 DEF RowTypes
    <2> QED
        BY <1>0, <1>3, <2>1, <2>4 DEF RowTypes
<1>6. HasContent'
    BY <1>1, <1>3, AfterContentTypes
<1>7. told' \in [Requests -> SUBSET Keys]
    BY <1>0, <1>2, <1>3 DEF RequestTypes
<1>8. RequestTypes' /\ PointTypes'
    BY <1>0, <1>1, <1>3, <1>6, <1>7, AfterContentEffect
    DEF RequestTypes, PointTypes, pointVars
<1> QED
    BY <1>1, <1>2, <1>3, <1>5, <1>8, AfterContentEffect, TypePartsNext

\* The flushes that fail.
Fails(t) == InsertConflicts(t) \/ Deadlock(t)

LEMMA FailsTypes ==
    ASSUME TypeOK, NEW t \in Requests, Fails(t)
    PROVE  /\ TypeOK'
           /\ pc[t] \in {"touch", "insert", "flush"}
           /\ Rollback(t)
           /\ session' = [session EXCEPT ![t] = "broken"]
           /\ UNCHANGED <<gone, kind, user, gotVector, told, pointVars>>
           /\ \/ /\ kind[t] = "chat" /\ pc'[t] \in {"select", "finish"}
                 /\ UNCHANGED outcome
              \/ /\ kind[t] # "chat" /\ pc'[t] = "ended"
                 /\ outcome' = [outcome EXCEPT ![t] = "rolledback"]
           /\ \A r \in Requests \ {t} : pc'[r] = pc[r] /\ todo'[r] = todo[r]
<1>0. RequestTypes /\ RowTypes /\ PointTypes
    BY TypeParts
<1>1. pc[t] \in {"touch", "insert", "flush"} /\ FlushFails(t)
    BY DEF Fails, InsertConflicts, Deadlock, InCycle, Waits, At
<1>2. todo[t] # << >>
    BY <1>0, <1>1 DEF RequestTypes, HasContent, AtContent
<1>3. /\ Rollback(t) /\ session' = [session EXCEPT ![t] = "broken"]
      /\ UNCHANGED <<gone, kind, user, gotVector, told, pointVars>>
      /\ \/ kind[t] = "chat" /\ AfterContent(t) /\ UNCHANGED outcome
         \/ kind[t] # "chat" /\ End(t, "rolledback") /\ UNCHANGED todo
    BY <1>1 DEF FlushFails
<1>4. RowTypes' /\ PointTypes'
    BY <1>0, <1>3, RollbackEffect DEF RowTypes, PointTypes, pointVars
<1>5. session' \in [Requests -> {"usable", "broken"}]
    BY <1>0, <1>3 DEF RequestTypes
<1>6. CASE kind[t] = "chat"
    <2>1. AfterContent(t) /\ UNCHANGED outcome
        BY <1>3, <1>6
    <2>2. HasContent'
        BY <1>2, <2>1, AfterContentTypes
    <2>3. RequestTypes'
        BY <1>0, <1>2, <1>3, <1>5, <2>1, <2>2, AfterContentEffect,
           RollbackEffect DEF RequestTypes
    <2> QED
        BY <1>1, <1>2, <1>3, <1>4, <1>6, <2>1, <2>3, AfterContentEffect,
           TypePartsNext
<1>7. CASE kind[t] # "chat"
    <2>1. /\ Goto(t, "ended") /\ UNCHANGED todo
          /\ outcome' = [outcome EXCEPT ![t] = "rolledback"]
        BY <1>3, <1>7 DEF End
    <2>2. /\ pc' \in [Requests -> Places] /\ HasContent' /\ pc'[t] = "ended"
          /\ \A r \in Requests \ {t} : pc'[r] = pc[r] /\ todo'[r] = todo[r]
        BY <2>1, Moves DEF Places, AtContent
    <2>3. RequestTypes'
        BY <1>0, <1>3, <1>5, <2>1, <2>2, RollbackEffect DEF RequestTypes
    <2> QED
        BY <1>1, <1>3, <1>4, <1>7, <2>1, <2>2, <2>3, TypePartsNext
<1> QED
    BY <1>6, <1>7

\* The ends of a request without a commit.
Drops(t) == CommitRaises(t) \/ Abandon(t)

LEMMA DropsTypes ==
    ASSUME TypeOK, NEW t \in Requests, Drops(t)
    PROVE  /\ TypeOK'
           /\ pc[t] # "ended" /\ pc'[t] = "ended" /\ Rollback(t)
           /\ outcome' = [outcome EXCEPT ![t] = "rolledback"]
           /\ UNCHANGED <<gone, kind, user, todo, session, gotVector, told, pointVars>>
           /\ \A r \in Requests \ {t} : pc'[r] = pc[r]
<1>0. RequestTypes /\ RowTypes /\ PointTypes
    BY TypeParts
<1>1. /\ pc[t] # "ended" /\ Goto(t, "ended") /\ Rollback(t)
      /\ outcome' = [outcome EXCEPT ![t] = "rolledback"]
      /\ UNCHANGED <<gone, kind, user, todo, session, gotVector, told, pointVars>>
    BY DEF Drops, CommitRaises, Abandon, End, At
<1>2. /\ pc' \in [Requests -> Places] /\ HasContent' /\ pc'[t] = "ended"
      /\ \A r \in Requests \ {t} : pc'[r] = pc[r]
    BY <1>1, Moves DEF Places, AtContent
<1>3. RowTypes' /\ PointTypes'
    BY <1>0, <1>1, RollbackEffect DEF RowTypes, PointTypes, pointVars
<1>4. RequestTypes'
    BY <1>0, <1>1, <1>2, RollbackEffect DEF RequestTypes
<1> QED
    BY <1>1, <1>2, <1>3, <1>4, TypePartsNext

LEMMA CommitTypes ==
    ASSUME TypeOK, Path, NEW t \in Requests, Commit(t)
    PROVE  /\ TypeOK'
           /\ pc[t] = "commit" /\ session[t] = "usable" /\ pc'[t] = "ended"
           /\ committed' = committed \cup Own(t)
           /\ outcome' = [outcome EXCEPT ![t] = "committed"]
           /\ \A k \in Keys : /\ lock[k] # t => lock'[k] = lock[k]
                              /\ lock[k] = t => lock'[k] = Nobody
           /\ UNCHANGED <<gone, kind, user, todo, session, episode, gotVector, told,
                          author, indexed, pointVars>>
           /\ \A r \in Requests \ {t} : pc'[r] = pc[r]
<1>0. RequestTypes /\ RowTypes /\ PointTypes
    BY TypeParts
<1>1. /\ pc[t] = "commit" /\ session[t] = "usable" /\ Goto(t, "ended")
      /\ committed' = committed \cup Own(t)
      /\ outcome' = [outcome EXCEPT ![t] = "committed"]
      /\ lock' = [k \in Keys |-> IF lock[k] = t THEN Nobody ELSE lock[k]]
      /\ UNCHANGED <<gone, kind, user, todo, session, episode, gotVector, told,
                     author, indexed, pointVars>>
    BY DEF Commit, End, At, Own, Unlocked
<1>2. /\ pc' \in [Requests -> Places] /\ HasContent' /\ pc'[t] = "ended"
      /\ \A r \in Requests \ {t} : pc'[r] = pc[r]
    BY <1>1, Moves DEF Places, AtContent
<1>3. archived' \subseteq committed
    <2>1. archived' = IF kind[t] = "delete"
                      THEN archived \cup {k \in {Key(t)} : lock[k] = t}
                      ELSE archived
        BY DEF Commit
    <2>2. kind[t] = "delete" /\ lock[Key(t)] = t => Key(t) \in committed
        BY <1>1 DEF Path, OnPath
    <2> QED
        BY <1>0, <2>1, <2>2 DEF RowTypes
<1>4. lock' \in [Keys -> Requests \cup {Nobody}]
    BY <1>0, <1>1 DEF RowTypes
<1>5. RowTypes' /\ PointTypes'
    BY <1>0, <1>1, <1>3, <1>4 DEF RowTypes, PointTypes, pointVars, Own
<1>6. RequestTypes'
    BY <1>0, <1>1, <1>2 DEF RequestTypes
<1>7. \A k \in Keys : /\ lock[k] # t => lock'[k] = lock[k]
                      /\ lock[k] = t => lock'[k] = Nobody
    BY <1>1, MemoryAssumption
<1> QED
    BY <1>1, <1>2, <1>5, <1>6, <1>7, TypePartsNext

\* The two ways a client leaves: in the middle of a statement, or not.
Interrupted(t) ==
    /\ Rollback(t)
    /\ session' = [session EXCEPT ![t] = "broken"]
    /\ UNCHANGED pointVars
LeftIdle(t) ==
    /\ \/ UNCHANGED episode
       \/ pc[t] = "finish" /\ episode' = EpisodeFilled(t)
    /\ \/ UNCHANGED point
       \/ pc[t] = "embed" /\ todo[t] # << >> /\ point' = PointWritten(t)
    /\ UNCHANGED <<session, rowVars, dropped>>

LEMMA DisconnectTypes ==
    ASSUME TypeOK, NEW t \in Requests, Disconnect(t)
    PROVE  /\ TypeOK'
           /\ kind[t] = "chat" /\ pc[t] \notin {"commit", "ended"}
           /\ pc'[t] = "commit" /\ gone' = gone \cup {t}
           /\ Interrupted(t) \/ LeftIdle(t)
           /\ UNCHANGED <<kind, user, todo, gotVector, told, outcome>>
           /\ \A r \in Requests \ {t} : pc'[r] = pc[r]
<1>0. RequestTypes /\ RowTypes /\ PointTypes
    BY TypeParts
<1>1. /\ kind[t] = "chat" /\ pc[t] \notin {"commit", "ended"}
      /\ Goto(t, "commit") /\ gone' = gone \cup {t}
      /\ UNCHANGED <<kind, user, todo, gotVector, told, outcome>>
    BY DEF Disconnect
<1>2. /\ pc' \in [Requests -> Places] /\ HasContent' /\ pc'[t] = "commit"
      /\ \A r \in Requests \ {t} : pc'[r] = pc[r]
    BY <1>1, Moves DEF Places, AtContent
<1>3. pc[t] = "embed" => todo[t] # << >>
    BY <1>0 DEF RequestTypes, HasContent, AtContent
<1>4. Interrupted(t) \/ LeftIdle(t)
    BY <1>3 DEF Disconnect, Interrupted, LeftIdle, At
<1>5. RowTypes'
    BY <1>0, <1>4, RollbackEffect
    DEF RowTypes, Interrupted, LeftIdle, rowVars
<1>6. PointTypes'
    <2>1. CASE pc[t] = "embed" /\ point' = PointWritten(t) /\ dropped' = dropped
        BY <1>0, <1>3, <2>1, KeyType DEF PointTypes, PointWritten
    <2>2. CASE UNCHANGED pointVars
        BY <1>0, <2>2 DEF PointTypes, pointVars
    <2> QED
        BY <1>4, <2>1, <2>2 DEF Interrupted, LeftIdle, pointVars
<1>7. /\ session' \in [Requests -> {"usable", "broken"}]
      /\ episode' \in [Requests -> {"none", "pending", "finished"}]
    BY <1>0, <1>4, RollbackEffect
    DEF RequestTypes, Interrupted, LeftIdle, EpisodeFilled
<1>8. RequestTypes'
    BY <1>0, <1>1, <1>2, <1>7 DEF RequestTypes
<1> QED
    BY <1>1, <1>2, <1>4, <1>5, <1>6, <1>8, TypePartsNext

LEMMA StepKinds ==
    ASSUME NEW t \in Requests, Step(t) \/ Cut(t)
    PROVE  \/ Quiet(t) \/ Locks(t) \/ Insert(t) \/ Fails(t) \/ Drops(t)
           \/ Commit(t) \/ Disconnect(t)
BY DEF Step, Cut, Quiet, Locks, Fails, Drops

LEMMA StepTypes ==
    ASSUME TypeOK, Path, NEW t \in Requests, Step(t) \/ Cut(t)
    PROVE  TypeOK'
<1>1. CASE Quiet(t)
    <2>1. RowTypes'
        BY <1>1, QuietTypes, TypeParts DEF RowTypes, rowVars
    <2> QED
        BY <1>1, <2>1, QuietTypes, TypePartsNext
<1> QED
    BY <1>1, StepKinds, LocksTypes, InsertTypes, FailsTypes, DropsTypes,
       CommitTypes, DisconnectTypes
-----------------------------------------------------------------------------
(* A step of one request does nothing to the others.                       *)

\* An insert takes a key that no other request holds.
LEMMA InsertOwn ==
    ASSUME TypeOK, Held, NEW t \in Requests, Insert(t)
    PROVE  /\ Own(t)' = Own(t) \cup {Key(t)}
           /\ \A r \in Requests \ {t} : Own(r)' = Own(r)
<1>1. /\ Key(t) \in Keys \ committed /\ lock[Key(t)] \in {Nobody, t}
      /\ author' = [author EXCEPT ![Key(t)] = t]
      /\ author \in [Keys -> Requests \cup {Nobody}]
    BY InsertTypes DEF Free, TypeOK
<1>2. author[Key(t)] \in {Nobody, t}
    BY <1>1 DEF Held
<1> QED
    BY <1>1, <1>2, MemoryAssumption DEF Own

LEMMA Others ==
    ASSUME TypeOK, Path, Held, NEW t \in Requests, Step(t) \/ Cut(t),
           NEW r \in Requests \ {t}
    PROVE  /\ pc'[r] = pc[r] /\ todo'[r] = todo[r] /\ kind'[r] = kind[r]
           /\ session'[r] = session[r] /\ outcome'[r] = outcome[r]
           /\ episode'[r] = episode[r] /\ told'[r] = told[r]
           /\ gotVector'[r] = gotVector[r]
           /\ Key(r)' = Key(r) /\ Own(r)' = Own(r)
           /\ \A k \in Keys : lock'[k] = r => lock[k] = r
           /\ committed \subseteq committed' /\ gone \subseteq gone'
<1>0. /\ outcome \in [Requests -> {"none", "committed", "rolledback"}]
      /\ session \in [Requests -> {"usable", "broken"}]
      /\ episode \in [Requests -> {"none", "pending", "finished"}]
      /\ gotVector \in [Requests -> BOOLEAN]
      /\ told \in [Requests -> SUBSET Keys]
      /\ lock \in [Keys -> Requests \cup {Nobody}]
    BY DEF TypeOK
<1>1. CASE Quiet(t)
    <2>1. episode'[r] = episode[r] /\ gotVector'[r] = gotVector[r]
        BY <1>0, <1>1 DEF Quiet, OpenEpisode, AgentsFinish, AgentsFail,
            Select, SelectRaises, Embed, DropPoint, FinishEpisode, EpisodeFilled
    <2> QED
        BY <1>1, <2>1, QuietTypes DEF rowVars, Key, Own
<1>2. CASE Locks(t)
    <2>1. \A k \in Keys : lock'[k] = r => lock[k] = r
        BY <1>0, <1>2, LocksTypes
    <2> QED
        BY <1>2, <2>1, LocksTypes DEF Key, Own
<1>3. CASE Insert(t)
    <2>1. \A k \in Keys : lock'[k] = r => lock[k] = r
        BY <1>0, <1>3, InsertTypes
    <2>2. told'[r] = told[r]
        BY <1>0, <1>3, InsertTypes
    <2> QED
        BY <1>3, <2>1, <2>2, InsertTypes, InsertOwn DEF Key
<1>4. CASE Fails(t)
    <2>1. session'[r] = session[r] /\ outcome'[r] = outcome[r]
        BY <1>0, <1>4, FailsTypes
    <2>2. \A k \in Keys : lock'[k] = r => lock[k] = r
        BY <1>4, FailsTypes, RollbackEffect, MemoryAssumption
    <2> QED
        BY <1>4, <2>1, <2>2, FailsTypes, RollbackEffect DEF Key
<1>5. CASE Drops(t)
    <2>1. outcome'[r] = outcome[r]
        BY <1>0, <1>5, DropsTypes
    <2>2. \A k \in Keys : lock'[k] = r => lock[k] = r
        BY <1>5, DropsTypes, RollbackEffect, MemoryAssumption
    <2> QED
        BY <1>5, <2>1, <2>2, DropsTypes, RollbackEffect DEF Key
<1>6. CASE Commit(t)
    <2>1. outcome'[r] = outcome[r]
        BY <1>0, <1>6, CommitTypes
    <2>2. \A k \in Keys : lock'[k] = r => lock[k] = r
        BY <1>6, CommitTypes, MemoryAssumption
    <2> QED
        BY <1>6, <2>1, <2>2, CommitTypes DEF Key, Own
<1>7. CASE Disconnect(t)
    <2>1. CASE Interrupted(t)
        <3>1. session'[r] = session[r]
            BY <1>0, <2>1 DEF Interrupted
        <3>2. \A k \in Keys : lock'[k] = r => lock[k] = r
            BY <2>1, RollbackEffect, MemoryAssumption DEF Interrupted
        <3>3. /\ Own(r)' = Own(r) /\ episode'[r] = episode[r]
              /\ UNCHANGED committed
            BY <2>1, RollbackEffect DEF Interrupted
        <3>4. /\ pc'[r] = pc[r] /\ gone \subseteq gone'
              /\ UNCHANGED <<kind, user, todo, gotVector, told, outcome>>
            BY <1>7, DisconnectTypes
        <3> QED
            BY <3>1, <3>2, <3>3, <3>4 DEF Key
    <2>2. CASE LeftIdle(t)
        <3>1. episode'[r] = episode[r]
            BY <1>0, <2>2 DEF LeftIdle, EpisodeFilled
        <3> QED
            BY <1>7, <2>2, <3>1, DisconnectTypes DEF LeftIdle, rowVars, Key, Own
    <2> QED
        BY <1>7, <2>1, <2>2, DisconnectTypes
<1> QED
    BY <1>1, <1>2, <1>3, <1>4, <1>5, <1>6, <1>7, StepKinds
-----------------------------------------------------------------------------
(* The parts of the invariant.                                             *)

LEMMA PathStep ==
    ASSUME TypeOK, Path, Held, NEW t \in Requests, Step(t) \/ Cut(t)
    PROVE  Path'
<1>1. ASSUME NEW r \in Requests \ {t} PROVE OnPath(r)'
    <2>1. OnPath(r) /\ (todo[r] # << >> => Key(r) \in Keys)
        BY KeyType DEF Path
    <2> QED
        BY <2>1, Others DEF OnPath
<1>2. OnPath(t) /\ (todo[t] # << >> => Key(t) \in Keys)
    BY KeyType DEF Path
<1>3. OnPath(t)'
    <2>1. CASE Quiet(t)
        <3>1. /\ UNCHANGED <<author, committed, lock, kind, user, session, outcome>>
              /\ pc[t] # "ended" /\ pc'[t] # "ended" /\ Own(t)' = Own(t)
            BY <2>1, QuietTypes DEF rowVars, Own
        <3>2. CASE SelectRaises(t)
            <4>1. /\ pc[t] = "select" /\ session[t] = "broken" /\ AfterContent(t)
                  /\ todo[t] # << >>
                BY <3>2 DEF SelectRaises, At, TypeOK
            <4> QED
                BY <1>2, <3>1, <4>1, AfterContentEffect DEF OnPath
        <3>3. CASE Select(t)
            <4>1. /\ pc[t] = "select" /\ session[t] = "usable" /\ todo' = todo
                  /\ Goto(t, IF kind[t] = "delete"
                             THEN IF Visible(t, Key(t)) THEN "drop" ELSE "commit"
                             ELSE IF Visible(t, Key(t)) THEN "touch" ELSE "embed")
                  /\ Key(t)' = Key(t) /\ todo[t] # << >>
                BY <3>1, <3>3 DEF Select, At, Key, TypeOK
            <4>2. /\ kind[t] = "delete" => pc'[t] \in {"drop", "commit"}
                  /\ pc'[t] = "drop" => Visible(t, Key(t)) /\ kind[t] = "delete"
                  /\ kind[t] # "delete" => pc'[t] \in {"touch", "embed"}
                BY <4>1, GotoEffect
            <4>3. kind[t] = "delete" /\ Visible(t, Key(t)) => Key(t) \in committed
                BY <1>2, <4>1 DEF OnPath, Visible, Own
            <4> QED
                BY <1>2, <3>1, <4>1, <4>2, <4>3 DEF OnPath
        <3>4. CASE OpenEpisode(t) \/ AgentsFinish(t) \/ AgentsFail(t)
            <4>1. /\ pc[t] \in {"open", "agents"}
                  /\ pc'[t] \in {"agents", "finish", "select", "commit"}
                BY <3>4, GotoEffect DEF OpenEpisode, AgentsFinish, AgentsFail, At
            <4> QED
                BY <1>2, <3>1, <4>1 DEF OnPath
        <3>5. CASE Embed(t) \/ DropPoint(t) \/ FinishEpisode(t)
            <4>1. /\ \/ pc[t] = "embed" /\ pc'[t] = "insert"
                     \/ pc[t] = "drop" /\ pc'[t] = "flush"
                     \/ pc[t] = "finish" /\ pc'[t] = "commit"
                  /\ UNCHANGED todo
                BY <3>5, GotoEffect DEF Embed, DropPoint, FinishEpisode, At
            <4> QED
                BY <1>2, <3>1, <4>1 DEF OnPath, Key
        <3> QED
            BY <2>1, <3>2, <3>3, <3>4, <3>5 DEF Quiet
    <2>2. CASE Locks(t)
        <3>1. /\ UNCHANGED <<author, committed, kind, user, session, outcome>>
              /\ lock' = [lock EXCEPT ![Key(t)] = t] /\ Own(t)' = Own(t)
              /\ \/ pc[t] = "touch" /\ pc'[t] \in {"select", "finish", "commit"}
                 \/ pc[t] = "flush" /\ pc'[t] = "commit" /\ todo' = todo
              /\ pc'[t] = "finish" => kind[t] = "chat"
            BY <2>2, LocksTypes DEF Own
        <3> QED
            BY <1>2, <3>1 DEF OnPath, Key
    <2>3. CASE Insert(t)
        BY <1>2, <2>3, InsertTypes DEF OnPath
    <2>4. CASE Fails(t)
        <3>1. DOMAIN session = Requests /\ DOMAIN outcome = Requests
            BY DEF TypeOK
        <3> QED
            BY <1>2, <2>4, <3>1, FailsTypes DEF OnPath
    <2>5. CASE Drops(t)
        <3>1. DOMAIN outcome = Requests
            BY DEF TypeOK
        <3> QED
            BY <1>2, <2>5, <3>1, DropsTypes DEF OnPath
    <2>6. CASE Commit(t)
        <3>1. DOMAIN outcome = Requests
            BY DEF TypeOK
        <3> QED
            BY <1>2, <2>6, <3>1, CommitTypes DEF OnPath
    <2>7. CASE Disconnect(t)
        BY <1>2, <2>7, DisconnectTypes DEF OnPath
    <2> QED
        BY <2>1, <2>2, <2>3, <2>4, <2>5, <2>6, <2>7, StepKinds
<1> QED
    BY <1>1, <1>3 DEF Path

\* Only a commit makes rows durable, and a request that ended stays ended.
LEMMA Committing ==
    ASSUME TypeOK, Path, NEW t \in Requests, Step(t) \/ Cut(t)
    PROVE  /\ pc[t] # "ended"
           /\ \/ committed' = committed
              \/ /\ committed' = committed \cup Own(t)
                 /\ outcome'[t] = "committed" /\ author' = author
<1>1. DOMAIN outcome = Requests
    BY DEF TypeOK
<1>2. CASE Commit(t)
    BY <1>1, <1>2, CommitTypes
<1> QED
    BY <1>2, StepKinds, QuietTypes, LocksTypes, InsertTypes, FailsTypes,
       DropsTypes, DisconnectTypes, RollbackEffect
    DEF rowVars, Interrupted, LeftIdle

LEMMA HeldStep ==
    ASSUME TypeOK, Path, Held, NEW t \in Requests, Step(t) \/ Cut(t)
    PROVE  Held'
<1> SUFFICES ASSUME NEW k \in Keys, author'[k] # Nobody, k \notin committed'
             PROVE  lock'[k] = author'[k] /\ pc'[author'[k]] # "ended"
    BY DEF Held
<1>1. /\ author[k] \in Requests \cup {Nobody} /\ lock[k] \in Requests \cup {Nobody}
      /\ DOMAIN author = Keys /\ DOMAIN lock = Keys
    BY DEF TypeOK
<1>2. author[k] # Nobody => k \notin committed /\ lock[k] = author[k]
                            /\ pc[author[k]] # "ended"
    BY Committing DEF Held
<1>3. CASE Quiet(t)
    BY <1>1, <1>2, <1>3, QuietTypes DEF rowVars, Held
<1>4. CASE Locks(t)
    <2>1. /\ lock' = [lock EXCEPT ![Key(t)] = t] /\ lock[Key(t)] \in {Nobody, t}
          /\ author' = author /\ committed' = committed /\ pc'[t] # "ended"
          /\ \A r \in Requests \ {t} : pc'[r] = pc[r]
        BY <1>4, LocksTypes DEF Free
    <2> QED
        BY <1>1, <2>1 DEF Held
<1>5. CASE Insert(t)
    <2>1. /\ lock' = [lock EXCEPT ![Key(t)] = t]
          /\ author' = [author EXCEPT ![Key(t)] = t]
          /\ committed' = committed /\ pc'[t] # "ended"
          /\ \A r \in Requests \ {t} : pc'[r] = pc[r]
        BY <1>5, InsertTypes
    <2> QED
        BY <1>1, <2>1 DEF Held
<1>6. CASE Fails(t) \/ Drops(t) \/ (Disconnect(t) /\ Interrupted(t))
    <2>1. Rollback(t) /\ \A r \in Requests \ {t} : pc'[r] = pc[r]
        BY <1>6, FailsTypes, DropsTypes, DisconnectTypes DEF Interrupted
    <2>2. author[k] # t /\ author'[k] = author[k] /\ committed' = committed
        BY <2>1, RollbackEffect
    <2>3. lock[k] # t => lock'[k] = lock[k]
        BY <2>1, RollbackEffect
    <2> QED
        BY <1>1, <2>1, <2>2, <2>3 DEF Held
<1>7. CASE Commit(t)
    <2>1. /\ committed' = committed \cup Own(t) /\ author' = author
          /\ lock[k] # t => lock'[k] = lock[k]
          /\ \A r \in Requests \ {t} : pc'[r] = pc[r]
        BY <1>7, CommitTypes
    <2> QED
        BY <1>1, <2>1 DEF Held, Own
<1>8. CASE Disconnect(t) /\ LeftIdle(t)
    BY <1>1, <1>2, <1>8, DisconnectTypes DEF rowVars, Held, LeftIdle
<1> QED
    BY <1>3, <1>4, <1>5, <1>6, <1>7, <1>8, StepKinds, DisconnectTypes

LEMMA DurableStep ==
    ASSUME TypeOK, Path, Held, Durable, NEW t \in Requests,
           Step(t) \/ Cut(t)
    PROVE  Durable'
<1> SUFFICES ASSUME NEW k \in committed'
             PROVE  author'[k] \in Requests /\ outcome'[author'[k]] = "committed"
    BY DEF Durable
<1>1. CASE k \in committed
    <2>1. PICK r \in Requests : k \in Own(r) /\ outcome[r] = "committed"
        BY <1>1 DEF Durable, TypeOK, Own
    <2>2. r # t
        BY <2>1, Committing DEF Path, OnPath
    <2>3. k \in Own(r)' /\ outcome'[r] = "committed"
        BY <2>1, <2>2, Others
    <2> QED
        BY <2>1, <2>3 DEF Own
<1>2. CASE k \notin committed
    BY <1>2, Committing DEF Own
<1> QED
    BY <1>1, <1>2

LEMMA BooksStep ==
    ASSUME TypeOK, Path, Held, Books, NEW t \in Requests, Step(t) \/ Cut(t)
    PROVE  Books'
<1>1. ASSUME NEW r \in Requests \ {t} PROVE Booked(r)'
    BY Others DEF Books, Booked
<1>2. /\ Booked(t) /\ OnPath(t)
      /\ DOMAIN outcome = Requests /\ DOMAIN session = Requests
      /\ DOMAIN told = Requests
    BY DEF Books, Path, TypeOK
<1>3. Booked(t)'
    <2>1. CASE Quiet(t) \/ Locks(t)
        <3>1. UNCHANGED <<author, session, outcome, told>>
            BY <2>1, QuietTypes, LocksTypes DEF rowVars
        <3> QED
            BY <1>2, <3>1 DEF Booked, Own
    <2>2. CASE Insert(t)
        <3>1. /\ session[t] = "usable" /\ outcome[t] = "none"
              /\ session' = session /\ outcome' = outcome
            BY <1>2, <2>2, InsertTypes DEF OnPath, TypeOK
        <3>2. told'[t] = told[t] \cup {Key(t)} /\ Own(t)' = Own(t) \cup {Key(t)}
            BY <1>2, <2>2, InsertTypes, InsertOwn
        <3> QED
            BY <1>2, <3>1, <3>2 DEF Booked
    <2>3. CASE Fails(t)
        <3>1. /\ Own(t)' = {} /\ session'[t] = "broken"
              /\ outcome'[t] \in {outcome[t], "rolledback"} /\ pc[t] # "ended"
            BY <1>2, <2>3, FailsTypes, RollbackEffect
        <3>2. outcome'[t] # "committed"
            BY <1>2, <3>1 DEF OnPath
        <3> QED
            BY <3>1, <3>2 DEF Booked
    <2>4. CASE Drops(t)
        BY <1>2, <2>4, DropsTypes, RollbackEffect DEF Booked
    <2>5. CASE Commit(t)
        <3>1. /\ UNCHANGED <<author, session, told>> /\ pc[t] = "commit"
              /\ session[t] = "usable" /\ outcome'[t] = "committed"
            BY <1>2, <2>5, CommitTypes
        <3> QED
            BY <1>2, <3>1 DEF Booked, OnPath, Own
    <2>6. CASE Disconnect(t)
        <3>1. UNCHANGED <<told, outcome>> /\ outcome[t] = "none"
            BY <1>2, <2>6, DisconnectTypes DEF OnPath, TypeOK
        <3>2. CASE Interrupted(t)
            BY <1>2, <3>1, <3>2, RollbackEffect DEF Interrupted, Booked
        <3>3. CASE LeftIdle(t)
            BY <1>2, <3>1, <3>3 DEF LeftIdle, rowVars, Booked, Own
        <3> QED
            BY <2>6, <3>2, <3>3, DisconnectTypes
    <2> QED
        BY <2>1, <2>2, <2>3, <2>4, <2>5, <2>6, StepKinds
<1> QED
    BY <1>1, <1>3 DEF Books

LEMMA DiaryStep ==
    ASSUME TypeOK, Path, Held, Diary, NEW t \in Requests, Step(t) \/ Cut(t)
    PROVE  Diary'
<1>1. ASSUME NEW r \in Requests \ {t} PROVE InDiary(r)'
    BY Others DEF Diary, InDiary
<1>2. /\ InDiary(t) /\ OnPath(t)
      /\ DOMAIN outcome = Requests /\ DOMAIN session = Requests
      /\ DOMAIN episode = Requests
    BY DEF Diary, Path, TypeOK
<1>3. InDiary(t)'
    <2>1. CASE Quiet(t)
        <3>1. /\ UNCHANGED <<kind, author, session, outcome>>
              /\ outcome[t] = "none" /\ Own(t)' = Own(t)
            BY <1>2, <2>1, QuietTypes DEF rowVars, OnPath, Own
        <3>2. CASE OpenEpisode(t)
            BY <1>2, <3>1, <3>2, GotoEffect DEF InDiary, OpenEpisode, At
        <3>3. CASE AgentsFinish(t) \/ AgentsFail(t)
            <4>1. /\ pc[t] = "agents" /\ episode' = episode
                  /\ pc'[t] \in {"select", "finish", "commit"}
                BY <3>3, GotoEffect DEF AgentsFinish, AgentsFail, At
            <4> QED
                BY <1>2, <3>1, <4>1 DEF InDiary
        <3>4. CASE Select(t) \/ Embed(t) \/ DropPoint(t)
            <4>1. /\ pc[t] \in {"select", "embed"} \/ kind[t] # "chat"
                  /\ episode' = episode
                  /\ pc'[t] \in {"touch", "embed", "insert"} \/ kind[t] # "chat"
                BY <1>2, <3>4, GotoEffect
                DEF Select, Embed, DropPoint, At, OnPath
            <4> QED
                BY <1>2, <3>1, <4>1 DEF InDiary
        <3>5. CASE SelectRaises(t)
            <4>1. /\ session[t] = "broken" /\ AfterContent(t) /\ todo[t] # << >>
                BY <3>5 DEF SelectRaises, At, TypeOK
            <4> QED
                BY <3>1, <4>1, AfterContentEffect DEF InDiary
        <3>6. CASE FinishEpisode(t)
            <4>1. /\ pc[t] = "finish" /\ pc'[t] = "commit"
                  /\ episode' = IF session[t] = "usable" /\ episode[t] = "pending"
                                THEN [episode EXCEPT ![t] = "finished"]
                                ELSE episode
                BY <3>6, GotoEffect DEF FinishEpisode, EpisodeFilled, At
            <4> QED
                BY <1>2, <3>1, <4>1 DEF InDiary
        <3> QED
            BY <2>1, <3>2, <3>3, <3>4, <3>5, <3>6 DEF Quiet
    <2>2. CASE Locks(t)
        <3>1. /\ UNCHANGED <<kind, author, session, outcome, episode>>
              /\ Own(t)' = Own(t)
              /\ kind[t] = "chat" => /\ pc[t] = "touch"
                                     /\ pc'[t] \in {"select", "finish"}
            BY <1>2, <2>2, LocksTypes DEF Own, OnPath
        <3> QED
            BY <1>2, <3>1 DEF InDiary, OnPath
    <2>3. CASE Insert(t)
        <3>1. /\ UNCHANGED <<kind, session, outcome, episode>>
              /\ pc[t] = "insert"
              /\ kind[t] = "chat" => pc'[t] \in {"select", "finish"}
            BY <2>3, InsertTypes
        <3> QED
            BY <1>2, <3>1 DEF InDiary, OnPath
    <2>4. CASE Fails(t)
        <3>1. /\ UNCHANGED kind /\ session'[t] = "broken"
              /\ pc'[t] \notin {"open", "agents"}
            BY <1>2, <2>4, FailsTypes
        <3> QED
            BY <3>1 DEF InDiary
    <2>5. CASE Drops(t)
        <3>1. /\ UNCHANGED kind /\ pc'[t] = "ended"
              /\ outcome'[t] = "rolledback"
            BY <1>2, <2>5, DropsTypes
        <3> QED
            BY <3>1 DEF InDiary
    <2>6. CASE Commit(t)
        <3>1. /\ UNCHANGED <<gone, kind, author, session, episode>>
              /\ pc[t] = "commit" /\ pc'[t] = "ended" /\ Own(t)' = Own(t)
            BY <2>6, CommitTypes DEF Own
        <3> QED
            BY <1>2, <3>1 DEF InDiary
    <2>7. CASE Disconnect(t)
        <3>1. /\ UNCHANGED <<kind, outcome>> /\ pc'[t] = "commit"
              /\ outcome[t] = "none" /\ t \in gone'
              /\ pc[t] \in {"open", "agents", "select", "touch", "embed",
                           "insert", "finish"}
            BY <1>2, <2>7, DisconnectTypes DEF OnPath, TypeOK
        <3>2. CASE Interrupted(t)
            BY <1>2, <3>1, <3>2 DEF Interrupted, InDiary
        <3>3. CASE LeftIdle(t)
            <4>1. session' = session /\ Own(t)' = Own(t)
                BY <3>3 DEF LeftIdle, rowVars, Own
            <4>2. episode'[t] = episode[t] \/ episode'[t] = "finished"
                BY <1>2, <3>3 DEF LeftIdle, EpisodeFilled
            <4> QED
                BY <1>2, <3>1, <4>1, <4>2 DEF InDiary
        <3> QED
            BY <2>7, <3>2, <3>3, DisconnectTypes
    <2> QED
        BY <2>1, <2>2, <2>3, <2>4, <2>5, <2>6, <2>7, StepKinds
<1> QED
    BY <1>1, <1>3 DEF Diary

\* A point is only taken away by an archive, which records it.
LEMMA PointedStays ==
    ASSUME TypeOK, Path, NEW t \in Requests, Step(t) \/ Cut(t),
           NEW c \in Contents, Pointed(c)
    PROVE  Pointed(c)'
<1>1. point \in [Contents -> Users \cup {Nobody}] /\ dropped \subseteq Contents
    BY DEF TypeOK
<1>2. CASE Embed(t) \/ (Disconnect(t) /\ LeftIdle(t))
    <2>1. /\ \/ point' = point
             \/ /\ todo[t] # << >>
                /\ point' = [point EXCEPT ![Head(todo[t])] = user[t]]
          /\ dropped' = dropped
        BY <1>2 DEF Embed, At, TypeOK, LeftIdle, PointWritten
    <2>2. todo[t] # << >> => user[t] # Nobody /\ Head(todo[t]) \in Contents
        BY KeyType, MemoryAssumption
    <2> QED
        BY <1>1, <2>1, <2>2 DEF Pointed
<1>3. CASE DropPoint(t)
    <2>1. \/ UNCHANGED pointVars
          \/ /\ point' = [point EXCEPT ![Head(todo[t])] = Nobody]
             /\ dropped' = dropped \cup {Head(todo[t])}
        BY <1>3 DEF DropPoint
    <2> QED
        BY <1>1, <2>1 DEF Pointed, pointVars
<1>4. CASE ~Embed(t) /\ ~DropPoint(t) /\ ~(Disconnect(t) /\ LeftIdle(t))
    <2>1. UNCHANGED pointVars
        <3>1. CASE Quiet(t)
            BY <1>4, <3>1 DEF Quiet, OpenEpisode, AgentsFinish, AgentsFail,
                Select, SelectRaises, FinishEpisode
        <3> QED
            BY <1>4, <3>1, StepKinds, LocksTypes, InsertTypes, FailsTypes,
               DropsTypes, CommitTypes, DisconnectTypes DEF Interrupted
    <2> QED
        BY <2>1 DEF Pointed, pointVars
<1> QED
    BY <1>2, <1>3, <1>4

LEMMA PointsStep ==
    ASSUME TypeOK, Path, Held, Points, NEW t \in Requests,
           Step(t) \/ Cut(t)
    PROVE  Points'
<1>1. ASSUME NEW k \in indexed' PROVE Pointed(k[2])'
    <2>1. k \in Keys /\ k[2] \in Contents
        BY StepTypes DEF TypeOK, Keys
    <2>2. CASE k \in indexed
        <3>1. Pointed(k[2])
            BY <2>2 DEF Points
        <3> QED
            BY <2>1, <3>1, PointedStays DEF Pointed
    <2>3. CASE k \notin indexed
        <3>1. Insert(t) /\ gotVector[t] /\ k = Key(t)
            BY <2>3, StepKinds, QuietTypes, LocksTypes, InsertTypes,
               FailsTypes, DropsTypes, CommitTypes, DisconnectTypes,
               RollbackEffect DEF rowVars, Interrupted, LeftIdle
        <3>2. pc[t] = "insert" /\ UNCHANGED pointVars
            BY <3>1, InsertTypes
        <3>3. Pointed(k[2])
            BY <3>1, <3>2, KeyType DEF Points, TypeOK
        <3> QED
            BY <3>2, <3>3 DEF Pointed, pointVars
    <2> QED
        BY <2>2, <2>3
<1>2. ASSUME NEW r \in Requests, pc'[r] = "insert", gotVector'[r]
      PROVE  Pointed(Head(todo[r]))'
    <2>1. CASE r # t
        <3>1. /\ pc[r] = "insert" /\ gotVector[r] /\ todo'[r] = todo[r]
            BY <1>2, <2>1, Others
        <3>2. Head(todo[r]) \in Contents /\ Pointed(Head(todo[r]))
            BY <3>1, KeyType DEF Points, TypeOK
        <3>3. PICK c \in Contents : c = Head(todo[r]) /\ Pointed(c)
            BY <3>2
        <3>4. Pointed(c)'
            BY <3>3, PointedStays
        <3> QED
            BY <3>1, <3>3, <3>4 DEF Pointed
    <2>2. CASE r = t
        <3>1. Embed(t)
            <4>1. Quiet(t)
                BY <1>2, <2>2, StepKinds, LocksTypes, InsertTypes, FailsTypes,
                   DropsTypes, CommitTypes, DisconnectTypes
            <4>2. CASE SelectRaises(t)
                <5>1. AfterContent(t) /\ todo[t] # << >>
                    BY <4>2 DEF SelectRaises, At, TypeOK
                <5> QED
                    BY <1>2, <2>2, <5>1, AfterContentEffect
            <4>3. CASE \/ OpenEpisode(t) \/ AgentsFinish(t) \/ AgentsFail(t)
                       \/ Select(t) \/ DropPoint(t) \/ FinishEpisode(t)
                BY <1>2, <2>2, <4>3, GotoEffect
                DEF OpenEpisode, AgentsFinish, AgentsFail, Select, DropPoint,
                    FinishEpisode
            <4> QED
                BY <4>1, <4>2, <4>3 DEF Quiet
        <3>2. /\ gotVector'[t] =>
                    point' = [point EXCEPT ![Head(todo[t])] = user[t]]
              /\ todo' = todo /\ todo[t] # << >>
            BY <3>1 DEF Embed, At, TypeOK, PointWritten
        <3>3. point'[Head(todo[t])] = user[t] /\ user[t] # Nobody
            BY <1>2, <2>2, <3>2, KeyType, MemoryAssumption DEF TypeOK
        <3> QED
            BY <2>2, <3>2, <3>3 DEF Pointed
    <2> QED
        BY <2>1, <2>2
<1> QED
    BY <1>1, <1>2 DEF Points

-----------------------------------------------------------------------------
(* The theorems.                                                           *)

LEMMA InitInvariant == Init => IInv
<1> SUFFICES ASSUME Init PROVE IInv
    OBVIOUS
<1>1. /\ kind \in [Requests -> {"chat", "post", "delete"}]
      /\ pc = [t \in Requests |-> IF kind[t] = "chat" THEN "open" ELSE "select"]
      /\ session = [t \in Requests |-> "usable"]
      /\ episode = [t \in Requests |-> "none"]
      /\ gotVector = [t \in Requests |-> FALSE]
      /\ told = [t \in Requests |-> {}]
      /\ outcome = [t \in Requests |-> "none"] /\ gone = {}
      /\ author = [k \in Keys |-> Nobody] /\ lock = [k \in Keys |-> Nobody]
      /\ committed = {} /\ archived = {} /\ indexed = {}
      /\ point = [c \in Contents |-> Nobody] /\ dropped = {}
    BY DEF Init
<1>2. /\ todo \in [Requests -> Seq(Contents)]
      /\ \A t \in Requests : kind[t] # "chat" => todo[t] # << >>
    <2>1. \A n \in 0 .. MaxWrites : [1 .. n -> Contents] \subseteq Seq(Contents)
        BY MemoryAssumption
    <2>2. todo \in [Requests -> Seq(Contents)]
        <3>1. todo \in [Requests -> UNION {[1 .. n -> Contents] : n \in 0 .. MaxWrites}]
            BY DEF Init
        <3>2. UNION {[1 .. n -> Contents] : n \in 0 .. MaxWrites} \subseteq Seq(Contents)
            BY <2>1
        <3> HIDE <2>1
        <3> QED
            BY <3>1, <3>2
    <2>3. \A t \in Requests : kind[t] # "chat" => Len(todo[t]) = 1
        BY DEF Init
    <2>4. Len(<< >>) # 1
        OBVIOUS
    <2> QED
        BY <2>2, <2>3, <2>4
<1>3. \A t \in Requests : Own(t) = {} /\ t # Nobody
    BY <1>1, MemoryAssumption DEF Own
<1>4. TypeOK
    BY <1>1, <1>2 DEF Init, TypeOK
<1>5. Path
    <2> SUFFICES ASSUME NEW t \in Requests PROVE OnPath(t)
        BY DEF Path
    <2>1. kind[t] # "chat" => Key(t) \in Keys
        BY <1>2, <1>4, KeyType
    <2> QED
        BY <1>1, <1>2, <1>3, <2>1 DEF OnPath
<1>6. Held /\ Durable /\ Points
    BY <1>1 DEF Held, Durable, Points
<1>7. Books /\ Diary
    BY <1>1, <1>3 DEF Books, Booked, Diary, InDiary
<1> QED
    BY <1>4, <1>5, <1>6, <1>7 DEF IInv

LEMMA StepInvariant == IInv /\ [Next]_vars => IInv'
<1> SUFFICES ASSUME IInv, [Next]_vars PROVE IInv'
    OBVIOUS
<1>1. CASE UNCHANGED vars
    BY <1>1 DEF vars, requestVars, rowVars, pointVars, IInv, TypeOK, Path,
        OnPath, Held, Durable, Books, Booked, Diary, InDiary, Points, Pointed,
        Own, Key
<1>2. CASE \E t \in Requests : Step(t) \/ Cut(t)
    BY <1>2, StepTypes, PathStep, HeldStep, DurableStep, BooksStep, DiaryStep,
       PointsStep DEF IInv
<1> QED
    BY <1>1, <1>2 DEF Next, Ended

\* The inductive invariant of the store.
THEOREM Invariance == Spec => []IInv
    BY InitInvariant, StepInvariant, PTL DEF Spec

\* Every variable of the store keeps its type: a request that works on a
\* content has one, and a row with a vector or a lock is one of the table.
THEOREM TypeCorrectness == Spec => []TypeOK
<1>1. IInv => TypeOK
    BY DEF IInv
<1> QED
    BY <1>1, Invariance, PTL

\* A committed memory of a chat run has the run's committed episode beside
\* it, finished unless the client left, however many writes failed on the way
\* (_extract_memories and the end of the run swallow both kinds of failure).
THEOREM EpisodeBesideMemories == Spec => []MemoriesHaveEpisode
<1>1. IInv => MemoriesHaveEpisode
    <2> SUFFICES ASSUME IInv, NEW k \in committed, kind[author[k]] = "chat"
                 PROVE  /\ outcome[author[k]] = "committed"
                        /\ episode[author[k]] # "none"
                        /\ episode[author[k]] = "finished" \/ author[k] \in gone
        BY DEF MemoriesHaveEpisode
    <2>1. PICK r \in Requests : r = author[k] /\ outcome[r] = "committed"
        BY DEF IInv, Durable
    <2>2. k \in Own(r)
        BY <2>1 DEF Own, IInv, TypeOK
    <2>3. session[r] = "usable"
        BY <2>1 DEF IInv, Books, Booked
    <2> QED
        BY <2>1, <2>2, <2>3 DEF IInv, Diary, InDiary
<1> QED
    BY <1>1, Invariance, PTL

\* A request that commits leaves exactly the memories it announced, one that
\* does not leaves none (get_db_session, long_term.remember).
THEOREM AnnouncementsHold == Spec => []AnnouncedAllOrNothing
<1>1. IInv => AnnouncedAllOrNothing
    <2> SUFFICES ASSUME IInv, NEW t \in Requests
                 PROVE  /\ outcome[t] = "committed" =>
                            \A k \in Keys :
                                k \in told[t] <=> k \in committed /\ author[k] = t
                        /\ outcome[t] = "rolledback" =>
                            \A k \in Keys : author[k] # t
        BY DEF AnnouncedAllOrNothing
    <2>1. Booked(t) /\ OnPath(t) /\ t # Nobody
        BY MemoryAssumption DEF IInv, Books, Path
    <2>2. outcome[t] = "committed" => \A k \in Own(t) : k \in committed
        BY <2>1 DEF IInv, Held, Own, OnPath
    <2> QED
        BY <2>1, <2>2 DEF Booked, Own
<1> QED
    BY <1>1, Invariance, PTL

\* A committed row that names a vector had its point written first, and only
\* an archive took it away (_embed_and_upsert before session.add).
THEOREM PointsComeFirst == Spec => []PointBeforeRow
<1>1. IInv => PointBeforeRow
    BY DEF IInv, Points, Pointed, PointBeforeRow
<1> QED
    BY <1>1, Invariance, PTL

-----------------------------------------------------------------------------
(* Nobody waits for ever on everybody.  That requests end needs fairness   *)
(* and is TLC's; that there is always a step to take, and only so many of  *)
(* them, is a matter of safety.                                            *)

\* A lock is held by a running request.
LockHolders == \A k \in Keys : lock[k] # Nobody => pc[lock[k]] # "ended"

LEMMA LockHoldersStep ==
    ASSUME TypeOK, Path, LockHolders, NEW t \in Requests, Step(t) \/ Cut(t)
    PROVE  LockHolders'
<1> SUFFICES ASSUME NEW k \in Keys, lock'[k] # Nobody
             PROVE  pc'[lock'[k]] # "ended"
    BY DEF LockHolders
<1>1. /\ lock[k] \in Requests \cup {Nobody} /\ DOMAIN lock = Keys
      /\ lock[k] # Nobody => pc[lock[k]] # "ended"
    BY DEF TypeOK, LockHolders
<1>2. CASE Quiet(t)
    BY <1>1, <1>2, QuietTypes DEF rowVars
<1>3. CASE Locks(t) \/ Insert(t)
    <2>1. /\ lock' = [lock EXCEPT ![Key(t)] = t] /\ pc'[t] # "ended"
          /\ \A r \in Requests \ {t} : pc'[r] = pc[r]
        BY <1>3, LocksTypes, InsertTypes
    <2> QED
        BY <1>1, <2>1
<1>4. CASE Fails(t) \/ Drops(t) \/ Commit(t) \/ (Disconnect(t) /\ Interrupted(t))
    <2>1. /\ lock[k] # t => lock'[k] = lock[k]
          /\ lock[k] = t => lock'[k] = Nobody
          /\ \A r \in Requests \ {t} : pc'[r] = pc[r]
        BY <1>4, FailsTypes, DropsTypes, CommitTypes, DisconnectTypes,
           RollbackEffect DEF Interrupted
    <2> QED
        BY <1>1, <2>1
<1>5. CASE Disconnect(t) /\ LeftIdle(t)
    BY <1>1, <1>5, DisconnectTypes DEF LeftIdle, rowVars
<1> QED
    BY <1>2, <1>3, <1>4, <1>5, StepKinds, DisconnectTypes

LEMMA LockHoldersInvariant == Spec => [](IInv /\ LockHolders)
<1>1. Init => LockHolders
    BY DEF Init, LockHolders
<1>2. IInv /\ LockHolders /\ [Next]_vars => LockHolders'
    <2> SUFFICES ASSUME IInv, LockHolders, [Next]_vars PROVE LockHolders'
        OBVIOUS
    <2>1. CASE \E t \in Requests : Step(t) \/ Cut(t)
        BY <2>1, LockHoldersStep DEF IInv
    <2>2. CASE UNCHANGED vars
        BY <2>2 DEF LockHolders, vars, requestVars, rowVars
    <2> QED
        BY <2>1, <2>2 DEF Next, Ended
<1> QED
    BY <1>1, <1>2, Invariance, PTL DEF Spec

\* What holds of 0, and of a number's successor with it, holds of all.
LEMMA NatInduct ==
    ASSUME NEW T, 0 \in T, \A n \in Nat : n \in T => n + 1 \in T
    PROVE  Nat \subseteq T
<1> DEFINE Bad  == {n \in Nat : n \notin T}
           Less == OpToRel(<, Nat)
<1>1. ASSUME Bad # {} PROVE FALSE
    <2>1. PICK n \in Bad : \A k \in Bad : <<k, n>> \notin Less
        <3>1. IsWellFoundedOn(Less, Nat)
            BY NatLessThanWellFounded
        <3>2. Bad \subseteq Nat
            OBVIOUS
        <3> HIDE DEF Bad, Less
        <3> QED
            BY <1>1, <3>1, <3>2, WFMin
    <2>2. \A k \in Bad : ~(k < n)
        BY <2>1 DEF OpToRel
    <2>3. n \in Nat /\ n # 0 /\ n \notin T
        OBVIOUS
    <2>4. n - 1 \in Nat /\ (n - 1) + 1 = n /\ n - 1 < n
        BY <2>3
    <2>5. n - 1 \in T
        BY <2>2, <2>4
    <2> QED
        BY <2>3, <2>4, <2>5
<1> QED
    BY <1>1

\* Whom a request waits for, and the chain of those it waits for through
\* others, as long as there are requests.
Blocker(x) == IF Waits(x) THEN lock[Key(x)] ELSE x
IsChain(f, t, n) ==
    f = [i \in 0 .. n |-> IF i = 0 THEN t
                          ELSE IF Waits(f[i - 1]) THEN lock[Key(f[i - 1])]
                          ELSE f[i - 1]]
Chain(t) == CHOOSE f : IsChain(f, t, Cardinality(Requests))

LEMMA ChainExists ==
    ASSUME NEW t, NEW n \in Nat PROVE \E f : IsChain(f, t, n)
<1> DEFINE T == {m \in Nat : \E f : IsChain(f, t, m)}
<1>1. 0 \in T
    <2>1. IsChain([i \in 0 .. 0 |-> t], t, 0)
        BY DEF IsChain
    <2> QED
        BY <2>1
<1>2. ASSUME NEW m \in Nat, m \in T PROVE m + 1 \in T
    <2>1. PICK f : IsChain(f, t, m)
        BY <1>2
    <2> DEFINE g == [i \in 0 .. m + 1 |-> IF i = m + 1 THEN Blocker(f[m])
                                          ELSE f[i]]
    <2>2. \A i \in 0 .. m : f[i] = IF i = 0 THEN t ELSE Blocker(f[i - 1])
        BY <2>1 DEF IsChain, Blocker
    <2>3. ASSUME NEW i \in 0 .. m + 1
          PROVE  g[i] = IF i = 0 THEN t ELSE Blocker(g[i - 1])
        <3>1. CASE i = m + 1
            <4>1. g[i - 1] = f[m] /\ g[i] = Blocker(f[m]) /\ i # 0
                BY <3>1
            <4> QED
                BY <4>1
        <3>2. CASE i \in 1 .. m
            <4>1. g[i] = f[i] /\ g[i - 1] = f[i - 1] /\ i # 0
                BY <3>2
            <4> QED
                BY <2>2, <3>2, <4>1
        <3>3. CASE i = 0
            BY <2>2, <3>3
        <3> QED
            BY <3>1, <3>2, <3>3
    <2>4. g = [i \in 0 .. m + 1 |-> IF i = 0 THEN t ELSE Blocker(g[i - 1])]
        <3>1. g = [i \in 0 .. m + 1 |-> g[i]]
            OBVIOUS
        <3> HIDE DEF g
        <3> QED
            BY <2>3, <3>1
    <2>5. IsChain(g, t, m + 1)
        <3> HIDE DEF g
        <3> QED
            BY <2>4 DEF IsChain, Blocker
    <2> QED
        BY <2>5
<1> HIDE DEF T
<1>3. Nat \subseteq T
    BY <1>1, <1>2, NatInduct
<1> QED
    BY <1>3 DEF T

LEMMA ChainFacts ==
    ASSUME NEW t
    PROVE  LET n == Cardinality(Requests)
           IN  /\ n \in Nat
               /\ Chain(t)[0] = t
               /\ \A i \in 1 .. n : Chain(t)[i] = Blocker(Chain(t)[i - 1])
               /\ InCycle(t) <=> Waits(t) /\ \E i \in 1 .. n : Chain(t)[i] = t
<1> DEFINE n == Cardinality(Requests)
           f == Chain(t)
<1>1. n \in Nat
    BY MemoryAssumption, FS_CardinalityType
<1>2. IsChain(f, t, n)
    BY <1>1, ChainExists DEF Chain
<1>3. InCycle(t) <=> Waits(t) /\ \E i \in 1 .. n : f[i] = t
    BY DEF InCycle, Chain, IsChain
<1> HIDE DEF n, f
<1>4. \A i \in 0 .. n : f[i] = IF i = 0 THEN t ELSE Blocker(f[i - 1])
    BY <1>2 DEF IsChain, Blocker
<1>5. f[0] = t /\ \A i \in 1 .. n : f[i] = Blocker(f[i - 1])
    BY <1>1, <1>4
<1> QED
    BY <1>1, <1>3, <1>5 DEF n, f

\* Who waits for a lock waits for a running request.
LEMMA BlockerFact ==
    ASSUME TypeOK, LockHolders, NEW x \in Requests, pc[x] # "ended"
    PROVE  Blocker(x) \in Requests /\ pc[Blocker(x)] # "ended"
<1>1. CASE Waits(x)
    <2>1. pc[x] \in {"touch", "insert", "flush"} /\ ~Free(x, Key(x))
        BY <1>1 DEF Waits
    <2>2. todo[x] # << >>
        BY <2>1 DEF TypeOK
    <2>3. Key(x) \in Keys
        BY <2>2, KeyType
    <2>4. lock[Key(x)] \in Requests
        BY <2>1, <2>3 DEF TypeOK, Free
    <2> QED
        BY <1>1, <2>3, <2>4, MemoryAssumption DEF Blocker, LockHolders
<1>2. CASE ~Waits(x)
    BY <1>2 DEF Blocker
<1> QED
    BY <1>1, <1>2

LEMMA ChainRuns ==
    ASSUME TypeOK, LockHolders, NEW t \in Requests, pc[t] # "ended",
           NEW i \in 0 .. Cardinality(Requests)
    PROVE  Chain(t)[i] \in Requests /\ pc[Chain(t)[i]] # "ended"
<1> DEFINE n == Cardinality(Requests)
           f == Chain(t)
           T == {j \in Nat : j <= n => f[j] \in Requests /\ pc[f[j]] # "ended"}
<1>1. n \in Nat /\ f[0] = t /\ \A j \in 1 .. n : f[j] = Blocker(f[j - 1])
    BY ChainFacts
<1> HIDE DEF n, f
<1>2. 0 \in T
    BY <1>1
<1>3. ASSUME NEW j \in Nat, j \in T PROVE j + 1 \in T
    <2>1. CASE j + 1 <= n
        <3>1. f[j] \in Requests /\ pc[f[j]] # "ended"
            BY <1>1, <1>3, <2>1
        <3>2. j + 1 \in 1 .. n /\ (j + 1) - 1 = j
            BY <1>1, <2>1
        <3>3. f[j + 1] = Blocker(f[j])
            BY <1>1, <3>2
        <3> QED
            BY <3>1, <3>3, BlockerFact
    <2>2. CASE ~(j + 1 <= n)
        BY <2>2
    <2> QED
        BY <2>1, <2>2
<1> HIDE DEF T
<1>4. i \in T
    BY <1>1, <1>2, <1>3, NatInduct DEF n
<1>5. i \in 0 .. n
    BY DEF n
<1> QED
    BY <1>1, <1>4, <1>5 DEF T, f

\* A chain that comes back to a waiting request has found a cycle of locks.
LEMMA ChainCloses ==
    ASSUME NEW t,
           NEW a \in 0 .. Cardinality(Requests),
           NEW b \in 0 .. Cardinality(Requests),
           a < b, Chain(t)[a] = Chain(t)[b], Waits(Chain(t)[a])
    PROVE  InCycle(Chain(t)[a])
<1> DEFINE n == Cardinality(Requests)
           f == Chain(t)
           u == f[a]
           g == Chain(u)
           T == {j \in Nat : j <= b - a => g[j] = f[a + j]}
<1>1. n \in Nat /\ \A j \in 1 .. n : f[j] = Blocker(f[j - 1])
    BY ChainFacts
<1>2. /\ g[0] = u /\ \A j \in 1 .. n : g[j] = Blocker(g[j - 1])
      /\ InCycle(u) <=> Waits(u) /\ \E j \in 1 .. n : g[j] = u
    BY ChainFacts
<1>3. a \in 0 .. n /\ b \in 0 .. n /\ u = f[a] /\ f[b] = u /\ Waits(u)
    OBVIOUS
<1> HIDE DEF n, f, u, g
<1>4. 0 \in T
    BY <1>1, <1>2, <1>3
<1>5. ASSUME NEW j \in Nat, j \in T PROVE j + 1 \in T
    <2>1. CASE j + 1 <= b - a
        <3>1. g[j] = f[a + j]
            BY <1>1, <1>3, <1>5, <2>1
        <3>2. /\ j + 1 \in 1 .. n /\ (j + 1) - 1 = j
              /\ a + (j + 1) \in 1 .. n /\ (a + (j + 1)) - 1 = a + j
            BY <1>1, <1>3, <2>1
        <3>3. g[j + 1] = Blocker(g[j]) /\ f[a + (j + 1)] = Blocker(f[a + j])
            BY <1>1, <1>2, <3>2
        <3> QED
            BY <3>1, <3>3
    <2>2. CASE ~(j + 1 <= b - a)
        BY <2>2
    <2> QED
        BY <2>1, <2>2
<1> HIDE DEF T
<1>6. b - a \in T /\ b - a \in 1 .. n /\ a + (b - a) = b
    BY <1>1, <1>3, <1>4, <1>5, NatInduct
<1>7. g[b - a] = f[b]
    BY <1>1, <1>3, <1>6 DEF T
<1> QED
    BY <1>2, <1>3, <1>6, <1>7 DEF u, f

\* A running request takes its next step unless it waits for a lock outside
\* of any cycle: the guards of Step leave no other case.
CanGo(t) == pc[t] # "ended" /\ (~Waits(t) \/ InCycle(t))

\* However the locks are held, whoever waits does so, through others, for a
\* running request that does not wait or that the deadlock detector aborts.
NobodyStuck ==
    \A t \in Requests : pc[t] # "ended" =>
        \E i \in 0 .. Cardinality(Requests) : CanGo(Chain(t)[i])

\* "Everyone waiting on everyone" cannot happen, with any number of requests
\* and whatever rows they lock in whatever order: the chain of locks behind
\* each request leads to one that can go on.
THEOREM NobodyEverStuck == Spec => []NobodyStuck
<1>1. IInv /\ LockHolders => NobodyStuck
    <2> SUFFICES ASSUME IInv, LockHolders, NEW t \in Requests,
                        pc[t] # "ended",
                        \A i \in 0 .. Cardinality(Requests) :
                            ~CanGo(Chain(t)[i])
                 PROVE  FALSE
        BY DEF NobodyStuck
    <2> DEFINE n == Cardinality(Requests)
               S == 0 .. n
               f == [i \in S |-> Chain(t)[i]]
    <2>1. TypeOK /\ n \in Nat
        BY ChainFacts DEF IInv
    <2>2. \A i \in S : Chain(t)[i] \in Requests /\ pc[Chain(t)[i]] # "ended"
        BY <2>1, ChainRuns
    <2>3. f \in [S -> Requests]
        BY <2>2
    <2>4. IsFiniteSet(S) /\ Cardinality(S) = n + 1
        <3>1. /\ IsFiniteSet(0 .. n)
              /\ Cardinality(0 .. n) = IF 0 > n THEN 0 ELSE n - 0 + 1
            BY <2>1, FS_Interval
        <3> QED
            BY <2>1, <3>1
    <2>5. IsFiniteSet(Requests) /\ Cardinality(Requests) < Cardinality(S)
        BY <2>1, <2>4, MemoryAssumption
    <2> HIDE DEF f, S
    <2>6. PICK x, y \in S : x # y /\ f[x] = f[y]
        BY <2>3, <2>4, <2>5, FS_PigeonHole
    <2>7. PICK a, b \in S : a < b /\ f[a] = f[b]
        BY <2>1, <2>6 DEF S
    <2>8. Chain(t)[a] = Chain(t)[b] /\ a < b
        BY <2>7 DEF f
    <2>9. Waits(Chain(t)[a]) /\ ~InCycle(Chain(t)[a])
        BY <2>2, <2>7 DEF CanGo, S
    <2> QED
        BY <2>7, <2>8, <2>9, ChainCloses DEF S
<1> QED
    BY <1>1, LockHoldersInvariant, PTL

\* What a request still has before it, the coarsest count first: its stages,
\* the contents of this stage, the awaits of this content.
LeftStages(t) == CASE pc[t] = "open"       -> 5
                   [] pc[t] = "agents"     -> 4
                   [] pc[t] \in AtContent  -> 3
                   [] pc[t] = "finish"     -> 2
                   [] pc[t] = "commit"     -> 1
                   [] OTHER                -> 0
LeftContents(t) == IF pc[t] \in AtContent THEN Len(todo[t]) ELSE 0
LeftAwaits(t) == CASE pc[t] = "select"                    -> 3
                   [] pc[t] \in {"touch", "embed", "drop"} -> 2
                   [] pc[t] \in {"insert", "flush"}        -> 1
                   [] OTHER                               -> 0

CountsAreNatural ==
    \A t \in Requests : /\ LeftStages(t) \in Nat /\ LeftContents(t) \in Nat
                        /\ LeftAwaits(t) \in Nat

\* The three counts of a request fall in their lexicographic order, or stay.
Descends(t) ==
    \/ LeftStages(t)' < LeftStages(t)
    \/ /\ LeftStages(t)' = LeftStages(t)
       /\ \/ LeftContents(t)' < LeftContents(t)
          \/ /\ LeftContents(t)' = LeftContents(t)
             /\ LeftAwaits(t)' < LeftAwaits(t)
CountsStay(t) ==
    UNCHANGED <<LeftStages(t), LeftContents(t), LeftAwaits(t)>>

LEMMA CountsFact ==
    ASSUME TypeOK
    PROVE  CountsAreNatural
<1> SUFFICES ASSUME NEW t \in Requests
             PROVE  /\ LeftStages(t) \in Nat /\ LeftContents(t) \in Nat
                    /\ LeftAwaits(t) \in Nat
    BY DEF CountsAreNatural
<1>1. Len(todo[t]) \in Nat
    BY DEF TypeOK
<1> QED
    BY <1>1 DEF LeftStages, LeftContents, LeftAwaits

\* Being through with a content leaves fewer of them, or the stage.
LEMMA ContentDescends ==
    ASSUME TypeOK, NEW t \in Requests, pc[t] \in AtContent, AfterContent(t)
    PROVE  Descends(t)
<1>1. todo[t] # << >>
    BY DEF TypeOK, AtContent
<1>2. pc'[t] \in {"select", "finish", "commit"}
    BY <1>1, AfterContentEffect
<1>3. todo'[t] = Tail(todo[t])
    BY DEF AfterContent, TypeOK
<1>4. Len(todo'[t]) < Len(todo[t])
    BY <1>1, <1>3 DEF TypeOK
<1>5. CASE pc'[t] = "select"
    <2>1. LeftStages(t)' = LeftStages(t)
        BY <1>5 DEF LeftStages, AtContent
    <2>2. LeftContents(t)' < LeftContents(t)
        BY <1>4, <1>5 DEF LeftContents, AtContent
    <2> QED
        BY <2>1, <2>2 DEF Descends
<1>6. CASE pc'[t] \in {"finish", "commit"}
    BY <1>6 DEF Descends, LeftStages, AtContent
<1> QED
    BY <1>2, <1>5, <1>6

\* A step to a later stage, or to a later await of the same content.
LEMMA StageDescends ==
    ASSUME NEW t, LeftStages(t)' < LeftStages(t)
    PROVE  Descends(t)
BY DEF Descends

LEMMA AwaitDescends ==
    ASSUME NEW t, pc[t] \in AtContent, pc'[t] \in AtContent, todo' = todo,
           LeftAwaits(t)' < LeftAwaits(t)
    PROVE  Descends(t)
BY DEF Descends, LeftStages, LeftContents, AtContent

LEMMA StepDescends ==
    ASSUME TypeOK, NEW t \in Requests, Step(t) \/ Cut(t)
    PROVE  Descends(t)
<1> USE DEF At
<1>1. CASE OpenEpisode(t) \/ AgentsFinish(t) \/ AgentsFail(t)
    <2>1. \/ pc[t] = "open" /\ pc'[t] = "agents"
          \/ pc[t] = "agents" /\ pc'[t] \in {"finish", "select", "commit"}
        BY <1>1, GotoEffect DEF OpenEpisode, AgentsFinish, AgentsFail
    <2> QED
        BY <2>1, StageDescends DEF LeftStages, AtContent
<1>2. CASE Select(t)
    <2>1. /\ pc[t] = "select" /\ todo' = todo
          /\ pc'[t] \in {"drop", "commit", "touch", "embed"}
        BY <1>2, GotoEffect DEF Select
    <2>2. CASE pc'[t] = "commit"
        BY <2>1, <2>2, StageDescends DEF LeftStages, AtContent
    <2>3. CASE pc'[t] # "commit"
        BY <2>1, <2>3, AwaitDescends DEF LeftAwaits, AtContent
    <2> QED
        BY <2>2, <2>3
<1>3. CASE SelectRaises(t) \/ Touch(t) \/ Insert(t)
    BY <1>3, ContentDescends DEF SelectRaises, Touch, Insert, AtContent
<1>4. CASE Embed(t) \/ DropPoint(t)
    <2>1. /\ todo' = todo
          /\ \/ pc[t] = "embed" /\ pc'[t] = "insert"
             \/ pc[t] = "drop" /\ pc'[t] = "flush"
        BY <1>4, GotoEffect DEF Embed, DropPoint
    <2> QED
        BY <2>1, AwaitDescends DEF LeftAwaits, AtContent
<1>5. CASE Fails(t)
    <2>1. pc[t] \in {"touch", "insert", "flush"} /\ FlushFails(t)
        BY <1>5 DEF Fails, InsertConflicts, Deadlock, InCycle, Waits
    <2>2. \/ AfterContent(t)
          \/ pc'[t] = "ended"
        BY <2>1, GotoEffect DEF FlushFails, End
    <2>3. CASE pc'[t] = "ended"
        BY <2>1, <2>3, StageDescends DEF LeftStages, AtContent
    <2> QED
        BY <2>1, <2>2, <2>3, ContentDescends DEF AtContent
<1>6. CASE FlushArchive(t) \/ FinishEpisode(t)
    <2>1. pc[t] \in {"flush", "finish"} /\ pc'[t] = "commit"
        BY <1>6, GotoEffect DEF FlushArchive, FinishEpisode
    <2> QED
        BY <2>1, StageDescends DEF LeftStages, AtContent
<1>7. CASE Commit(t) \/ Drops(t)
    <2>1. pc[t] # "ended" /\ pc'[t] = "ended"
        BY <1>7, GotoEffect DEF Commit, Drops, CommitRaises, Abandon, End
    <2>2. pc[t] \in {"open", "agents", "finish", "commit"} \cup AtContent
        BY <2>1 DEF TypeOK, AtContent
    <2> QED
        BY <2>1, <2>2, StageDescends DEF LeftStages, AtContent
<1>8. CASE Disconnect(t)
    <2>1. pc[t] \in {"open", "agents", "finish"} \cup AtContent
        BY <1>8 DEF Disconnect, TypeOK, AtContent
    <2> QED
        BY <1>8, <2>1, DisconnectTypes, StageDescends DEF LeftStages, AtContent
<1> QED
    BY <1>1, <1>2, <1>3, <1>4, <1>5, <1>6, <1>7, <1>8
    DEF Step, Cut, Fails, Drops

\* A request takes only so many steps: with each one three natural numbers
\* of its own fall in their lexicographic order, and nothing the others do
\* raises them.  With NobodyEverStuck, and the promise that what can be done
\* is done, this is EveryRequestEnds.
THEOREM EveryStepDescends ==
    Spec => /\ []CountsAreNatural
            /\ [][\E t \in Requests :
                     /\ Descends(t)
                     /\ \A r \in Requests \ {t} : CountsStay(r)]_vars
<1>1. IInv => CountsAreNatural
    BY CountsFact DEF IInv
<1>2. IInv /\ [Next]_vars =>
        [\E t \in Requests :
            /\ Descends(t)
            /\ \A r \in Requests \ {t} : CountsStay(r)]_vars
    <2> SUFFICES ASSUME IInv, NEW t \in Requests, Step(t) \/ Cut(t)
                 PROVE  /\ Descends(t)
                        /\ \A r \in Requests \ {t} : CountsStay(r)
        BY DEF Next, Ended
    <2>1. Descends(t)
        BY StepDescends DEF IInv
    <2>2. ASSUME NEW r \in Requests \ {t}
          PROVE  CountsStay(r)
        <3>1. pc'[r] = pc[r] /\ todo'[r] = todo[r]
            BY Others DEF IInv
        <3> QED
            BY <3>1 DEF CountsStay, LeftStages, LeftContents, LeftAwaits
    <2> QED
        BY <2>1, <2>2
<1> QED
    BY <1>1, <1>2, Invariance, PTL DEF Spec
=============================================================================
