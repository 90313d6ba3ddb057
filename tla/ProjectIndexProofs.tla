------------------------- MODULE ProjectIndexProofs -------------------------
(***************************************************************************)
(* Theorems about ProjectIndex for every number of index requests, every   *)
(* content of the trees and every limit: requests that overlap leave the   *)
(* tables consistent, what a query puts together out of several reads      *)
(* mixes passes only when one of them committed while it ran, and the two  *)
(* searches of the index find what their graphs say.                       *)
(*                                                                         *)
(* What carries OldPassesReplaced is the account of the rows an open       *)
(* request has still to meet: a pass it knew of is gone, dropped, or in    *)
(* its snapshot (Accounted), its locks are its own (OwnLocks), and whoever *)
(* drops the edges of a pass goes on to drop its symbols (BothGo).  Near   *)
(* says of neighbors, level by level, what it has found (Searched).  Of    *)
(* architecture_map, MInv keeps which modules have been read; that the     *)
(* depth-first search finds the sets no edge leads out of (ClustersAre),   *)
(* and that its edges are the imports by whole names (ImportsEdge), are    *)
(* lemmas about the operators.                                             *)
(***************************************************************************)
EXTENDS ProjectIndex, SequenceTheorems, FiniteSetTheorems, WellFoundedInduction, TLAPS

Committed == {p \in Passes : pc[p] = "done"}

\* A request knows only passes that have committed.
KnowsCommitted == \A p \in Passes : before[p] \subseteq Committed

\* A row is locked by one open request at most.
OwnLocks ==
    \A p, q \in Passes : p # q =>
        /\ droppedE[p] \cap droppedE[q] = {}
        /\ droppedS[p] \cap droppedS[q] = {}

\* Once its second DELETE has a snapshot, the passes a request began after
\* are gone, locked by it, or still to be deleted.
Accounted ==
    \A p \in Passes :
        /\ pc[p] = "symbols" => symbols \cap before[p] \subseteq todo[p] \cup droppedS[p]
        /\ pc[p] = "stored" => symbols \cap before[p] \subseteq droppedS[p]

\* The symbols a request has dropped took their edges along, and the edges
\* it has dropped are followed by their symbols.
BothGo ==
    \A p \in Passes :
        /\ droppedS[p] \cap edges \subseteq droppedE[p]
        /\ pc[p] = "symbols" => droppedE[p] \subseteq todo[p] \cup droppedS[p]
        /\ pc[p] = "stored" => droppedE[p] \subseteq droppedS[p]

\* Rows that refer to the project keep it from being deleted.
KeepsProject ==
    \A p \in Passes : pc[p] = "stored" /\ Refers(found[p]) => exists

\* What the reader has of a query: passes committed by now, and by the time
\* it asked.  Of the passes committed then, those whose rows are still there
\* neither replaced a row it has nor were replaced by one.
Querying == reader.kind \in {"named", "hits"}

ReaderShape ==
    /\ "kind" \in DOMAIN reader
    /\ reader.kind = "named" => reader \in [kind : {"named"}, out : SUBSET Committed,
                                            done : SUBSET Committed]
    /\ reader.kind = "hits" => reader \in [kind : {"hits"}, out : SUBSET Committed,
                                           done : SUBSET Committed, hits : SUBSET Passes]
    /\ reader.kind = "rows" => reader \in [kind : {"rows"}, out : SUBSET Committed,
                                           done : SUBSET Committed]

Coherent ==
    Querying =>
        /\ \A q \in reader.done : before[q] \subseteq reader.done
        /\ \A p \in reader.out, q \in symbols \cap reader.done :
               p \notin before[q] /\ q \notin before[p]
        /\ \A p, q \in reader.out : p \in before[q] => q \notin reader.done

\* Types of what the requests write.
PassTypes ==
    /\ pc \in [Passes -> {"idle", "edges", "symbols", "stored", "done", "failed"}]
    /\ vectors \subseteq Passes /\ exists \in BOOLEAN
    /\ found \in [Passes -> Walked]
    /\ edges \subseteq symbols
    /\ symbols \subseteq Committed
    /\ todo \in [Passes -> SUBSET Passes]
    /\ before \in [Passes -> SUBSET Passes]
    /\ droppedE \in [Passes -> SUBSET edges]
    /\ droppedS \in [Passes -> SUBSET symbols]

Kinds == {"none", "near", "neighbors", "modules", "map", "named", "hits", "rows"}

PInv ==
    /\ PassTypes /\ KnowsCommitted /\ OwnLocks /\ Accounted /\ BothGo
    /\ KeepsProject /\ OldPassesReplaced

RInv == reader.kind \in Kinds /\ ReaderShape /\ Coherent /\ QueryOfOneIndex

IInv == PInv /\ RInv

----------------------------------------------------------------------------
(* A tree with an edge has a symbol.                                       *)

\* Without a symbol no source of an edge resolves, and an edge whose source
\* does not is not stored (_resolve_edges).
LEMMA EdgesHaveSymbols ==
    ASSUME NEW t \in Walked, Graph[t] # {} PROVE Symbols[t] # << >>
<1>1. Graph[t] = TreeEdges(Files(t)) /\ Symbols[t] = TreeSymbols(Files(t))
  BY DEF Graph, Symbols
<1>2. SUFFICES ASSUME TreeSymbols(Files(t)) = << >> PROVE TreeEdges(Files(t)) = {}
  BY <1>1
<1>3. ASSUME NEW n PROVE IdOf(<< >>, n) = 0
  <2>1. {s \in DOMAIN << >> : << >>[s].qname = n} = {}
    OBVIOUS
  <2>2. QED BY <2>1 DEF IdOf
<1>4. ASSUME NEW n PROVE Source(<< >>, n) = 0
  BY <1>3 DEF Source
<1>5. ASSUME NEW raw, NEW e \in {Edge(Source(<< >>, r.src), r.rel, IdOf(<< >>, r.dst)) : r \in raw}
      PROVE e.src = 0
  BY <1>4, <1>5 DEF Edge
<1>6. QED BY <1>2, <1>5 DEF TreeEdges

----------------------------------------------------------------------------
(* The steps of a request.                                                 *)

LEMMA NotFoundStep ==
    ASSUME PInv, NEW p \in Passes, NotFound(p) PROVE PInv'
<1>1. PassTypes' BY DEF PInv, PassTypes, Committed, NotFound, tables
<1>2. KnowsCommitted' BY DEF PInv, PassTypes, KnowsCommitted, Committed, NotFound, tables
<1>3. OwnLocks' BY DEF PInv, PassTypes, OwnLocks, NotFound, tables
<1>4. Accounted' BY DEF PInv, PassTypes, Accounted, KnowsCommitted, Committed, NotFound, tables
<1>5. BothGo' BY DEF PInv, PassTypes, BothGo, NotFound, tables
<1>6. KeepsProject' BY DEF PInv, PassTypes, KeepsProject, NotFound, tables
<1>7. OldPassesReplaced' BY DEF PInv, PassTypes, OldPassesReplaced, Committed, KnowsCommitted, NotFound, tables
<1>8. QED BY <1>1, <1>2, <1>3, <1>4, <1>5, <1>6, <1>7 DEF PInv

LEMMA BeginStep ==
    ASSUME PInv, NEW p \in Passes, Begin(p) PROVE PInv'
<1>1. PassTypes' BY DEF PInv, PassTypes, Committed, Begin, tables
<1>2. KnowsCommitted' BY DEF PInv, PassTypes, KnowsCommitted, Committed, Begin, tables
<1>3. OwnLocks' BY DEF PInv, PassTypes, OwnLocks, Begin, tables
<1>4. Accounted' BY DEF PInv, PassTypes, Accounted, KnowsCommitted, Committed, Begin, tables
<1>5. BothGo' BY DEF PInv, PassTypes, BothGo, Begin, tables
<1>6. KeepsProject' BY DEF PInv, PassTypes, KeepsProject, Begin, tables
<1>7. OldPassesReplaced' BY DEF PInv, PassTypes, OldPassesReplaced, Committed, KnowsCommitted, Begin, tables
<1>8. QED BY <1>1, <1>2, <1>3, <1>4, <1>5, <1>6, <1>7 DEF PInv

LEMMA DropEdgesStep ==
    ASSUME PInv, NEW p \in Passes, NEW q \in Passes, DropEdges(p, q) PROVE PInv'
<1>1. PassTypes' BY DEF PInv, PassTypes, Committed, DropEdges, tables, Locked
<1>2. KnowsCommitted' BY DEF PInv, PassTypes, KnowsCommitted, Committed, DropEdges, tables, Locked
<1>3. OwnLocks' BY DEF PInv, PassTypes, OwnLocks, DropEdges, tables, Locked
<1>4. Accounted' BY DEF PInv, PassTypes, Accounted, KnowsCommitted, Committed, DropEdges, tables, Locked
<1>5. BothGo' BY DEF PInv, PassTypes, BothGo, DropEdges, tables, Locked
<1>6. KeepsProject' BY DEF PInv, PassTypes, KeepsProject, DropEdges, tables, Locked
<1>7. OldPassesReplaced' BY DEF PInv, PassTypes, OldPassesReplaced, Committed, KnowsCommitted, DropEdges, tables, Locked
<1>8. QED BY <1>1, <1>2, <1>3, <1>4, <1>5, <1>6, <1>7 DEF PInv

LEMMA EdgesGoneStep ==
    ASSUME PInv, NEW p \in Passes, EdgesGone(p) PROVE PInv'
<1>1. PassTypes' BY DEF PInv, PassTypes, Committed, EdgesGone, tables
<1>2. KnowsCommitted' BY DEF PInv, PassTypes, KnowsCommitted, Committed, EdgesGone, tables
<1>3. OwnLocks' BY DEF PInv, PassTypes, OwnLocks, EdgesGone, tables
<1>4. Accounted' BY DEF PInv, PassTypes, Accounted, KnowsCommitted, Committed, EdgesGone, tables
<1>5. BothGo' BY DEF PInv, PassTypes, BothGo, EdgesGone, tables
<1>6. KeepsProject' BY DEF PInv, PassTypes, KeepsProject, EdgesGone, tables
<1>7. OldPassesReplaced' BY DEF PInv, PassTypes, OldPassesReplaced, Committed, KnowsCommitted, EdgesGone, tables
<1>8. QED BY <1>1, <1>2, <1>3, <1>4, <1>5, <1>6, <1>7 DEF PInv

LEMMA DropSymbolsStep ==
    ASSUME PInv, NEW p \in Passes, NEW q \in Passes, DropSymbols(p, q) PROVE PInv'
<1>1. PassTypes' BY DEF PInv, PassTypes, Committed, DropSymbols, tables, Locked
<1>2. KnowsCommitted' BY DEF PInv, PassTypes, KnowsCommitted, Committed, DropSymbols, tables, Locked
<1>3. OwnLocks' BY DEF PInv, PassTypes, OwnLocks, DropSymbols, tables, Locked
<1>4. Accounted' BY DEF PInv, PassTypes, Accounted, KnowsCommitted, Committed, DropSymbols, tables, Locked
<1>5. BothGo' BY DEF PInv, PassTypes, BothGo, DropSymbols, tables, Locked
<1>6. KeepsProject' BY DEF PInv, PassTypes, KeepsProject, DropSymbols, tables, Locked
<1>7. OldPassesReplaced' BY DEF PInv, PassTypes, OldPassesReplaced, Committed, KnowsCommitted, DropSymbols, tables, Locked
<1>8. QED BY <1>1, <1>2, <1>3, <1>4, <1>5, <1>6, <1>7 DEF PInv

LEMMA StoreStep ==
    ASSUME PInv, NEW p \in Passes, NEW t \in Walked, Store(p, t) PROVE PInv'
<1>1. PassTypes'
  <2>1. Embedded(p, t) \subseteq Passes
    BY DEF PInv, PassTypes, Embedded
  <2>2. QED BY <2>1 DEF PInv, PassTypes, Committed, Store, tables
<1>2. KnowsCommitted' BY DEF PInv, PassTypes, KnowsCommitted, Committed, Store, tables, Refers
<1>3. OwnLocks' BY DEF PInv, PassTypes, OwnLocks, Store, tables, Refers
<1>4. Accounted' BY DEF PInv, PassTypes, Accounted, KnowsCommitted, Committed, Store, tables, Refers
<1>5. BothGo' BY DEF PInv, PassTypes, BothGo, Store, tables, Refers
<1>6. KeepsProject' BY DEF PInv, PassTypes, KeepsProject, Store, tables, Refers
<1>7. OldPassesReplaced' BY DEF PInv, PassTypes, OldPassesReplaced, Committed, KnowsCommitted, Store, tables, Refers
<1>8. QED BY <1>1, <1>2, <1>3, <1>4, <1>5, <1>6, <1>7 DEF PInv

LEMMA CommitStep ==
    ASSUME PInv, NEW p \in Passes, Commit(p) PROVE PInv'
<1> DEFINE new == {q \in {p} : Symbols[found[p]] # << >>}
<1> DEFINE newE == {q \in {p} : Graph[found[p]] # {}}
<1>1. /\ pc[p] = "stored" /\ pc' = [pc EXCEPT ![p] = "done"]
      /\ symbols' = (symbols \ droppedS[p]) \cup new
      /\ edges' = (edges \ droppedE[p]) \cup newE
      /\ UNCHANGED <<exists, found, todo, before, vectors, reader>>
  BY DEF Commit
<1>2. /\ droppedE' = [droppedE EXCEPT ![p] = {}]
      /\ droppedS' = [droppedS EXCEPT ![p] = {}]
  BY DEF Commit, Released
<1>3. newE \subseteq new
  BY EdgesHaveSymbols DEF PInv, PassTypes
\* p is new to the tables.
<1>4. p \notin symbols /\ p \notin edges
  BY <1>1 DEF PInv, PassTypes, Committed
\* What goes is the same passes in both tables.
<1>5. droppedE[p] = droppedS[p] \cap edges
  BY <1>1 DEF PInv, PassTypes, BothGo
<1>6. PassTypes'
  <2>1. edges' \subseteq symbols'
    BY <1>1, <1>3, <1>5 DEF PInv, PassTypes
  <2>2. symbols' \subseteq Committed'
    BY <1>1 DEF PInv, PassTypes, Committed
  <2>3. ASSUME NEW q \in Passes
        PROVE droppedE'[q] \subseteq edges' /\ droppedS'[q] \subseteq symbols'
    BY <1>1, <1>2 DEF PInv, PassTypes, OwnLocks
  <2>4. droppedE' \in [Passes -> SUBSET edges'] /\ droppedS' \in [Passes -> SUBSET symbols']
    BY <1>2, <2>3 DEF PInv, PassTypes
  <2>5. QED BY <1>1, <2>1, <2>2, <2>4 DEF PInv, PassTypes
<1>7. KnowsCommitted' BY <1>1 DEF PInv, PassTypes, KnowsCommitted, Committed
<1>8. OwnLocks' BY <1>2 DEF PInv, PassTypes, OwnLocks
\* Nobody who is open began after p had committed.
<1>9. Accounted'
  BY <1>1, <1>2 DEF PInv, PassTypes, Accounted, KnowsCommitted, Committed
<1>10. BothGo'
  <2>1. ASSUME NEW q \in Passes, q # p PROVE droppedS[q] \cap edges' \subseteq droppedE[q]
    BY <1>1, <1>4, <2>1 DEF PInv, PassTypes, BothGo
  <2>2. QED BY <1>1, <1>2, <2>1 DEF PInv, PassTypes, BothGo
<1>11. KeepsProject' BY <1>1 DEF PInv, PassTypes, KeepsProject
<1>12. OldPassesReplaced'
  <2>1. \A q, r \in symbols' : q \notin before'[r]
    <3>1. ASSUME NEW q \in symbols \ droppedS[p] PROVE q \notin before[p] /\ p \notin before[q]
      BY <1>1, <3>1 DEF PInv, PassTypes, Accounted, KnowsCommitted, Committed
    <3>2. p \notin before[p]
      BY <1>1 DEF PInv, KnowsCommitted, Committed
    <3>3. QED BY <1>1, <3>1, <3>2 DEF PInv, OldPassesReplaced
  <2>2. edges' = {q \in symbols' : Graph[found'[q]] # {}}
    BY <1>1, <1>3, <1>4, <1>5 DEF PInv, OldPassesReplaced
  \* A pass with symbols keeps the project there until it has committed.
  <2>3. ~exists' => symbols' = {}
    BY <1>1 DEF PInv, KeepsProject, OldPassesReplaced, Refers
  <2>4. QED BY <2>1, <2>2, <2>3 DEF OldPassesReplaced
<1>13. QED BY <1>6, <1>7, <1>8, <1>9, <1>10, <1>11, <1>12 DEF PInv

LEMMA FailStep ==
    ASSUME PInv, NEW p \in Passes, Fail(p) PROVE PInv'
<1>1. PassTypes'
  <2>1. droppedE' \in [Passes -> SUBSET edges'] /\ droppedS' \in [Passes -> SUBSET symbols']
    BY DEF PInv, PassTypes, Fail, tables, Released
  <2>2. NoTree \in Walked
    BY DEF Walked
  <2>3. found' \in [Passes -> Walked] /\ todo' \in [Passes -> SUBSET Passes]
        /\ before' \in [Passes -> SUBSET Passes]
    BY <2>2 DEF PInv, PassTypes, Fail
  <2>4. symbols' \subseteq Committed'
    BY DEF PInv, PassTypes, Committed, Fail, tables, Open
  <2>5. QED BY <2>1, <2>3, <2>4 DEF PInv, PassTypes, Fail, tables
<1>2. KnowsCommitted' BY DEF PInv, PassTypes, KnowsCommitted, Committed, Fail, tables, Open, Released
<1>3. OwnLocks' BY DEF PInv, PassTypes, OwnLocks, Fail, tables, Open, Released
<1>4. Accounted' BY DEF PInv, PassTypes, Accounted, KnowsCommitted, Committed, Fail, tables, Open, Released
<1>5. BothGo' BY DEF PInv, PassTypes, BothGo, Fail, tables, Open, Released
<1>6. KeepsProject' BY DEF PInv, PassTypes, KeepsProject, Fail, tables, Open, Released
<1>7. OldPassesReplaced' BY DEF PInv, PassTypes, OldPassesReplaced, Committed, KnowsCommitted, Fail, tables, Open, Released
<1>8. QED BY <1>1, <1>2, <1>3, <1>4, <1>5, <1>6, <1>7 DEF PInv

LEMMA DeleteProjectStep ==
    ASSUME PInv, DeleteProject PROVE PInv'
<1>1. PassTypes' BY DEF PInv, PassTypes, Committed, DeleteProject, passes, Cascade
<1>2. KnowsCommitted' BY DEF PInv, PassTypes, KnowsCommitted, Committed, DeleteProject, passes, Cascade
<1>3. OwnLocks' BY DEF PInv, PassTypes, OwnLocks, DeleteProject, passes, Cascade
<1>4. Accounted' BY DEF PInv, PassTypes, Accounted, KnowsCommitted, Committed, DeleteProject, passes, Cascade
<1>5. BothGo' BY DEF PInv, PassTypes, BothGo, DeleteProject, passes, Cascade
<1>6. KeepsProject' BY DEF PInv, PassTypes, KeepsProject, DeleteProject, passes, Cascade
<1>7. OldPassesReplaced' BY DEF PInv, PassTypes, OldPassesReplaced, Committed, KnowsCommitted, DeleteProject, passes, Cascade
<1>8. QED BY <1>1, <1>2, <1>3, <1>4, <1>5, <1>6, <1>7 DEF PInv

\* The steps of the requests, in one.
Requests == DeleteProject \/ \E p \in Passes : Index(p)

LEMMA RequestStep ==
    ASSUME PInv, Requests PROVE PInv'
<1>1. CASE DeleteProject BY <1>1, DeleteProjectStep
<1>2. ASSUME NEW p \in Passes, Index(p) PROVE PInv'
  <2>1. CASE NotFound(p) BY <2>1, NotFoundStep
  <2>2. CASE Begin(p) BY <2>2, BeginStep
  <2>3. CASE EdgesGone(p) BY <2>3, EdgesGoneStep
  <2>4. CASE Commit(p) BY <2>4, CommitStep
  <2>5. CASE Fail(p) BY <2>5, FailStep
  <2>6. CASE \E t \in Walked : Store(p, t) BY <2>6, StoreStep
  <2>7. CASE \E q \in Passes : DropEdges(p, q) BY <2>7, DropEdgesStep
  <2>8. CASE \E q \in Passes : DropSymbols(p, q) BY <2>8, DropSymbolsStep
  <2>9. QED BY <1>2, <2>1, <2>2, <2>3, <2>4, <2>5, <2>6, <2>7, <2>8 DEF Index
<1>3. QED BY <1>1, <1>2 DEF Requests

----------------------------------------------------------------------------
(* The reader.                                                             *)

\* A committed pass stays committed, with its tree and with what it began
\* after, and once its rows are gone they do not come back.
LEMMA CommittedStays ==
    ASSUME PInv, Requests
    PROVE  /\ reader' = reader
           /\ Committed \subseteq Committed'
           /\ \A p \in Committed : before'[p] = before[p]
           /\ \A p \in Committed : found'[p] = found[p]
           /\ symbols' \cap Committed \subseteq symbols
<1>1. CASE DeleteProject
  BY <1>1 DEF PInv, PassTypes, DeleteProject, Committed, passes, Cascade
<1>2. ASSUME NEW r \in Passes, Index(r)
      PROVE /\ reader' = reader
            /\ Committed \subseteq Committed'
            /\ \A p \in Committed : before'[p] = before[p]
            /\ \A p \in Committed : found'[p] = found[p]
            /\ symbols' \cap Committed \subseteq symbols
  <2>1. CASE NotFound(r) BY <2>1 DEF PInv, PassTypes, NotFound, Committed, tables
  <2>2. CASE Begin(r) BY <2>2 DEF PInv, PassTypes, Begin, Committed, tables
  <2>3. CASE EdgesGone(r) BY <2>3 DEF PInv, PassTypes, EdgesGone, Committed, tables
  <2>4. CASE Commit(r) BY <2>4 DEF PInv, PassTypes, Commit, Committed
  <2>5. CASE Fail(r) BY <2>5 DEF PInv, PassTypes, Fail, Open, Committed, tables
  <2>6. CASE \E t \in Walked : Store(r, t)
    BY <2>6 DEF PInv, PassTypes, Store, Committed, tables
  <2>7. CASE \E q \in Passes : DropEdges(r, q)
    BY <2>7 DEF PInv, PassTypes, DropEdges, Committed, tables
  <2>8. CASE \E q \in Passes : DropSymbols(r, q)
    BY <2>8 DEF PInv, PassTypes, DropSymbols, Committed, tables
  <2>9. QED BY <1>2, <2>1, <2>2, <2>3, <2>4, <2>5, <2>6, <2>7, <2>8 DEF Index
<1>3. QED BY <1>1, <1>2 DEF Requests

\* What the reader has stays coherent under any step of a request.
LEMMA ReaderWaits ==
    ASSUME PInv, RInv, Requests PROVE RInv'
<1>1. /\ reader' = reader
      /\ Committed \subseteq Committed'
      /\ \A p \in Committed : before'[p] = before[p]
      /\ \A p \in Committed : found'[p] = found[p]
      /\ symbols' \cap Committed \subseteq symbols
  BY CommittedStays
<1>2. ReaderShape'
  BY <1>1 DEF RInv, ReaderShape
<1>3. Querying => reader.out \subseteq Committed /\ reader.done \subseteq Committed
  BY DEF RInv, ReaderShape, Querying
<1>4. Coherent'
  BY <1>1, <1>3 DEF RInv, Coherent, Querying
<1>5. QueryOfOneIndex'
  <2>1. SUFFICES ASSUME reader.kind = "rows"
                 PROVE  /\ \A p \in reader.out : pc'[p] = "done"
                        /\ \A p, q \in reader.out : p \in before'[q] => q \notin reader.done
    BY <1>1 DEF QueryOfOneIndex
  <2>2. reader.out \subseteq Committed
    BY <2>1 DEF RInv, ReaderShape
  <2>3. QED BY <1>1, <2>1, <2>2 DEF RInv, QueryOfOneIndex, Committed
<1>6. QED BY <1>1, <1>2, <1>4, <1>5 DEF RInv

\* The reader writes nothing but its own state.
LEMMA ReadsOnly ==
    ASSUME Read PROVE UNCHANGED <<passes, tables>>
BY DEF Read, AskNeighbors, LevelOut, LevelIn, Neighbors, AskMap, ArchitectureMap, Query, Answered,
       AskQuery, Nearest

LEMMA UnreadTables ==
    ASSUME PInv, UNCHANGED <<passes, tables>> PROVE PInv'
BY DEF PInv, PassTypes, Committed, KnowsCommitted, OwnLocks, Accounted, BothGo, KeepsProject,
       OldPassesReplaced, passes, tables

\* What the answers to the other questions look like says nothing of queries.
LEMMA OtherAnswers ==
    ASSUME RInv, Read, ~(\E named \in SUBSET symbols : AskQuery(named)),
           ~(\E hits \in SUBSET vectors : Nearest(hits)), ~Query
    PROVE  "kind" \in DOMAIN reader' /\ reader'.kind \in Kinds \ {"named", "hits", "rows"}
<1>1. CASE \E p \in Passes : \E s \in DOMAIN Symbols[found[p]], d \in Depths :
              AskNeighbors(p, s, d)
  BY <1>1 DEF AskNeighbors, Kinds
<1>2. CASE LevelOut
  <2>1. PICK o : reader' = [reader EXCEPT !.leftOut = @ - 1, !.out = @ \cup o, !.lastOut = o]
    BY <1>2 DEF LevelOut
  <2>2. DOMAIN reader' = DOMAIN reader /\ reader'.kind = reader.kind
    BY <2>1 DEF RInv, ReaderShape
  <2>3. QED BY <1>2, <2>2 DEF LevelOut, RInv, ReaderShape, Kinds
<1>8. CASE LevelIn
  <2>1. PICK i : reader' = [reader EXCEPT !.leftIn = @ - 1, !.in = @ \cup i, !.lastIn = i]
    BY <1>8 DEF LevelIn
  <2>2. DOMAIN reader' = DOMAIN reader /\ reader'.kind = reader.kind
    BY <2>1 DEF RInv, ReaderShape
  <2>3. QED BY <1>8, <2>2 DEF LevelIn, RInv, ReaderShape, Kinds
<1>3. CASE Neighbors BY <1>3 DEF Neighbors, Kinds
<1>4. CASE AskMap BY <1>4 DEF AskMap, Kinds
<1>5. CASE ArchitectureMap BY <1>5 DEF ArchitectureMap, Kinds
<1>6. CASE Answered BY <1>6 DEF Answered, Nothing, Kinds
<1>7. QED BY <1>1, <1>2, <1>3, <1>4, <1>5, <1>6, <1>8 DEF Read

\* The answer by name is of the rows there are; the nearest points may be of
\* any pass; the rows they name are again of those there are by then.
LEMMA ReadStep ==
    ASSUME PInv, RInv, Read PROVE RInv'
<1>1. UNCHANGED <<passes, tables>>
  BY ReadsOnly
<1>2. UNCHANGED <<pc, before, symbols, vectors>> /\ Committed' = Committed
  BY <1>1 DEF passes, tables, Committed
<1>3. ASSUME NEW named \in SUBSET symbols, AskQuery(named) PROVE RInv'
  <2>1. reader' = [kind |-> "named", out |-> named, done |-> Committed]
    BY <1>3 DEF AskQuery, Committed
  <2>2. reader'.kind \in Kinds /\ ReaderShape'
    BY <1>2, <2>1 DEF Kinds, ReaderShape, PInv, PassTypes
  <2>3. \A q \in Committed : before[q] \subseteq Committed
    BY DEF PInv, KnowsCommitted, Committed
  <2>4. Coherent'
    BY <1>2, <2>1, <2>3 DEF Coherent, PInv, OldPassesReplaced
  <2>5. QED BY <2>1, <2>2, <2>4 DEF RInv, QueryOfOneIndex
<1>4. ASSUME NEW hits \in SUBSET vectors, Nearest(hits) PROVE RInv'
  <2>1. reader.kind = "named" /\ reader \in [kind : {"named"}, out : SUBSET Committed,
                                              done : SUBSET Committed]
    BY <1>4 DEF Nearest, RInv, ReaderShape
  <2>2. reader' = [kind |-> "hits", out |-> reader.out, done |-> reader.done, hits |-> hits]
    BY <1>4 DEF Nearest
  <2>3. reader'.kind \in Kinds /\ ReaderShape'
    BY <1>2, <2>1, <2>2 DEF Kinds, ReaderShape, PInv, PassTypes
  <2>4. Coherent'
    BY <1>2, <2>1, <2>2 DEF RInv, Coherent, Querying
  <2>5. QED BY <2>2, <2>3, <2>4 DEF RInv, QueryOfOneIndex
<1>5. CASE Query
  <2>1. /\ Querying
        /\ reader' = [kind |-> "rows", done |-> reader.done, out |-> reader.out \cup
                        (IF reader.kind = "hits" THEN Alive(reader.hits) ELSE {})]
    BY <1>5 DEF Query, Querying
  <2>2. PICK alive \in SUBSET symbols : reader'.out = reader.out \cup alive
    BY <2>1 DEF Alive
  <2>3. reader'.done = reader.done /\ reader'.kind = "rows"
    BY <2>1
  <2>4. reader.out \subseteq Committed /\ reader.done \subseteq Committed /\ symbols \subseteq Committed
    BY <2>1 DEF RInv, ReaderShape, Querying, PInv, PassTypes
  <2>5. reader'.kind \in Kinds /\ ReaderShape'
    BY <1>2, <2>1, <2>2, <2>4 DEF Kinds, ReaderShape
  <2>6. ASSUME NEW p \in reader'.out, NEW q \in reader'.out, p \in before[q], q \in reader.done
        PROVE FALSE
    <3>1. p \in reader.done
      BY <2>1, <2>6 DEF RInv, Coherent
    <3>2. CASE p \in reader.out /\ q \in reader.out
      BY <2>1, <2>6, <3>2 DEF RInv, Coherent
    <3>3. CASE p \in reader.out /\ q \in symbols
      BY <2>1, <2>6, <3>3 DEF RInv, Coherent
    <3>4. CASE p \in symbols /\ q \in reader.out
      BY <2>1, <2>6, <3>1, <3>4 DEF RInv, Coherent
    <3>5. CASE p \in symbols /\ q \in symbols
      BY <2>6, <3>5 DEF PInv, OldPassesReplaced
    <3>6. QED BY <2>2, <2>6, <3>2, <3>3, <3>4, <3>5
  <2>7. \A p \in reader'.out : pc[p] = "done"
    BY <2>2, <2>4 DEF Committed
  <2>8. QueryOfOneIndex'
    BY <1>2, <2>3, <2>6, <2>7 DEF QueryOfOneIndex
  <2>9. QED BY <2>3, <2>5, <2>8 DEF RInv, Coherent, Querying
<1>6. CASE ~(\E named \in SUBSET symbols : AskQuery(named))
           /\ ~(\E hits \in SUBSET vectors : Nearest(hits)) /\ ~Query
  BY <1>6, OtherAnswers DEF RInv, ReaderShape, Coherent, Querying, QueryOfOneIndex, Kinds
<1>7. QED BY <1>3, <1>4, <1>5, <1>6

----------------------------------------------------------------------------
(* The theorems.                                                           *)

LEMMA Initially == ASSUME Init PROVE IInv
<1>1. PInv
  BY DEF Init, PInv, PassTypes, Committed, KnowsCommitted, OwnLocks, Accounted, BothGo,
         KeepsProject, OldPassesReplaced, Walked
<1>2. RInv
  BY DEF Init, Nothing, RInv, Kinds, ReaderShape, Coherent, Querying, QueryOfOneIndex
<1>3. QED BY <1>1, <1>2 DEF IInv

LEMMA Inductive == ASSUME IInv, [Next]_vars PROVE IInv'
<1>1. CASE UNCHANGED vars
  <2>1. UNCHANGED <<passes, tables>> /\ reader' = reader
    BY <1>1 DEF vars
  <2>2. PInv' BY <2>1, UnreadTables DEF IInv
  <2>3. RInv'
    BY <2>1 DEF IInv, RInv, ReaderShape, Coherent, Querying, QueryOfOneIndex, passes, tables,
                Committed
  <2>4. QED BY <2>2, <2>3 DEF IInv
<1>2. CASE Requests
  BY <1>2, RequestStep, ReaderWaits DEF IInv
<1>3. CASE Read
  BY <1>3, ReadStep, ReadsOnly, UnreadTables DEF IInv
<1>4. QED BY <1>1, <1>2, <1>3 DEF Next, Requests

THEOREM Invariant == Spec => []IInv
<1>1. QED BY Initially, Inductive, PTL DEF Spec

\* The variables have their types, and a request holds locks only on rows
\* that are committed (run_index_project's two DELETEs).
THEOREM TypeCorrect == Spec => []TypeOK
<1>1. IInv => TypeOK
  BY DEF IInv, PInv, PassTypes, Committed, RInv, Kinds, TypeOK
<1>2. QED BY <1>1, Invariant, PTL

\* However many requests overlap, on whatever trees: rows of two passes are
\* together in the tables only if neither had committed when the other began,
\* edges go and stay with their symbols, and a deleted project has no rows.
THEOREM OldPassesAlwaysReplaced == Spec => []OldPassesReplaced
<1>1. IInv => OldPassesReplaced
  BY DEF IInv, PInv
<1>2. QED BY <1>1, Invariant, PTL

\* A query answers with rows of committed passes only, and mixes a pass with
\* its successor only when the successor committed while the query ran.
THEOREM QueryAlwaysOfOneIndex == Spec => []QueryOfOneIndex
<1>1. IInv => QueryOfOneIndex
  BY DEF IInv, RInv
<1>2. QED BY <1>1, Invariant, PTL

----------------------------------------------------------------------------
(* Numbers and finite sets.                                                *)

Less == OpToRel(<, Nat)

LEMMA LeastNat ==
    ASSUME NEW T \in SUBSET Nat, T # {} PROVE \E x \in T : \A y \in T : x <= y
<1>1. IsWellFoundedOn(Less, Nat)
  BY NatLessThanWellFounded DEF Less
<1>2. PICK x \in T : \A y \in T : <<y, x>> \notin Less
  BY <1>1, WFMin
<1>3. Less = {ss \in Nat \X Nat : ss[1] < ss[2]}
  BY DEF Less, OpToRel
<1>4. \A y \in T : ~(y < x)
  BY <1>2, <1>3
<1>5. QED BY <1>4

\* What holds of 0, and of a number's successor with it, holds of all.
LEMMA NatInduct ==
    ASSUME NEW T, 0 \in T, \A n \in Nat : n \in T => n + 1 \in T
    PROVE  Nat \subseteq T
<1> DEFINE Bad == {n \in Nat : n \notin T}
<1>1. ASSUME Bad # {} PROVE FALSE
  <2>1. PICK n \in Bad : \A k \in Bad : n <= k
    <3>1. Bad \in SUBSET Nat
      OBVIOUS
    <3> HIDE DEF Bad
    <3>2. QED BY <1>1, <3>1, LeastNat
  <2>2. n \in Nat /\ n # 0 /\ n \notin T
    OBVIOUS
  <2>3. n - 1 \in Nat /\ (n - 1) + 1 = n /\ ~(n <= n - 1)
    BY <2>2
  <2>4. n - 1 \in T
    BY <2>1, <2>3
  <2>5. QED BY <2>2, <2>3, <2>4
<1>2. QED BY <1>1

----------------------------------------------------------------------------
(* Walks of a graph.                                                       *)

IsWalk(w, h, s, d) == w = [k \in 0 .. d |-> IF k = 0 THEN {s} ELSE Step(h, w[k - 1])]
Walk(h, s, d) == CHOOSE w : IsWalk(w, h, s, d)

\* The nodes one to k edges away from s.
Within(h, s, d, k) == UNION {Walk(h, s, d)[j] : j \in 1 .. k}

LEMMA WalkExists ==
    ASSUME NEW h, NEW s, NEW d \in Nat PROVE \E w : IsWalk(w, h, s, d)
<1> DEFINE T == {n \in Nat : \E w : IsWalk(w, h, s, n)}
<1>1. 0 \in T
  <2>1. IsWalk([k \in 0 .. 0 |-> {s}], h, s, 0)
    BY DEF IsWalk
  <2>2. QED BY <2>1
<1>2. ASSUME NEW n \in Nat, n \in T PROVE n + 1 \in T
  <2>1. PICK w : IsWalk(w, h, s, n)
    BY <1>2
  <2> DEFINE v == [k \in 0 .. n + 1 |-> IF k = n + 1 THEN Step(h, w[n]) ELSE w[k]]
  <2>2. \A k \in 0 .. n : w[k] = IF k = 0 THEN {s} ELSE Step(h, w[k - 1])
    BY <2>1 DEF IsWalk
  <2>3. ASSUME NEW k \in 0 .. n + 1 PROVE v[k] = IF k = 0 THEN {s} ELSE Step(h, v[k - 1])
    <3>1. CASE k = n + 1
      <4>1. v[k - 1] = w[n] /\ v[k] = Step(h, w[n]) /\ k # 0
        BY <3>1
      <4>2. QED BY <4>1
    <3>2. CASE k \in 1 .. n
      <4>1. v[k] = w[k] /\ v[k - 1] = w[k - 1] /\ k # 0
        BY <3>2
      <4>2. QED BY <2>2, <3>2, <4>1
    <3>3. CASE k = 0
      BY <2>2, <3>3
    <3>4. QED BY <3>1, <3>2, <3>3
  <2>4. v = [k \in 0 .. n + 1 |-> IF k = 0 THEN {s} ELSE Step(h, v[k - 1])]
    <3>1. v = [k \in 0 .. n + 1 |-> v[k]]
      OBVIOUS
    <3> HIDE DEF v
    <3>2. QED BY <2>3, <3>1
  <2>5. IsWalk(v, h, s, n + 1)
    BY <2>4 DEF IsWalk
  <2>6. QED BY <2>5
<1> HIDE DEF T
<1>3. Nat \subseteq T
  BY <1>1, <1>2, NatInduct
<1>4. QED BY <1>3 DEF T

LEMMA WalkFacts ==
    ASSUME NEW h, NEW s, NEW d \in Nat
    PROVE  /\ Walk(h, s, d)[0] = {s}
           /\ \A k \in 1 .. d : Walk(h, s, d)[k] = Step(h, Walk(h, s, d)[k - 1])
           /\ Ball(h, s, d) = Within(h, s, d, d) \ {s}
<1> DEFINE w == Walk(h, s, d)
<1>1. IsWalk(w, h, s, d)
  BY WalkExists DEF Walk
<1>2. Ball(h, s, d) = Within(h, s, d, d) \ {s}
  BY DEF Ball, Within, Walk, IsWalk
<1> HIDE DEF w
<1>3. \A k \in 0 .. d : w[k] = IF k = 0 THEN {s} ELSE Step(h, w[k - 1])
  BY <1>1 DEF IsWalk
<1>4. w[0] = {s} /\ \A k \in 1 .. d : w[k] = Step(h, w[k - 1])
  BY <1>3
<1>5. QED BY <1>2, <1>4 DEF w

\* A step from within k edges leads within k + 1, and conversely.
LEMMA WithinFacts ==
    ASSUME NEW h, NEW s, NEW d \in Nat, NEW k \in Nat, k < d
    PROVE  /\ Within(h, s, d, 0) = {}
           /\ Within(h, s, d, k) \subseteq Within(h, s, d, k + 1)
           /\ Within(h, s, d, k + 1) \subseteq
                Within(h, s, d, k) \cup Step(h, Within(h, s, d, k) \cup {s})
           /\ Step(h, Within(h, s, d, k) \cup {s}) \subseteq Within(h, s, d, k + 1)
<1> DEFINE w == Walk(h, s, d)
<1>1. w[0] = {s} /\ \A j \in 1 .. d : w[j] = Step(h, w[j - 1])
  BY WalkFacts
<1> HIDE DEF w
<1>2. \A n \in Nat : Within(h, s, d, n) = UNION {w[j] : j \in 1 .. n}
  BY DEF Within, w
<1>3. Within(h, s, d, 0) = {}
  BY <1>2
<1>4. \A x : x \in Within(h, s, d, k + 1) <=> \E j \in 1 .. k + 1 : x \in w[j]
  BY <1>2
<1>5. \A x : x \in Within(h, s, d, k) <=> \E j \in 1 .. k : x \in w[j]
  BY <1>2
<1>6. Within(h, s, d, k) \subseteq Within(h, s, d, k + 1)
  BY <1>4, <1>5
<1>7. ASSUME NEW x \in Within(h, s, d, k + 1), x \notin Within(h, s, d, k)
      PROVE  x \in Step(h, Within(h, s, d, k) \cup {s})
  <2>1. x \in w[k + 1] /\ k + 1 \in 1 .. d /\ w[k + 1] = Step(h, w[k])
    BY <1>1, <1>4, <1>5, <1>7
  <2>2. w[k] \subseteq Within(h, s, d, k) \cup {s}
    BY <1>1, <1>5
  <2>3. QED BY <2>1, <2>2 DEF Step
<1>8. ASSUME NEW x \in Step(h, Within(h, s, d, k) \cup {s})
      PROVE  x \in Within(h, s, d, k + 1)
  <2>1. PICK e \in h : e.src \in Within(h, s, d, k) \cup {s} /\ x = e.dst /\ x # 0
    BY <1>8 DEF Step
  <2>2. PICK j \in 0 .. k : e.src \in w[j]
    BY <1>1, <1>5, <2>1
  <2>3. x \in Step(h, w[j])
    BY <2>1, <2>2 DEF Step
  <2>4. j + 1 \in 1 .. k + 1 /\ j + 1 \in 1 .. d /\ w[j + 1] = Step(h, w[j])
    BY <1>1
  <2>5. QED BY <1>4, <2>3, <2>4
<1>9. QED BY <1>3, <1>6, <1>7, <1>8

----------------------------------------------------------------------------
(* One level of the search.                                                *)

\* What a search has after k levels: nothing beyond k edges, no more than
\* the limit and one node for each later level; and either as many as the
\* limit, or all there are within k edges, with what comes next one step
\* from the frontier.
Searched(h, s, d, k, ids, last) ==
    /\ IsFiniteSet(ids)
    /\ ids \subseteq Within(h, s, d, k)
    /\ last \subseteq ids \cup {s}
    /\ Cardinality(ids) <= MaxNodes + (IF k = 0 THEN 0 ELSE k - 1)
    /\ \/ Cardinality(ids) >= MaxNodes
       \/ /\ ids = Within(h, s, d, k)
          /\ Step(h, ids \cup {s}) \subseteq ids \cup Step(h, last)

LEMMA StepFinite ==
    ASSUME NEW h, IsFiniteSet(h), NEW S PROVE IsFiniteSet(Step(h, S))
<1> DEFINE E == {x \in h : x.src \in S}
           D == {e.dst : e \in E}
<1>1. IsFiniteSet(E)
  <2>1. E \in SUBSET h
    OBVIOUS
  <2> HIDE DEF E
  <2>2. QED BY <2>1, FS_Subset
<1>2. [e \in E |-> e.dst] \in Surjection(E, D)
  BY DEF Surjection
<1>3. IsFiniteSet(D)
  <2> DEFINE f == [e \in E |-> e.dst]
  <2>1. f \in Surjection(E, D)
    BY <1>2
  <2> HIDE DEF E, D, f
  <2>2. QED BY <1>1, <2>1, FS_Surjection
<1>4. Step(h, S) \in SUBSET D
  BY DEF Step
<1> HIDE DEF D
<1>5. QED BY <1>3, <1>4, FS_Subset

\* The rows of a level add at most the room there is, and when they are cut
\* short fill it.
LEMMA AddedFacts ==
    ASSUME NEW new, IsFiniteSet(new), NEW ids, IsFiniteSet(ids), new \cap ids = {},
           NEW some \in Added(new, ids)
    PROVE  /\ some \subseteq new /\ IsFiniteSet(ids \cup some)
           /\ Cardinality(ids) \in Nat
           /\ Cardinality(ids \cup some) \in Nat
           /\ Cardinality(ids) <= Cardinality(ids \cup some)
           /\ Cardinality(ids) < MaxNodes => Cardinality(ids \cup some) <= MaxNodes
           /\ Cardinality(ids) >= MaxNodes => Cardinality(ids \cup some) <= Cardinality(ids) + 1
           /\ some = new \/ Cardinality(ids \cup some) >= MaxNodes
<1> DEFINE room == IF Cardinality(ids) < MaxNodes THEN MaxNodes - Cardinality(ids) ELSE 1
<1>1. Cardinality(ids) \in Nat /\ Cardinality(new) \in Nat /\ MaxNodes \in Nat
  BY FS_CardinalityType, BoundsAssumption
<1>2. \/ some = new /\ Cardinality(new) <= room
      \/ some \in SUBSET new /\ Cardinality(some) = room
  BY DEF Added, kSubset
<1>3. some \subseteq new /\ IsFiniteSet(some) /\ Cardinality(some) <= room
      /\ Cardinality(some) \in Nat /\ (some = new \/ Cardinality(some) = room)
  <2>1. some \in SUBSET new /\ Cardinality(some) <= room
    BY <1>1, <1>2
  <2> HIDE DEF room
  <2>2. IsFiniteSet(some)
    BY <2>1, FS_Subset
  <2>3. QED BY <1>2, <2>1, <2>2, FS_CardinalityType
<1>4. IsFiniteSet(ids \cup some) /\ Cardinality(ids \cup some) = Cardinality(ids) + Cardinality(some)
  <2>1. ids \cap some = {}
    BY <1>3
  <2>2. IsFiniteSet(ids \cup some) /\ Cardinality(ids \cup some)
          = Cardinality(ids) + Cardinality(some) - Cardinality(ids \cap some)
    BY <1>3, FS_Union
  <2>3. Cardinality(ids \cap some) = 0
    BY <2>1, FS_EmptySet
  <2>4. QED BY <1>1, <1>3, <2>2, <2>3
<1> DEFINE c == Cardinality(ids)
           n == Cardinality(some)
<1>5. /\ c \in Nat /\ n \in Nat /\ n <= room
      /\ some = new \/ n = room
      /\ Cardinality(ids \cup some) = c + n
  BY <1>1, <1>3, <1>4
<1>6. room = IF c < MaxNodes THEN MaxNodes - c ELSE 1
  OBVIOUS
<1> HIDE DEF room, c, n
<1>7. /\ c < MaxNodes => c + n <= MaxNodes
      /\ c >= MaxNodes => c + n <= c + 1
      /\ n = room => c + n >= MaxNodes
      /\ c <= c + n /\ c + n \in Nat
  BY <1>1, <1>5, <1>6
<1>8. QED BY <1>3, <1>4, <1>5, <1>7 DEF c

LEMMA LevelSearched ==
    ASSUME NEW h, IsFiniteSet(h), NEW s, NEW d \in Nat, NEW k \in Nat, k < d,
           NEW ids, NEW last, Searched(h, s, d, k, ids, last),
           NEW some \in Added(Step(h, last) \ ids, ids)
    PROVE  Searched(h, s, d, k + 1, ids \cup some, some)
<1> DEFINE new == Step(h, last) \ ids
           U == Within(h, s, d, k)
           V == Within(h, s, d, k + 1)
<1>1. /\ U \subseteq V
      /\ V \subseteq U \cup Step(h, U \cup {s})
      /\ Step(h, U \cup {s}) \subseteq V
      /\ k = 0 => U = {}
  BY WithinFacts
<1>2. /\ IsFiniteSet(ids) /\ ids \subseteq U /\ last \subseteq ids \cup {s}
      /\ Cardinality(ids) <= MaxNodes + (IF k = 0 THEN 0 ELSE k - 1)
      /\ \/ Cardinality(ids) >= MaxNodes
         \/ ids = U /\ Step(h, ids \cup {s}) \subseteq ids \cup Step(h, last)
  BY DEF Searched
<1>3. IsFiniteSet(new)
  <2>1. IsFiniteSet(Step(h, last))
    BY StepFinite
  <2>2. new \in SUBSET Step(h, last)
    OBVIOUS
  <2> HIDE DEF new
  <2>3. QED BY <2>1, <2>2, FS_Subset
<1>4. new \cap ids = {} /\ some \in Added(new, ids)
  OBVIOUS
<1>5. MaxNodes \in Nat \ {0}
  BY BoundsAssumption
<1>6. \A S, T : S \subseteq T => Step(h, S) \subseteq Step(h, T)
  BY DEF Step
<1>7. \A S, T : Step(h, S \cup T) \subseteq Step(h, S) \cup Step(h, T)
  BY DEF Step
<1>8. new \subseteq Step(h, last) /\ Step(h, last) \subseteq new \cup ids
  OBVIOUS
<1> HIDE DEF new, U, V
<1>9. /\ some \subseteq new /\ IsFiniteSet(ids \cup some)
      /\ Cardinality(ids) \in Nat /\ Cardinality(ids \cup some) \in Nat
      /\ Cardinality(ids) <= Cardinality(ids \cup some)
      /\ Cardinality(ids) < MaxNodes => Cardinality(ids \cup some) <= MaxNodes
      /\ Cardinality(ids) >= MaxNodes => Cardinality(ids \cup some) <= Cardinality(ids) + 1
      /\ some = new \/ Cardinality(ids \cup some) >= MaxNodes
  BY <1>2, <1>3, <1>4, AddedFacts
<1>10. Step(h, last) \subseteq V
  <2>1. last \subseteq U \cup {s}
    BY <1>2
  <2>2. QED BY <1>1, <1>6, <2>1
<1>11. ids \cup some \subseteq V
  BY <1>1, <1>2, <1>8, <1>9, <1>10
<1>12. Cardinality(ids \cup some) <= MaxNodes + k
  <2>1. CASE k = 0
    <3>1. ids = {}
      BY <1>1, <1>2, <2>1
    <3>2. Cardinality(ids) = 0
      BY <3>1, FS_EmptySet
    <3>3. Cardinality(ids \cup some) <= MaxNodes
      BY <1>5, <1>9, <3>2
    <3>4. QED BY <2>1, <1>5, <1>9, <3>3
  <2>2. CASE k # 0
    BY <1>2, <1>5, <1>9, <2>2
  <2>3. QED BY <2>1, <2>2
<1> DEFINE both == ids \cup some
<1>20. k + 1 # 0 /\ (k + 1) - 1 = k
  OBVIOUS
<1>13. CASE Cardinality(ids) >= MaxNodes \/ some # new
  <2>1. Cardinality(ids \cup some) >= MaxNodes
    BY <1>5, <1>9, <1>13
  <2>2. QED BY <1>9, <1>11, <1>12, <1>20, <2>1 DEF Searched, V
<1>14. CASE ids = U /\ Step(h, ids \cup {s}) \subseteq ids \cup Step(h, last) /\ some = new
  <2>1. ids \cup some = V
    BY <1>1, <1>8, <1>11, <1>14
  \* What is new is the next frontier, and what is not was expanded before.
  <2>2. Step(h, (ids \cup some) \cup {s}) \subseteq (ids \cup some) \cup Step(h, some)
    <3>1. Step(h, (ids \cup {s}) \cup some) \subseteq Step(h, ids \cup {s}) \cup Step(h, some)
      BY <1>7
    <3>2. (ids \cup some) \cup {s} = (ids \cup {s}) \cup some
      OBVIOUS
    <3>3. QED BY <1>8, <1>14, <3>1, <3>2
  <2>3. some \subseteq both \cup {s} /\ IsFiniteSet(both) /\ both = V
    BY <1>9, <2>1
  <2>4. Step(h, both \cup {s}) \subseteq both \cup Step(h, some)
    BY <2>2
  <2>5. Cardinality(both) <= MaxNodes + (IF k + 1 = 0 THEN 0 ELSE (k + 1) - 1)
    BY <1>12, <1>20
  <2> HIDE DEF both
  <2>6. Searched(h, s, d, k + 1, both, some)
    BY <2>3, <2>4, <2>5 DEF Searched, V
  <2>7. QED BY <2>6 DEF both
<1>15. QED BY <1>2, <1>13, <1>14
----------------------------------------------------------------------------
(* The edges of a tree are finitely many.                                  *)

LEMMA ImageFinite ==
    ASSUME NEW S, IsFiniteSet(S), NEW f PROVE IsFiniteSet({f[x] : x \in S})
<1> DEFINE T == {f[x] : x \in S}
           g == [x \in S |-> f[x]]
<1>1. g \in Surjection(S, T)
  BY DEF Surjection
<1> HIDE DEF T, g
<1>2. IsFiniteSet(T)
  BY <1>1, FS_Surjection
<1>3. QED BY <1>2 DEF T

LEMMA FiniteUnion ==
    ASSUME NEW n \in Nat, NEW f, \A i \in 1 .. n : IsFiniteSet(f[i])
    PROVE  IsFiniteSet(UNION {f[i] : i \in 1 .. n})
<1> DEFINE U(m) == UNION {f[i] : i \in 1 .. m}
           T == {m \in Nat : m <= n => IsFiniteSet(U(m))}
<1>1. 0 \in T
  <2>1. U(0) = {}
    OBVIOUS
  <2> HIDE DEF U
  <2>2. QED BY <2>1, FS_EmptySet
<1>2. ASSUME NEW m \in Nat, m \in T PROVE m + 1 \in T
  <2>1. SUFFICES ASSUME m + 1 <= n PROVE IsFiniteSet(U(m + 1))
    OBVIOUS
  <2>2. m <= n /\ m + 1 \in 1 .. n
    BY <2>1
  <2>3. U(m + 1) = U(m) \cup f[m + 1]
    <3>1. 1 .. m + 1 = (1 .. m) \cup {m + 1}
      OBVIOUS
    <3>2. QED BY <3>1
  <2>4. IsFiniteSet(U(m)) /\ IsFiniteSet(f[m + 1])
    BY <1>2, <2>2
  <2> HIDE DEF U
  <2>5. \A A, B : IsFiniteSet(A) /\ IsFiniteSet(B) => IsFiniteSet(A \cup B)
    BY FS_Union
  <2>6. QED BY <2>3, <2>4, <2>5
<1> HIDE DEF T
<1>3. n \in T
  BY <1>1, <1>2, NatInduct
<1>4. IsFiniteSet(U(n))
  <2> HIDE DEF U
  <2>1. n <= n
    OBVIOUS
  <2>2. QED BY <1>3, <2>1 DEF T
<1>5. QED BY <1>4

LEMMA IntervalFinite == ASSUME NEW n \in Nat PROVE IsFiniteSet(1 .. n)
BY FS_Interval

\* The fields of a file and of what it defines.
LEMMA FileShape ==
    ASSUME NEW file \in SourceFiles
    PROVE  /\ file.dir \in Names /\ file.stem \in STRING
           /\ file.package \in BOOLEAN /\ file.broken \in BOOLEAN
           /\ file.imports \in Seq(ImportedNames) /\ file.defs \in Seq(Definitions)
           /\ Len(file.imports) \in Nat /\ DOMAIN file.imports = 1 .. Len(file.imports)
           /\ Len(file.defs) \in Nat /\ DOMAIN file.defs = 1 .. Len(file.defs)
           /\ \A k \in DOMAIN file.imports : file.imports[k] \in ImportedNames
           /\ \A d \in DOMAIN file.defs : file.defs[d] \in Definitions
<1>1. /\ file.dir \in Names /\ file.stem \in STRING
      /\ file.package \in BOOLEAN /\ file.broken \in BOOLEAN
      /\ file.imports \in Seq(ImportedNames) /\ file.defs \in Seq(Definitions)
  BY DEF SourceFiles
<1>2. \A S : \A q \in Seq(S) : Len(q) \in Nat /\ DOMAIN q = 1 .. Len(q) /\ \A i \in DOMAIN q : q[i] \in S
  BY LenProperties, ElementOfSeq
<1>3. QED BY <1>1, <1>2

LEMMA DefinitionShape ==
    ASSUME NEW def \in Definitions
    PROVE  /\ def.kind \in {"function", "class"} /\ def.name \in STRING
           /\ IsFiniteSet(def.bases) /\ IsFiniteSet(def.calls)
           /\ Len(def.methods) \in Nat /\ DOMAIN def.methods = 1 .. Len(def.methods)
           /\ \A m \in DOMAIN def.methods :
                 def.methods[m].name \in STRING /\ IsFiniteSet(def.methods[m].calls)
<1>1. def.kind \in {"function", "class"} /\ def.name \in STRING
      /\ def.bases \in SomeOf(Names \ {<< >>}) /\ def.calls \in SomeOf(Names \ {<< >>})
      /\ def.methods \in Seq(Methods)
  BY DEF Definitions
<1>2. \A s \in SomeOf(Names \ {<< >>}) : IsFiniteSet(s)
  BY DEF SomeOf
<1>3. /\ Len(def.methods) \in Nat /\ DOMAIN def.methods = 1 .. Len(def.methods)
      /\ \A m \in DOMAIN def.methods : def.methods[m] \in Methods
  BY <1>1, LenProperties, ElementOfSeq
<1>4. \A m \in Methods : m.name \in STRING /\ IsFiniteSet(m.calls)
  BY <1>2 DEF Methods
<1>5. QED BY <1>1, <1>2, <1>3, <1>4

LEMMA DefEdgesFinite ==
    ASSUME NEW file, NEW def \in Definitions PROVE IsFiniteSet(DefEdges(file, def))
<1> DEFINE own == Append(QName(file), def.name)
           al == Aliases(file)
           inh == [b \in def.bases |-> Edge(own, "inherits", Resolve(b, al))]
           cal == [c \in def.calls |-> Edge(own, "calls", Resolve(c, al))]
           met(m) == {Edge(Append(own, def.methods[m].name), "calls", Resolve(c, al)) :
                         c \in def.methods[m].calls}
           mets == [m \in DOMAIN def.methods |-> met(m)]
<1>1. /\ IsFiniteSet(def.bases) /\ IsFiniteSet(def.calls)
      /\ Len(def.methods) \in Nat /\ DOMAIN def.methods = 1 .. Len(def.methods)
      /\ \A m \in DOMAIN def.methods : IsFiniteSet(def.methods[m].calls)
  BY DefinitionShape
<1>2. IsFiniteSet({inh[b] : b \in def.bases}) /\ IsFiniteSet({cal[c] : c \in def.calls})
  <2> HIDE DEF inh, cal
  <2>1. QED BY <1>1, ImageFinite
<1>3. ASSUME NEW m \in DOMAIN def.methods PROVE IsFiniteSet(met(m))
  <2> DEFINE S == def.methods[m].calls
             f == [c \in S |-> Edge(Append(own, def.methods[m].name), "calls", Resolve(c, al))]
  <2>1. IsFiniteSet({f[c] : c \in S})
    <3> HIDE DEF f
    <3>1. QED BY <1>1, ImageFinite
  <2>2. {f[c] : c \in S} = met(m)
    OBVIOUS
  <2>3. QED BY <2>1, <2>2
<1>4. IsFiniteSet(UNION {mets[m] : m \in 1 .. Len(def.methods)})
  <2>1. \A m \in 1 .. Len(def.methods) : IsFiniteSet(mets[m])
    BY <1>1, <1>3
  <2> HIDE DEF mets
  <2>2. QED BY <1>1, <2>1, FiniteUnion
<1> DEFINE A == {inh[b] : b \in def.bases}
           B == {cal[c] : c \in def.calls}
           C == UNION {mets[m] : m \in 1 .. Len(def.methods)}
<1>5. DefEdges(file, def) = (A \cup B) \cup C
  <2>1. A = {Edge(own, "inherits", Resolve(b, al)) : b \in def.bases}
    OBVIOUS
  <2>2. B = {Edge(own, "calls", Resolve(c, al)) : c \in def.calls}
    OBVIOUS
  <2>3. C = UNION {met(m) : m \in DOMAIN def.methods}
    <3>1. \A m \in 1 .. Len(def.methods) : mets[m] = met(m)
      BY <1>1
    <3> HIDE DEF mets, met
    <3>2. QED BY <1>1, <3>1
  <2> HIDE DEF A, B, C
  <2>4. QED BY <2>1, <2>2, <2>3 DEF DefEdges
<1> HIDE DEF A, B, C
<1>6. IsFiniteSet(A) /\ IsFiniteSet(B) /\ IsFiniteSet(C)
  BY <1>2, <1>4 DEF A, B, C
<1>7. IsFiniteSet(A \cup B)
  BY <1>6, FS_Union
<1>8. IsFiniteSet((A \cup B) \cup C)
  BY <1>6, <1>7, FS_Union
<1>9. QED BY <1>5, <1>8

LEMMA FileEdgesFinite ==
    ASSUME NEW file \in SourceFiles PROVE IsFiniteSet(FileEdges(file))
<1> DEFINE imp == [k \in DOMAIN file.imports |->
                      Edge(QName(file), "imports", Target(file, file.imports[k]))]
           def == [d \in DOMAIN file.defs |-> DefEdges(file, file.defs[d])]
<1>1. /\ Len(file.imports) \in Nat /\ DOMAIN file.imports = 1 .. Len(file.imports)
      /\ Len(file.defs) \in Nat /\ DOMAIN file.defs = 1 .. Len(file.defs)
      /\ \A d \in DOMAIN file.defs : file.defs[d] \in Definitions
  BY FileShape
<1>2. IsFiniteSet({imp[k] : k \in DOMAIN file.imports})
  <2>1. IsFiniteSet(DOMAIN file.imports)
    BY <1>1, IntervalFinite
  <2> HIDE DEF imp
  <2>2. QED BY <2>1, ImageFinite
<1>3. IsFiniteSet(UNION {def[d] : d \in 1 .. Len(file.defs)})
  <2>1. \A d \in 1 .. Len(file.defs) : IsFiniteSet(def[d])
    BY <1>1, DefEdgesFinite
  <2> HIDE DEF def
  <2>2. QED BY <1>1, <2>1, FiniteUnion
<1> DEFINE A == {imp[k] : k \in DOMAIN file.imports}
           B == UNION {def[d] : d \in 1 .. Len(file.defs)}
<1>4. FileEdges(file) = {} \/ FileEdges(file) = A \cup B
  BY <1>1 DEF FileEdges, ImportEdges
<1>5. IsFiniteSet(A) /\ IsFiniteSet(B)
  BY <1>2, <1>3
<1> HIDE DEF A, B
<1>6. IsFiniteSet(A \cup B)
  BY <1>5, FS_Union
<1>7. QED BY <1>4, <1>6, FS_EmptySet

\* A tree that was walked is a sequence of files.
LEMMA TreeShape ==
    ASSUME NEW t \in Walked
    PROVE  /\ Files(t) \in Seq(SourceFiles)
           /\ Len(Files(t)) \in Nat /\ DOMAIN Files(t) = 1 .. Len(Files(t))
           /\ \A f \in DOMAIN Files(t) : Files(t)[f] \in SourceFiles
<1>1. Files(t) \in Seq(SourceFiles)
  BY ContentAssumption, EmptySeq DEF Walked, Files
<1>2. QED BY <1>1, LenProperties, ElementOfSeq

\* The edges of the rows, and the converse ones, are finitely many.
LEMMA GraphFinite ==
    ASSUME NEW t \in Walked
    PROVE  /\ IsFiniteSet(Graph[t]) /\ IsFiniteSet(Converse(Graph[t]))
           /\ \A e \in Graph[t] : e.src # 0
<1> DEFINE tree == Files(t)
           syms == TreeSymbols(tree)
           of == [f \in DOMAIN tree |-> FileEdges(tree[f])]
           raw == UNION {of[f] : f \in 1 .. Len(tree)}
           res == [r \in raw |-> Edge(Source(syms, r.src), r.rel, IdOf(syms, r.dst))]
           back == [e \in Graph[t] |-> Edge(e.dst, e.rel, e.src)]
<1>1. /\ Len(tree) \in Nat /\ DOMAIN tree = 1 .. Len(tree)
      /\ \A f \in DOMAIN tree : tree[f] \in SourceFiles
  BY TreeShape
<1>2. IsFiniteSet(raw)
  <2>1. \A f \in 1 .. Len(tree) : IsFiniteSet(of[f])
    BY <1>1, FileEdgesFinite
  <2> HIDE DEF of
  <2>2. QED BY <1>1, <2>1, FiniteUnion
<1>3. raw = UNION {FileEdges(tree[f]) : f \in DOMAIN tree}
  BY <1>1
<1>4. Graph[t] = {e \in {Edge(Source(syms, r.src), r.rel, IdOf(syms, r.dst)) : r \in raw} : e.src # 0}
  BY <1>3 DEF Graph, TreeEdges
<1>5. Graph[t] \in SUBSET {res[r] : r \in raw} /\ \A e \in Graph[t] : e.src # 0
  BY <1>4
<1>6. IsFiniteSet(Graph[t])
  <2> HIDE DEF raw, res
  <2>1. IsFiniteSet({res[r] : r \in raw})
    BY <1>2, ImageFinite
  <2>2. QED BY <1>5, <2>1, FS_Subset
<1>7. IsFiniteSet(Converse(Graph[t]))
  <2>1. Converse(Graph[t]) \in SUBSET {back[e] : e \in Graph[t]}
    BY DEF Converse
  <2> HIDE DEF back
  <2>2. IsFiniteSet({back[e] : e \in Graph[t]})
    BY <1>6, ImageFinite
  <2>3. QED BY <2>1, <2>2, FS_Subset
<1>8. QED BY <1>5, <1>6, <1>7
----------------------------------------------------------------------------
(* The searches of the reader.                                             *)

NearFields ==
    {"kind", "pass", "start", "depth", "leftOut", "leftIn", "out", "in", "lastOut", "lastIn"}

\* While the rows of its pass are there, each search is as far as the levels
\* behind it, the outbound one at most one level ahead; without them the
\* answer will be empty.
Near ==
    reader.kind = "near" =>
        /\ DOMAIN reader = NearFields
        /\ reader.pass \in Committed
        /\ reader.depth \in Nat
        /\ reader.leftIn \in 0 .. reader.depth /\ reader.leftOut \in 0 .. reader.leftIn
        /\ reader.pass \in symbols =>
            /\ Searched(Graph[found[reader.pass]], reader.start, reader.depth,
                        reader.depth - reader.leftOut, reader.out, reader.lastOut)
            /\ Searched(Converse(Graph[found[reader.pass]]), reader.start, reader.depth,
                        reader.depth - reader.leftIn, reader.in, reader.lastIn)

NInv ==
    /\ Near /\ NeighborsExact
    /\ reader.kind = "neighbors" => reader.pass \in Committed

\* What a level's query returns is one step in the tree, or one back.
LEMMA OneStep ==
    ASSUME PInv, NEW p \in symbols, NEW S
    PROVE  /\ {e.dst : e \in {x \in EdgesRead(p) : x.src \in S}} = Step(Graph[found[p]], S)
           /\ {e.src : e \in {x \in EdgesRead(p) : x.dst \in S}}
                = Step(Converse(Graph[found[p]]), S)
<1> DEFINE g == Graph[found[p]]
<1>1. found[p] \in Walked /\ p \in Passes
  BY DEF PInv, PassTypes, Committed
<1>2. EdgesRead(p) = {e \in g : e.dst # 0}
  <2>1. CASE p \in edges
    BY <1>1, <2>1 DEF EdgesRead, Resolved
  <2>2. CASE p \notin edges
    BY <1>1, <2>2 DEF EdgesRead, PInv, OldPassesReplaced
  <2>3. QED BY <2>1, <2>2
<1>3. \A e \in g : e.src # 0
  BY <1>1, GraphFinite
<1> HIDE DEF g
<1>4. {e.dst : e \in {x \in EdgesRead(p) : x.src \in S}} = Step(g, S)
  BY <1>2 DEF Step
<1>5. {e.src : e \in {x \in EdgesRead(p) : x.dst \in S}} = Step(Converse(g), S)
  <2>1. ASSUME NEW e \in g, e.dst # 0, e.dst \in S PROVE e.src \in Step(Converse(g), S)
    <3>1. Edge(e.dst, e.rel, e.src) \in Converse(g)
      BY <2>1 DEF Converse
    <3>2. Edge(e.dst, e.rel, e.src).src = e.dst /\ Edge(e.dst, e.rel, e.src).dst = e.src
      BY DEF Edge
    <3>3. QED BY <1>3, <2>1, <3>1, <3>2 DEF Step
  <2>2. ASSUME NEW y \in Step(Converse(g), S)
        PROVE  \E e \in g : e.dst # 0 /\ e.dst \in S /\ y = e.src
    <3>1. PICK x \in Converse(g) : x.src \in S /\ y = x.dst
      BY DEF Step
    <3>2. PICK e \in g : e.dst # 0 /\ x = Edge(e.dst, e.rel, e.src)
      BY DEF Converse
    <3>3. x.src = e.dst /\ x.dst = e.src
      BY <3>2 DEF Edge
    <3>4. QED BY <3>1, <3>2, <3>3
  <2>3. QED BY <1>2, <2>1, <2>2
<1>6. QED BY <1>4, <1>5 DEF g

LEMMA SearchBegins ==
    ASSUME NEW h, NEW s, NEW d \in Nat PROVE Searched(h, s, d, 0, {}, {s})
<1>1. Within(h, s, d, 0) = {}
  BY DEF Within
<1>2. IsFiniteSet({}) /\ Cardinality({}) = 0
  BY FS_EmptySet
<1>3. MaxNodes \in Nat
  BY BoundsAssumption
<1>4. QED BY <1>1, <1>2, <1>3 DEF Searched

\* All within the depth, or as many as the limit but for the start itself.
LEMMA SearchEnds ==
    ASSUME NEW h, NEW s, NEW d \in Nat, NEW ids, NEW last, Searched(h, s, d, d, ids, last)
    PROVE  \/ ids \ {s} = Ball(h, s, d)
           \/ /\ ids \ {s} \subseteq Ball(h, s, d)
              /\ Cardinality(ids \ {s}) \in
                    MaxNodes - 1 .. MaxNodes + (IF d = 0 THEN 0 ELSE d - 1)
<1>1. Ball(h, s, d) = Within(h, s, d, d) \ {s}
  BY WalkFacts
<1>2. /\ IsFiniteSet(ids) /\ ids \subseteq Within(h, s, d, d)
      /\ Cardinality(ids) <= MaxNodes + (IF d = 0 THEN 0 ELSE d - 1)
      /\ Cardinality(ids) >= MaxNodes \/ ids = Within(h, s, d, d)
  BY DEF Searched
<1>3. /\ Cardinality(ids) \in Nat
      /\ Cardinality(ids \ {s}) = IF s \in ids THEN Cardinality(ids) - 1 ELSE Cardinality(ids)
  BY <1>2, FS_CardinalityType, FS_RemoveElement
<1>4. MaxNodes \in Nat
  BY BoundsAssumption
<1>5. ids \ {s} \subseteq Ball(h, s, d)
  BY <1>1, <1>2
<1>6. CASE Cardinality(ids) >= MaxNodes
  BY <1>2, <1>3, <1>4, <1>5, <1>6
<1>7. CASE ids = Within(h, s, d, d)
  BY <1>1, <1>7
<1>8. QED BY <1>2, <1>6, <1>7

LEMMA LevelOutStep ==
    ASSUME PInv, Near, LevelOut PROVE reader'.kind = "near" /\ Near'
<1> DEFINE p == reader.pass
           s == reader.start
           d == reader.depth
           k == d - reader.leftOut
           g == Graph[found[p]]
           ends == {e.dst : e \in {x \in EdgesRead(p) : x.src \in reader.lastOut}}
<1>1. /\ reader.kind = "near" /\ reader.leftOut > 0
      /\ DOMAIN reader = NearFields
      /\ p \in Committed /\ d \in Nat
      /\ reader.leftIn \in 0 .. d /\ reader.leftOut \in 0 .. reader.leftIn
      /\ p \in symbols =>
           /\ Searched(g, s, d, d - reader.leftOut, reader.out, reader.lastOut)
           /\ Searched(Converse(g), s, d, d - reader.leftIn, reader.in, reader.lastIn)
  BY DEF LevelOut, Near
<1>2. PICK some \in Added(ends \ reader.out, reader.out) :
         reader' = [reader EXCEPT !.leftOut = @ - 1, !.out = @ \cup some, !.lastOut = some]
  BY DEF LevelOut
<1>3. /\ DOMAIN reader' = NearFields
      /\ reader'.kind = "near" /\ reader'.pass = p /\ reader'.start = s /\ reader'.depth = d
      /\ reader'.leftOut = reader.leftOut - 1
      /\ reader'.out = reader.out \cup some /\ reader'.lastOut = some
      /\ reader'.leftIn = reader.leftIn
      /\ reader'.in = reader.in /\ reader'.lastIn = reader.lastIn
  BY <1>1, <1>2 DEF NearFields
<1>4. UNCHANGED <<pc, found, symbols>> /\ Committed' = Committed
  BY DEF LevelOut, passes, tables, Committed
<1>5. /\ k \in Nat /\ k < d /\ d - reader'.leftOut = k + 1
      /\ reader'.leftIn \in 0 .. d /\ reader'.leftOut \in 0 .. reader'.leftIn
  BY <1>1, <1>3
<1>6. ASSUME p \in symbols
      PROVE  Searched(g, s, d, k + 1, reader.out \cup some, some)
  <2>1. found[p] \in Walked
    BY <1>1, <1>6 DEF PInv, PassTypes, Committed
  <2>2. IsFiniteSet(g)
    BY <2>1, GraphFinite
  <2>3. ends = Step(g, reader.lastOut)
    BY <1>6, OneStep
  <2>4. some \in Added(Step(g, reader.lastOut) \ reader.out, reader.out)
    BY <2>3
  <2>5. Searched(g, s, d, k, reader.out, reader.lastOut)
    BY <1>1, <1>6
  <2> HIDE DEF g, s, d, k, ends
  <2>6. QED BY <1>1, <1>5, <2>2, <2>4, <2>5, LevelSearched
<1> HIDE DEF s, d, ends
<1>7. QED BY <1>1, <1>3, <1>4, <1>5, <1>6 DEF Near

LEMMA LevelInStep ==
    ASSUME PInv, Near, LevelIn PROVE reader'.kind = "near" /\ Near'
<1> DEFINE p == reader.pass
           s == reader.start
           d == reader.depth
           k == d - reader.leftIn
           g == Graph[found[p]]
           ends == {e.src : e \in {x \in EdgesRead(p) : x.dst \in reader.lastIn}}
<1>1. /\ reader.kind = "near" /\ reader.leftIn > reader.leftOut
      /\ DOMAIN reader = NearFields
      /\ p \in Committed /\ d \in Nat
      /\ reader.leftIn \in 0 .. d /\ reader.leftOut \in 0 .. reader.leftIn
      /\ p \in symbols =>
           /\ Searched(g, s, d, d - reader.leftOut, reader.out, reader.lastOut)
           /\ Searched(Converse(g), s, d, d - reader.leftIn, reader.in, reader.lastIn)
  BY DEF LevelIn, Near
<1>2. PICK some \in Added(ends \ reader.in, reader.in) :
         reader' = [reader EXCEPT !.leftIn = @ - 1, !.in = @ \cup some, !.lastIn = some]
  BY DEF LevelIn
<1>3. /\ DOMAIN reader' = NearFields
      /\ reader'.kind = "near" /\ reader'.pass = p /\ reader'.start = s /\ reader'.depth = d
      /\ reader'.leftIn = reader.leftIn - 1
      /\ reader'.in = reader.in \cup some /\ reader'.lastIn = some
      /\ reader'.leftOut = reader.leftOut
      /\ reader'.out = reader.out /\ reader'.lastOut = reader.lastOut
  BY <1>1, <1>2 DEF NearFields
<1>4. UNCHANGED <<pc, found, symbols>> /\ Committed' = Committed
  BY DEF LevelIn, passes, tables, Committed
<1>5. /\ k \in Nat /\ k < d /\ d - reader'.leftIn = k + 1
      /\ reader'.leftIn \in 0 .. d /\ reader'.leftOut \in 0 .. reader'.leftIn
  BY <1>1, <1>3
<1>6. ASSUME p \in symbols
      PROVE  Searched(Converse(g), s, d, k + 1, reader.in \cup some, some)
  <2>1. found[p] \in Walked
    BY <1>1, <1>6 DEF PInv, PassTypes, Committed
  <2>2. IsFiniteSet(Converse(g))
    BY <2>1, GraphFinite
  <2>3. ends = Step(Converse(g), reader.lastIn)
    BY <1>6, OneStep
  <2>4. some \in Added(Step(Converse(g), reader.lastIn) \ reader.in, reader.in)
    BY <2>3
  <2>5. Searched(Converse(g), s, d, k, reader.in, reader.lastIn)
    BY <1>1, <1>6
  <2> HIDE DEF g, s, d, k, ends
  <2>6. QED BY <1>1, <1>5, <2>2, <2>4, <2>5, LevelSearched
<1> HIDE DEF s, d, ends
<1>7. QED BY <1>1, <1>3, <1>4, <1>5, <1>6 DEF Near

LEMMA NeighborsStep ==
    ASSUME PInv, Near, Neighbors
    PROVE  reader'.kind = "neighbors" /\ reader'.pass \in Committed' /\ NeighborsExact'
<1> DEFINE p == reader.pass
           s == reader.start
           d == reader.depth
           g == Graph[found[p]]
           alive(ids) == IF p \in symbols THEN ids \ {s} ELSE {}
<1>1. /\ reader.leftOut = 0 /\ reader.leftIn = 0 /\ p \in Committed /\ d \in Nat
      /\ p \in symbols => /\ Searched(g, s, d, d - 0, reader.out, reader.lastOut)
                          /\ Searched(Converse(g), s, d, d - 0, reader.in, reader.lastIn)
  BY DEF Neighbors, Near
<1>2. reader' = [kind |-> "neighbors", pass |-> p, start |-> s, depth |-> d,
                 out |-> alive(reader.out), in |-> alive(reader.in)]
  BY DEF Neighbors
<1>3. UNCHANGED <<pc, found, symbols>> /\ Committed' = Committed
  BY DEF Neighbors, passes, tables, Committed
<1>4. /\ reader'.kind = "neighbors" /\ reader'.pass = p /\ reader'.start = s
      /\ reader'.depth = d /\ reader'.out = alive(reader.out) /\ reader'.in = alive(reader.in)
  BY <1>2
<1>5. CASE p \notin symbols
  <2>1. reader'.out = {} /\ reader'.in = {}
    BY <1>4, <1>5
  <2>2. NeighborsExact'
    BY <2>1 DEF NeighborsExact
  <2>3. QED BY <1>1, <1>3, <1>4, <2>2
<1>6. CASE p \in symbols
  <2> DEFINE right(ids, h) ==
               \/ ids = Ball(h, s, d)
               \/ /\ ids \subseteq Ball(h, s, d)
                  /\ Cardinality(ids) \in MaxNodes - 1 .. MaxNodes + (IF d = 0 THEN 0 ELSE d - 1)
  <2>1. d - 0 = d
    BY <1>1
  <2>2. /\ Searched(g, s, d, d, reader.out, reader.lastOut)
        /\ Searched(Converse(g), s, d, d, reader.in, reader.lastIn)
    BY <1>1, <1>6, <2>1
  <2>3. right(reader.out \ {s}, g) /\ right(reader.in \ {s}, Converse(g))
    <3> HIDE DEF g, s, d
    <3>1. right(reader.out \ {s}, g)
      BY <1>1, <2>2, SearchEnds
    <3>2. right(reader.in \ {s}, Converse(g))
      BY <1>1, <2>2, SearchEnds
    <3>3. QED BY <3>1, <3>2
  <2>4. reader'.out = reader.out \ {s} /\ reader'.in = reader.in \ {s}
    BY <1>4, <1>6
  <2>5. Graph[found'[reader'.pass]] = g
    BY <1>3, <1>4
  <2> HIDE DEF g, s, d
  <2>6. NeighborsExact'
    BY <1>4, <2>3, <2>4, <2>5 DEF NeighborsExact
  <2>7. QED BY <1>1, <1>3, <1>4, <2>6
<1>7. QED BY <1>5, <1>6

LEMMA NearReads ==
    ASSUME PInv, RInv, NInv, Read PROVE NInv'
<1>1. UNCHANGED <<pc, found, symbols>> /\ Committed' = Committed
  BY ReadsOnly DEF passes, tables, Committed
<1>2. ASSUME NEW p \in Passes, NEW s \in DOMAIN Symbols[found[p]], NEW d \in Depths,
             AskNeighbors(p, s, d)
      PROVE NInv'
  <2>1. p \in symbols /\ d \in Nat /\ p \in Committed
    BY <1>2, BoundsAssumption DEF AskNeighbors, PInv, PassTypes
  <2>2. reader' = [kind |-> "near", pass |-> p, start |-> s, depth |-> d,
                   leftOut |-> d, leftIn |-> d,
                   out |-> {}, in |-> {}, lastOut |-> {s}, lastIn |-> {s}]
    BY <1>2 DEF AskNeighbors
  <2>3. /\ DOMAIN reader' = NearFields
        /\ reader'.kind = "near" /\ reader'.pass = p /\ reader'.start = s /\ reader'.depth = d
        /\ reader'.leftOut = d /\ reader'.leftIn = d /\ reader'.out = {} /\ reader'.in = {}
        /\ reader'.lastOut = {s} /\ reader'.lastIn = {s}
    BY <2>2 DEF NearFields
  <2>4. d - d = 0 /\ d \in 0 .. d
    BY <2>1
  <2>5. /\ Searched(Graph[found[p]], s, d, 0, {}, {s})
        /\ Searched(Converse(Graph[found[p]]), s, d, 0, {}, {s})
    BY <2>1, SearchBegins
  <2>6. Near'
    BY <1>1, <2>1, <2>3, <2>4, <2>5 DEF Near
  <2>7. QED BY <2>3, <2>6 DEF NInv, NeighborsExact
<1>3. CASE LevelOut
  BY <1>3, LevelOutStep DEF NInv, NeighborsExact
<1>13. CASE LevelIn
  BY <1>13, LevelInStep DEF NInv, NeighborsExact
<1>4. CASE Neighbors
  BY <1>4, NeighborsStep DEF NInv, Near
<1>5. ASSUME reader'.kind \notin {"near", "neighbors"} PROVE NInv'
  BY <1>5 DEF NInv, Near, NeighborsExact
<1>6. CASE AskMap BY <1>5, <1>6 DEF AskMap
<1>7. CASE ArchitectureMap BY <1>5, <1>7 DEF ArchitectureMap
<1>8. CASE Query BY <1>5, <1>8 DEF Query
<1>9. CASE Answered BY <1>5, <1>9 DEF Answered, Nothing
<1>10. CASE \E named \in SUBSET symbols : AskQuery(named) BY <1>5, <1>10 DEF AskQuery
<1>11. CASE \E hits \in SUBSET vectors : Nearest(hits) BY <1>5, <1>11 DEF Nearest
<1>12. QED BY <1>2, <1>3, <1>4, <1>6, <1>7, <1>8, <1>9, <1>10, <1>11, <1>13 DEF Read

\* A step of a request may take the rows of the search away, and nothing else.
LEMMA NearWaits ==
    ASSUME PInv, NInv, Requests PROVE NInv'
<1>1. /\ reader' = reader
      /\ Committed \subseteq Committed'
      /\ \A p \in Committed : before'[p] = before[p]
      /\ \A p \in Committed : found'[p] = found[p]
      /\ symbols' \cap Committed \subseteq symbols
  BY CommittedStays
<1>2. Near'
  BY <1>1 DEF NInv, Near
<1>3. CASE reader.kind = "neighbors"
  <2>1. reader.pass \in Committed /\ found'[reader.pass] = found[reader.pass]
    BY <1>1, <1>3 DEF NInv
  <2>2. NeighborsExact'
    BY <1>1, <2>1 DEF NInv, NeighborsExact
  <2>3. QED BY <1>1, <1>2, <2>1, <2>2 DEF NInv
<1>4. CASE reader.kind # "neighbors"
  BY <1>1, <1>2, <1>4 DEF NInv, NeighborsExact
<1>5. QED BY <1>3, <1>4

LEMMA NearInductive == ASSUME IInv, NInv, [Next]_vars PROVE NInv'
<1>1. CASE UNCHANGED vars
  BY <1>1 DEF NInv, Near, NeighborsExact, Committed, vars, passes, tables
<1>2. CASE Requests
  BY <1>2, NearWaits DEF IInv
<1>3. CASE Read
  BY <1>3, NearReads DEF IInv
<1>4. QED BY <1>1, <1>2, <1>3 DEF Next, Requests

\* For any trees, depth and node limit, and whatever is indexed meanwhile:
\* neighbors answers with all symbols within the depth, in each direction, or
\* with as many as the limit, passed by at most one for each further level;
\* or with nothing, when a request has replaced the rows on the way.
THEOREM NeighborsAlwaysExact == Spec => []NeighborsExact
<1>1. Init => NInv
  BY DEF Init, Nothing, NInv, Near, NeighborsExact
<1>2. IInv /\ NInv /\ [Next]_vars => NInv'
  BY NearInductive
<1>3. NInv => NeighborsExact
  BY DEF NInv
<1>4. QED BY <1>1, <1>2, <1>3, Invariant, PTL DEF Spec
----------------------------------------------------------------------------
(* Sequences put together.                                                 *)

LEMMA RangeFacts ==
    ASSUME NEW X, NEW a \in Seq(X)
    PROVE  /\ Range(a) \subseteq X
           /\ \A x : x \in Range(a) <=> \E i \in 1 .. Len(a) : a[i] = x
BY LenProperties, ElementOfSeq DEF Range

LEMMA RangeOfConcat ==
    ASSUME NEW X, NEW a \in Seq(X), NEW b \in Seq(X)
    PROVE  a \o b \in Seq(X) /\ Range(a \o b) = Range(a) \cup Range(b)
<1>1. /\ a \o b \in Seq(X) /\ Len(a \o b) = Len(a) + Len(b)
      /\ \A i \in 1 .. Len(a) + Len(b) : (a \o b)[i] = IF i <= Len(a) THEN a[i] ELSE b[i - Len(a)]
  BY ConcatProperties
<1>2. Len(a) \in Nat /\ Len(b) \in Nat
  BY LenProperties
<1> DEFINE c == a \o b
<1> HIDE DEF c
<1>3. /\ c \in Seq(X) /\ Len(c) = Len(a) + Len(b)
      /\ \A i \in 1 .. Len(a) + Len(b) : c[i] = IF i <= Len(a) THEN a[i] ELSE b[i - Len(a)]
  BY <1>1 DEF c
<1>4. ASSUME NEW x \in Range(c) PROVE x \in Range(a) \cup Range(b)
  <2>1. PICK i \in 1 .. Len(a) + Len(b) : c[i] = x
    BY <1>3, RangeFacts
  <2>2. CASE i <= Len(a)
    <3>1. a[i] = x /\ i \in 1 .. Len(a)
      BY <1>2, <1>3, <2>1, <2>2
    <3>2. QED BY <3>1, RangeFacts
  <2>3. CASE ~(i <= Len(a))
    <3>1. b[i - Len(a)] = x /\ i - Len(a) \in 1 .. Len(b)
      BY <1>2, <1>3, <2>1, <2>3
    <3>2. QED BY <3>1, RangeFacts
  <2>4. QED BY <2>2, <2>3
<1>5. ASSUME NEW x \in Range(a) PROVE x \in Range(c)
  <2>1. PICK i \in 1 .. Len(a) : a[i] = x
    BY RangeFacts
  <2>2. i \in 1 .. Len(c) /\ c[i] = x
    BY <1>2, <1>3, <2>1
  <2>3. QED BY <1>3, <2>2, RangeFacts
<1>6. ASSUME NEW x \in Range(b) PROVE x \in Range(c)
  <2>1. PICK i \in 1 .. Len(b) : b[i] = x
    BY RangeFacts
  <2>2. i + Len(a) \in 1 .. Len(c) /\ c[i + Len(a)] = x
    <3>1. i + Len(a) \in 1 .. Len(a) + Len(b) /\ ~(i + Len(a) <= Len(a)) /\ (i + Len(a)) - Len(a) = i
      BY <1>2
    <3>2. QED BY <1>3, <2>1, <3>1
  <2>3. QED BY <1>3, <2>2, RangeFacts
<1>7. QED BY <1>3, <1>4, <1>5, <1>6 DEF c

IsFlat(f, seqs, n) == f = [i \in 1 .. n |-> IF i = 1 THEN seqs[i] ELSE f[i - 1] \o seqs[i]]

LEMMA FlatExists ==
    ASSUME NEW seqs, NEW n \in Nat PROVE \E f : IsFlat(f, seqs, n)
<1> DEFINE T == {m \in Nat : \E f : IsFlat(f, seqs, m)}
<1>1. 0 \in T
  <2> DEFINE f == [i \in 1 .. 0 |-> << >>]
  <2>1. f = [i \in 1 .. 0 |-> IF i = 1 THEN seqs[i] ELSE f[i - 1] \o seqs[i]]
    OBVIOUS
  <2>2. IsFlat(f, seqs, 0)
    BY <2>1 DEF IsFlat
  <2>3. QED BY <2>2
<1>2. ASSUME NEW m \in Nat, m \in T PROVE m + 1 \in T
  <2>1. PICK f : IsFlat(f, seqs, m)
    BY <1>2
  <2> DEFINE g == [i \in 1 .. m + 1 |->
                      IF i \in 1 .. m THEN f[i]
                      ELSE IF i = 1 THEN seqs[i] ELSE f[i - 1] \o seqs[i]]
  <2>2. \A i \in 1 .. m : f[i] = IF i = 1 THEN seqs[i] ELSE f[i - 1] \o seqs[i]
    BY <2>1 DEF IsFlat
  <2>3. ASSUME NEW i \in 1 .. m + 1
        PROVE  g[i] = IF i = 1 THEN seqs[i] ELSE g[i - 1] \o seqs[i]
    <3>1. i = 1 \/ (i # 1 /\ i - 1 \in 1 .. m)
      OBVIOUS
    <3>2. i # 1 => g[i - 1] = f[i - 1]
      BY <3>1
    <3>3. g[i] = IF i = 1 THEN seqs[i] ELSE f[i - 1] \o seqs[i]
      BY <2>2
    <3> HIDE DEF g
    <3>4. QED BY <3>2, <3>3
  <2>4. g = [i \in 1 .. m + 1 |-> IF i = 1 THEN seqs[i] ELSE g[i - 1] \o seqs[i]]
    <3>1. g = [i \in 1 .. m + 1 |-> g[i]]
      OBVIOUS
    <3> HIDE DEF g
    <3>2. QED BY <2>3, <3>1
  <2>5. IsFlat(g, seqs, m + 1)
    BY <2>4 DEF IsFlat
  <2>6. QED BY <2>5
<1> HIDE DEF T
<1>3. n \in T
  BY <1>1, <1>2, NatInduct
<1>4. QED BY <1>3 DEF T

\* A flattened sequence holds what its parts hold.
LEMMA FlattenFacts ==
    ASSUME NEW X, NEW seqs \in Seq(Seq(X))
    PROVE  /\ FlattenSeq(seqs) \in Seq(X)
           /\ \A x : x \in Range(FlattenSeq(seqs)) <=> \E i \in 1 .. Len(seqs) : x \in Range(seqs[i])
<1> DEFINE n == Len(seqs)
           f == CHOOSE f : IsFlat(f, seqs, n)
<1>1. n \in Nat /\ \A i \in 1 .. n : seqs[i] \in Seq(X)
  BY LenProperties, ElementOfSeq
<1>2. CASE n = 0
  <2>1. seqs = << >>
    BY <1>2, EmptySeq
  <2>2. FlattenSeq(seqs) = << >>
    BY <1>2, <2>1 DEF FlattenSeq
  <2>3. Range(<< >>) = {} /\ << >> \in Seq(X)
    BY EmptySeq DEF Range
  <2>4. QED BY <1>2, <2>2, <2>3
<1>3. CASE n # 0
  <2>1. FlattenSeq(seqs) = f[n]
    BY <1>3 DEF FlattenSeq, IsFlat
  <2>2. IsFlat(f, seqs, n)
    <3>1. \E g : IsFlat(g, seqs, n)
      BY <1>1, FlatExists
    <3>2. QED BY <3>1
  <2> HIDE DEF f
  <2>3. \A i \in 1 .. n : f[i] = IF i = 1 THEN seqs[i] ELSE f[i - 1] \o seqs[i]
    BY <2>2 DEF IsFlat
  <2> DEFINE Flat(m) == /\ f[m] \in Seq(X)
                        /\ \A x : x \in Range(f[m]) <=> \E i \in 1 .. m : x \in Range(seqs[i])
             T == {m \in Nat : m + 1 <= n => Flat(m + 1)}
  <2>4. 0 \in T
    <3>1. 1 \in 1 .. n /\ 1 .. 1 = {1} /\ 0 + 1 = 1
      BY <1>1, <1>3
    <3>2. f[1] = seqs[1]
      BY <2>3, <3>1
    <3>3. f[1] \in Seq(X)
      BY <1>1, <3>1, <3>2
    <3>4. \A x : x \in Range(f[1]) <=> \E i \in 1 .. 1 : x \in Range(seqs[i])
      BY <3>1, <3>2
    <3>5. QED BY <3>1, <3>3, <3>4
  <2>5. ASSUME NEW m \in Nat, m \in T PROVE m + 1 \in T
    <3> DEFINE k == m + 1
    <3>1. SUFFICES ASSUME k + 1 <= n PROVE Flat(k + 1)
      OBVIOUS
    <3>2. k \in Nat /\ k <= n /\ k + 1 \in 1 .. n /\ k + 1 # 1 /\ (k + 1) - 1 = k
      BY <1>1, <3>1
    <3>3. Flat(k)
      BY <2>5, <3>2
    <3>4. f[k + 1] = f[k] \o seqs[k + 1]
      BY <2>3, <3>2
    <3>5. seqs[k + 1] \in Seq(X)
      BY <1>1, <3>2
    <3>6. f[k + 1] \in Seq(X) /\ Range(f[k + 1]) = Range(f[k]) \cup Range(seqs[k + 1])
      BY <3>3, <3>4, <3>5, RangeOfConcat
    <3>7. 1 .. k + 1 = (1 .. k) \cup {k + 1}
      BY <3>2
    <3> HIDE DEF k
    <3>8. \A x : x \in Range(f[k + 1]) <=> \E i \in 1 .. k + 1 : x \in Range(seqs[i])
      BY <3>3, <3>6, <3>7
    <3>9. QED BY <3>6, <3>8
  <2> HIDE DEF T
  <2>6. n - 1 \in Nat /\ (n - 1) + 1 = n /\ n <= n
    BY <1>1, <1>3
  <2>7. n - 1 \in T
    BY <2>4, <2>5, <2>6, NatInduct
  <2>8. Flat(n)
    <3> HIDE DEF Flat, n
    <3>1. (n - 1) + 1 <= n => Flat((n - 1) + 1)
      BY <2>7 DEF T
    <3>2. QED BY <2>6, <3>1
  <2>9. QED BY <2>1, <2>8
<1>4. QED BY <1>2, <1>3
----------------------------------------------------------------------------
(* The symbols of a tree.                                                  *)

\* (The provers do not know that a literal is in STRING.)
Parts == STRING \cup {"__init__"}
SymbolRows ==
    [kind : {"module", "function", "class", "method"}, qname : Seq(Parts), file : Nat]

LEMMA SingleRange ==
    ASSUME NEW X, NEW x \in X PROVE <<x>> \in Seq(X) /\ Range(<<x>>) = {x}
BY DEF Range

LEMMA QNameType ==
    ASSUME NEW file \in SourceFiles PROVE QName(file) \in Seq(Parts)
<1>1. file.dir \in Seq(STRING) /\ file.stem \in STRING
  BY FileShape DEF Names
<1>2. \A q \in Seq(STRING) : q \in Seq(Parts)
  <2>1. ASSUME NEW q \in Seq(STRING) PROVE q \in Seq(Parts)
    <3>1. Len(q) \in Nat /\ DOMAIN q = 1 .. Len(q) /\ \A i \in DOMAIN q : q[i] \in Parts
      BY LenProperties, ElementOfSeq DEF Parts
    <3>2. q = [i \in 1 .. Len(q) |-> q[i]]
      BY <2>1
    <3>3. q \in [1 .. Len(q) -> Parts]
      BY <3>1, <3>2
    <3>4. QED BY <3>1, <3>3, SeqDef
  <2>2. QED BY <2>1
<1>3. Append(file.dir, file.stem) \in Seq(STRING)
  BY <1>1, AppendProperties
<1>4. "__init__" \in Parts
  BY DEF Parts
<1>5. <<"__init__">> \in Seq(Parts)
  BY <1>4, SingleRange
<1>6. QED BY <1>1, <1>2, <1>3, <1>5 DEF QName

LEMMA NamesAppend ==
    ASSUME NEW q \in Seq(Parts), NEW n \in STRING PROVE Append(q, n) \in Seq(Parts)
<1>1. n \in Parts
  BY DEF Parts
<1>2. QED BY <1>1, AppendProperties

LEMMA DefSymbols ==
    ASSUME NEW def \in Definitions, NEW module \in Seq(Parts), NEW f \in Nat
    PROVE  /\ SymbolsOf(def, module, f) \in Seq(SymbolRows)
           /\ \A x \in Range(SymbolsOf(def, module, f)) : x.kind # "module" /\ x.file = f
<1> DEFINE own == Append(module, def.name)
           first == [kind |-> def.kind, qname |-> own, file |-> f]
           meth == [m \in DOMAIN def.methods |->
                      [kind |-> "method", qname |-> Append(own, def.methods[m].name), file |-> f]]
<1>1. /\ def.kind \in {"function", "class"} /\ def.name \in STRING
      /\ Len(def.methods) \in Nat /\ DOMAIN def.methods = 1 .. Len(def.methods)
      /\ \A m \in DOMAIN def.methods : def.methods[m].name \in STRING
  BY DefinitionShape
<1>2. own \in Seq(Parts)
  BY <1>1, NamesAppend
<1> HIDE DEF own
<1>3. first \in SymbolRows /\ first.kind # "module" /\ first.file = f
  BY <1>1, <1>2 DEF SymbolRows
<1>4. ASSUME NEW m \in 1 .. Len(def.methods)
      PROVE  meth[m] \in SymbolRows /\ meth[m].kind # "module" /\ meth[m].file = f
  <2>1. Append(own, def.methods[m].name) \in Seq(Parts)
    BY <1>1, <1>2, NamesAppend
  <2>2. meth[m] = [kind |-> "method", qname |-> Append(own, def.methods[m].name), file |-> f]
    BY <1>1
  <2>3. QED BY <2>1, <2>2 DEF SymbolRows
<1>5. meth \in [1 .. Len(def.methods) -> SymbolRows]
  BY <1>1, <1>4
<1>6. meth \in Seq(SymbolRows) /\ Len(meth) = Len(def.methods)
  <2> HIDE DEF meth
  <2>1. QED BY <1>1, <1>5, SeqDef
<1> DEFINE one == <<first>>
<1>7. SymbolsOf(def, module, f) = one \o meth
  BY DEF SymbolsOf, own
<1> HIDE DEF first, meth
<1>8. one \in Seq(SymbolRows) /\ Range(one) = {first}
  BY <1>3, SingleRange
<1> HIDE DEF one
<1>9. one \o meth \in Seq(SymbolRows) /\ Range(one \o meth) = {first} \cup Range(meth)
  BY <1>6, <1>8, RangeOfConcat
<1>10. \A x \in Range(meth) : \E m \in 1 .. Len(def.methods) : meth[m] = x
  BY <1>6, RangeFacts
<1>11. \A x \in Range(one \o meth) : x.kind # "module" /\ x.file = f
  BY <1>3, <1>4, <1>9, <1>10
<1>12. QED BY <1>7, <1>9, <1>11

\* A file has one symbol for itself, which bears its name.
LEMMA FileSymbolsFacts ==
    ASSUME NEW file \in SourceFiles, NEW f \in Nat
    PROVE  /\ FileSymbols(file, f) \in Seq(SymbolRows)
           /\ [kind |-> "module", qname |-> QName(file), file |-> f] \in Range(FileSymbols(file, f))
           /\ \A x \in Range(FileSymbols(file, f)) :
                 x.file = f /\ (x.kind = "module" => x.qname = QName(file))
<1> DEFINE q == QName(file)
           first == [kind |-> "module", qname |-> q, file |-> f]
           parts == [d \in DOMAIN file.defs |-> SymbolsOf(file.defs[d], q, f)]
           rest == IF file.broken THEN << >> ELSE FlattenSeq(parts)
<1>1. /\ Len(file.defs) \in Nat /\ DOMAIN file.defs = 1 .. Len(file.defs)
      /\ \A d \in DOMAIN file.defs : file.defs[d] \in Definitions
  BY FileShape
<1>2. q \in Seq(Parts)
  BY QNameType
<1>3. FileSymbols(file, f) = <<first>> \o rest
  BY DEF FileSymbols
<1> HIDE DEF q
<1>4. first \in SymbolRows /\ first.kind = "module" /\ first.qname = q /\ first.file = f
  BY <1>2 DEF SymbolRows
<1>5. ASSUME NEW d \in 1 .. Len(file.defs)
      PROVE  /\ parts[d] \in Seq(SymbolRows)
             /\ \A x \in Range(parts[d]) : x.kind # "module" /\ x.file = f
  <2>1. file.defs[d] \in Definitions /\ parts[d] = SymbolsOf(file.defs[d], q, f)
    BY <1>1
  <2> HIDE DEF parts
  <2>2. QED BY <1>2, <2>1, DefSymbols
<1>6. parts \in [1 .. Len(file.defs) -> Seq(SymbolRows)]
  BY <1>1, <1>5
<1>7. parts \in Seq(Seq(SymbolRows)) /\ Len(parts) = Len(file.defs)
  <2> HIDE DEF parts
  <2>1. QED BY <1>1, <1>6, SeqDef
<1> HIDE DEF first, parts
<1>8. /\ FlattenSeq(parts) \in Seq(SymbolRows)
      /\ \A x : x \in Range(FlattenSeq(parts)) <=> \E i \in 1 .. Len(parts) : x \in Range(parts[i])
  BY <1>7, FlattenFacts
<1>9. rest \in Seq(SymbolRows) /\ \A x \in Range(rest) : x.kind # "module" /\ x.file = f
  <2>1. Range(<< >>) = {} /\ << >> \in Seq(SymbolRows)
    BY EmptySeq DEF Range
  <2>2. \A x \in Range(FlattenSeq(parts)) : x.kind # "module" /\ x.file = f
    BY <1>5, <1>7, <1>8
  <2>3. CASE file.broken
    <3>1. rest = << >>
      BY <2>3
    <3>2. QED BY <2>1, <3>1
  <2>4. CASE ~file.broken
    <3>1. rest = FlattenSeq(parts)
      BY <2>4
    <3>2. QED BY <1>8, <2>2, <3>1
  <2>5. QED BY <2>3, <2>4
<1> HIDE DEF rest
<1> DEFINE one == <<first>>
<1>10. one \in Seq(SymbolRows) /\ Range(one) = {first}
  BY <1>4, SingleRange
<1>14. FileSymbols(file, f) = one \o rest
  BY <1>3
<1> HIDE DEF one
<1>11. one \o rest \in Seq(SymbolRows) /\ Range(one \o rest) = {first} \cup Range(rest)
  BY <1>9, <1>10, RangeOfConcat
<1>12. first = [kind |-> "module", qname |-> QName(file), file |-> f]
  BY DEF first, q
<1>13. QED BY <1>4, <1>9, <1>11, <1>12, <1>14 DEF q

ModulesIn(symbolsOf) == {s \in DOMAIN symbolsOf : symbolsOf[s].kind = "module"}

ModulesAreFiles(syms, tree) ==
    /\ \A s \in ModulesIn(syms) : /\ syms[s].file \in DOMAIN tree
                                  /\ syms[s].qname = QName(tree[syms[s].file])
    /\ \A f \in DOMAIN tree : \E s \in ModulesIn(syms) : syms[s].file = f

\* The modules among the symbols of a tree are its files, under their names.
LEMMA TreeSymbolsFacts ==
    ASSUME NEW tree \in Seq(SourceFiles), NEW syms, syms = TreeSymbols(tree)
    PROVE  syms \in Seq(SymbolRows) /\ ModulesAreFiles(syms, tree)
<1> DEFINE parts == [f \in DOMAIN tree |-> FileSymbols(tree[f], f)]
<1>1. /\ Len(tree) \in Nat /\ DOMAIN tree = 1 .. Len(tree)
      /\ \A f \in DOMAIN tree : tree[f] \in SourceFiles
  BY LenProperties, ElementOfSeq
<1>2. ASSUME NEW f \in 1 .. Len(tree)
      PROVE  /\ parts[f] \in Seq(SymbolRows)
             /\ [kind |-> "module", qname |-> QName(tree[f]), file |-> f] \in Range(parts[f])
             /\ \A x \in Range(parts[f]) :
                   x.file = f /\ (x.kind = "module" => x.qname = QName(tree[f]))
  <2>1. tree[f] \in SourceFiles /\ parts[f] = FileSymbols(tree[f], f) /\ f \in Nat
    BY <1>1
  <2> HIDE DEF parts
  <2>2. QED BY <2>1, FileSymbolsFacts
<1>3. parts \in [1 .. Len(tree) -> Seq(SymbolRows)]
  BY <1>1, <1>2
<1>4. syms = FlattenSeq(parts)
  BY DEF TreeSymbols
<1> HIDE DEF parts
<1>5. parts \in Seq(Seq(SymbolRows)) /\ Len(parts) = Len(tree)
  BY <1>1, <1>3, SeqDef
<1>6. /\ syms \in Seq(SymbolRows)
      /\ \A x : x \in Range(syms) <=> \E i \in 1 .. Len(parts) : x \in Range(parts[i])
  BY <1>4, <1>5, FlattenFacts
<1>7. ASSUME NEW s \in ModulesIn(syms)
      PROVE  syms[s].file \in DOMAIN tree /\ syms[s].qname = QName(tree[syms[s].file])
  <2>1. syms[s] \in Range(syms) /\ syms[s].kind = "module"
    BY DEF ModulesIn, Range
  <2>2. PICK i \in 1 .. Len(tree) : syms[s] \in Range(parts[i])
    BY <1>5, <1>6, <2>1
  <2>3. syms[s].file = i /\ syms[s].qname = QName(tree[i])
    BY <1>2, <2>1, <2>2
  <2>4. QED BY <1>1, <2>3
<1>8. ASSUME NEW f \in DOMAIN tree PROVE \E s \in ModulesIn(syms) : syms[s].file = f
  <2> DEFINE m == [kind |-> "module", qname |-> QName(tree[f]), file |-> f]
  <2>1. m \in Range(syms)
    BY <1>1, <1>2, <1>5, <1>6
  <2>2. PICK s \in DOMAIN syms : syms[s] = m
    BY <2>1 DEF Range
  <2>3. m.kind = "module" /\ m.file = f
    OBVIOUS
  <2>4. QED BY <2>2, <2>3 DEF ModulesIn
<1>9. QED BY <1>6, <1>7, <1>8 DEF ModulesAreFiles
----------------------------------------------------------------------------
(* What the edges between modules say.                                     *)

\* A relative import of a file that is no package starts at its package.
LEMMA BaseOfFile ==
    ASSUME NEW file \in SourceFiles, ~file.package, NEW level \in Nat, level # 0
    PROVE  Base(file, level) = SubSeq(file.dir, 1, Len(file.dir) - (level - 1))
<1> DEFINE d == file.dir
           q == Append(d, file.stem)
           n == Len(d) - (level - 1)
<1>1. d \in Seq(STRING) /\ file.stem \in STRING
  BY FileShape DEF Names
<1>2. QName(file) = q
  BY DEF QName
<1> HIDE DEF d
<1>3. Len(d) \in Nat /\ n \in Int /\ n <= Len(d)
  BY <1>1, LenProperties
<1>4. q \in Seq(STRING) /\ Len(q) = Len(d) + 1 /\ \A i \in 1 .. Len(d) : q[i] = d[i]
  BY <1>1, AppendProperties
<1>5. Len(q) - level = n
  BY <1>3, <1>4
<1> HIDE DEF q, n
<1>6. SubSeq(q, 1, n) = SubSeq(d, 1, n)
  <2>1. SubSeq(q, 1, n) = [i \in 1 .. n |-> q[i]]
    BY <1>3, <1>4
  <2>2. SubSeq(d, 1, n) = [i \in 1 .. n |-> d[i]]
    BY <1>1, <1>3
  <2>3. \A i \in 1 .. n : q[i] = d[i]
    BY <1>3, <1>4
  <2>4. QED BY <2>1, <2>2, <2>3
<1>7. Base(file, level) = SubSeq(q, 1, n)
  BY <1>2, <1>5 DEF Base
<1>8. QED BY <1>6, <1>7 DEF d, n

\* Where no package imports relatively, the extractor names what Python does.
LEMMA TargetIsPythonName ==
    ASSUME NEW file \in SourceFiles, NEW k \in DOMAIN file.imports,
           file.package => file.imports[k].level = 0
    PROVE  Target(file, file.imports[k]) = PythonName(file, file.imports[k])
<1>1. file.imports[k].level \in Nat
  BY FileShape DEF ImportedNames
<1>2. CASE file.imports[k].level = 0
  BY <1>2 DEF Target, PythonName
<1>3. CASE file.imports[k].level # 0
  <2>1. Base(file, file.imports[k].level) = SubSeq(file.dir, 1, Len(file.dir) - (file.imports[k].level - 1))
    BY <1>1, <1>3, BaseOfFile
  <2>2. QED BY <1>3, <2>1 DEF Target, PythonName
<1>4. QED BY <1>2, <1>3
\* The greatest of some positions is one of them.
LEMMA MaxOf ==
    ASSUME NEW n \in Nat, NEW S \in SUBSET (1 .. n), S # {}
    PROVE  Max(S) \in S
<1> DEFINE T == {k \in Nat : n - k \in S}
<1>1. PICK x \in S : TRUE
  OBVIOUS
<1>2. n - x \in T
  BY <1>1
<1>3. PICK m \in T : \A k \in T : m <= k
  BY <1>2, LeastNat
<1>4. n - m \in S /\ m \in Nat
  BY <1>3
<1>5. \A y \in S : n - m >= y
  <2>1. TAKE y \in S
  <2>2. n - y \in T
    BY <2>1
  <2>3. m <= n - y
    BY <1>3, <2>2
  <2>4. QED BY <1>4, <2>1, <2>3
<1>6. \E z \in S : \A y \in S : z >= y
  BY <1>4, <1>5
<1> HIDE DEF T
<1>7. QED BY <1>6 DEF Max

\* The name of a module finds it; what a name finds, bears it.
LEMMA IdOfModule ==
    ASSUME NEW tree \in Seq(SourceFiles), ModulesDistinct(tree),
           NEW syms, syms = TreeSymbols(tree)
    PROVE  /\ \A s \in ModulesIn(syms) :
                 /\ s # 0
                 /\ IdOf(syms, syms[s].qname) = s
                 /\ Source(syms, syms[s].qname) = s
           /\ \A q : IdOf(syms, q) # 0 =>
                 IdOf(syms, q) \in DOMAIN syms /\ syms[IdOf(syms, q)].qname = q
<1>1. syms \in Seq(SymbolRows)
  BY TreeSymbolsFacts
<1>2. Len(syms) \in Nat /\ DOMAIN syms = 1 .. Len(syms)
  BY <1>1, LenProperties
<1> DEFINE same(q) == {s \in DOMAIN syms : syms[s].qname = q}
<1>3. \A q : IdOf(syms, q) = IF same(q) = {} THEN 0 ELSE Max(same(q))
  BY DEF IdOf
<1>4. ASSUME NEW q, same(q) # {} PROVE Max(same(q)) \in same(q)
  <2>1. same(q) \in SUBSET (1 .. Len(syms))
    BY <1>2
  <2> HIDE DEF same
  <2>2. QED BY <1>2, <1>4, <2>1, MaxOf
<1>5. ASSUME NEW q, IdOf(syms, q) # 0
      PROVE  IdOf(syms, q) \in DOMAIN syms /\ syms[IdOf(syms, q)].qname = q
  <2>1. same(q) # {}
    BY <1>3, <1>5
  <2>2. IdOf(syms, q) \in same(q)
    <3>1. IdOf(syms, q) = Max(same(q)) /\ Max(same(q)) \in same(q)
      <4> HIDE DEF same
      <4>1. QED BY <1>3, <1>4, <2>1
    <3>2. QED BY <3>1
  <2>3. QED BY <2>2
<1>6. ASSUME NEW s \in ModulesIn(syms)
      PROVE  s # 0 /\ IdOf(syms, syms[s].qname) = s /\ Source(syms, syms[s].qname) = s
  <2>1. s \in DOMAIN syms /\ syms[s].kind = "module"
    BY DEF ModulesIn
  <2>2. \A r \in DOMAIN syms : syms[r].qname = syms[s].qname => r = s
    BY <2>1 DEF ModulesDistinct
  <2>3. s # 0 /\ s \in same(syms[s].qname)
    BY <1>2, <2>1
  <2>4. Max(same(syms[s].qname)) = s
    BY <1>4, <2>2, <2>3
  <2>5. IdOf(syms, syms[s].qname) = s
    BY <1>3, <2>3, <2>4
  <2>6. QED BY <2>3, <2>5 DEF Source
<1>7. QED BY <1>5, <1>6

\* One module per file.
LEMMA ModuleOfFile ==
    ASSUME NEW tree \in Seq(SourceFiles), ModulesDistinct(tree),
           NEW syms, syms = TreeSymbols(tree),
           NEW s \in ModulesIn(syms), NEW r \in ModulesIn(syms), syms[s].file = syms[r].file
    PROVE  s = r
<1>1. syms[s].qname = syms[r].qname
  BY TreeSymbolsFacts DEF ModulesAreFiles
<1>2. QED BY <1>1, IdOfModule

\* Where imports are plain, none of a package is relative and none too high.
LEMMA PlainImport ==
    ASSUME NEW tree, PlainImports(tree), NEW f \in DOMAIN tree, tree[f] \in SourceFiles,
           NEW k \in DOMAIN tree[f].imports
    PROVE  /\ tree[f].package => tree[f].imports[k].level = 0
           /\ tree[f].imports[k].level <= Len(tree[f].dir)
<1>1. tree[f].imports[k] \in Range(tree[f].imports)
  BY DEF Range
<1>2. Len(tree[f].dir) \in Nat
  BY FileShape, LenProperties
<1>3. QED BY <1>1, <1>2 DEF PlainImports

\* Two modules have an import edge between them exactly when the one file
\* imports the other by its whole name.
LEMMA ImportsEdge ==
    ASSUME NEW tree \in Seq(SourceFiles), PlainImports(tree), ModulesDistinct(tree),
           NEW syms, syms = TreeSymbols(tree),
           NEW s \in ModulesIn(syms), NEW r \in ModulesIn(syms)
    PROVE  Edge(s, "imports", r) \in TreeEdges(tree)
             <=> <<syms[s].file, syms[r].file>> \in Named(tree)
<1>1. ModulesAreFiles(syms, tree)
  BY TreeSymbolsFacts
<1>2. /\ \A m \in ModulesIn(syms) : /\ syms[m].file \in DOMAIN tree
                                    /\ syms[m].qname = QName(tree[syms[m].file])
      /\ \A f \in DOMAIN tree : \E m \in ModulesIn(syms) : syms[m].file = f
  BY <1>1 DEF ModulesAreFiles
<1> DEFINE raw == UNION {FileEdges(tree[f]) : f \in DOMAIN tree}
           fs == syms[s].file
           fr == syms[r].file
<1>3. /\ fs \in DOMAIN tree /\ fr \in DOMAIN tree
      /\ syms[s].qname = QName(tree[fs]) /\ syms[r].qname = QName(tree[fr])
  BY <1>2
<1>4. /\ s # 0 /\ Source(syms, QName(tree[fs])) = s
      /\ IdOf(syms, QName(tree[fr])) = r
      /\ \A q : IdOf(syms, q) # 0 => syms[IdOf(syms, q)].qname = q
      /\ r # 0
  BY <1>3, IdOfModule
<1>5. \A f \in DOMAIN tree : tree[f] \in SourceFiles
  BY ElementOfSeq
<1>6. Edge(s, "imports", r) \in TreeEdges(tree)
        <=> \E e \in raw : Source(syms, e.src) = s /\ e.rel = "imports" /\ IdOf(syms, e.dst) = r
  BY <1>4 DEF TreeEdges, Edge
<1>7. ASSUME NEW e \in raw, Source(syms, e.src) = s, e.rel = "imports", IdOf(syms, e.dst) = r
      PROVE  <<fs, fr>> \in Named(tree)
  <2>1. PICK f \in DOMAIN tree : e \in FileEdges(tree[f])
    BY <1>7
  <2>2. ~tree[f].broken /\ e \in ImportEdges(tree[f])
    BY <1>7, <2>1 DEF FileEdges, DefEdges, Edge
  <2>3. PICK k \in DOMAIN tree[f].imports :
            e.src = QName(tree[f]) /\ e.dst = Target(tree[f], tree[f].imports[k])
    BY <2>2 DEF ImportEdges, Edge
  <2>4. PICK m \in ModulesIn(syms) : syms[m].file = f /\ syms[m].qname = QName(tree[f])
    <3>1. PICK m \in ModulesIn(syms) : syms[m].file = f
      BY <1>2
    <3>2. syms[m].qname = QName(tree[f])
      BY <1>2, <3>1
    <3>3. QED BY <3>1, <3>2
  <2>5. m = s
    BY <1>7, <2>3, <2>4, IdOfModule
  <2>6. QName(tree[fr]) = Target(tree[f], tree[f].imports[k])
    BY <1>3, <1>4, <1>7, <2>3
  <2>7. /\ tree[f].package => tree[f].imports[k].level = 0
        /\ tree[f].imports[k].level <= Len(tree[f].dir)
    BY <1>5, PlainImport
  <2>8. Target(tree[f], tree[f].imports[k]) = PythonName(tree[f], tree[f].imports[k])
    BY <1>5, <2>7, TargetIsPythonName
  <2>9. f = fs
    BY <2>4, <2>5
  <2>10. QName(tree[fr]) \in Imported(tree[fs])
    BY <2>2, <2>6, <2>7, <2>8, <2>9 DEF Imported, Range
  <2>11. QED BY <1>3, <2>10 DEF Named
<1>8. ASSUME <<fs, fr>> \in Named(tree)
      PROVE  \E e \in raw : Source(syms, e.src) = s /\ e.rel = "imports" /\ IdOf(syms, e.dst) = r
  <2>1. ~tree[fs].broken /\ \E k \in DOMAIN tree[fs].imports :
            PythonName(tree[fs], tree[fs].imports[k]) = QName(tree[fr])
    BY <1>8 DEF Named, Imported, Range
  <2>2. PICK k \in DOMAIN tree[fs].imports :
            PythonName(tree[fs], tree[fs].imports[k]) = QName(tree[fr])
    BY <2>1
  <2>3. tree[fs].package => tree[fs].imports[k].level = 0
    BY <1>3, <1>5, PlainImport
  <2>4. Target(tree[fs], tree[fs].imports[k]) = QName(tree[fr])
    BY <1>3, <1>5, <2>2, <2>3, TargetIsPythonName
  <2> DEFINE e == Edge(QName(tree[fs]), "imports", Target(tree[fs], tree[fs].imports[k]))
  <2>5. e \in FileEdges(tree[fs])
    BY <2>1 DEF FileEdges, ImportEdges
  <2>6. e.src = QName(tree[fs]) /\ e.rel = "imports" /\ e.dst = QName(tree[fr])
    BY <2>4 DEF Edge
  <2>7. e \in raw
    BY <1>3, <2>5
  <2>8. QED BY <1>4, <2>6, <2>7
<1>9. QED BY <1>6, <1>7, <1>8
----------------------------------------------------------------------------
(* What the depth-first search sees.                                       *)

\* A set of rows that holds what it leads to from S without meeting seen.
Avoiding(C, S, seen, rows) ==
    /\ C \subseteq rows
    /\ S \ seen \subseteq C
    /\ \A x \in C : Adjacent(x, rows) \ seen \subseteq C

\* The least of them.
Reach(S, seen, rows) ==
    {x \in rows : \A C \in SUBSET rows : Avoiding(C, S, seen, rows) => x \in C}

LEMMA AdjacentRows ==
    ASSUME NEW rows, NEW x
    PROVE  /\ Adjacent(x, rows) \subseteq rows
           /\ \A r \in Adjacent(x, rows) : x \in rows => x \in Adjacent(r, rows)
           /\ \A r \in Adjacent(x, rows) : r[1] = x[1]
BY DEF Adjacent

LEMMA ReachFacts ==
    ASSUME NEW rows, NEW S \in SUBSET rows, NEW seen
    PROVE  /\ Avoiding(Reach(S, seen, rows), S, seen, rows)
           /\ \A C : Avoiding(C, S, seen, rows) => Reach(S, seen, rows) \subseteq C
<1>1. Reach(S, seen, rows) \subseteq rows
  BY DEF Reach
<1>2. \A C : Avoiding(C, S, seen, rows) => Reach(S, seen, rows) \subseteq C
  BY DEF Reach, Avoiding
<1>3. S \ seen \subseteq Reach(S, seen, rows)
  BY DEF Reach, Avoiding
<1>4. ASSUME NEW x \in Reach(S, seen, rows), NEW r \in Adjacent(x, rows) \ seen
      PROVE  r \in Reach(S, seen, rows)
  <2>1. r \in rows
    BY AdjacentRows
  <2>2. ASSUME NEW C \in SUBSET rows, Avoiding(C, S, seen, rows) PROVE r \in C
    <3>1. x \in C
      BY <2>2 DEF Reach
    <3>2. QED BY <2>2, <3>1 DEF Avoiding
  <2>3. QED BY <2>1, <2>2 DEF Reach
<1>5. QED BY <1>1, <1>2, <1>3, <1>4 DEF Avoiding

\* One row off the stack: its neighbours are reached without it.
LEMMA ReachStep ==
    ASSUME NEW rows, NEW S \in SUBSET rows, NEW seen \in SUBSET rows, NEW top \in rows \ seen
    PROVE  seen \cup Reach(S \cup {top}, seen, rows)
             = (seen \cup {top}) \cup Reach(S \cup Adjacent(top, rows), seen \cup {top}, rows)
<1> DEFINE A == S \cup {top}
           B == S \cup Adjacent(top, rows)
           more == seen \cup {top}
           C == Reach(A, seen, rows)
           D == Reach(B, more, rows)
<1>1. Adjacent(top, rows) \subseteq rows
  BY AdjacentRows
<1>2. A \in SUBSET rows /\ B \in SUBSET rows
  BY <1>1
<1>3. top \in A /\ S \subseteq A /\ S \subseteq B /\ Adjacent(top, rows) \subseteq B
      /\ B \subseteq S \cup Adjacent(top, rows) /\ A \subseteq S \cup {top}
  OBVIOUS
<1> HIDE DEF A, B
<1>4. /\ Avoiding(C, A, seen, rows)
      /\ \A X : Avoiding(X, A, seen, rows) => C \subseteq X
  BY <1>2, ReachFacts
<1>5. /\ Avoiding(D, B, more, rows)
      /\ \A X : Avoiding(X, B, more, rows) => D \subseteq X
  <2> HIDE DEF more
  <2>1. QED BY <1>2, ReachFacts
<1> HIDE DEF C, D
<1>6. top \in C
  BY <1>3, <1>4 DEF Avoiding
<1>7. Avoiding(C \ {top}, B, more, rows)
  <2>1. B \ more \subseteq C \ {top}
    BY <1>3, <1>4, <1>6 DEF Avoiding
  <2>2. \A x \in C \ {top} : Adjacent(x, rows) \ more \subseteq C \ {top}
    BY <1>4 DEF Avoiding
  <2>3. QED BY <1>4, <2>1, <2>2 DEF Avoiding
<1>8. D \subseteq C
  BY <1>5, <1>7
<1>9. Avoiding(D \cup {top}, A, seen, rows)
  <2>1. A \ seen \subseteq D \cup {top}
    BY <1>3, <1>5 DEF Avoiding
  <2>2. ASSUME NEW x \in D \cup {top} PROVE Adjacent(x, rows) \ seen \subseteq D \cup {top}
    <3>1. CASE x \in D
      BY <1>5, <3>1 DEF Avoiding
    <3>2. CASE x = top
      BY <1>3, <1>5, <3>2 DEF Avoiding
    <3>3. QED BY <3>1, <3>2
  <2>3. D \cup {top} \subseteq rows
    BY <1>5 DEF Avoiding
  <2>4. QED BY <2>1, <2>2, <2>3 DEF Avoiding
<1>10. C \subseteq D \cup {top}
  BY <1>4, <1>9
<1>11. QED BY <1>6, <1>8, <1>10 DEF A, B, C, D

\* A row that has been seen may stay on the stack.
LEMMA ReachSkip ==
    ASSUME NEW rows, NEW S \in SUBSET rows, NEW seen, NEW top \in seen
    PROVE  Reach(S \cup {top}, seen, rows) = Reach(S, seen, rows)
<1>1. \A C : Avoiding(C, S \cup {top}, seen, rows) <=> Avoiding(C, S, seen, rows)
  BY DEF Avoiding
<1>2. QED BY <1>1 DEF Reach

LEMMA ReachNothing ==
    ASSUME NEW rows, NEW seen PROVE Reach({}, seen, rows) = {}
<1>1. Avoiding({}, {}, seen, rows)
  BY DEF Avoiding
<1>2. QED BY <1>1 DEF Reach

\* The stack: what is left below the top, and what the neighbours add.
LEMMA StackFacts ==
    ASSUME NEW rows, NEW stack \in Seq(rows), stack # << >>
    PROVE  /\ Last(stack) \in rows
           /\ Front(stack) \in Seq(rows)
           /\ Len(Front(stack)) \in Nat /\ Len(stack) \in Nat /\ Len(Front(stack)) < Len(stack)
           /\ Range(stack) = Range(Front(stack)) \cup {Last(stack)}
<1> DEFINE n == Len(stack)
           front == Front(stack)
<1>1. n \in Nat /\ n # 0 /\ \A i \in 1 .. n : stack[i] \in rows
  BY LenProperties, ElementOfSeq, EmptySeq
<1>2. Last(stack) = stack[n] /\ n \in 1 .. n
  BY <1>1 DEF Last
<1>3. front = [i \in 1 .. n - 1 |-> stack[i]]
  BY <1>1 DEF Front
<1>4. front \in Seq(rows) /\ Len(front) = n - 1
  BY <1>1, <1>3
<1>5. Range(stack) = {stack[i] : i \in 1 .. n}
  BY <1>1 DEF Range
<1>6. Range(front) = {stack[i] : i \in 1 .. n - 1}
  BY <1>3 DEF Range
<1>7. 1 .. n = (1 .. n - 1) \cup {n}
  BY <1>1
<1> HIDE DEF front, n
<1>8. Range(stack) = Range(front) \cup {stack[n]}
  BY <1>5, <1>6, <1>7
<1>9. QED BY <1>1, <1>2, <1>4, <1>8 DEF front, n

LEMMA SetToSeqFacts ==
    ASSUME NEW X, NEW S \in SUBSET X, IsFiniteSet(S)
    PROVE  SetToSeq(S) \in Seq(X) /\ Range(SetToSeq(S)) = S
<1> DEFINE n == Cardinality(S)
           I == 1 .. n
           f == SetToSeq(S)
<1>1. n \in Nat /\ ExistsBijection(I, S)
  BY FS_CardinalityType
<1>2. f = CHOOSE g \in [I -> S] : IsInjective(g)
  BY DEF SetToSeq
<1>3. IsFiniteSet(I) /\ Cardinality(I) = n
  <2>1. \A a, b \in Int : IsFiniteSet(a .. b) /\ Cardinality(a .. b) = IF a > b THEN 0 ELSE b - a + 1
    BY FS_Interval
  <2>2. QED BY <1>1, <2>1
<1> HIDE DEF I, f
<1>4. \E g \in [I -> S] : IsInjective(g)
  BY <1>1 DEF ExistsBijection, Bijection, Injection
<1>5. f \in [I -> S] /\ f \in Injection(I, S)
  BY <1>2, <1>4 DEF Injection
<1>6. f \in Surjection(I, S)
  BY <1>3, <1>5, FS_Injection
<1>7. Range(f) = S
  BY <1>5, <1>6 DEF Surjection, Range
<1>8. f \in [I -> X]
  BY <1>5
<1>9. f \in Seq(X)
  BY <1>1, <1>8, SeqDef DEF I
<1>10. QED BY <1>7, <1>9 DEF f
Places(rows) == [stack : Seq(rows), seen : SUBSET rows]
At(stack, seen) == [stack |-> stack, seen |-> seen]

IsVisit(go, rows) ==
    go = [at \in [stack : Seq(rows), seen : SUBSET rows] |->
            IF at.stack = << >> THEN at.seen
            ELSE IF Last(at.stack) \in at.seen
                 THEN go[[stack |-> Front(at.stack), seen |-> at.seen]]
            ELSE go[[stack |-> Pushed(Front(at.stack), Adjacent(Last(at.stack), rows)),
                     seen |-> at.seen \cup {Last(at.stack)}]]]

\* What has been seen when the stack is empty.
Seen(at, rows) == at.seen \cup Reach(Range(at.stack), at.seen, rows)

LEMMA PushedFacts ==
    ASSUME NEW rows, IsFiniteSet(rows), NEW stack \in Seq(rows), NEW x
    PROVE  /\ Pushed(stack, Adjacent(x, rows)) \in Seq(rows)
           /\ Range(Pushed(stack, Adjacent(x, rows))) = Range(stack) \cup Adjacent(x, rows)
<1>1. Adjacent(x, rows) \in SUBSET rows /\ IsFiniteSet(Adjacent(x, rows))
  BY AdjacentRows, FS_Subset
<1>2. /\ SetToSeq(Adjacent(x, rows)) \in Seq(rows)
      /\ Range(SetToSeq(Adjacent(x, rows))) = Adjacent(x, rows)
  BY <1>1, SetToSeqFacts
<1> DEFINE more == SetToSeq(Adjacent(x, rows))
<1> HIDE DEF more
<1>3. stack \o more \in Seq(rows) /\ Range(stack \o more) = Range(stack) \cup Adjacent(x, rows)
  BY <1>2, RangeOfConcat DEF more
<1>4. QED BY <1>3 DEF Pushed, more

\* Where a step of the search goes, and that what it will have seen stays.
LEMMA VisitStep ==
    ASSUME NEW rows, IsFiniteSet(rows), NEW at \in Places(rows), at.stack # << >>
    PROVE  LET top == Last(at.stack)
               over == At(Front(at.stack), at.seen)
               on == At(Pushed(Front(at.stack), Adjacent(top, rows)), at.seen \cup {top})
           IN  /\ top \in rows
               /\ over \in Places(rows)
               /\ on \in Places(rows)
               /\ top \in at.seen => Seen(at, rows) = Seen(over, rows)
               /\ top \notin at.seen => Seen(at, rows) = Seen(on, rows)
               /\ Len(over.stack) \in Nat /\ Len(at.stack) \in Nat
               /\ Len(over.stack) < Len(at.stack)
<1> DEFINE top == Last(at.stack)
           front == Front(at.stack)
           pushed == Pushed(front, Adjacent(top, rows))
           over == At(front, at.seen)
           on == At(pushed, at.seen \cup {top})
<1>1. at.stack \in Seq(rows) /\ at.seen \in SUBSET rows
  BY DEF Places
<1>2. /\ top \in rows /\ front \in Seq(rows)
      /\ Len(front) \in Nat /\ Len(at.stack) \in Nat /\ Len(front) < Len(at.stack)
      /\ Range(at.stack) = Range(front) \cup {top}
  BY <1>1, StackFacts
<1> HIDE DEF top, front
<1>3. pushed \in Seq(rows) /\ Range(pushed) = Range(front) \cup Adjacent(top, rows)
  BY <1>2, PushedFacts
<1> HIDE DEF pushed
<1>4. Range(front) \in SUBSET rows
  BY <1>2, RangeFacts
<1>5. /\ over \in Places(rows) /\ on \in Places(rows)
      /\ over.stack = front /\ over.seen = at.seen
      /\ on.stack = pushed /\ on.seen = at.seen \cup {top}
  BY <1>1, <1>2, <1>3 DEF Places, At
<1> HIDE DEF over, on
<1>6. top \in at.seen => Seen(at, rows) = Seen(over, rows)
  BY <1>2, <1>4, <1>5, ReachSkip DEF Seen
<1>7. top \notin at.seen => Seen(at, rows) = Seen(on, rows)
  <2>1. SUFFICES ASSUME top \in rows \ at.seen PROVE Seen(at, rows) = Seen(on, rows)
    BY <1>2
  <2>2. at.seen \cup Reach(Range(front) \cup {top}, at.seen, rows)
          = (at.seen \cup {top}) \cup Reach(Range(front) \cup Adjacent(top, rows), at.seen \cup {top}, rows)
    <3> DEFINE S == Range(front)
               seen == at.seen
    <3>1. S \in SUBSET rows /\ seen \in SUBSET rows /\ top \in rows \ seen
      BY <1>1, <1>4, <2>1
    <3> HIDE DEF S, seen
    <3>2. seen \cup Reach(S \cup {top}, seen, rows)
            = (seen \cup {top}) \cup Reach(S \cup Adjacent(top, rows), seen \cup {top}, rows)
      BY <3>1, ReachStep
    <3>3. QED BY <3>2 DEF S, seen
  <2>3. QED BY <1>2, <1>3, <1>5, <2>2 DEF Seen
<1>8. QED BY <1>2, <1>5, <1>6, <1>7 DEF top, front, pushed, over, on

LEMMA VisitExists ==
    ASSUME NEW rows, IsFiniteSet(rows) PROVE \E go : IsVisit(go, rows)
<1> DEFINE g == [at \in Places(rows) |-> Seen(at, rows)]
<1>1. ASSUME NEW at \in Places(rows), at.stack = << >> PROVE Seen(at, rows) = at.seen
  <2>1. Range(<< >>) = {}
    BY DEF Range
  <2>2. QED BY <1>1, <2>1, ReachNothing DEF Seen
<1>2. ASSUME NEW at \in Places(rows), at.stack # << >>
      PROVE  Seen(at, rows) =
               IF Last(at.stack) \in at.seen
               THEN g[[stack |-> Front(at.stack), seen |-> at.seen]]
               ELSE g[[stack |-> Pushed(Front(at.stack), Adjacent(Last(at.stack), rows)),
                       seen |-> at.seen \cup {Last(at.stack)}]]
  BY <1>2, VisitStep DEF At
<1>3. g = [at \in Places(rows) |->
            IF at.stack = << >> THEN at.seen
            ELSE IF Last(at.stack) \in at.seen
                 THEN g[[stack |-> Front(at.stack), seen |-> at.seen]]
            ELSE g[[stack |-> Pushed(Front(at.stack), Adjacent(Last(at.stack), rows)),
                     seen |-> at.seen \cup {Last(at.stack)}]]]
  <2>1. g = [at \in Places(rows) |-> g[at]]
    OBVIOUS
  <2>2. \A at \in Places(rows) : g[at] = Seen(at, rows)
    OBVIOUS
  <2> HIDE DEF g
  <2>3. QED BY <1>1, <1>2, <2>1, <2>2
<1> HIDE DEF g
<1>4. IsVisit(g, rows)
  BY <1>3 DEF IsVisit, Places
<1>5. QED BY <1>4

\* Every solution is that one: along the search fewer rows are unseen, or as
\* many with less on the stack.
LEMMA VisitUnique ==
    ASSUME NEW rows, IsFiniteSet(rows), NEW go, IsVisit(go, rows), NEW start \in Places(rows)
    PROVE  go[start] = Seen(start, rows)
<1> DEFINE Wrong == {at \in Places(rows) : go[at] # Seen(at, rows)}
           left(at) == Cardinality(rows \ at.seen)
<1>1. ASSUME NEW at \in Places(rows)
      PROVE  /\ left(at) \in Nat
             /\ \A x \in rows \ at.seen : Cardinality(rows \ (at.seen \cup {x})) < left(at)
  <2>1. IsFiniteSet(rows \ at.seen)
    BY FS_Difference
  <2>2. \A x \in rows \ at.seen :
            /\ rows \ (at.seen \cup {x}) = (rows \ at.seen) \ {x}
            /\ Cardinality((rows \ at.seen) \ {x}) = Cardinality(rows \ at.seen) - 1
    BY <2>1, FS_RemoveElement
  <2>3. left(at) \in Nat
    BY <2>1, FS_CardinalityType
  <2>4. ASSUME NEW x \in rows \ at.seen
        PROVE  Cardinality(rows \ (at.seen \cup {x})) < left(at)
    <3>1. Cardinality(rows \ (at.seen \cup {x})) = left(at) - 1
      BY <2>2
    <3> HIDE DEF left
    <3>2. QED BY <2>3, <3>1
  <2>5. QED BY <2>3, <2>4
<1>2. ASSUME Wrong # {} PROVE FALSE
  <2> DEFINE Lefts == {n \in Nat : \E at \in Wrong : left(at) = n}
  <2>1. PICK n \in Lefts : \A k \in Lefts : n <= k
    <3>1. Lefts \in SUBSET Nat /\ Lefts # {}
      BY <1>1, <1>2
    <3> HIDE DEF Lefts
    <3>2. QED BY <3>1, LeastNat
  <2> DEFINE Lens == {m \in Nat : \E at \in Wrong : left(at) = n /\ Len(at.stack) = m}
  <2>2. PICK m \in Lens : \A k \in Lens : m <= k
    <3>1. PICK at \in Wrong : left(at) = n
      BY <2>1
    <3>2. Len(at.stack) \in Nat
      BY LenProperties DEF Places
    <3>3. Lens \in SUBSET Nat /\ Lens # {}
      BY <3>1, <3>2
    <3> HIDE DEF Lens
    <3>4. QED BY <3>3, LeastNat
  <2>3. PICK at \in Wrong : left(at) = n /\ Len(at.stack) = m
    BY <2>2
  <2>4. at \in Places(rows) /\ go[at] # Seen(at, rows) /\ n \in Nat /\ m \in Nat
    BY <2>1, <2>2
  <2> DEFINE top == Last(at.stack)
             over == At(Front(at.stack), at.seen)
             on == At(Pushed(Front(at.stack), Adjacent(top, rows)), at.seen \cup {top})
  <2>5. go[at] = IF at.stack = << >> THEN at.seen
                 ELSE IF top \in at.seen THEN go[over] ELSE go[on]
    BY <2>4 DEF IsVisit, Places, At
  <2>6. at.stack # << >>
    <3>1. at.stack = << >> => Seen(at, rows) = at.seen
      <4>1. Range(<< >>) = {}
        BY DEF Range
      <4>2. QED BY <4>1, ReachNothing DEF Seen
    <3>2. QED BY <2>4, <2>5, <3>1
  <2>7. /\ top \in rows /\ over \in Places(rows) /\ on \in Places(rows)
        /\ top \in at.seen => Seen(at, rows) = Seen(over, rows)
        /\ top \notin at.seen => Seen(at, rows) = Seen(on, rows)
        /\ Len(over.stack) \in Nat /\ Len(at.stack) \in Nat
        /\ Len(over.stack) < Len(at.stack)
    BY <2>4, <2>6, VisitStep
  <2>8. over.seen = at.seen /\ on.seen = at.seen \cup {top}
    BY DEF At
  <2> HIDE DEF top, over, on
  <2>9. CASE top \in at.seen
    <3>1. over \in Wrong
      BY <2>4, <2>5, <2>6, <2>7, <2>9
    <3>2. left(over) = n
      BY <2>3, <2>8
    <3>3. Len(over.stack) \in Lens
      BY <2>7, <3>1, <3>2
    <3>4. m <= Len(over.stack)
      BY <2>2, <3>3
    <3>5. QED BY <2>3, <2>7, <3>4
  <2>10. CASE top \notin at.seen
    <3>1. on \in Wrong
      BY <2>4, <2>5, <2>6, <2>7, <2>10
    <3>2. left(on) < n /\ left(on) \in Nat
      BY <1>1, <2>3, <2>4, <2>7, <2>8, <2>10
    <3>3. left(on) \in Lefts
      BY <3>1, <3>2
    <3>4. n <= left(on)
      BY <2>1, <3>3
    <3> HIDE DEF left
    <3>5. QED BY <2>4, <3>2, <3>4
  <2>11. QED BY <2>9, <2>10
<1>3. QED BY <1>2

LEMMA VisitFacts ==
    ASSUME NEW rows, IsFiniteSet(rows), NEW row \in rows, NEW done \in SUBSET rows
    PROVE  Visit(row, rows, done) = done \cup Reach({row}, done, rows)
<1> DEFINE one == <<row>>
           start == At(one, done)
           go == CHOOSE go : IsVisit(go, rows)
<1>1. IsVisit(go, rows)
  <2>1. \E g : IsVisit(g, rows)
    BY VisitExists
  <2>2. QED BY <2>1
<1>2. Visit(row, rows, done) = go[start]
  BY DEF Visit, IsVisit, At
<1> HIDE DEF go
<1>3. one \in Seq(rows) /\ Range(one) = {row}
  BY SingleRange
<1> HIDE DEF one
<1>4. start \in Places(rows) /\ start.stack = one /\ start.seen = done
  BY <1>3 DEF Places, At
<1> HIDE DEF start
<1>5. go[start] = Seen(start, rows)
  BY <1>1, <1>4, VisitUnique
<1>6. QED BY <1>2, <1>3, <1>4, <1>5 DEF Seen
----------------------------------------------------------------------------
(* The clusters of some rows.                                              *)

\* A set of rows nothing leads out of, and the least one around a row.
Closed(C, rows) == C \subseteq rows /\ \A x \in C : Adjacent(x, rows) \subseteq C
Around(row, rows) == Reach({row}, {}, rows)

LEMMA AroundFacts ==
    ASSUME NEW rows, NEW row \in rows
    PROVE  /\ row \in Around(row, rows)
           /\ Closed(Around(row, rows), rows)
           /\ \A C : Closed(C, rows) /\ row \in C => Around(row, rows) \subseteq C
<1>1. /\ Avoiding(Around(row, rows), {row}, {}, rows)
      /\ \A C : Avoiding(C, {row}, {}, rows) => Around(row, rows) \subseteq C
  <2>1. {row} \in SUBSET rows
    OBVIOUS
  <2>2. QED BY <2>1, ReachFacts DEF Around
<1>2. \A C : Avoiding(C, {row}, {}, rows) <=> Closed(C, rows) /\ row \in C
  BY DEF Avoiding, Closed
<1>3. QED BY <1>1, <1>2

\* Adjacent rows are adjacent both ways, so nothing leads into a closed set.
LEMMA ClosedFacts ==
    ASSUME NEW rows, NEW C, Closed(C, rows)
    PROVE  /\ Closed(rows \ C, rows)
           /\ \A D : Closed(D, rows) => Closed(C \ D, rows) /\ Closed(C \cup D, rows)
<1>1. \A x \in rows : \A r \in Adjacent(x, rows) : r \in rows /\ x \in Adjacent(r, rows)
  BY AdjacentRows
<1>2. QED BY <1>1 DEF Closed

LEMMA AroundSame ==
    ASSUME NEW rows, NEW row \in rows, NEW x \in Around(row, rows)
    PROVE  Around(x, rows) = Around(row, rows)
<1> DEFINE A == Around(row, rows)
           B == Around(x, rows)
<1>1. row \in A /\ Closed(A, rows) /\ \A C : Closed(C, rows) /\ row \in C => A \subseteq C
  BY AroundFacts
<1>2. x \in rows
  BY <1>1 DEF Closed
<1>3. x \in B /\ Closed(B, rows) /\ \A C : Closed(C, rows) /\ x \in C => B \subseteq C
  BY <1>2, AroundFacts
<1> HIDE DEF A, B
<1>4. B \subseteq A
  BY <1>1, <1>3 DEF A
<1>5. row \in B
  <2>1. ASSUME row \notin B PROVE FALSE
    <3>1. Closed(A \ B, rows)
      BY <1>1, <1>3, ClosedFacts
    <3>2. A \subseteq A \ B
      BY <1>1, <2>1, <3>1
    <3>3. x \in A
      BY DEF A
    <3>4. QED BY <1>3, <3>2, <3>3
  <2>2. QED BY <2>1
<1>6. A \subseteq B
  BY <1>1, <1>3, <1>5
<1>7. QED BY <1>4, <1>6 DEF A, B

\* A search that begins outside a closed set does not notice it.
LEMMA ReachOutside ==
    ASSUME NEW rows, NEW done \in SUBSET rows, Closed(done, rows), NEW row \in rows \ done
    PROVE  /\ Reach({row}, done, rows) = Around(row, rows)
           /\ Around(row, rows) \cap done = {}
<1> DEFINE A == Around(row, rows)
           B == Reach({row}, done, rows)
<1>1. row \in A /\ Closed(A, rows) /\ \A C : Closed(C, rows) /\ row \in C => A \subseteq C
  BY AroundFacts
<1>2. Avoiding(B, {row}, done, rows) /\ \A C : Avoiding(C, {row}, done, rows) => B \subseteq C
  <2>1. {row} \in SUBSET rows
    OBVIOUS
  <2>2. QED BY <2>1, ReachFacts
<1>3. Closed(rows \ done, rows)
  BY ClosedFacts
<1> HIDE DEF A, B
<1>4. A \subseteq rows \ done
  BY <1>1, <1>3
<1>5. B \subseteq A
  <2>1. Avoiding(A, {row}, done, rows)
    BY <1>1 DEF Avoiding, Closed
  <2>2. QED BY <1>2, <2>1
<1>6. Closed(B, rows) /\ row \in B
  <2>1. ASSUME NEW x \in B PROVE Adjacent(x, rows) \subseteq B
    <3>1. x \in rows \ done
      BY <1>4, <1>5
    <3>2. Adjacent(x, rows) \subseteq rows \ done
      BY <1>3, <3>1 DEF Closed
    <3>3. QED BY <1>2, <3>2 DEF Avoiding
  <2>2. QED BY <1>2, <2>1 DEF Closed, Avoiding
<1>7. A \subseteq B
  BY <1>1, <1>6
<1>8. QED BY <1>4, <1>5, <1>7 DEF A, B

IsSweep(iter, rows) ==
    iter = [s \in SUBSET rows |->
              IF s = {} THEN [seen |-> {}, found |-> {}]
              ELSE LET row == CHOOSE x \in s : TRUE
                       sofar == iter[s \ {row}]
                       seen == Visit(row, rows, sofar.seen)
                   IN  IF row \in sofar.seen THEN sofar
                       ELSE [seen |-> seen, found |-> sofar.found \cup {seen \ sofar.seen}]]

Swept(s, rows) ==
    [seen |-> UNION {Around(r, rows) : r \in s}, found |-> {Around(r, rows) : r \in s}]

\* A row adds nothing to what it has been seen in, and a cluster otherwise.
LEMMA SweepStep ==
    ASSUME NEW rows, IsFiniteSet(rows), NEW s \in SUBSET rows, NEW row \in s
    PROVE  LET sofar == Swept(s \ {row}, rows)
               seen == Visit(row, rows, sofar.seen)
           IN  Swept(s, rows) =
                 IF row \in sofar.seen THEN sofar
                 ELSE [seen |-> seen, found |-> sofar.found \cup {seen \ sofar.seen}]
<1> DEFINE rest == s \ {row}
           sofar == Swept(rest, rows)
           done == sofar.seen
           seen == Visit(row, rows, done)
           A == Around(row, rows)
<1>1. done = UNION {Around(r, rows) : r \in rest} /\ sofar.found = {Around(r, rows) : r \in rest}
  BY DEF Swept
<1>2. Swept(s, rows) = [seen |-> done \cup A, found |-> sofar.found \cup {A}]
  <2>1. UNION {Around(r, rows) : r \in s} = done \cup A
    BY <1>1
  <2>2. {Around(r, rows) : r \in s} = sofar.found \cup {A}
    BY <1>1
  <2>3. QED BY <2>1, <2>2 DEF Swept
<1>3. \A r \in rest : Closed(Around(r, rows), rows)
  BY AroundFacts
<1>4. Closed(done, rows) /\ done \in SUBSET rows
  BY <1>1, <1>3 DEF Closed
<1>5. CASE row \in done
  <2>1. PICK r \in rest : row \in Around(r, rows)
    BY <1>1, <1>5
  <2>2. A = Around(r, rows)
    BY <2>1, AroundSame
  <2>3. done \cup A = done /\ sofar.found \cup {A} = sofar.found
    BY <1>1, <2>1, <2>2
  <2>4. sofar = [seen |-> done, found |-> sofar.found]
    BY DEF Swept
  <2>5. Swept(s, rows) = sofar
    BY <1>2, <2>3, <2>4
  <2>6. QED BY <1>5, <2>5
<1>6. CASE row \notin done
  <2>1. seen = done \cup Reach({row}, done, rows)
    <3> HIDE DEF done
    <3>1. QED BY <1>4, VisitFacts
  <2>2. Reach({row}, done, rows) = A /\ A \cap done = {}
    <3> HIDE DEF done
    <3>1. QED BY <1>4, <1>6, ReachOutside
  <2> HIDE DEF seen, done, A
  <2>3. seen = done \cup A /\ seen \ done = A
    BY <2>1, <2>2
  <2> HIDE DEF sofar
  <2>4. Swept(s, rows) = [seen |-> seen, found |-> sofar.found \cup {seen \ done}]
    BY <1>2, <2>3
  <2>5. QED BY <1>6, <2>4 DEF seen, done, sofar
<1>7. QED BY <1>5, <1>6

LEMMA SweepExists ==
    ASSUME NEW rows, IsFiniteSet(rows) PROVE \E iter : IsSweep(iter, rows)
<1> DEFINE g == [s \in SUBSET rows |-> Swept(s, rows)]
<1>1. Swept({}, rows) = [seen |-> {}, found |-> {}]
  BY DEF Swept
<1>2. ASSUME NEW s \in SUBSET rows, s # {}
      PROVE  LET row == CHOOSE x \in s : TRUE
                 sofar == g[s \ {row}]
                 seen == Visit(row, rows, sofar.seen)
             IN  Swept(s, rows) =
                   IF row \in sofar.seen THEN sofar
                   ELSE [seen |-> seen, found |-> sofar.found \cup {seen \ sofar.seen}]
  <2> DEFINE row == CHOOSE x \in s : TRUE
  <2>1. row \in s
    BY <1>2
  <2> HIDE DEF row
  <2>2. g[s \ {row}] = Swept(s \ {row}, rows)
    OBVIOUS
  <2> HIDE DEF g
  <2> DEFINE sofar == Swept(s \ {row}, rows)
             seen == Visit(row, rows, sofar.seen)
  <2>3. Swept(s, rows) = IF row \in sofar.seen THEN sofar
                         ELSE [seen |-> seen, found |-> sofar.found \cup {seen \ sofar.seen}]
    BY <2>1, SweepStep
  <2>4. QED BY <2>2, <2>3 DEF row
<1>3. g = [s \in SUBSET rows |-> g[s]] /\ \A s \in SUBSET rows : g[s] = Swept(s, rows)
  OBVIOUS
<1> HIDE DEF g
<1>4. IsSweep(g, rows)
  BY <1>1, <1>2, <1>3 DEF IsSweep
<1>5. QED BY <1>4

LEMMA SweepUnique ==
    ASSUME NEW rows, IsFiniteSet(rows), NEW iter, IsSweep(iter, rows), NEW all \in SUBSET rows
    PROVE  iter[all] = Swept(all, rows)
<1> DEFINE Wrong == {s \in SUBSET rows : iter[s] # Swept(s, rows)}
           Sizes == {n \in Nat : \E s \in Wrong : Cardinality(s) = n}
<1>1. \A s \in SUBSET rows : IsFiniteSet(s) /\ Cardinality(s) \in Nat
  BY FS_Subset, FS_CardinalityType
<1>2. ASSUME Wrong # {} PROVE FALSE
  <2>1. PICK n \in Sizes : \A k \in Sizes : n <= k
    <3>1. Sizes \in SUBSET Nat /\ Sizes # {}
      BY <1>1, <1>2
    <3> HIDE DEF Sizes
    <3>2. QED BY <3>1, LeastNat
  <2>2. PICK s \in Wrong : Cardinality(s) = n
    BY <2>1
  <2>3. s \in SUBSET rows /\ iter[s] # Swept(s, rows) /\ n \in Nat /\ IsFiniteSet(s)
    BY <1>1, <2>1, <2>2
  <2>4. s # {}
    <3>1. Swept({}, rows) = [seen |-> {}, found |-> {}]
      BY DEF Swept
    <3>2. iter[{}] = [seen |-> {}, found |-> {}]
      BY DEF IsSweep
    <3>3. QED BY <2>3, <3>1, <3>2
  <2> DEFINE row == CHOOSE x \in s : TRUE
  <2>5. row \in s
    BY <2>4
  <2>6. LET sofar == iter[s \ {row}]
            seen == Visit(row, rows, sofar.seen)
        IN  iter[s] = IF row \in sofar.seen THEN sofar
                      ELSE [seen |-> seen, found |-> sofar.found \cup {seen \ sofar.seen}]
    BY <2>3, <2>4 DEF IsSweep
  <2> HIDE DEF row
  <2>7. Cardinality(s \ {row}) = n - 1 /\ s \ {row} \in SUBSET rows
    BY <2>2, <2>3, <2>5, FS_RemoveElement
  <2>8. iter[s \ {row}] = Swept(s \ {row}, rows)
    <3>1. ASSUME s \ {row} \in Wrong PROVE FALSE
      <4>1. n - 1 \in Nat
        BY <1>1, <2>7
      <4>2. n - 1 \in Sizes
        BY <2>7, <3>1, <4>1
      <4>3. n <= n - 1
        BY <2>1, <4>2
      <4>4. QED BY <2>3, <4>3
    <3>2. QED BY <2>7, <3>1
  <2>9. iter[s] = Swept(s, rows)
    <3> DEFINE sofar == Swept(s \ {row}, rows)
               seen == Visit(row, rows, sofar.seen)
    <3>1. Swept(s, rows) = IF row \in sofar.seen THEN sofar
                           ELSE [seen |-> seen, found |-> sofar.found \cup {seen \ sofar.seen}]
      BY <2>3, <2>5, SweepStep
    <3>2. iter[s] = IF row \in sofar.seen THEN sofar
                    ELSE [seen |-> seen, found |-> sofar.found \cup {seen \ sofar.seen}]
      BY <2>6, <2>8
    <3> HIDE DEF sofar, seen
    <3>3. QED BY <3>1, <3>2
  <2>10. QED BY <2>3, <2>9
<1>3. QED BY <1>2

\* The clusters: around each row, what is connected to it.
LEMMA ClustersAre ==
    ASSUME NEW rows, IsFiniteSet(rows)
    PROVE  Clusters(rows) = {Around(r, rows) : r \in rows}
<1> DEFINE iter == CHOOSE iter : IsSweep(iter, rows)
<1>1. IsSweep(iter, rows)
  <2>1. \E g : IsSweep(g, rows)
    BY SweepExists
  <2>2. QED BY <2>1
<1>2. Clusters(rows) = iter[rows].found
  BY DEF Clusters, FoldSet, MapThenFoldSet, IsSweep
<1> HIDE DEF iter
<1>3. iter[rows] = Swept(rows, rows)
  BY <1>1, SweepUnique
<1>4. QED BY <1>2, <1>3 DEF Swept
----------------------------------------------------------------------------
(* The clusters of one pass among the rows that were read.                 *)

RowFiles(syms, c) == {syms[r[2]].file : r \in c}
ClustersOf(p, found_, syms) == {RowFiles(syms, c) : c \in {x \in found_ : \E r \in x : r[1] = p}}
OwnRows(p, rows) == {r \in rows : r[1] = p}

\* A cluster stays within its pass.
LEMMA OwnClusters ==
    ASSUME NEW rows, IsFiniteSet(rows), NEW p, NEW syms
    PROVE  /\ Closed(OwnRows(p, rows), rows)
           /\ \A r \in OwnRows(p, rows) : Around(r, rows) \subseteq OwnRows(p, rows)
           /\ ClustersOf(p, Clusters(rows), syms)
                = {RowFiles(syms, Around(r, rows)) : r \in OwnRows(p, rows)}
<1>1. Closed(OwnRows(p, rows), rows)
  BY AdjacentRows DEF Closed, OwnRows
<1>2. \A r \in OwnRows(p, rows) : r \in rows /\ r[1] = p
  BY DEF OwnRows
<1>3. \A r \in OwnRows(p, rows) : Around(r, rows) \subseteq OwnRows(p, rows)
  BY <1>1, <1>2, AroundFacts
<1>4. {x \in Clusters(rows) : \E r \in x : r[1] = p} = {Around(r, rows) : r \in OwnRows(p, rows)}
  <2>1. ASSUME NEW x \in Clusters(rows), NEW r \in x, r[1] = p
        PROVE  r \in OwnRows(p, rows) /\ x = Around(r, rows)
    <3>1. PICK q \in rows : x = Around(q, rows)
      BY ClustersAre
    <3>2. r \in rows
      BY <3>1, AroundFacts DEF Closed
    <3>3. Around(r, rows) = x
      BY <3>1, AroundSame
    <3>4. QED BY <2>1, <3>2, <3>3 DEF OwnRows
  <2>2. ASSUME NEW r \in OwnRows(p, rows)
        PROVE  Around(r, rows) \in Clusters(rows) /\ r \in Around(r, rows) /\ r[1] = p
    BY <1>2, ClustersAre, AroundFacts
  <2>3. QED BY <2>1, <2>2
<1>5. QED BY <1>1, <1>3, <1>4 DEF ClustersOf

\* Without edges every file is a cluster of its own.
LEMMA LoneFiles ==
    ASSUME NEW rows, IsFiniteSet(rows), NEW p, EdgesRead(p) = {},
           NEW tree \in Seq(SourceFiles), NEW syms, syms = TreeSymbols(tree),
           OwnRows(p, rows) = {p} \X ModulesIn(syms)
    PROVE  ClustersOf(p, Clusters(rows), syms) = {{f} : f \in DOMAIN tree}
<1> DEFINE own == OwnRows(p, rows)
<1>1. ASSUME NEW r \in own PROVE RowFiles(syms, Around(r, rows)) = {syms[r[2]].file}
  <2>1. r \in rows /\ r[1] = p
    BY DEF OwnRows
  <2>2. Adjacent(r, rows) = {}
    BY <2>1 DEF Adjacent
  <2>3. Closed({r}, rows)
    BY <2>1, <2>2 DEF Closed
  <2>4. Around(r, rows) = {r}
    BY <2>1, <2>3, AroundFacts
  <2>5. QED BY <2>4 DEF RowFiles
<1>2. ClustersOf(p, Clusters(rows), syms) = {RowFiles(syms, Around(r, rows)) : r \in own}
  BY OwnClusters
<1>3. \A r \in own : r[2] \in ModulesIn(syms) /\ syms[r[2]].file \in DOMAIN tree
  BY TreeSymbolsFacts DEF ModulesAreFiles
<1>4. \A f \in DOMAIN tree : \E r \in own : syms[r[2]].file = f
  <2>1. TAKE f \in DOMAIN tree
  <2>2. PICK s \in ModulesIn(syms) : syms[s].file = f
    BY TreeSymbolsFacts DEF ModulesAreFiles
  <2>3. <<p, s>> \in own
    OBVIOUS
  <2>4. QED BY <2>2, <2>3
<1> HIDE DEF own
<1>5. {RowFiles(syms, Around(r, rows)) : r \in own} = {{syms[r[2]].file} : r \in own}
  BY <1>1
<1>6. {{syms[r[2]].file} : r \in own} = {{f} : f \in DOMAIN tree}
  BY <1>3, <1>4
<1>7. QED BY <1>2, <1>5, <1>6

Apart(S, tree) ==
    \A f \in S, g \in DOMAIN tree \ S :
        <<f, g>> \notin Named(tree) /\ <<g, f>> \notin Named(tree)

\* With its edges, the files of a cluster are a group that imports join.
LEMMA JoinedFiles ==
    ASSUME NEW rows, IsFiniteSet(rows), NEW p,
           NEW tree \in Seq(SourceFiles), PlainImports(tree), ModulesDistinct(tree),
           EdgesRead(p) = {e \in TreeEdges(tree) : e.dst # 0},
           NEW syms, syms = TreeSymbols(tree),
           OwnRows(p, rows) = {p} \X ModulesIn(syms)
    PROVE  ClustersOf(p, Clusters(rows), syms) = Joined(DOMAIN tree, Named(tree))
<1> DEFINE own == OwnRows(p, rows)
           M == ModulesIn(syms)
           all == DOMAIN tree
           file(r) == syms[r[2]].file
           Rows(S) == {r \in own : file(r) \in S}
<1>1. \A r \in own : r[2] \in M /\ file(r) \in all /\ r = <<p, r[2]>> /\ r[1] = p /\ r \in rows
  BY TreeSymbolsFacts DEF ModulesAreFiles, OwnRows
<1>2. \A f \in all : \E r \in own : file(r) = f
  <2>1. TAKE f \in all
  <2>2. PICK s \in M : syms[s].file = f
    BY TreeSymbolsFacts DEF ModulesAreFiles
  <2>3. <<p, s>> \in own
    OBVIOUS
  <2>4. QED BY <2>2, <2>3
<1>3. \A q, r \in own : file(q) = file(r) => q = r
  <2>1. TAKE q, r \in own
  <2>2. q[2] \in M /\ r[2] \in M
    BY <1>1
  <2>3. file(q) = file(r) => q[2] = r[2]
    BY <2>2, ModuleOfFile
  <2>4. QED BY <1>1, <2>3
<1>4. \A s, r \in M : s # 0 /\ r # 0
  BY IdOfModule
<1>5. ASSUME NEW x \in own, NEW r \in own
      PROVE  r \in Adjacent(x, rows) <=> \/ <<file(x), file(r)>> \in Named(tree)
                                        \/ <<file(r), file(x)>> \in Named(tree)
  <2>1. x[2] \in M /\ r[2] \in M /\ x[2] # 0 /\ r[2] # 0 /\ x[1] = p /\ r[1] = p /\ r \in rows
    BY <1>1, <1>4
  <2>2. Edge(x[2], "imports", r[2]) \in TreeEdges(tree) <=> <<file(x), file(r)>> \in Named(tree)
    BY <2>1, ImportsEdge
  <2>3. Edge(r[2], "imports", x[2]) \in TreeEdges(tree) <=> <<file(r), file(x)>> \in Named(tree)
    BY <2>1, ImportsEdge
  <2>4. \A s, t : Edge(s, "imports", t).dst = t
    BY DEF Edge
  <2>5. r \in Adjacent(x, rows) <=> \/ Edge(x[2], "imports", r[2]) \in EdgesRead(p)
                                   \/ Edge(r[2], "imports", x[2]) \in EdgesRead(p)
    BY <2>1 DEF Adjacent
  <2>6. QED BY <2>1, <2>2, <2>3, <2>4, <2>5
<1>6. \A x \in own : Adjacent(x, rows) \subseteq own
  BY OwnClusters DEF Closed
<1>7. \A r \in own : r \in rows /\ r \in Around(r, rows) /\ Closed(Around(r, rows), rows)
                    /\ Around(r, rows) \subseteq own
                    /\ \A C : Closed(C, rows) /\ r \in C => Around(r, rows) \subseteq C
  BY <1>1, OwnClusters, AroundFacts
<1>8. ClustersOf(p, Clusters(rows), syms) = {RowFiles(syms, Around(r, rows)) : r \in own}
  BY OwnClusters
<1> HIDE DEF own, M, file
<1>9. \A C : RowFiles(syms, C) = {file(r) : r \in C}
  BY DEF RowFiles, file
<1>10. ASSUME NEW C \in SUBSET own
       PROVE  Rows(RowFiles(syms, C)) = C /\ RowFiles(syms, C) \subseteq all
  BY <1>1, <1>3, <1>9
<1>11. \A S \in SUBSET all : RowFiles(syms, Rows(S)) = S /\ Rows(S) \subseteq own
  <2>1. ASSUME NEW S \in SUBSET all PROVE {file(r) : r \in Rows(S)} = S
    <3>1. \A f \in S : \E r \in Rows(S) : file(r) = f
      BY <1>2
    <3>2. QED BY <3>1
  <2>2. \A S : Rows(S) \subseteq own
    OBVIOUS
  <2> HIDE DEF Rows
  <2>3. QED BY <1>9, <2>1, <2>2
<1>12. ASSUME NEW S \in SUBSET all PROVE Closed(Rows(S), rows) <=> Apart(S, tree)
  <2>1. ASSUME Closed(Rows(S), rows), NEW f \in S, NEW g \in all \ S
        PROVE  <<f, g>> \notin Named(tree) /\ <<g, f>> \notin Named(tree)
    <3>1. PICK x \in own : file(x) = f
      BY <1>2
    <3>2. PICK r \in own : file(r) = g
      BY <1>2
    <3>3. x \in Rows(S) /\ r \notin Rows(S)
      BY <2>1, <3>1, <3>2
    <3>4. r \notin Adjacent(x, rows)
      BY <2>1, <3>3 DEF Closed
    <3>5. QED BY <1>5, <3>1, <3>2, <3>4
  <2>2. ASSUME Apart(S, tree), NEW x \in Rows(S), NEW r \in Adjacent(x, rows)
        PROVE  r \in Rows(S)
    <3>1. x \in own /\ file(x) \in S /\ r \in own /\ file(r) \in all
      BY <1>1, <1>6, <2>2
    <3>2. file(r) \in S
      BY <1>5, <2>2, <3>1 DEF Apart
    <3>3. QED BY <3>1, <3>2
  <2>3. Rows(S) \subseteq rows
    BY <1>1
  <2>4. Apart(S, tree) => Closed(Rows(S), rows)
    BY <2>2, <2>3 DEF Closed
  <2>5. Closed(Rows(S), rows) => Apart(S, tree)
    BY <2>1 DEF Apart
  <2>6. QED BY <2>4, <2>5
<1> HIDE DEF Rows
<1>13. Joined(all, Named(tree)) =
           {S \in SUBSET all : /\ S # {} /\ Apart(S, tree)
                               /\ \A T \in SUBSET S : T # {} /\ Apart(T, tree) => T = S}
  BY DEF Joined, Apart
<1>14. ASSUME NEW r \in own
       PROVE  RowFiles(syms, Around(r, rows)) \in Joined(all, Named(tree))
  <2> DEFINE C == Around(r, rows)
             S == RowFiles(syms, C)
  <2>1. r \in C /\ Closed(C, rows) /\ C \in SUBSET own
    BY <1>7
  <2>2. Rows(S) = C /\ S \in SUBSET all
    BY <1>10, <2>1
  <2>3. S # {}
    <3>1. S = {file(q) : q \in C}
      BY <1>9
    <3>2. file(r) \in S
      BY <2>1, <3>1
    <3>3. QED BY <3>2
  <2>4. Apart(S, tree)
    BY <1>12, <2>1, <2>2
  <2>5. ASSUME NEW T \in SUBSET S, T # {}, Apart(T, tree) PROVE T = S
    <3>1. T \in SUBSET all /\ Closed(Rows(T), rows) /\ RowFiles(syms, Rows(T)) = T
      BY <1>11, <1>12, <2>2, <2>5
    <3>2. PICK x \in Rows(T) : TRUE
      BY <1>9, <2>5, <3>1
    <3>3. x \in C
      BY <2>2, <3>2 DEF Rows
    <3>4. x \in own
      BY <2>1, <3>3
    <3>5. Around(x, rows) = C
      <4>1. r \in rows
        BY <1>7
      <4>2. QED BY <3>3, <4>1, AroundSame
    <3>6. C \subseteq Rows(T)
      BY <1>7, <3>1, <3>2, <3>4, <3>5
    <3>7. S \subseteq T
      BY <1>9, <3>1, <3>6
    <3>8. QED BY <3>7
  <2> HIDE DEF S
  <2>6. QED BY <1>13, <2>2, <2>3, <2>4, <2>5 DEF S
<1>15. ASSUME NEW S \in Joined(all, Named(tree))
       PROVE  \E r \in own : S = RowFiles(syms, Around(r, rows))
  <2>1. /\ S \in SUBSET all /\ S # {} /\ Apart(S, tree)
        /\ \A T \in SUBSET S : T # {} /\ Apart(T, tree) => T = S
    BY <1>13
  <2>2. PICK f \in S : TRUE
    BY <2>1
  <2>3. PICK r \in own : file(r) = f
    BY <1>2, <2>1
  <2>4. r \in Rows(S) /\ Closed(Rows(S), rows)
    BY <1>12, <2>1, <2>2, <2>3 DEF Rows
  <2>5. Around(r, rows) \subseteq Rows(S)
    BY <1>7, <2>4
  <2> DEFINE T == RowFiles(syms, Around(r, rows))
  <2>6. T \subseteq S
    BY <1>9, <2>5 DEF Rows
  <2>7. T \in Joined(all, Named(tree))
    BY <1>14
  <2> HIDE DEF T
  <2>8. T # {} /\ Apart(T, tree)
    BY <1>13, <2>7
  <2>9. T = S
    BY <2>1, <2>6, <2>8
  <2>10. QED BY <2>9 DEF T
<1>16. QED BY <1>8, <1>14, <1>15

\* With fewer pairs the groups are finer.
LEMMA FinerGroups ==
    ASSUME NEW files, NEW Q, NEW R \in SUBSET Q,
           NEW C \in Joined(files, R), NEW G \in Joined(files, Q), C \cap G # {}
    PROVE  C \subseteq G
<1> DEFINE apart(pairs, S) == \A f \in S, g \in files \ S :
                                 <<f, g>> \notin pairs /\ <<g, f>> \notin pairs
<1>1. /\ C \in SUBSET files /\ apart(R, C)
      /\ \A T \in SUBSET C : T # {} /\ apart(R, T) => T = C
  BY DEF Joined
<1>2. G \in SUBSET files /\ apart(Q, G)
  BY DEF Joined
<1>3. apart(R, C \cap G)
  BY <1>1, <1>2
<1> HIDE DEF apart
<1>4. C \cap G = C
  BY <1>1, <1>3
<1>5. QED BY <1>4

\* A file named in full is loaded.
LEMMA NamedIsImported ==
    ASSUME NEW tree \in Seq(SourceFiles) PROVE Named(tree) \subseteq Imports(tree)
<1>1. SUFFICES ASSUME NEW fg \in Named(tree) PROVE fg \in Imports(tree)
  OBVIOUS
<1>2. fg \in (DOMAIN tree) \X (DOMAIN tree) /\ QName(tree[fg[2]]) \in Imported(tree[fg[1]])
  BY DEF Named
<1>3. fg[2] \in DOMAIN tree
  BY <1>2
<1>4. tree[fg[2]] \in SourceFiles
  BY <1>3, ElementOfSeq
<1>5. Len(QName(tree[fg[2]])) \in Nat
  BY <1>4, QNameType, LenProperties
<1>6. IsPrefix(QName(tree[fg[2]]), QName(tree[fg[2]]))
  BY <1>5 DEF IsPrefix
<1>7. QED BY <1>2, <1>6 DEF Imports

\* The clusters against Python's imports.
LEMMA ClustersInGroups ==
    ASSUME NEW tree \in Seq(SourceFiles)
    PROVE  /\ \A c \in Joined(DOMAIN tree, Named(tree)), g \in Joined(DOMAIN tree, Imports(tree)) :
                  c \cap g # {} => c \subseteq g
           /\ WholeNames(tree) =>
                  Joined(DOMAIN tree, Named(tree)) = Joined(DOMAIN tree, Imports(tree))
<1>1. Named(tree) \in SUBSET Imports(tree)
  BY NamedIsImported
<1>2. WholeNames(tree) => Named(tree) = Imports(tree)
  BY <1>1 DEF WholeNames
<1>3. QED BY <1>1, <1>2, FinerGroups

----------------------------------------------------------------------------
(* The architecture map.                                                   *)

\* The clusters of a committed pass are right for the tree it walked.
ClustersRight(p) ==
    LET tree == Content[found[p]]
        mine == ClustersOf(p, reader.clusters, Symbols[found[p]])
    IN  \/ mine = {{f} : f \in DOMAIN tree} /\ p \notin reader.read
        \/ mine = Joined(DOMAIN tree, Named(tree)) /\ p \in reader.read
        \/ ~PlainImports(tree) \/ ~ModulesDistinct(tree)

\* What has been read on the way to a map are the modules of committed passes.
MInv ==
    /\ IsFiniteSet(symbols)
    /\ reader.kind = "modules" =>
         /\ IsFiniteSet(reader.rows)
         /\ \E P \in SUBSET Committed : reader.rows = UNION {{p} \X Modules(p) : p \in P}
    /\ reader.kind = "map" =>
         \A p \in {r[1] : r \in reader.rows} :
             p \in Committed /\ found[p] \in Trees /\ ClustersRight(p)

\* A root that is not there has no symbols.
LEMMA NoTreeNoSymbols ==
    ASSUME PassTypes, NEW p \in Passes, Modules(p) # {}
    PROVE  /\ found[p] \in Trees /\ Content[found[p]] \in Seq(SourceFiles)
           /\ Symbols[found[p]] = TreeSymbols(Content[found[p]])
           /\ Graph[found[p]] = TreeEdges(Content[found[p]])
           /\ Modules(p) = ModulesIn(Symbols[found[p]])
<1>1. found[p] \in Walked
  BY DEF PassTypes
<1>2. Symbols[found[p]] = TreeSymbols(Files(found[p])) /\ Graph[found[p]] = TreeEdges(Files(found[p]))
  BY <1>1 DEF Symbols, Graph
<1>3. found[p] # NoTree
  <2>1. ASSUME found[p] = NoTree PROVE FALSE
    <3>1. Symbols[found[p]] = TreeSymbols(<< >>)
      BY <1>2, <2>1 DEF Files
    <3>2. TreeSymbols(<< >>) = << >>
      BY DEF TreeSymbols, FlattenSeq
    <3>3. QED BY <3>1, <3>2 DEF Modules
  <2>2. QED BY <2>1
<1>4. QED BY <1>1, <1>2, <1>3, ContentAssumption DEF Walked, Files, Modules, ModulesIn

LEMMA ModulesFinite ==
    ASSUME PassTypes, NEW p \in Passes PROVE IsFiniteSet({p} \X Modules(p))
<1>1. CASE Modules(p) = {}
  <2>1. {p} \X Modules(p) = {}
    BY <1>1
  <2>2. QED BY <2>1, FS_EmptySet
<1>2. CASE Modules(p) # {}
  <2> DEFINE syms == Symbols[found[p]]
  <2>1. syms \in Seq(SymbolRows) /\ Modules(p) = ModulesIn(syms)
    BY <1>2, NoTreeNoSymbols, TreeSymbolsFacts
  <2> HIDE DEF syms
  <2>2. Len(syms) \in Nat /\ DOMAIN syms = 1 .. Len(syms)
    BY <2>1, LenProperties
  <2>3. IsFiniteSet(1 .. Len(syms)) /\ Modules(p) \in SUBSET (1 .. Len(syms))
    BY <2>1, <2>2, IntervalFinite DEF ModulesIn
  <2>4. IsFiniteSet(Modules(p))
    BY <2>3, FS_Subset
  <2> DEFINE M == Modules(p)
             row == [s \in M |-> <<p, s>>]
  <2>5. {p} \X M = {row[s] : s \in M}
    OBVIOUS
  <2> HIDE DEF row, M
  <2>6. IsFiniteSet({row[s] : s \in M})
    BY <2>4, ImageFinite DEF M
  <2>7. QED BY <2>5, <2>6 DEF M
<1>3. QED BY <1>1, <1>2

LEMMA MapAsked ==
    ASSUME PInv, MInv, AskMap PROVE MInv'
<1> DEFINE rows == UNION {{p} \X Modules(p) : p \in symbols}
           parts == [p \in symbols |-> {p} \X Modules(p)]
<1>1. reader' = [kind |-> "modules", rows |-> rows] /\ UNCHANGED <<symbols, pc, found>>
  BY DEF AskMap, passes, tables
<1>2. symbols \in SUBSET Committed /\ symbols \subseteq Passes /\ IsFiniteSet(symbols) /\ PassTypes
  BY DEF PInv, PassTypes, Committed, MInv
<1>3. IsFiniteSet(rows)
  <2>1. \A p \in symbols : IsFiniteSet({p} \X Modules(p))
    BY <1>2, ModulesFinite
  <2>2. rows = UNION {parts[p] : p \in symbols} /\ \A p \in symbols : IsFiniteSet(parts[p])
    BY <2>1
  <2> HIDE DEF rows, parts
  <2>3. IsFiniteSet({parts[p] : p \in symbols})
    BY <1>2, ImageFinite
  <2>4. IsFiniteSet(UNION {parts[p] : p \in symbols})
    BY <2>2, <2>3, FS_UNION
  <2>5. QED BY <2>2, <2>4
<1>4. \A p : Modules(p)' = Modules(p)
  BY <1>1 DEF Modules
<1>5. rows = UNION {{p} \X Modules(p)' : p \in symbols}
  BY <1>4
<1>6. Committed' = Committed
  BY <1>1 DEF Committed
<1> HIDE DEF rows, parts
<1>7. reader'.kind = "modules" /\ reader'.rows = rows
  BY <1>1
<1>8. \E P \in SUBSET Committed' : reader'.rows = UNION {{p} \X Modules(p)' : p \in P}
  BY <1>2, <1>5, <1>6, <1>7
<1>9. QED BY <1>1, <1>2, <1>3, <1>7, <1>8 DEF MInv

\* The map itself.
LEMMA MapDrawn ==
    ASSUME PInv, MInv, ArchitectureMap PROVE MInv'
<1> DEFINE rows == reader.rows
<1>1. UNCHANGED <<symbols, pc, found, edges>> /\ Committed' = Committed
  BY DEF ArchitectureMap, passes, tables, Committed
<1>2. reader'.kind = "map" /\ reader'.rows = rows /\ reader'.read = edges
      /\ reader'.clusters = Clusters(rows)
  BY DEF ArchitectureMap
<1>3. IsFiniteSet(rows) /\ \E P \in SUBSET Committed : rows = UNION {{p} \X Modules(p) : p \in P}
  BY DEF ArchitectureMap, MInv
<1>4. PICK P \in SUBSET Committed : rows = UNION {{p} \X Modules(p) : p \in P}
  BY <1>3
<1> HIDE DEF rows
<1>5. ASSUME NEW r0 \in rows, NEW p, p = r0[1]
      PROVE  p \in Committed /\ found[p] \in Trees /\ ClustersRight(p)'
  <2> DEFINE tree == Content[found[p]]
             syms == Symbols[found[p]]
  <2>1. p \in P /\ r0 \in {p} \X Modules(p) /\ p \in Committed /\ p \in Passes
    BY <1>4, <1>5 DEF Committed
  <2>2. /\ found[p] \in Trees /\ tree \in Seq(SourceFiles) /\ syms = TreeSymbols(tree)
        /\ Graph[found[p]] = TreeEdges(tree) /\ Modules(p) = ModulesIn(syms)
    BY <2>1, NoTreeNoSymbols DEF PInv
  <2>3. OwnRows(p, rows) = {p} \X ModulesIn(syms)
    <3>1. OwnRows(p, rows) = {p} \X Modules(p)
      BY <1>4, <2>1 DEF OwnRows
    <3>2. QED BY <2>2, <3>1
  <2>4. ClustersRight(p)' <=>
          \/ ClustersOf(p, Clusters(rows), syms) = {{f} : f \in DOMAIN tree} /\ p \notin edges
          \/ /\ ClustersOf(p, Clusters(rows), syms) = Joined(DOMAIN tree, Named(tree))
             /\ p \in edges
          \/ ~PlainImports(tree) \/ ~ModulesDistinct(tree)
    BY <1>1, <1>2 DEF ClustersRight
  <2>5. EdgesRead(p) = IF p \in edges THEN {e \in TreeEdges(tree) : e.dst # 0} ELSE {}
    <3>1. found[p] \in Walked
      BY <2>2 DEF Walked
    <3>2. Resolved[found[p]] = {e \in Graph[found[p]] : e.dst # 0}
      BY <3>1 DEF Resolved
    <3>3. QED BY <2>2, <3>2 DEF EdgesRead
  <2> HIDE DEF tree, syms
  <2>6. CASE p \notin edges
    <3>1. EdgesRead(p) = {}
      BY <2>5, <2>6
    <3>2. IsFiniteSet(rows) /\ tree \in Seq(SourceFiles) /\ syms = TreeSymbols(tree)
          /\ OwnRows(p, rows) = {p} \X ModulesIn(syms)
      BY <1>3, <2>2, <2>3
    <3>3. ClustersOf(p, Clusters(rows), syms) = {{f} : f \in DOMAIN tree}
      BY <3>1, <3>2, LoneFiles
    <3>4. QED BY <2>1, <2>2, <2>4, <2>6, <3>3
  <2>7. CASE p \in edges /\ PlainImports(tree) /\ ModulesDistinct(tree)
    <3>1. EdgesRead(p) = {e \in TreeEdges(tree) : e.dst # 0}
      BY <2>5, <2>7
    <3>2. ClustersOf(p, Clusters(rows), syms) = Joined(DOMAIN tree, Named(tree))
      BY <1>3, <2>2, <2>3, <2>7, <3>1, JoinedFiles
    <3>3. QED BY <2>1, <2>2, <2>4, <2>7, <3>2
  <2>8. QED BY <2>1, <2>2, <2>4, <2>6, <2>7
<1>6. \A p \in {r[1] : r \in rows} : p \in Committed' /\ found'[p] \in Trees /\ ClustersRight(p)'
  BY <1>1, <1>5
<1>7. QED BY <1>1, <1>2, <1>6 DEF MInv

\* Other questions.
LEMMA MapUnasked ==
    ASSUME MInv, UNCHANGED symbols, reader'.kind \notin {"modules", "map"} PROVE MInv'
BY DEF MInv

LEMMA MapReads ==
    ASSUME PInv, RInv, MInv, Read PROVE MInv'
<1>1. UNCHANGED symbols
  BY ReadsOnly DEF tables
<1>2. CASE AskMap BY <1>2, MapAsked
<1>3. CASE ArchitectureMap BY <1>3, MapDrawn
<1>4. CASE \E p \in Passes : \E s \in DOMAIN Symbols[found[p]], d \in Depths :
              AskNeighbors(p, s, d)
  BY <1>1, <1>4, MapUnasked DEF AskNeighbors
<1>5. CASE LevelOut
  <2>1. PICK o : reader' = [reader EXCEPT !.leftOut = @ - 1, !.out = @ \cup o, !.lastOut = o]
    BY <1>5 DEF LevelOut
  <2>2. reader'.kind = "near"
    BY <1>5, <2>1 DEF LevelOut, RInv, ReaderShape
  <2>3. QED BY <1>1, <2>2, MapUnasked
<1>12. CASE LevelIn
  <2>1. PICK i : reader' = [reader EXCEPT !.leftIn = @ - 1, !.in = @ \cup i, !.lastIn = i]
    BY <1>12 DEF LevelIn
  <2>2. reader'.kind = "near"
    BY <1>12, <2>1 DEF LevelIn, RInv, ReaderShape
  <2>3. QED BY <1>1, <2>2, MapUnasked
<1>6. CASE Neighbors BY <1>1, <1>6, MapUnasked DEF Neighbors
<1>7. CASE Query BY <1>1, <1>7, MapUnasked DEF Query
<1>8. CASE Answered BY <1>1, <1>8, MapUnasked DEF Answered, Nothing
<1>9. CASE \E named \in SUBSET symbols : AskQuery(named)
  BY <1>1, <1>9, MapUnasked DEF AskQuery
<1>10. CASE \E hits \in SUBSET vectors : Nearest(hits)
  BY <1>1, <1>10, MapUnasked DEF Nearest
<1>11. QED BY <1>2, <1>3, <1>4, <1>5, <1>6, <1>7, <1>8, <1>9, <1>10, <1>12 DEF Read

\* Finitely many passes have rows: a commit adds one.
LEMMA SymbolsFinite ==
    ASSUME PInv, IsFiniteSet(symbols), Requests PROVE IsFiniteSet(symbols')
<1>1. \A S, T : IsFiniteSet(S) /\ T \subseteq S => IsFiniteSet(T)
  BY FS_Subset
<1>2. CASE DeleteProject
  BY <1>2, FS_EmptySet DEF DeleteProject, Cascade
<1>3. ASSUME NEW p \in Passes, Commit(p) PROVE IsFiniteSet(symbols')
  <2>1. symbols' \subseteq symbols \cup {p}
    BY <1>3 DEF Commit
  <2>2. IsFiniteSet(symbols \cup {p})
    BY FS_AddElement
  <2>3. QED BY <1>1, <2>1, <2>2
<1>4. ASSUME NEW p \in Passes, Index(p), ~Commit(p) PROVE symbols' = symbols
  BY <1>4 DEF Index, NotFound, Begin, EdgesGone, Fail, Store, DropEdges, DropSymbols, tables
<1>5. QED BY <1>2, <1>3, <1>4 DEF Requests

LEMMA MapWaits ==
    ASSUME PInv, MInv, Requests PROVE MInv'
<1>1. /\ reader' = reader
      /\ Committed \subseteq Committed'
      /\ \A p \in Committed : found'[p] = found[p]
  BY CommittedStays
<1>2. IsFiniteSet(symbols')
  BY SymbolsFinite DEF MInv
<1>3. ASSUME reader.kind = "modules", NEW P \in SUBSET Committed,
             reader.rows = UNION {{p} \X Modules(p) : p \in P}
      PROVE  \E Q \in SUBSET Committed' : reader'.rows = UNION {{p} \X Modules(p)' : p \in Q}
  <2>1. \A p \in P : Modules(p)' = Modules(p)
    BY <1>1 DEF Modules
  <2>2. UNION {{p} \X Modules(p) : p \in P} = UNION {{p} \X Modules(p)' : p \in P}
    BY <2>1
  <2>3. QED BY <1>1, <1>3, <2>2
<1>4. \A p \in Committed : ClustersRight(p) => ClustersRight(p)'
  BY <1>1 DEF ClustersRight
<1>5. QED BY <1>1, <1>2, <1>3, <1>4 DEF MInv

LEMMA MapInductive == ASSUME IInv, MInv, [Next]_vars PROVE MInv'
<1>1. CASE UNCHANGED vars
  <2>1. UNCHANGED <<symbols, reader, found, pc>>
    BY <1>1 DEF vars, passes, tables
  <2>2. \A p : (ClustersRight(p)' <=> ClustersRight(p)) /\ Modules(p)' = Modules(p)
    BY <2>1 DEF ClustersRight, Modules
  <2>3. Committed' = Committed
    BY <2>1 DEF Committed
  <2>4. QED BY <2>1, <2>2, <2>3 DEF MInv
<1>2. CASE Requests
  BY <1>2, MapWaits DEF IInv
<1>3. CASE Read
  BY <1>3, MapReads DEF IInv
<1>4. QED BY <1>1, <1>2, <1>3 DEF Next, Requests

\* For any trees, and whatever is indexed meanwhile, where imports are plain
\* and modules have names of their own: a cluster of the architecture map never
\* reaches beyond a group of files that, by Python's rules, import each other,
\* directly or not; the clusters are these groups where every import names in
\* full all it loads; and single files, when the edges had been replaced.
THEOREM ClustersAlwaysComponents == Spec => []ClustersAreComponents
<1>1. Init => MInv
  BY FS_EmptySet DEF Init, Nothing, MInv
<1>2. IInv /\ MInv /\ [Next]_vars => MInv'
  BY MapInductive
<1>3. MInv => ClustersAreComponents
  <2>1. SUFFICES ASSUME MInv, reader.kind = "map", NEW p \in {r[1] : r \in reader.rows}
                 PROVE  LET tree  == Content[found[p]]
                            files(c) == {Symbols[found[p]][r[2]].file : r \in c}
                            mine  == {files(c) : c \in {x \in reader.clusters : \E r \in x : r[1] = p}}
                        IN  \/ mine = {{f} : f \in DOMAIN tree} /\ p \notin reader.read
                            \/ /\ p \in reader.read
                               /\ \A c \in mine, g \in Groups[found[p]] :
                                      c \cap g # {} => c \subseteq g
                               /\ WholeNames(tree) => mine = Groups[found[p]]
                            \/ ~PlainImports(tree) \/ ~ModulesDistinct(tree)
    BY DEF ClustersAreComponents
  <2>2. found[p] \in Trees /\ ClustersRight(p)
    BY <2>1 DEF MInv
  <2> DEFINE tree == Content[found[p]]
             mine == ClustersOf(p, reader.clusters, Symbols[found[p]])
             right == \/ mine = {{f} : f \in DOMAIN tree} /\ p \notin reader.read
                      \/ /\ p \in reader.read
                         /\ \A c \in mine, g \in Groups[found[p]] : c \cap g # {} => c \subseteq g
                         /\ WholeNames(tree) => mine = Groups[found[p]]
                      \/ ~PlainImports(tree) \/ ~ModulesDistinct(tree)
  <2>3. Groups[found[p]] = Joined(DOMAIN tree, Imports(tree)) /\ tree \in Seq(SourceFiles)
    BY <2>2, ContentAssumption DEF Groups
  <2>4. right
    <3>1. \/ mine = {{f} : f \in DOMAIN tree} /\ p \notin reader.read
          \/ mine = Joined(DOMAIN tree, Named(tree)) /\ p \in reader.read
          \/ ~PlainImports(tree) \/ ~ModulesDistinct(tree)
      BY <2>2 DEF ClustersRight
    <3> HIDE DEF tree, mine
    <3>2. QED BY <2>3, <3>1, ClustersInGroups
  <2>5. QED BY <2>4 DEF ClustersOf, RowFiles
<1>4. QED BY <1>1, <1>2, <1>3, Invariant, PTL DEF Spec
=============================================================================
