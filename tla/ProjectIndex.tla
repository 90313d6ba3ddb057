---------------------------- MODULE ProjectIndex ----------------------------
(***************************************************************************)
(* project/indexer.py behind the routes of api/routes/projects.py: the     *)
(* index requests of one project, each a transaction under READ COMMITTED  *)
(* that deletes the rows it finds and inserts those of the tree it walks,  *)
(* while a reader asks for neighbors, for the architecture map or for the  *)
(* symbols of a name.                                                      *)
(*                                                                         *)
(* All rows of a pass commit together, so the committed tables are the     *)
(* sets of passes whose rows are in them.  A statement works on the rows   *)
(* its snapshot found, waits at a row an open transaction has deleted, and *)
(* skips it if that transaction commits.  The request locks nothing else,  *)
(* and any request may fail at any point (a deadlock the database resolves,*)
(* an error, the end of the process): its transaction is rolled back.      *)
(* The points of its symbols are in the vector store before its rows are   *)
(* committed, and nobody ever deletes them.  The ingestion of the root that*)
(* follows in the same request is Ingestion's.                             *)
(***************************************************************************)
EXTENDS PythonGraph

CONSTANTS
    Passes,      \* index requests, each used once
    Trees,       \* names of the trees the project root may hold
    Content,     \* the files of each tree
    NoTree,      \* the root does not exist
    MaxNodes,    \* max_nodes of neighbors
    Depths       \* depths a client asks for

ASSUME ContentAssumption ==
    /\ Trees \subseteq DOMAIN Content
    /\ \A t \in Trees : Content[t] \in Seq(SourceFiles)
ASSUME BoundsAssumption == MaxNodes \in Nat \ {0} /\ Depths \subseteq Nat

VARIABLES
    pc,          \* where each index request is
    found,       \* the tree a request has walked
    todo,        \* rows the snapshot of its statement found, still to be deleted
    droppedE,    \* passes whose edges it has deleted, not yet committed
    droppedS,    \* passes whose symbols it has deleted, not yet committed
    edges,       \* passes whose edges are committed
    symbols,     \* passes whose symbols are committed
    exists,      \* whether the project's row is there
    vectors,     \* passes whose symbols have points in the rag collection
    before,      \* history: passes that had committed when a request began
    reader       \* the reader's request, or its answer

tables == <<edges, symbols, exists>>
passes == <<pc, found, todo, droppedE, droppedS, before, vectors>>
vars == <<passes, tables, reader>>

\* What a pass over each tree stores.  A root that vanishes under the walk
\* looks like an empty one.
Walked == Trees \cup {NoTree}
Files(t) == IF t = NoTree THEN << >> ELSE Content[t]
Symbols == [t \in Walked |-> TreeSymbols(Files(t))]
Graph == [t \in Walked |-> TreeEdges(Files(t))]

Nothing == [kind |-> "none"]

Init ==
    /\ pc = [p \in Passes |-> "idle"]
    /\ found = [p \in Passes |-> NoTree]
    /\ todo = [p \in Passes |-> {}]
    /\ droppedE = [p \in Passes |-> {}]
    /\ droppedS = [p \in Passes |-> {}]
    /\ edges = {}
    /\ symbols = {}
    /\ exists = TRUE
    /\ vectors = {}
    /\ before = [p \in Passes |-> {}]
    /\ reader = Nothing

----------------------------------------------------------------------------
(* An index request.                                                       *)

Open(p) == pc[p] \in {"edges", "symbols", "stored"}

\* A missing project or root is refused before anything is deleted.
NotFound(p) ==
    /\ pc[p] = "idle"
    /\ pc' = [pc EXCEPT ![p] = "failed"]
    /\ UNCHANGED <<found, todo, droppedE, droppedS, before, vectors, tables, reader>>

Begin(p) ==
    /\ pc[p] = "idle" /\ exists
    /\ pc' = [pc EXCEPT ![p] = "edges"]
    /\ todo' = [todo EXCEPT ![p] = edges]
    /\ before' = [before EXCEPT ![p] = {q \in Passes : pc[q] = "done"}]
    /\ UNCHANGED <<found, droppedE, droppedS, vectors, tables, reader>>

\* Rows of a pass another open transaction has deleted are locked.
Locked(p, q, dropped) == \E r \in Passes \ {p} : q \in dropped[r]

DropEdges(p, q) ==
    /\ pc[p] = "edges"
    /\ q \in todo[p]
    /\ ~Locked(p, q, droppedE)
    /\ todo' = [todo EXCEPT ![p] = @ \ {q}]
    /\ droppedE' = [droppedE EXCEPT ![p] = @ \cup ({q} \cap edges)]
    /\ UNCHANGED <<pc, found, droppedS, before, vectors, tables, reader>>

\* Mutant: the symbols are taken to be gone when there were no edges.
EdgesGoneSkip(p) ==
    /\ pc[p] = "edges"
    /\ todo[p] = {}
    /\ pc' = [pc EXCEPT ![p] = "symbols"]
    /\ todo' = [todo EXCEPT ![p] = IF droppedE[p] = {} THEN {} ELSE symbols]
    /\ UNCHANGED <<found, droppedE, droppedS, before, vectors, tables, reader>>

\* The second DELETE has a snapshot of its own.
EdgesGone(p) ==
    /\ pc[p] = "edges"
    /\ todo[p] = {}
    /\ pc' = [pc EXCEPT ![p] = "symbols"]
    /\ todo' = [todo EXCEPT ![p] = symbols]
    /\ UNCHANGED <<found, droppedE, droppedS, before, vectors, tables, reader>>

\* ON DELETE CASCADE takes the edges of the symbols along.
DropSymbols(p, q) ==
    /\ pc[p] = "symbols"
    /\ q \in todo[p]
    /\ ~Locked(p, q, droppedS)
    /\ ~Locked(p, q, droppedE)
    /\ todo' = [todo EXCEPT ![p] = @ \ {q}]
    /\ droppedS' = [droppedS EXCEPT ![p] = @ \cup ({q} \cap symbols)]
    /\ droppedE' = [droppedE EXCEPT ![p] = @ \cup ({q} \cap edges)]
    /\ UNCHANGED <<pc, found, before, vectors, tables, reader>>

\* What _embed_symbols puts into the vector store: the points of classes,
\* functions and methods.  It does what it can; points it could not get are
\* no different from points a query does not hit.
Embedded(p, t) ==
    vectors \cup {q \in {p} : \E s \in Range(Symbols[t]) : s.kind # "module"}

\* Inserted symbols refer to the project: without it the insert fails, and
\* until its transaction ends nobody deletes the project.
Refers(t) == Symbols[t] # << >>

\* The walk, the extraction, the inserts and the points; the root may hold
\* another tree at every walk.
Store(p, t) ==
    /\ pc[p] = "symbols"
    /\ todo[p] = {}
    /\ Refers(t) => exists
    /\ pc' = [pc EXCEPT ![p] = "stored"]
    /\ found' = [found EXCEPT ![p] = t]
    /\ vectors' = Embedded(p, t)
    /\ UNCHANGED <<todo, droppedE, droppedS, before, tables, reader>>

Released(dropped, p) == [dropped EXCEPT ![p] = {}]

Commit(p) ==
    /\ pc[p] = "stored"
    /\ pc' = [pc EXCEPT ![p] = "done"]
    /\ symbols' = (symbols \ droppedS[p]) \cup {q \in {p} : Symbols[found[p]] # << >>}
    /\ edges' = (edges \ droppedE[p]) \cup {q \in {p} : Graph[found[p]] # {}}
    /\ droppedE' = Released(droppedE, p)
    /\ droppedS' = Released(droppedS, p)
    /\ UNCHANGED <<exists, found, todo, before, vectors, reader>>

Fail(p) ==
    /\ Open(p)
    /\ pc' = [pc EXCEPT ![p] = "failed"]
    /\ found' = [found EXCEPT ![p] = NoTree]
    /\ todo' = [todo EXCEPT ![p] = {}]
    /\ droppedE' = Released(droppedE, p)
    /\ droppedS' = Released(droppedS, p)
    /\ before' = [before EXCEPT ![p] = {}]
    /\ UNCHANGED <<vectors, tables, reader>>

\* DELETE of the project, at the moment its transaction commits: it has waited
\* for every lock of open requests on rows it deletes and on the project, and
\* the foreign keys have taken along the rows committed meanwhile.
Cascade == symbols' = {} /\ edges' = {}

DeleteProject ==
    /\ exists
    /\ \A p \in Passes :
         /\ droppedS[p] = {} /\ droppedE[p] = {}
         /\ ~(pc[p] = "stored" /\ Refers(found[p]))
    /\ exists' = FALSE
    /\ Cascade
    /\ UNCHANGED <<passes, reader>>

----------------------------------------------------------------------------
(* The reader: every level of neighbors is two queries, one for each       *)
(* direction.  Symbol s of pass p is a row; all edges of a row's pass join *)
(* rows of that pass.                                                      *)

Resolved == [t \in Walked |-> {e \in Graph[t] : e.dst # 0}]
EdgesRead(p) == IF p \in edges THEN Resolved[found[p]] ELSE {}

AskNeighbors(p, s, d) ==
    /\ reader.kind = "none"
    /\ p \in symbols
    /\ s \in DOMAIN Symbols[found[p]]
    /\ reader' = [kind |-> "near", pass |-> p, start |-> s, depth |-> d, leftOut |-> d, leftIn |-> d,
                   out |-> {}, in |-> {}, lastOut |-> {s}, lastIn |-> {s}]
    /\ UNCHANGED <<passes, tables>>

\* Rows come in any order; the limit ends the loop over the rows of one
\* level, after the row that reaches it has been added.
Added(new, ids) ==
    LET room == IF Cardinality(ids) < MaxNodes THEN MaxNodes - Cardinality(ids) ELSE 1
    IN  IF Cardinality(new) <= room THEN {new} ELSE kSubset(room, new)

LevelOut ==
    /\ reader.kind = "near"
    /\ reader.leftOut > 0 /\ reader.leftOut = reader.leftIn
    /\ LET to == {e.dst : e \in {x \in EdgesRead(reader.pass) : x.src \in reader.lastOut}}
       IN  \E o \in Added(to \ reader.out, reader.out) :
              reader' = [reader EXCEPT !.leftOut = @ - 1, !.out = @ \cup o, !.lastOut = o]
    /\ UNCHANGED <<passes, tables>>

\* Mutant: the inbound search goes on from the outbound frontier.
LevelCrossed ==
    /\ reader.kind = "near"
    /\ reader.leftIn > reader.leftOut
    /\ LET from == {e.src : e \in {x \in EdgesRead(reader.pass) : x.dst \in reader.lastIn}}
       IN  \E i \in Added(from \ reader.in, reader.in) :
              reader' = [reader EXCEPT !.leftIn = @ - 1, !.in = @ \cup i, !.lastIn = reader.lastOut]
    /\ UNCHANGED <<passes, tables>>

LevelIn ==
    /\ reader.kind = "near"
    /\ reader.leftIn > reader.leftOut
    /\ LET from == {e.src : e \in {x \in EdgesRead(reader.pass) : x.dst \in reader.lastIn}}
       IN  \E i \in Added(from \ reader.in, reader.in) :
              reader' = [reader EXCEPT !.leftIn = @ - 1, !.in = @ \cup i, !.lastIn = i]
    /\ UNCHANGED <<passes, tables>>

\* The rows of the ids found, as far as they are still there.
Neighbors ==
    /\ reader.kind = "near"
    /\ reader.leftIn = 0
    /\ LET alive(ids) == IF reader.pass \in symbols THEN ids \ {reader.start} ELSE {}
       IN  reader' = [kind |-> "neighbors", pass |-> reader.pass, start |-> reader.start,
                      depth |-> reader.depth,
                      out |-> alive(reader.out), in |-> alive(reader.in)]
    /\ UNCHANGED <<passes, tables>>

\* architecture_map reads the modules, then the import edges between them.
Modules(p) == {s \in DOMAIN Symbols[found[p]] : Symbols[found[p]][s].kind = "module"}

AskMap ==
    /\ reader.kind = "none"
    /\ reader' = [kind |-> "modules",
                   rows |-> UNION {{p} \X Modules(p) : p \in symbols}]
    /\ UNCHANGED <<passes, tables>>

Adjacent(row, rows) ==
    {r \in rows :
        /\ r[1] = row[1]
        /\ \/ Edge(row[2], "imports", r[2]) \in EdgesRead(row[1])
           \/ Edge(r[2], "imports", row[2]) \in EdgesRead(row[1])}

\* The depth-first search with a stack: what has been seen when it is empty.
Pushed(stack, rows) == stack \o SetToSeq(rows)

Visit(row, rows, done) ==
    LET go[at \in [stack : Seq(rows), seen : SUBSET rows]] ==
            LET next(stack, seen) == go[[stack |-> stack, seen |-> seen]]
                top == Last(at.stack)
            IN  IF at.stack = << >> THEN at.seen
                ELSE IF top \in at.seen THEN next(Front(at.stack), at.seen)
                ELSE next(Pushed(Front(at.stack), Adjacent(top, rows)), at.seen \cup {top})
    IN  go[[stack |-> <<row>>, seen |-> done]]

Clusters(rows) ==
    LET next(row, sofar) ==
            IF row \in sofar.seen THEN sofar
            ELSE LET seen == Visit(row, rows, sofar.seen)
                 IN  [seen |-> seen, found |-> sofar.found \cup {seen \ sofar.seen}]
    IN  FoldSet(next, [seen |-> {}, found |-> {}], rows).found

ArchitectureMap ==
    /\ reader.kind = "modules"
    /\ reader' = [kind |-> "map", rows |-> reader.rows, read |-> edges,
                   clusters |-> Clusters(reader.rows)]
    /\ UNCHANGED <<passes, tables>>

\* query: rows whose name matches, up to the limit; unless these are enough
\* and the embedding succeeds, the nearest points; then the rows these name.
\* An answer is modelled by the passes its rows are of.
AskQuery(named) ==
    /\ reader.kind = "none"
    /\ reader' = [kind |-> "named", out |-> named,
                   done |-> {p \in Passes : pc[p] = "done"}]
    /\ UNCHANGED <<passes, tables>>

Nearest(hits) ==
    /\ reader.kind = "named"
    /\ reader' = [kind |-> "hits", out |-> reader.out, done |-> reader.done, hits |-> hits]
    /\ UNCHANGED <<passes, tables>>

\* Mutant: what a hit carries is taken for the row.
AnyHit(hits) == hits
Alive(hits) == hits \cap symbols

Query ==
    /\ reader.kind \in {"named", "hits"}
    /\ reader' = [kind |-> "rows", done |-> reader.done, out |-> reader.out \cup
                   (IF reader.kind = "hits" THEN Alive(reader.hits) ELSE {})]
    /\ UNCHANGED <<passes, tables>>

Answered ==
    /\ reader.kind \in {"neighbors", "map", "rows"}
    /\ reader' = Nothing
    /\ UNCHANGED <<passes, tables>>

----------------------------------------------------------------------------
Index(p) ==
    \/ NotFound(p) \/ Begin(p) \/ EdgesGone(p) \/ Commit(p) \/ Fail(p)
    \/ \E t \in Walked : Store(p, t)
    \/ \E q \in Passes : DropEdges(p, q) \/ DropSymbols(p, q)

Read ==
    \/ \E p \in Passes : \E s \in DOMAIN Symbols[found[p]], d \in Depths :
           AskNeighbors(p, s, d)
    \/ LevelOut \/ LevelIn \/ Neighbors \/ AskMap \/ ArchitectureMap \/ Query \/ Answered
    \/ \E named \in SUBSET symbols : AskQuery(named)
    \/ \E hits \in SUBSET vectors : Nearest(hits)

Next ==
    \/ \E p \in Passes : Index(p)
    \/ DeleteProject \/ Read

Spec == Init /\ [][Next]_vars

----------------------------------------------------------------------------
(* Properties.                                                             *)

\* Types and bounds of the variables; above all an open request has rows
\* locked only of passes whose rows are committed.
TypeOK ==
    /\ pc \in [Passes -> {"idle", "edges", "symbols", "stored", "done", "failed"}]
    /\ vectors \subseteq Passes /\ exists \in BOOLEAN
    /\ found \in [Passes -> Walked]
    /\ edges \subseteq symbols
    /\ symbols \subseteq {p \in Passes : pc[p] = "done"}
    /\ todo \in [Passes -> SUBSET Passes]
    /\ before \in [Passes -> SUBSET Passes]
    /\ droppedE \in [Passes -> SUBSET edges]
    /\ droppedS \in [Passes -> SUBSET symbols]
    /\ reader.kind \in {"none", "near", "neighbors", "modules", "map", "named", "hits", "rows"}

\* A new pass replaces the old ones, whatever else is open: rows of two
\* passes are in the tables together only if neither had committed when the
\* other began, and the edges of a pass never go or stay without its symbols.
\* No request brings rows back to a project deleted while it ran.  (A comment
\* in indexer.py calls the reset idempotent: two overlapping requests
\* that found no edges leave both their rows.)
OldPassesReplaced ==
    /\ \A p, q \in symbols : p \notin before[q]
    /\ edges = {p \in symbols : Graph[found[p]] # {}}
    /\ ~exists => symbols = {}

\* The vector store keeps the points of replaced and of failed passes, and a
\* query reads in several statements; yet it shows no row of a pass that did
\* not commit, and rows of two passes, one begun after the other was there,
\* only when the later one committed while the query ran (query, _embed_symbols).
QueryOfOneIndex ==
    (reader.kind = "rows") =>
        /\ \A p \in reader.out : pc[p] = "done"
        /\ \A p, q \in reader.out : p \in before[q] => q \notin reader.done

\* Nodes one to d edges away from s, without s.
Step(g, S) == {e.dst : e \in {x \in g : x.src \in S}} \ {0}
Ball(g, s, d) ==
    LET walk[k \in 0..d] == IF k = 0 THEN {s} ELSE Step(g, walk[k - 1])
    IN  (UNION {walk[k] : k \in 1..d}) \ {s}
Converse(g) == {Edge(e.dst, e.rel, e.src) : e \in {x \in g : x.dst # 0}}

\* neighbors answers with the symbols within the depth, in both directions,
\* as they are in the tree its start was read from: all of them, or at least
\* as many as the node limit, which every level but the first passes by at
\* most one.  A request that replaces the rows on the way leaves it nothing.
NeighborsExact ==
    (reader.kind = "neighbors") =>
        LET g == Graph[found[reader.pass]]
            limit == MaxNodes + (IF reader.depth = 0 THEN 0 ELSE reader.depth - 1)
            right(ids, h) ==
                LET ball == Ball(h, reader.start, reader.depth)
                IN  \/ ids = ball
                    \/ /\ ids \subseteq ball
                       /\ Cardinality(ids) \in MaxNodes - 1 .. limit
        IN  \/ right(reader.out, g) /\ right(reader.in, Converse(g))
            \/ reader.out = {} /\ reader.in = {}

\* What Python makes of the imports of a file, its modules named from the
\* root of the tree.  A relative import starts at the package of the file and
\* is refused beyond the outermost one.
PythonName(file, i) ==
    (IF i.level = 0 THEN i.from
     ELSE SubSeq(file.dir, 1, Len(file.dir) - (i.level - 1)) \o i.from) \o i.name
Imported(file) ==
    IF file.broken THEN {}
    ELSE {PythonName(file, i) : i \in {j \in Range(file.imports) : j.level <= Len(file.dir)}}

\* The files that file f loads: importing a.b.c loads a, a.b and a.b.c, and
\* from a.b import c loads a and a.b, and a.b.c where that is a module.
Imports(tree) ==
    {fg \in (DOMAIN tree) \X (DOMAIN tree) :
        \E name \in Imported(tree[fg[1]]) : IsPrefix(QName(tree[fg[2]]), name)}

\* Those among them it names in full.
Named(tree) ==
    {fg \in (DOMAIN tree) \X (DOMAIN tree) :
        QName(tree[fg[2]]) \in Imported(tree[fg[1]])}

\* The smallest sets of files that no pair leads into or out of.
Joined(files, pairs) ==
    LET apart(S) == \A f \in S, g \in files \ S :
                        <<f, g>> \notin pairs /\ <<g, f>> \notin pairs
    IN  {S \in SUBSET files :
            /\ S # {} /\ apart(S)
            /\ \A T \in SUBSET S : T # {} /\ apart(T) => T = S}
Groups == [t \in Trees |-> Joined(DOMAIN Content[t], Imports(Content[t]))]

\* The extractor takes a relative import in an __init__.py one level too high,
\* and one beyond the outermost package for an absolute one.
PlainImports(tree) ==
    \A f \in DOMAIN tree : \A i \in Range(tree[f].imports) :
        i.level = 0 \/ (~tree[f].package /\ i.level <= Len(tree[f].dir))

\* The indexer has an edge only where an import names the whole module: none
\* for from a.b import c when c is a member of a.b, or * , and none to the
\* packages on the way (indexer.py drops edges to names without a symbol, and
\* architecture_map those to symbols that are no modules).
WholeNames(tree) == Imports(tree) \subseteq Named(tree)

\* Nothing else has the name of a module: of two symbols of one name the
\* edges find the later one.
ModulesDistinct(tree) ==
    LET symbolsOf == TreeSymbols(tree)
    IN  \A s, r \in DOMAIN symbolsOf :
            symbolsOf[s].kind = "module" /\ symbolsOf[r].qname = symbolsOf[s].qname => r = s

\* The architecture map against Python's own imports, in a tree whose modules
\* have names of their own: a cluster never reaches beyond a group of files
\* that import each other, directly or not, and the clusters are these groups
\* when every import names all it loads in full.  When a request has replaced
\* the rows between the two reads, every file is a cluster of its own.
ClustersAreComponents ==
    (reader.kind = "map") =>
        \A p \in {r[1] : r \in reader.rows} :
            LET tree  == Content[found[p]]
                files(c) == {Symbols[found[p]][r[2]].file : r \in c}
                mine  == {files(c) : c \in {x \in reader.clusters : \E r \in x : r[1] = p}}
            IN  \/ mine = {{f} : f \in DOMAIN tree} /\ p \notin reader.read
                \/ /\ p \in reader.read
                   /\ \A c \in mine, g \in Groups[found[p]] : c \cap g # {} => c \subseteq g
                   /\ WholeNames(tree) => mine = Groups[found[p]]
                \/ ~PlainImports(tree) \/ ~ModulesDistinct(tree)

=============================================================================
