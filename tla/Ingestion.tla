------------------------------ MODULE Ingestion ------------------------------
(***************************************************************************)
(* Ingestion into the rag collection: several requests, for one project or *)
(* several, walk the same tree of files while the files are edited.  An    *)
(* ingest_directory runs one task per file, a few at a time; a task reads  *)
(* its file, cuts it into chunks, asks the embedding cache and, in batches,*)
(* the provider for their vectors, and upserts the points.  All tasks share*)
(* one event loop, one embedding cache and one collection, and interleave  *)
(* where they await: for the semaphore, each batch, and the upsert.        *)
(*                                                                         *)
(* A provider answers a batch with some or none of the vectors asked for;  *)
(* the vector of a text is modelled by the text.                           *)
(***************************************************************************)
EXTENDS Chunking

CONSTANTS
    Files,
    Contents,    \* the documents each file may hold
    Projects,
    Ingests,     \* the requests
    Concurrency, \* ingest_directory's concurrency
    BatchSize,   \* the embedding service's batch_size
    CacheMax,    \* its cache_size
    MaxEdits,    \* bound: edits of files
    MaxGaps,     \* bound: batches not fully answered, reads and upserts that fail
    NoVersion,   \* an ingest_text without source_version
    None

ASSUME IngestionAssumption ==
    /\ {BatchSize, CacheMax, Concurrency} \subseteq Nat \ {0}
    /\ {MaxEdits, MaxGaps} \subseteq Nat
    /\ IsFiniteSet(Files)
    /\ \A f \in Files : /\ Contents[f] \subseteq [lang : STRING, lines : Seq(STRING)]
                        /\ NoVersion \notin Contents[f]

VARIABLES
    tree,   \* what each file holds
    ingest, \* each request: how far it is, its project and its IngestStats
    task,   \* per request and file: the task
    cache,  \* the embedding cache, least recently used first
    store,  \* the collection: a function from point ids to points
    wrote,  \* history: the ids each request has upserted
    edits, gaps

vars == <<tree, ingest, task, cache, store, wrote, edits, gaps>>

-----------------------------------------------------------------------------
(* Point ids, vectors and the cache.                                       *)

Version(i, doc) == IF ingest[i].kind = "text" THEN NoVersion ELSE doc

\* Mutants: the place of a chunk, or its content's version, left out.
PlacelessId(f, version, c) == <<version, f, c.kind, c.name, 0, 0>>
UnversionedId(f, version, c) == <<NoVersion, f, c.kind, c.name, c.first, c.last>>

PointId(f, version, c) == <<version, f, c.kind, c.name, c.first, c.last>>

NoVector == << >>

Cached(entries, text) == \E k \in DOMAIN entries : entries[k].text = text
VectorOf(entries, text) ==
    (CHOOSE e \in Range(entries) : e.text = text).vector

Without(entries, text) ==
    IF Cached(entries, text)
    THEN RemoveAt(entries, CHOOSE k \in DOMAIN entries : entries[k].text = text)
    ELSE entries

\* _cache_put: last, and the first evicted when there are too many.
CachePut(entries, text, vector) ==
    LET moved == Append(Without(entries, text), [text |-> text, vector |-> vector])
    IN  IF Len(moved) > CacheMax THEN Tail(moved) ELSE moved

Texts(chunks) == [k \in DOMAIN chunks |-> chunks[k].text]

\* The cache lookups of embed_many: what is found becomes most recent.
AfterLookups(texts) ==
    FoldLeft(LAMBDA entries, t :
               IF Cached(entries, t) THEN CachePut(entries, t, VectorOf(entries, t))
               ELSE entries,
             cache, texts)
Found(texts) ==
    [k \in DOMAIN texts |->
        IF Cached(cache, texts[k]) THEN VectorOf(cache, texts[k]) ELSE NoVector]
Misses(texts) == InOrder({k \in DOMAIN texts : ~Cached(cache, texts[k])})

-----------------------------------------------------------------------------
Idle   == [at |-> "queued"]
Absent == [at |-> "absent"]
Ended(doc, at) == [at |-> at, doc |-> doc]

NoRequest == [at |-> "none", kind |-> None, project |-> None,
              seen |-> 0, created |-> 0, failed |-> 0]

Documents == UNION {Contents[f] : f \in Files}

\* The chunks of each document.
Cut == [doc \in Documents |-> Chunks(doc)]

Init ==
    /\ tree \in [Files -> Documents]
    /\ \A f \in Files : tree[f] \in Contents[f]
    /\ ingest = [i \in Ingests |-> NoRequest]
    /\ task = [i \in Ingests |-> [f \in Files |-> Absent]]
    /\ cache = << >> /\ store = << >>
    /\ wrote = [i \in Ingests |-> {}]
    /\ edits = 0 /\ gaps = 0

\* A file gets another content, of the language its name says.
Edit(f) ==
    /\ edits < MaxEdits
    /\ \E doc \in Contents[f] \ {tree[f]} :
         /\ doc.lang = tree[f].lang
         /\ tree' = [tree EXCEPT ![f] = doc]
    /\ edits' = edits + 1
    /\ UNCHANGED <<ingest, task, cache, store, wrote, gaps>>

\* ingest_directory walks the tree and leaves out ignored, foreign and
\* large files; it waits for all tasks together.
OpenDirectory(i, p) ==
    /\ ingest[i].at = "none"
    /\ LET files == {f \in Files : tree[f].lang # "ignored"}
       IN  /\ ingest' = [ingest EXCEPT ![i] =
                [NoRequest EXCEPT !.at = "open", !.kind = "directory",
                                  !.project = p, !.seen = Cardinality(files)]]
           /\ task' = [task EXCEPT ![i] =
                [f \in Files |-> IF f \in files THEN Idle ELSE Absent]]
    /\ UNCHANGED <<tree, cache, store, wrote, edits, gaps>>

\* ingest_text of one document, without a version.
OpenText(i, p, f) ==
    /\ ingest[i].at = "none"
    /\ ingest' = [ingest EXCEPT ![i] =
         [NoRequest EXCEPT !.at = "open", !.kind = "text", !.project = p, !.seen = 1]]
    /\ task' = [task EXCEPT ![i][f] = Idle]
    /\ UNCHANGED <<tree, cache, store, wrote, edits, gaps>>

Running(i) == {f \in Files : task[i][f].at \in {"embedding", "upserting"}}

\* The points of the chunks that have a vector.
Points(i, f, t) ==
    {[id |-> PointId(f, Version(i, t.doc), t.chunks[k]),
      project |-> ingest[i].project, version |-> Version(i, t.doc),
      text |-> t.chunks[k].text, first |-> t.chunks[k].first, last |-> t.chunks[k].last,
      vector |-> t.out[k]] :
       k \in {k \in DOMAIN t.chunks : t.out[k] # NoVector}}
Filled(t) == Cardinality({k \in DOMAIN t.chunks : t.out[k] # NoVector})

\* What follows embed_many: the upsert, or the end when there is no vector.
Embedded(i, f, t) ==
    IF t.misses # << >>
    THEN /\ task' = [task EXCEPT ![i][f] = t]
         /\ UNCHANGED ingest
    ELSE IF Filled(t) > 0
    THEN /\ task' = [task EXCEPT ![i][f] = [t EXCEPT !.at = "upserting"]]
         /\ UNCHANGED ingest
    ELSE /\ task' = [task EXCEPT ![i][f] = Ended(t.doc, "done")]
         /\ ingest' = [ingest EXCEPT ![i].failed = @ + Len(t.chunks)]

\* A task passes the semaphore, reads its file, cuts it and looks its
\* texts up in the cache, all before it first awaits an answer.
StartTask(i, f) ==
    /\ task[i][f].at = "queued"
    /\ Cardinality(Running(i)) < Concurrency
    /\ LET doc == tree[f]
           chunks == Cut[doc]
           texts  == Texts(chunks)
       IN  IF chunks = << >>
           THEN /\ task' = [task EXCEPT ![i][f] = Ended(doc, "done")]
                /\ UNCHANGED <<ingest, cache>>
           ELSE /\ Embedded(i, f, [at |-> "embedding", doc |-> doc,
                                   chunks |-> chunks, out |-> Found(texts),
                                   misses |-> Misses(texts)])
                /\ cache' = AfterLookups(texts)
    /\ UNCHANGED <<tree, store, wrote, edits, gaps>>

\* An unreadable file is passed over.
ReadFails(i, f) ==
    /\ task[i][f].at = "queued" /\ ingest[i].kind = "directory"
    /\ Cardinality(Running(i)) < Concurrency
    /\ gaps < MaxGaps
    /\ task' = [task EXCEPT ![i][f] = Absent]
    /\ gaps' = gaps + 1
    /\ UNCHANGED <<tree, ingest, cache, store, wrote, edits>>

\* The batch that was asked for, and the position a vector of it belongs to.
BatchOf(t) == SubSeq(t.misses, 1, IF Len(t.misses) < BatchSize
                                  THEN Len(t.misses) ELSE BatchSize)
\* Mutant: vectors are put at their place in the batch.
PlaceInBatch(t, j) == j
Place(t, j) == t.misses[j]

\* The provider answers with the first `n` vectors, none when it fails.
AnswerBatch(i, f) ==
    LET t == task[i][f]
        batch == BatchOf(t)
    IN  /\ t.at = "embedding"
        /\ \E n \in 0 .. Len(batch) :
             /\ n < Len(batch) => gaps < MaxGaps
             /\ gaps' = IF n < Len(batch) THEN gaps + 1 ELSE gaps
             /\ LET texts == [j \in 1 .. n |-> t.chunks[batch[j]].text]
                    out   == [k \in DOMAIN t.out |->
                                IF \E j \in 1 .. n : Place(t, j) = k
                                THEN texts[CHOOSE j \in 1 .. n : Place(t, j) = k]
                                ELSE t.out[k]]
                IN  /\ cache' = FoldLeft(LAMBDA entries, x : CachePut(entries, x, x),
                                         cache, texts)
                    /\ Embedded(i, f, [t EXCEPT !.out = out,
                            !.misses = SubSeq(@, Len(batch) + 1, Len(@))])
        /\ UNCHANGED <<tree, store, wrote, edits>>

\* The collection after an upsert: points with the same id are replaced.
Upserted(points) ==
    LET new == {x.id : x \in points}
    IN  [id \in DOMAIN store \cup new |->
            IF id \in new THEN CHOOSE x \in points : x.id = id ELSE store[id]]

\* _embed_and_upsert returns and the task adds to the statistics.
Upsert(i, f) ==
    LET t == task[i][f]
    IN  /\ t.at = "upserting"
        /\ store' = Upserted(Points(i, f, t))
        /\ wrote' = [wrote EXCEPT ![i] = @ \cup {x.id : x \in Points(i, f, t)}]
        /\ task' = [task EXCEPT ![i][f] = Ended(t.doc, "done")]
        /\ ingest' = [ingest EXCEPT
             ![i].created = @ + Filled(t),
             ![i].failed  = @ + Len(t.chunks) - Filled(t)]
        /\ UNCHANGED <<tree, cache, edits, gaps>>

\* The call raises, before or after the collection has taken the points.
UpsertFails(i, f) ==
    LET t == task[i][f]
    IN  /\ t.at = "upserting" /\ gaps < MaxGaps
        /\ store' \in {store, Upserted(Points(i, f, t))}
        /\ gaps' = gaps + 1
        /\ task' = [task EXCEPT ![i][f] = Ended(t.doc, "done")]
        /\ ingest' = [ingest EXCEPT ![i].failed = @ + Len(t.chunks)]
        /\ UNCHANGED <<tree, cache, wrote, edits>>

\* gather: the request answers when every task has ended.
Answer(i) ==
    /\ ingest[i].at = "open"
    /\ \A f \in Files : task[i][f].at \in {"done", "absent"}
    /\ ingest' = [ingest EXCEPT ![i].at = "ended"]
    /\ UNCHANGED <<tree, task, cache, store, wrote, edits, gaps>>

Next ==
    \/ \E f \in Files : Edit(f)
    \/ \E i \in Ingests :
         \/ \E p \in Projects :
              OpenDirectory(i, p) \/ \E f \in Files : OpenText(i, p, f)
         \/ \E f \in Files :
              \/ StartTask(i, f) \/ ReadFails(i, f)
              \/ AnswerBatch(i, f)
              \/ Upsert(i, f) \/ UpsertFails(i, f)
         \/ Answer(i)

Spec == Init /\ [][Next]_vars

-----------------------------------------------------------------------------
TypeOK ==
    /\ \A f \in Files : tree[f] \in Contents[f]
    /\ \A i \in Ingests :
         /\ ingest[i].at \in {"none", "open", "ended"}
         /\ ingest[i].seen \in 0 .. Cardinality(Files)
         /\ {ingest[i].created, ingest[i].failed} \subseteq Nat
         /\ Cardinality(Running(i)) <= Concurrency
         /\ wrote[i] \subseteq DOMAIN store
         /\ \A f \in Files :
              LET t == task[i][f] IN
              /\ t.at \in {"absent", "queued", "embedding", "upserting", "done"}
              /\ t.at = "embedding" =>
                   /\ t.misses # << >> /\ Range(t.misses) \subseteq DOMAIN t.chunks
                   /\ \A k \in Range(t.misses) : t.out[k] = NoVector
              /\ t.at = "upserting" => t.misses = << >> /\ Filled(t) > 0
    /\ Len(cache) <= CacheMax
    /\ \A j, k \in DOMAIN cache : cache[j].text = cache[k].text => j = k

\* The files a request has read, and their chunks.
ReadBy(i) == {f \in Files : task[i][f].at = "done"}
Read(i)   == UNION {{f} \X DOMAIN Cut[task[i][f].doc] : f \in ReadBy(i)}

\* Every chunk of every file a request read is counted once, as created or as
\* failed, whatever batches, upserts and cached vectors did, and the created
\* ones are that many different points: no chunk of a run has taken the id of
\* another (stats in ingestion.py, _embed_and_upsert, _stable_point_id).
StatsHonest ==
    \A i \in Ingests : ingest[i].at = "ended" =>
        /\ ingest[i].created = Cardinality(wrote[i])
        /\ ingest[i].created + ingest[i].failed = Cardinality(Read(i))

\* Each point and each cache entry has the vector of its own text, though hits
\* and several batches of misses are put together, tasks share the cache while
\* others await, and an answer may stop short (embed_many).
VectorsBelong ==
    /\ \A id \in DOMAIN store : store[id].vector = store[id].text
    /\ \A k \in DOMAIN cache : cache[k].vector = cache[k].text

\* The lines of a document its chunker undertakes to index.  Of a Python
\* module these are its docstring and its definitions: one that has either
\* gets no windows for the rest (chunking.py:56).  A Markdown or JavaScript
\* document is indexed from its first heading or declaration on.  Where there
\* is nothing of the kind, in JSON and in any other document, or in a module
\* that does not parse, it is every line that is not blank.
Parts(doc) ==
    LET lines == doc.lines
        heads == {h \in DOMAIN lines : lines[h] = "head"}
    IN  CASE doc.lang = "python" /\ "broken" \notin Range(lines) ->
               {k \in DOMAIN lines :
                  \/ lines[k] = "docstring"
                  \/ \E d \in Definitions(lines) : k \in d .. EndLine(lines, d)}
          [] doc.lang \in {"markdown", "javascript"} ->
               {k \in DOMAIN lines : \E h \in heads : h <= k}
          [] OTHER -> {}
Undertaken(doc) ==
    Solid(doc.lines) \cap (IF Parts(doc) = {} THEN DOMAIN doc.lines ELSE Parts(doc))

\* A point has the line k in its text: the place says where that text is
\* from, except of a docstring, whose place is fixed, and of JSON.
HasLine(id, text, lines, k) ==
    /\ lines[k] \in Range(text)
    /\ \/ k \in id[5] .. id[6]
       \/ id[3] = "doc" /\ lines[k] = "docstring"
       \/ id[3] = "toplevel" /\ id[4] \in {Key(k), Named("")}

\* After a directory was ingested without a failed chunk, each line its
\* chunkers undertake to index is in the text of a stored point of that file:
\* windows leave no gap between them, sections none up to the next, and no
\* point was lost to another chunk, file or request.
LinesFindable ==
    \A i \in Ingests :
        ingest[i].at = "ended" /\ ingest[i].kind = "directory" /\ ingest[i].failed = 0 =>
          \A f \in ReadBy(i) : \A k \in Undertaken(task[i][f].doc) :
            \E id \in DOMAIN store :
              /\ id[1] = task[i][f].doc /\ id[2] = f
              /\ HasLine(id, store[id].text, task[i][f].doc.lines, k)

\* An upsert replaces a point of an ingested directory by one with the same
\* text only, and none ever disappears: an edited file's chunks do not take
\* the ids of the old ones, which stay (source_version in _stable_point_id).
OverwriteKeepsText ==
    [][\A id \in DOMAIN store : store[id].version # NoVersion =>
         id \in DOMAIN store' /\ store'[id].text = store[id].text]_store
=============================================================================
