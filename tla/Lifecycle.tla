------------------------------ MODULE Lifecycle ------------------------------
(***************************************************************************)
(* The maintenance of long-term memory: passes of LifecycleWorker.run_once *)
(* side by side, while requests go on using the memories.  Every POST      *)
(* /memory/lifecycle/run starts a pass; so would the worker's timer, which *)
(* nothing starts.                                                         *)
(*                                                                         *)
(* A pass is one transaction: it recomputes utilities, merges near         *)
(* duplicates, archives what has decayed, and commits.  What it read in a  *)
(* SELECT it writes back in a later flush, and only the attributes it      *)
(* changed; the rows it wrote stay locked until it ends, and what others   *)
(* committed in between is overwritten.  Vector points are deleted at      *)
(* once, outside the transaction.                                          *)
(*                                                                         *)
(* The first two SELECTs are bounded: the one for utilities returns any    *)
(* UtilityBatch live rows, the one for duplicates the DedupBatch oldest.   *)
(* The rows are numbered by created_at.  Rows of two groups (user, project *)
(* and kind) are never compared, so only rows of one group count as        *)
(* similar.  A utility is a rank: 0 below the archive threshold, and       *)
(* growing with the access counter.                                        *)
(***************************************************************************)
EXTENDS Integers, FiniteSets, FiniteSetsExt, TLC

CONSTANTS
    Passes,     \* passes of the worker
    N,          \* number of memories
    Clusters,   \* the similarities to start from
    DedupBatch,   \* DEDUP_BATCH (200)
    UtilityBatch, \* DEDUP_BATCH * 4
    Steady,     \* bound: the rows whose score may move by 0.01 at most
    Touched,    \* bound: the rows that requests use
    MaxTouches, \* bound: how often
    Nobody,
    Toucher     \* the request that uses a memory

Rows == 1 .. N

ASSUME LifecycleAssumption ==
    /\ N \in Nat \ {0} /\ MaxTouches \in Nat
    /\ Steady \subseteq Rows /\ Touched \subseteq Rows
    /\ DedupBatch \in Nat \ {0} /\ UtilityBatch \in Nat \ {0}
    /\ Toucher # Nobody /\ {Toucher, Nobody} \cap Passes = {}

VARIABLES
    similar,  \* the pairs at or above the similarity threshold
    vectored, \* the rows with a vector_id
    old,      \* the rows created more than two halflives ago
    idle,     \* the rows not accessed for so long that they score 0
    accesses, \* access_count, as committed; likewise the next two
    utility,
    archived, \* per row: "no", "merged" or "decayed"
    lock,     \* per row: the transaction that wrote it last
    points,   \* the rows whose vector point exists
    stage,    \* the part of the pass that comes next
    pending,  \* what its transaction wrote: attribute -> row -> value
    toLock,   \* the rows its flush has still to update
    touch,    \* the request: what it read of which row
    touches,
    \* history
    scored,   \* per pass: the rows in use whose utility it brought up to date
    skipped,  \* per pass: the near duplicates of groups it could not embed
    met,      \* the passes that overlapped another
    took,     \* per row: the passes that deleted its point
    by        \* per row: the pass that archived it, or Nobody

dataVars == <<accesses, utility, archived>>
rowVars  == <<dataVars, lock, points, by, took>>
passVars == <<stage, pending, toLock, scored, skipped, met>>
inputs   == <<similar, vectored, old>>
vars == <<inputs, idle, rowVars, passVars, touch, touches>>

-----------------------------------------------------------------------------
\* What a SELECT with LIMIT n and no order may return.
Limited(S, n) == IF Cardinality(S) <= n THEN {S} ELSE kSubset(n, S)
\* The first n by creation.
Oldest(S, n) == {r \in S : Cardinality({k \in S : k < r}) < n}

Score(n, isIdle) == IF isIdle THEN 0 ELSE 1 + n

None == [accesses |-> << >>, utility |-> << >>, archived |-> << >>]
Over(new, base) ==
    [r \in Rows |-> IF r \in DOMAIN new THEN new[r] ELSE base[r]]
\* A flush writes the attributes that changed.
Changes(now, before) ==
    [r \in {s \in Rows : now[s] # before[s]} |-> now[r]]
Merge(later, earlier) ==
    [r \in DOMAIN later \cup DOMAIN earlier |->
        IF r \in DOMAIN later THEN later[r] ELSE earlier[r]]

\* What a SELECT of the pass returns: committed rows and its own changes.
View(p) == [accesses |-> Over(pending[p].accesses, accesses),
            utility  |-> Over(pending[p].utility, utility),
            archived |-> Over(pending[p].archived, archived)]

Live(v) == {r \in Rows : v.archived[r] = "no"}
\* Mutant: the second SELECT returns archived rows as well.
AllVectored(v) == vectored
\* What the second SELECT takes, up to its LIMIT.
Candidates(v) == Live(v) \cap vectored

AreSimilar(i, j) == {i, j} \in similar

\* _pick_canonical: higher utility, then more accesses, then older.
Outranks(v, i, j) ==
    IF v.utility[i] # v.utility[j] THEN v.utility[i] > v.utility[j]
    ELSE IF v.accesses[i] # v.accesses[j] THEN v.accesses[i] > v.accesses[j]
    ELSE i <= j

\* What the comparison goes on with: nothing is archived yet.
Fresh(v) == [accesses |-> v.accesses, utility |-> v.utility,
             archived |-> v.archived, gone |-> {}]

\* The one kept takes over counters and the better utility.
Absorb(v, keep, drop) ==
    [accesses |-> [v.accesses EXCEPT ![keep] = @ + v.accesses[drop]],
     utility  |-> [v.utility EXCEPT ![keep] =
                      IF v.utility[drop] > @ THEN v.utility[drop] ELSE @],
     archived |-> [v.archived EXCEPT ![drop] = "merged"],
     gone     |-> v.gone \cup {drop}]

Compare(v, i, j) ==
    IF j \in v.gone \/ ~AreSimilar(i, j) THEN v
    ELSE IF Outranks(v, i, j) THEN Absorb(v, i, j) ELSE Absorb(v, j, i)

\* A turn of the outer loop: row i is compared to the end of the inner one,
\* also when it is archived on the way.
Turn(v, i, group) ==
    LET seen[j \in i .. N] ==
          IF j = i THEN v
          ELSE IF j \in group THEN Compare(seen[j - 1], i, j) ELSE seen[j - 1]
    IN  seen[N]

\* Mutant: a row is compared with the next one only.
DeduplicatedNext(v, group) ==
    LET after[n \in 0 .. N - 1] ==
          IF n = 0 THEN v
          ELSE IF {n, n + 1} \subseteq group /\ n \notin after[n - 1].gone
          THEN Compare(after[n - 1], n, n + 1) ELSE after[n - 1]
    IN  after[N - 1]
\* The outer loop passes over rows archived in an earlier turn.
Deduplicated(v, group) ==
    LET after[i \in 0 .. N] ==
          IF i = 0 THEN v
          ELSE IF i \in group \ after[i - 1].gone THEN Turn(after[i - 1], i, group)
          ELSE after[i - 1]
    IN  after[N]

-----------------------------------------------------------------------------
Init ==
    /\ similar \in Clusters
    /\ vectored \in {Rows, Rows \ {N}}
    /\ old = Rows \ {N}
    /\ idle = {1}
    /\ accesses = [r \in Rows |-> IF r = 2 THEN 1 ELSE 0]
    /\ utility = [r \in Rows |-> 1]
    /\ archived = [r \in Rows |-> "no"]
    /\ lock = [r \in Rows |-> Nobody]
    /\ points = vectored
    /\ stage = [p \in Passes |-> "utility"]
    /\ pending = [p \in Passes |-> None]
    /\ toLock = [p \in Passes |-> {}]
    /\ touch = [row |-> 1, read |-> 0, at |-> "idle"]
    /\ touches = 0
    /\ met = {}
    /\ scored = [p \in Passes |-> {}]
    /\ skipped = [p \in Passes |-> {}]
    /\ took = [r \in Rows |-> {}]
    /\ by = [r \in Rows |-> Nobody]

Settled(p) == toLock[p] = {}
Running(p) == stage[p] \in {"dedup", "decay", "commit"}
Free(r, t) == lock[r] \in {Nobody, t}
Unlocked(t) == [r \in Rows |-> IF lock[r] = t THEN Nobody ELSE lock[r]]

\* Set the changes of a pass: they are flushed once the points are gone.
Write(p, new) ==
    /\ pending' = [pending EXCEPT ![p] =
                      [a \in DOMAIN None |-> Merge(new[a], pending[p][a])]]
    /\ toLock' = [toLock EXCEPT ![p] = UNION {DOMAIN new[a] : a \in DOMAIN None}]

\* Points are deleted one by one before their rows are archived; a failure is
\* ignored.
DropPoints(p, rows) ==
    \E gone \in SUBSET rows :
      /\ points' = points \ gone
      /\ took' = [r \in Rows |-> IF r \in gone THEN took[r] \cup {p} ELSE took[r]]

\* The first SELECT, and the new utilities; one that differs from the stored
\* one by 0.01 at most, whatever their ranks, is not written.
RecomputeUtility(p) ==
    /\ stage[p] = "utility"
    /\ LET live   == {r \in Rows : archived[r] = "no"}
           new(r) == Score(accesses[r], r \in idle)
       IN  \E read \in Limited(live, UtilityBatch) :
             \E close \in SUBSET {r \in read \cap Steady : new(r) # utility[r]} :
               LET now == [r \in Rows |-> IF r \in read \ close THEN new(r)
                                         ELSE utility[r]]
               IN  /\ Write(p, [None EXCEPT !.utility = Changes(now, utility)])
                   /\ scored' = [scored EXCEPT
                                    ![p] = (read \ close) \ idle]
    /\ stage' = [stage EXCEPT ![p] = "dedup"]
    /\ LET others == {q \in Passes : Running(q)}
       IN  met' = IF others = {} THEN met ELSE met \cup others \cup {p}
    /\ UNCHANGED <<inputs, idle, rowVars, skipped, touch, touches>>

\* The second SELECT and the comparison, group by group; a group whose
\* embedding fails is skipped, which matters if it has near duplicates.
\* Similar rows are of one group.
Dedup(p) ==
    /\ stage[p] = "dedup" /\ Settled(p)
    /\ LET v     == View(p)
           batch == Oldest(Candidates(v), DedupBatch)
           near  == {r \in batch : \E s \in batch : r # s /\ AreSimilar(r, s)}
       IN  \E unembedded \in SUBSET near :
             LET w == Deduplicated(Fresh(v), batch \ unembedded)
             IN  /\ \A r \in unembedded, s \in batch :
                        AreSimilar(r, s) => s \in unembedded
                 /\ Write(p, [a \in DOMAIN None |-> Changes(w[a], v[a])])
                 /\ DropPoints(p, w.gone)
                 /\ skipped' = [skipped EXCEPT ![p] = unembedded]
    /\ stage' = [stage EXCEPT ![p] = "decay"]
    /\ UNCHANGED <<inputs, idle, dataVars, lock, by, scored, met, touch, touches>>

\* Mutant: the decay pass goes by age alone.
DecayOld(p) ==
    /\ stage[p] = "decay" /\ Settled(p)
    /\ LET gone == Live(View(p)) \cap old
       IN  /\ Write(p, [None EXCEPT !.archived = [r \in gone |-> "decayed"]])
           /\ DropPoints(p, gone \cap vectored)
    /\ stage' = [stage EXCEPT ![p] = "commit"]
    /\ UNCHANGED <<inputs, idle, dataVars, lock, by, scored, skipped, met,
                   touch, touches>>

\* The third SELECT.
Decay(p) ==
    /\ stage[p] = "decay" /\ Settled(p)
    /\ LET v    == View(p)
           gone == {r \in Live(v) \cap old : v.utility[r] = 0}
       IN  /\ Write(p, [None EXCEPT !.archived = [r \in gone |-> "decayed"]])
           /\ DropPoints(p, gone \cap vectored)
    /\ stage' = [stage EXCEPT ![p] = "commit"]
    /\ UNCHANGED <<inputs, idle, dataVars, lock, by, scored, skipped, met,
                   touch, touches>>

\* One UPDATE of a flush, which goes through the rows in a fixed order.
LockRow(p) ==
    /\ toLock[p] # {}
    /\ LET r == Min(toLock[p])
       IN  /\ Free(r, p)
           /\ lock' = [lock EXCEPT ![r] = p]
           /\ toLock' = [toLock EXCEPT ![p] = @ \ {r}]
    /\ UNCHANGED <<inputs, idle, dataVars, points, by, took, stage, pending,
                   scored, skipped, met, touch, touches>>

\* Mutant: the archived flags are not part of the transaction's flushes.
CommitCounters(p) ==
    /\ stage[p] = "commit" /\ Settled(p)
    /\ accesses' = View(p).accesses
    /\ utility' = View(p).utility
    /\ lock' = Unlocked(p)
    /\ stage' = [stage EXCEPT ![p] = "committed"]
    /\ pending' = [pending EXCEPT ![p] = None]
    /\ UNCHANGED <<inputs, idle, archived, by, points, took, toLock,
                   scored, skipped, met, touch, touches>>
Commit(p) ==
    /\ stage[p] = "commit" /\ Settled(p)
    /\ accesses' = View(p).accesses
    /\ utility' = View(p).utility
    /\ archived' = View(p).archived
    /\ by' = [r \in Rows |-> IF r \in DOMAIN pending[p].archived THEN p ELSE by[r]]
    /\ lock' = Unlocked(p)
    /\ stage' = [stage EXCEPT ![p] = "committed"]
    /\ pending' = [pending EXCEPT ![p] = None]
    /\ UNCHANGED <<inputs, idle, points, took, toLock,
                   scored, skipped, met, touch, touches>>

\* The transaction is rolled back; deleted points stay deleted.
Rollback(p) ==
    /\ lock' = Unlocked(p)
    /\ stage' = [stage EXCEPT ![p] = "aborted"]
    /\ pending' = [pending EXCEPT ![p] = None]
    /\ toLock' = [toLock EXCEPT ![p] = {}]
    /\ UNCHANGED <<inputs, idle, dataVars, points, by, took, scored, skipped,
                   met, touch, touches>>

\* A statement or a vector of the comparison fails, or the process ends.
Abort(p) == Running(p) /\ Rollback(p)

\* Two passes that wait for each other's rows: the database aborts one.
Waits(p) == toLock[p] # {} /\ ~Free(Min(toLock[p]), p)
Blocker(p) == lock[Min(toLock[p])]
Deadlock(p) ==
    /\ Waits(p) /\ Blocker(p) \in Passes
    /\ Waits(Blocker(p)) /\ Blocker(Blocker(p)) = p
    /\ Rollback(p)

-----------------------------------------------------------------------------
(* A request remembers a content that is there already: the live users of  *)
(* the counters.  record_use, which would do the same, has no caller.      *)

TouchRead ==
    /\ touch.at = "idle" /\ touches < MaxTouches
    /\ \E r \in Touched :
         touch' = [row |-> r, read |-> accesses[r], at |-> "flush"]
    /\ touches' = touches + 1
    /\ UNCHANGED <<inputs, idle, rowVars, passVars>>

TouchFlush ==
    /\ touch.at = "flush" /\ Free(touch.row, Toucher)
    /\ lock' = [lock EXCEPT ![touch.row] = Toucher]
    /\ touch' = [touch EXCEPT !.at = "commit"]
    /\ UNCHANGED <<inputs, idle, dataVars, points, by, took, passVars, touches>>

TouchCommit ==
    /\ touch.at = "commit"
    /\ accesses' = [accesses EXCEPT ![touch.row] = touch.read + 1]
    /\ idle' = idle \ {touch.row}
    /\ lock' = Unlocked(Toucher)
    /\ touch' = [touch EXCEPT !.at = "idle"]
    /\ UNCHANGED <<inputs, utility, archived, points, by, took, passVars,
                   touches>>

\* A long time passes without a use: every memory scores 0.  Scores are only
\* computed at the start of a pass.
BecomeIdle ==
    /\ \E p \in Passes : stage[p] = "utility"
    /\ idle # Rows /\ idle' = Rows
    /\ UNCHANGED <<inputs, rowVars, passVars, touch, touches>>

Pass(p) == \/ RecomputeUtility(p) \/ Dedup(p) \/ Decay(p)
           \/ LockRow(p) \/ Commit(p) \/ Deadlock(p) \/ Abort(p)

Next == \/ \E p \in Passes : Pass(p)
        \/ TouchRead \/ TouchFlush \/ TouchCommit
        \/ BecomeIdle

Spec == Init /\ [][Next]_vars

-----------------------------------------------------------------------------
(* Properties.                                                             *)

TypeOK ==
    /\ accesses \in [Rows -> Nat] /\ utility \in [Rows -> Nat]
    /\ archived \in [Rows -> {"no", "merged", "decayed"}]
    /\ lock \in [Rows -> Passes \cup {Nobody, Toucher}]
    /\ points \subseteq vectored
    /\ stage \in [Passes -> {"utility", "dedup", "decay", "commit",
                             "committed", "aborted"}]
    /\ \A p \in Passes : /\ toLock[p] \subseteq Rows
                         /\ stage[p] \in {"utility", "committed", "aborted"} =>
                              Settled(p) /\ \A r \in Rows : lock[r] # p
    /\ \A r \in Rows : by[r] = Nobody <=> archived[r] = "no"

Committed(p) == stage[p] = "committed"

\* The rows similar to r, directly or through others.
Closed(C) == \A r \in C, s \in Rows : AreSimilar(r, s) => s \in C
Cluster(r) == {s \in Rows : \A C \in SUBSET Rows : r \in C /\ Closed(C) => s \in C}

\* As long as no two passes overlap, merging never empties a cluster of near
\* duplicates: also when an archived row goes on being compared, and in the
\* passes that follow, a row that was not merged away is left.
ClusterSurvives ==
    \A r \in Rows :
        archived[r] = "merged" /\ met = {} =>
            \E s \in Cluster(r) : archived[s] # "merged"

\* After a pass no two live memories are near duplicates, so a repeated pass
\* has nothing to merge, whatever ran beside it: only rows of a group it
\* could not embed, and rows that come after the DedupBatch oldest ones with
\* a vector, may still be similar to an older one.
SurvivorsDissimilar ==
    \A p \in Passes : Committed(p) =>
        \A i, j \in Live([archived |-> archived]) \cap vectored :
            i < j /\ AreSimilar(i, j) =>
                \/ j \in skipped[p]
                \/ Cardinality({k \in vectored : k < j}) >= DedupBatch

\* What a query can return: rows found through their point and still live.
Recallable == {r \in points : archived[r] = "no"}

\* A live memory drops out of every recall only through a pass that deleted
\* its point and has not committed, whatever passes and requests overlap.
LostOnlyByFailedPass ==
    \A r \in vectored :
        archived[r] = "no" /\ r \notin Recallable =>
            \E p \in took[r] : ~Committed(p)

\* Maintenance that overlapped no other pass does not let a memory decay
\* that was in use when it began, whatever utility was stored for it and
\* whatever row it was merged with, unless the pass left the stored utility:
\* the row was beyond the LIMIT of its SELECT, or its new score within 0.01.
UsedDoNotDecay ==
    \A r \in Rows :
        archived[r] = "decayed" /\ by[r] \notin met =>
            r \notin scored[by[r]]
=============================================================================
