------------------------------- MODULE Savers --------------------------------
(***************************************************************************)
(* The checkpoint savers: memory, SQLite, PostgreSQL and Redis, and the    *)
(* retention policy that prunes them, on the records of one thread.        *)
(*                                                                         *)
(* A checkpoint row names a version for every channel; the values live in  *)
(* blobs keyed by channel and version, written once by the Put that        *)
(* created the version, except in Redis, whose record holds the values.    *)
(* The memory and SQLite savers serialise their operations.  PostgreSQL    *)
(* runs statements of concurrent transactions (READ COMMITTED), and Redis  *)
(* reads before it sends its atomic pipeline, so a call of theirs is       *)
(* several steps here.                                                     *)
(*                                                                         *)
(* The clients are one run of a graph or subgraph at a time, which loads   *)
(* the latest checkpoint of its namespace, keeps its versions in memory    *)
(* and puts successors and pending writes, and one operator, who deletes   *)
(* the thread or applies a retention policy.                               *)
(***************************************************************************)
EXTENDS Naturals, Sequences, FiniteSets, Ordering

CONSTANTS
    Namespaces,     \* of the thread: the root graph and its subgraphs
    StateChannels,
    MaxCheckpoints, \* bound: checkpoints ever put
    MaxWrites,      \* bound: pending writes stored at a time
    KeepLatest      \* retention.Policy; its MaxThreadAge is the time that Age lets pass

ASSUME SaversAssumption == MaxCheckpoints \in Nat /\ MaxWrites \in Nat /\ KeepLatest \in Nat

CheckpointIDs == 1 .. MaxCheckpoints
RecordKeys == Namespaces \X CheckpointIDs
NoID == 0
SchemaVersion == 2
SaverKinds == {"memory", "sqlite", "postgres", "redis"}
Sources == {"input", "loop"}

\* A pending write: index >= 0 ("result") or a reserved negative one
\* ("control"); "bad" is a write without a task or channel.
PendingWrite == [idx : {"result"}, val : 1 .. 2] \cup [idx : {"control"}, val : {1}]
BadWrite == [idx |-> "bad", val |-> 0]
WriteBatches == {<<w>> : w \in PendingWrite} \cup {<<w, BadWrite>> : w \in PendingWrite}

VARIABLES
    saverKind,   \* the saver under test
    schema,      \* version in the migration ledger of a SQL database
    saver,       \* the Saver object: "new", "ready" or "closed"
    rows,        \* stored checkpoints: parent, channel versions, values held in the record,
                 \* and source
    blobs,       \* <<namespace, channel, version>> of the stored values
    pending,     \* [key, idx, val] of the stored pending writes
    recordIndex, \* Redis: the sets of record keys, global, of the thread, of the namespaces
    lastID,
    stale,       \* the newest checkpoint is older than MaxThreadAge
    threadRun,   \* the graph run
    op,          \* the operator
    orphans      \* keys put by a run beside which the thread was deleted, and their
                 \* descendants (history)

saverVars == <<saverKind, schema, saver, rows, blobs, pending, recordIndex, lastID, stale,
               threadRun, op, orphans>>
stored == <<rows, blobs, pending, recordIndex>>

SQL == saverKind \in {"sqlite", "postgres"}
Serialised == saverKind \in {"memory", "sqlite"}
SaverUsable == ~SQL \/ saver = "ready"

NothingHeld == [id |-> NoID, versions |-> [c \in StateChannels |-> NoID], got |-> {}]
NoRun == [at |-> "idle", ns |-> "none", held |-> NothingHeld, torn |-> FALSE,
          key |-> <<>>, batch |-> <<>>]
NoOperation == [at |-> "idle", rows |-> {}, writes |-> {}, aged |-> FALSE, policy |-> FALSE]

SaverInit ==
    /\ saverKind \in SaverKinds
    /\ schema \in (IF SQL THEN {0, 1, SchemaVersion + 1} ELSE {SchemaVersion})
    /\ saver = "new"
    /\ rows = <<>> /\ blobs = {} /\ pending = {}
    /\ recordIndex = [all |-> {}, thread |-> {}, namespace |-> {}]
    /\ lastID = 0 /\ stale = FALSE
    /\ threadRun = NoRun /\ op = NoOperation /\ orphans = {}

-----------------------------------------------------------------------------
(***************************************************************************)
(* Opening and closing a SQL saver.                                        *)
(***************************************************************************)
\* setupLocked: a ledger of a later version is refused before any table is
\* touched; an older one is brought up to date in one transaction.
SqliteSetup ==
    /\ saverKind = "sqlite" /\ saver = "new"
    /\ schema <= SchemaVersion
    /\ schema' = SchemaVersion /\ saver' = "ready"
    /\ UNCHANGED <<saverKind, stored, lastID, stale, threadRun, op, orphans>>

\* Setup: the unlocked look at the ledger is repeated under the advisory lock,
\* so the migration counts as one step.
PostgresSetup ==
    /\ saverKind = "postgres" /\ saver = "new"
    /\ schema <= SchemaVersion
    /\ schema' = SchemaVersion /\ saver' = "ready"
    /\ UNCHANGED <<saverKind, stored, lastID, stale, threadRun, op, orphans>>

\* Close: whatever the run and the operator were about to do fails.
CloseSaver ==
    /\ SQL /\ saver = "ready"
    /\ saver' = "closed" /\ threadRun' = NoRun /\ op' = NoOperation
    /\ UNCHANGED <<saverKind, schema, stored, lastID, stale, orphans>>

\* Another process opens the database.
OpenSaver ==
    /\ SQL /\ saver = "closed"
    /\ saver' = "new"
    /\ UNCHANGED <<saverKind, schema, stored, lastID, stale, threadRun, op, orphans>>

-----------------------------------------------------------------------------
(***************************************************************************)
(* Reading.                                                                *)
(***************************************************************************)
\* The keys of ks, newest first (checkpoint IDs are unique and sortable).
NewestFirst(ks) == InOrder(ks, {p \in ks \X ks : p[1][2] > p[2][2]})

\* findKeyLocked without an explicit ID.
LatestOf(n, ks) == {k \in ks : k[1] = n /\ \A j \in ks : j[1] = n => j[2] <= k[2]}

\* tupleLocked, hydrateLocked and hydrate: the channels whose value is found.
MemoryValues(k) == {c \in StateChannels : <<k[1], c, rows[k].versions[c]>> \in blobs}
HydrateSqlite(row, n) == {c \in StateChannels : <<n, c, row.versions[c]>> \in blobs}
HydratePostgres(row, n) == {c \in StateChannels : <<n, c, row.versions[c]>> \in blobs}
\* getExact: the record holds the values itself.
RedisValues(k) == rows[k].vals

LoadedValues(k) ==
    CASE saverKind = "memory" -> MemoryValues(k)
      [] saverKind = "sqlite" -> HydrateSqlite(rows[k], k[1])
      [] saverKind = "postgres" -> HydratePostgres(rows[k], k[1])
      [] saverKind = "redis" -> RedisValues(k)

\* ListOptions: a namespace, all of the thread's (a Config with AllNamespaces) or all of
\* the store's (no Config), an exclusive upper ID (0: none), a metadata filter on the
\* source ("any": none) and a limit (0: none).
ListOptions ==
    [ns : Namespaces \cup {"all", "thread"}, before : {0}, source : {"any"}, limit : 0 .. 1]
        \cup [ns : {"all"}, before : {0, MaxCheckpoints}, source : Sources, limit : 0 .. 1]
InScope(k, o) == (o.ns \in {"all", "thread"} \/ k[1] = o.ns) /\ (o.before = 0 \/ k[2] < o.before)
MetadataMatches(k, o) == o.source = "any" \/ rows[k].source = o.source
CutTo(s, limit) == IF limit > 0 /\ Len(s) > limit THEN SubSeq(s, 1, limit) ELSE s

\* Filter, sort, cut.
MemoryList(o) ==
    CutTo(NewestFirst({k \in DOMAIN rows : InScope(k, o) /\ MetadataMatches(k, o)}), o.limit)

\* Scan the ordered rows, keep the matching ones, stop at the limit.
ScanRows(o) ==
    LET scanned == NewestFirst({k \in DOMAIN rows : InScope(k, o)})
    IN  Scan(scanned, {i \in DOMAIN scanned : MetadataMatches(scanned[i], o)})
SqliteList(o) == CutTo(ScanRows(o), o.limit)
PostgresList(o) == CutTo(ScanRows(o), o.limit)

\* Take the members of an index, sort them, load each one and skip what is gone.
RedisList(o) ==
    LET members == CASE o.ns = "all" -> recordIndex.all
                     [] o.ns = "thread" -> recordIndex.thread
                     [] OTHER -> {k \in recordIndex.namespace : k[1] = o.ns}
        scanned == NewestFirst({k \in members : InScope(k, o)})
        found == {i \in DOMAIN scanned : scanned[i] \in DOMAIN rows /\ MetadataMatches(scanned[i], o)}
    IN  CutTo(Scan(scanned, found), o.limit)

ListCheckpoints(o) ==
    CASE saverKind = "memory" -> MemoryList(o)
      [] saverKind = "sqlite" -> SqliteList(o)
      [] saverKind = "postgres" -> PostgresList(o)
      [] saverKind = "redis" -> RedisList(o)

-----------------------------------------------------------------------------
(***************************************************************************)
(* The graph run.                                                          *)
(***************************************************************************)
Deleting == op.at \in {"members", "writes", "rows"}

\* GetTuple of the latest checkpoint: PostgreSQL reads the row first and its
\* values later.  Redis takes the newest member of the namespace's index.
StartRun(n) ==
    LET latest == LatestOf(n, IF saverKind = "redis" THEN recordIndex.namespace ELSE DOMAIN rows) IN
    /\ threadRun.at = "idle" /\ SaverUsable
    /\ threadRun' = [threadRun EXCEPT
         !.at = IF saverKind = "postgres" THEN "loading" ELSE "running",
         !.ns = n, !.torn = Deleting,
         !.held = IF latest \cap DOMAIN rows = {} THEN NothingHeld
                  ELSE LET k == CHOOSE k \in latest : TRUE
                       IN  [id |-> k[2], versions |-> rows[k].versions,
                            got |-> IF saverKind = "postgres" THEN {} ELSE LoadedValues(k)]]
    /\ UNCHANGED <<saverKind, schema, saver, stored, lastID, stale, op, orphans>>

\* hydrate: one query per channel, after the row was read.
LoadBlobs ==
    /\ threadRun.at = "loading"
    /\ threadRun' = [threadRun EXCEPT
         !.at = "running",
         !.held.got = IF threadRun.held.id = NoID THEN {}
                      ELSE HydratePostgres(threadRun.held, threadRun.ns)]
    /\ UNCHANGED <<saverKind, schema, saver, stored, lastID, stale, op, orphans>>

\* The checkpoint that a run puts: changed channels get a new version, named by
\* the checkpoint's ID, the others keep the version the run holds.
NewRow(n, id, changed) ==
    [parent |-> threadRun.held.id,
     versions |-> [c \in StateChannels |-> IF c \in changed THEN id ELSE threadRun.held.versions[c]],
     vals |-> changed \cup threadRun.held.got,
     source |-> IF threadRun.held.id = NoID THEN "input" ELSE "loop"]
With(f, k, v) == [x \in DOMAIN f \cup {k} |-> IF x = k THEN v ELSE f[x]]
NewBlobs(n, id, changed) == {<<n, c, id>> : c \in changed}

\* Put of each saver: blobs and row together.
MemoryPut(n, id, changed) ==
    /\ rows' = With(rows, <<n, id>>, [NewRow(n, id, changed) EXCEPT !.vals = {}])
    /\ blobs' = blobs \cup NewBlobs(n, id, changed)
    /\ UNCHANGED <<pending, recordIndex>>
SqlitePut(n, id, changed) ==
    /\ saver = "ready"
    /\ rows' = With(rows, <<n, id>>, [NewRow(n, id, changed) EXCEPT !.vals = {}])
    /\ blobs' = blobs \cup NewBlobs(n, id, changed)
    /\ UNCHANGED <<pending, recordIndex>>
PostgresPut(n, id, changed) ==
    /\ saver = "ready"
    /\ rows' = With(rows, <<n, id>>, [NewRow(n, id, changed) EXCEPT !.vals = {}])
    /\ blobs' = blobs \cup NewBlobs(n, id, changed)
    /\ UNCHANGED <<pending, recordIndex>>
RedisPut(n, id, changed) ==
    /\ rows' = With(rows, <<n, id>>, NewRow(n, id, changed))
    /\ recordIndex' = [x \in DOMAIN recordIndex |-> recordIndex[x] \cup {<<n, id>>}]
    /\ UNCHANGED <<blobs, pending>>

PutCheckpoint(changed) ==
    LET id == lastID + 1
        n == threadRun.ns IN
    /\ threadRun.at = "running" /\ id \in CheckpointIDs
    /\ threadRun.held.id = NoID => changed = StateChannels
    /\ CASE saverKind = "memory" -> MemoryPut(n, id, changed)
         [] saverKind = "sqlite" -> SqlitePut(n, id, changed)
         [] saverKind = "postgres" -> PostgresPut(n, id, changed)
         [] saverKind = "redis" -> RedisPut(n, id, changed)
    /\ lastID' = id /\ stale' = FALSE
    /\ threadRun' = [threadRun EXCEPT !.held =
         [id |-> id, versions |-> rows'[<<n, id>>].versions, got |-> changed \cup @.got]]
    /\ orphans' = IF threadRun.torn \/ <<n, threadRun.held.id>> \in orphans
                  THEN orphans \cup {<<n, id>>} ELSE orphans
    /\ UNCHANGED <<saverKind, schema, saver, op>>

\* Mutant: INSERT OR REPLACE for every index.
ReplaceWrite(ws, k, w) ==
    {x \in ws : x.key # k \/ x.idx # w.idx} \cup {[key |-> k, idx |-> w.idx, val |-> w.val]}

\* The first write of a result stays; a control is replaced.
AddWrite(ws, k, w) ==
    LET same == {x \in ws : x.key = k /\ x.idx = w.idx}
    IN  IF w.idx = "result" /\ same # {} THEN ws
        ELSE (ws \ same) \cup {[key |-> k, idx |-> w.idx, val |-> w.val]}

\* The memory saver validates each write as it goes and keeps what came before
\* a bad one; the others validate the whole batch first.
MemoryPutWrites(k, batch) ==
    /\ pending' = AddWrite(pending, k, batch[1])
SqlitePutWrites(k, batch) ==
    /\ saver = "ready"
    /\ pending' = IF BadWrite = batch[Len(batch)] THEN pending ELSE AddWrite(pending, k, batch[1])

\* The bound on stored writes; a write that is there may be repeated.
WithinBound(k, batch) ==
    \/ Cardinality(pending) < MaxWrites
    \/ \E w \in pending : w.key = k /\ w.idx = batch[1].idx

\* PutWrites of a serialised saver: refused unless the checkpoint is stored.
PutWrites(k, batch) ==
    /\ threadRun.at = "running" /\ Serialised
    /\ k = <<threadRun.ns, threadRun.held.id>>
    /\ k \in DOMAIN rows /\ WithinBound(k, batch)
    /\ IF saverKind = "memory" THEN MemoryPutWrites(k, batch) ELSE SqlitePutWrites(k, batch)
    /\ UNCHANGED <<saverKind, schema, saver, rows, blobs, recordIndex, lastID, stale, threadRun, op,
                   orphans>>

\* PutWrites of PostgreSQL and Redis looks for the checkpoint first ...
CheckWrites(k, batch) ==
    /\ threadRun.at = "running" /\ ~Serialised
    /\ k = <<threadRun.ns, threadRun.held.id>>
    /\ k \in DOMAIN rows /\ WithinBound(k, batch) /\ batch[Len(batch)] # BadWrite
    /\ threadRun' = [threadRun EXCEPT !.at = "checked", !.key = k, !.batch = batch]
    /\ UNCHANGED <<saverKind, schema, saver, stored, lastID, stale, op, orphans>>

\* ... and then inserts, whatever became of it.
PostgresPutWrites ==
    /\ saverKind = "postgres" /\ threadRun.at = "checked"
    /\ pending' = AddWrite(pending, threadRun.key, threadRun.batch[1])
    /\ threadRun' = [threadRun EXCEPT !.at = "running", !.key = <<>>, !.batch = <<>>]
    /\ UNCHANGED <<saverKind, schema, saver, rows, blobs, recordIndex, lastID, stale, op, orphans>>
RedisPutWrites ==
    /\ saverKind = "redis" /\ threadRun.at = "checked"
    /\ pending' = AddWrite(pending, threadRun.key, threadRun.batch[1])
    /\ threadRun' = [threadRun EXCEPT !.at = "running", !.key = <<>>, !.batch = <<>>]
    /\ UNCHANGED <<saverKind, schema, saver, rows, blobs, recordIndex, lastID, stale, op, orphans>>

EndRun ==
    /\ threadRun.at = "running"
    /\ threadRun' = NoRun
    /\ UNCHANGED <<saverKind, schema, saver, stored, lastID, stale, op, orphans>>

-----------------------------------------------------------------------------
(***************************************************************************)
(* The operator: DeleteThread, PruneThread and the retention policy.       *)
(***************************************************************************)
Without(f, ks) == [k \in DOMAIN f \ ks |-> f[k]]
RunInterrupted == [threadRun EXCEPT !.torn = threadRun.at # "idle"]
AfterDelete == IF op.policy THEN [NoOperation EXCEPT !.at = "prune", !.policy = TRUE] ELSE NoOperation
MayDelete == op.at = "idle" \/ (op.at = "aged" /\ op.aged)

MemoryDeleteThread ==
    /\ saverKind = "memory" /\ MayDelete
    /\ rows' = <<>> /\ blobs' = {}
    /\ pending' = {w \in pending : w.key \notin DOMAIN rows}
    /\ threadRun' = RunInterrupted /\ op' = AfterDelete
    /\ UNCHANGED <<saverKind, schema, saver, recordIndex, lastID, stale, orphans>>

SqliteDeleteThread ==
    /\ saverKind = "sqlite" /\ SaverUsable /\ MayDelete
    /\ rows' = <<>> /\ blobs' = {} /\ pending' = {}
    /\ threadRun' = RunInterrupted /\ op' = AfterDelete
    /\ UNCHANGED <<saverKind, schema, saver, recordIndex, lastID, stale, orphans>>

\* The three DELETE statements of one transaction: each removes what is
\* committed when it runs, and all take effect at the commit.
PostgresDeleteWrites ==
    /\ saverKind = "postgres" /\ SaverUsable /\ MayDelete
    /\ op' = [op EXCEPT !.at = "writes", !.writes = pending]
    /\ threadRun' = RunInterrupted
    /\ UNCHANGED <<saverKind, schema, saver, stored, lastID, stale, orphans>>
PostgresDeleteRows ==
    /\ op.at = "writes"
    /\ op' = [op EXCEPT !.at = "rows", !.rows = DOMAIN rows]
    /\ UNCHANGED <<saverKind, schema, saver, stored, lastID, stale, threadRun, orphans>>
PostgresDeleteThread ==
    /\ op.at = "rows"
    /\ rows' = Without(rows, op.rows)
    /\ pending' = pending \ op.writes
    /\ blobs' = {}
    /\ op' = AfterDelete
    /\ UNCHANGED <<saverKind, schema, saver, recordIndex, lastID, stale, threadRun, orphans>>

\* The members of the thread's index, then one pipeline that deletes their
\* records and the index itself.
RedisMembers ==
    /\ saverKind = "redis" /\ MayDelete
    /\ op' = [op EXCEPT !.at = "members", !.rows = recordIndex.thread]
    /\ threadRun' = RunInterrupted
    /\ UNCHANGED <<saverKind, schema, saver, stored, lastID, stale, orphans>>
RedisDeleteThread ==
    /\ op.at = "members"
    /\ rows' = Without(rows, op.rows)
    /\ pending' = {w \in pending : w.key \notin op.rows}
    /\ recordIndex' = [all |-> recordIndex.all \ op.rows, thread |-> {},
                       namespace |-> recordIndex.namespace \ op.rows]
    /\ op' = AfterDelete
    /\ UNCHANGED <<saverKind, schema, saver, blobs, lastID, stale, threadRun, orphans>>

\* All but the newest keep checkpoints, over all namespaces.
Beyond(keep) ==
    LET ordered == NewestFirst(DOMAIN rows) IN {ordered[i] : i \in {j \in DOMAIN ordered : j > keep}}

\* PruneThread keeps the blobs, which later checkpoints may share, unless (in
\* memory) nothing is kept.
MemoryPruneThread(keep) ==
    /\ rows' = Without(rows, Beyond(keep))
    /\ pending' = {w \in pending : w.key \notin Beyond(keep)}
    /\ blobs' = IF keep = 0 THEN {} ELSE blobs
\* Mutant: the versions of the dropped checkpoints are dropped with them.
SqlitePruneBlobs(keep) ==
    /\ saver = "ready"
    /\ rows' = Without(rows, Beyond(keep))
    /\ pending' = {w \in pending : w.key \notin Beyond(keep)}
    /\ blobs' = {b \in blobs : <<b[1], b[3]>> \notin Beyond(keep)}
SqlitePruneThread(keep) ==
    /\ saver = "ready"
    /\ rows' = Without(rows, Beyond(keep))
    /\ pending' = {w \in pending : w.key \notin Beyond(keep)}
    /\ UNCHANGED blobs

PruneThread(keep) ==
    /\ Serialised
    /\ op.at = "idle" \/ (op.at = "prune" /\ keep = KeepLatest)
    /\ IF saverKind = "memory" THEN MemoryPruneThread(keep) ELSE SqlitePruneThread(keep)
    /\ op' = NoOperation
    /\ threadRun' = IF keep = 0 THEN RunInterrupted ELSE threadRun
    /\ UNCHANGED <<saverKind, schema, saver, recordIndex, lastID, stale, orphans>>

\* Apply lists the checkpoints and judges the thread by its newest timestamp.
Apply ==
    /\ op.at = "idle" /\ SaverUsable /\ rows # <<>>
    /\ op' = [op EXCEPT
         !.at = "aged", !.policy = TRUE,
         !.aged = stale]
    /\ UNCHANGED <<saverKind, schema, saver, stored, lastID, stale, threadRun, orphans>>

\* A younger thread goes on to pruning, which two of the savers do not offer.
ApplyYoung ==
    /\ op.at = "aged" /\ ~op.aged
    /\ op' = IF KeepLatest > 0 /\ Serialised THEN AfterDelete ELSE NoOperation
    /\ UNCHANGED <<saverKind, schema, saver, stored, lastID, stale, threadRun, orphans>>
ApplyUnpruned ==
    /\ op.at = "prune" /\ ~Serialised
    /\ op' = NoOperation
    /\ UNCHANGED <<saverKind, schema, saver, stored, lastID, stale, threadRun, orphans>>

\* The wall clock: more than MaxThreadAge passes without a checkpoint.
Age ==
    /\ rows # <<>> /\ ~stale
    /\ stale' = TRUE
    /\ UNCHANGED <<saverKind, schema, saver, stored, lastID, threadRun, op, orphans>>

-----------------------------------------------------------------------------
SaverNext ==
    \/ SqliteSetup \/ PostgresSetup \/ CloseSaver \/ OpenSaver
    \/ \E n \in Namespaces : StartRun(n)
    \/ LoadBlobs \/ EndRun
    \/ \E changed \in SUBSET StateChannels \ {{}} : PutCheckpoint(changed)
    \/ \E k \in DOMAIN rows, batch \in WriteBatches : PutWrites(k, batch) \/ CheckWrites(k, batch)
    \/ PostgresPutWrites \/ RedisPutWrites
    \/ MemoryDeleteThread \/ SqliteDeleteThread
    \/ PostgresDeleteWrites \/ PostgresDeleteRows \/ PostgresDeleteThread
    \/ RedisMembers \/ RedisDeleteThread
    \/ \E keep \in {0, KeepLatest} : PruneThread(keep)
    \/ Apply \/ ApplyYoung \/ ApplyUnpruned
    \/ Age

SaverSpec == SaverInit /\ [][SaverNext]_saverVars

-----------------------------------------------------------------------------
(***************************************************************************)
(* Properties.                                                             *)
(***************************************************************************)
\* Whatever was pruned, forked or put with only some of its channels changed,
\* a stored checkpoint loads with all its values, and a run holds all of them,
\* unless the thread was deleted beside a run (hydrate in every saver).
LoadsWhole ==
    /\ \A k \in DOMAIN rows \ orphans : LoadedValues(k) = StateChannels
    /\ threadRun.at \in {"running", "checked"} /\ threadRun.held.id # NoID /\ ~threadRun.torn
         => threadRun.held.got = StateChannels \/ <<threadRun.ns, threadRun.held.id>> \in orphans

\* A stored result is never replaced while its checkpoint stays, however calls
\* of PutWrites repeat or interleave (first-write-wins).
ResultsStable ==
    [][\A w \in pending :
          w.idx = "result" /\ w.key \in DOMAIN rows \cap DOMAIN rows' => w \in pending']_saverVars

\* DeleteThread removes every checkpoint that was stored when it was called:
\* in Redis, the thread's index names each record.
ThreadIndexComplete ==
    saverKind = "redis" => DOMAIN rows \ orphans \subseteq recordIndex.thread

\* The savers list the same history by different means: the newest matching
\* checkpoints up to the limit, newest first (List; in Redis through indexes
\* kept beside the records).  Only the thread's index of Redis misses a record,
\* one that was put while DeleteThread ran, or a descendant of one.
Unlisted(o) == IF saverKind = "redis" /\ o.ns = "thread" THEN orphans \ recordIndex.thread ELSE {}
ListsNewestFirst ==
    \A o \in ListOptions :
        LET matching == {k \in DOMAIN rows \ Unlisted(o) : InScope(k, o) /\ MetadataMatches(k, o)}
            Newer(k) == {j \in matching : j[2] > k[2]}
            listed == ListCheckpoints(o)
        IN  /\ {listed[i] : i \in DOMAIN listed} =
                 {k \in matching : o.limit = 0 \/ Cardinality(Newer(k)) < o.limit}
            /\ \A i, j \in DOMAIN listed : i < j => listed[i][2] > listed[j][2]

\* Whatever was pruned, forked or deleted, a stored checkpoint loads with all of
\* its values, DeleteThread finds its record, and List returns the history, newest
\* first (Get, DeleteThread and List of the savers).
CheckpointsWhole == LoadsWhole /\ ThreadIndexComplete /\ ListsNewestFirst
=============================================================================
