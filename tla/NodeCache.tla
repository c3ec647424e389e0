------------------------------ MODULE NodeCache ------------------------------
(***************************************************************************)
(* The task cache of a compiled graph, over each of its four stores.       *)
(*                                                                         *)
(* A super-step looks its tasks up in one Get, runs the ones that it did   *)
(* not find, records their results as pending writes and puts them into    *)
(* the cache in one Set when all have ended; then it commits.  A result    *)
(* taken from the cache is not recorded.  The memory and SQLite stores     *)
(* hold their lock, PostgreSQL's Get selects and then deletes what has     *)
(* expired, and Redis finds what Clear must delete through sets of keys.   *)
(***************************************************************************)
EXTENDS Naturals, FiniteSets

CONSTANTS
    CacheRuns,
    CacheKeys,    \* cache keys of the step's tasks
    CachedNodes,  \* the namespaces: one per node
    NodeOf,       \* key -> node
    TTL,          \* key -> time to live, 0: for ever
    CacheKinds,   \* the stores to consider
    MaxCacheTime, \* bound: the last instant
    MaxValues     \* bound: executions of nodes

\* Each key belongs to the namespace of one node.
ASSUME CacheAssumption ==
    /\ CacheKinds \subseteq {"memory", "sqlite", "postgres", "redis"}
    /\ NodeOf \in [CacheKeys -> CachedNodes]
    /\ TTL \in [CacheKeys -> Nat]

VARIABLES
    cacheKind, cacheTime,
    entries,   \* key -> cached value and deadline
    keyIndex,  \* Redis: indexKey, the keys that Clear(nil) deletes
    keyLists,  \* Redis: namespaceKey, node -> keys
    cacheRun,  \* run -> the step it executes
    recorded,  \* run -> key -> pending write of the step
    evicting,  \* PostgreSQL: the key a Get selected and found expired
    clear,     \* Redis: a Clear between SMEMBERS and DEL
    cleared,   \* values that a finished Clear had to remove (history)
    executions \* executions so far; each yields a value of its own

cacheVars ==
    <<cacheKind, cacheTime, entries, keyIndex, keyLists, cacheRun, recorded, evicting, clear, cleared,
      executions>>

NoEntry == [val |-> 0, exp |-> 0]
NoHits == [k \in CacheKeys |-> 0]
IdleStep == [at |-> "idle", hits |-> NoHits]
IdleClear == [at |-> "idle", scope |-> {}, found |-> {}, due |-> {}]
NotEvicting == [key |-> 0, at |-> 0]

CacheInit ==
    /\ cacheKind \in CacheKinds /\ cacheTime = 1 /\ executions = 0
    /\ entries = [k \in CacheKeys |-> NoEntry]
    /\ keyIndex = {} /\ keyLists = [n \in CachedNodes |-> {}]
    /\ cacheRun = [r \in CacheRuns |-> IdleStep]
    /\ recorded = [r \in CacheRuns |-> NoHits]
    /\ evicting = NotEvicting /\ clear = IdleClear /\ cleared = {}

-----------------------------------------------------------------------------
(***************************************************************************)
(* The stores: Get, Set and Clear.                                         *)
(***************************************************************************)
EntryExpired(e) == e.exp > 0 /\ e.exp <= cacheTime
LiveEntry(k) == entries[k].val # 0 /\ ~EntryExpired(entries[k])
FoundValues(ks) == [k \in CacheKeys |-> IF k \in ks /\ LiveEntry(k) THEN entries[k].val ELSE 0]
WithoutEntries(ks) == [k \in CacheKeys |-> IF k \in ks THEN NoEntry ELSE entries[k]]
DeadEntries(ks) == {k \in ks : entries[k].val # 0 /\ EntryExpired(entries[k])}

\* Get deletes what has expired: in the same critical section,
MemoryGet(ks) == cacheKind = "memory" /\ entries' = WithoutEntries(DeadEntries(ks)) /\ UNCHANGED evicting
SqliteGet(ks) == cacheKind = "sqlite" /\ entries' = WithoutEntries(DeadEntries(ks)) /\ UNCHANGED evicting
\* by a statement of its own,
PostgresGet(ks) ==
    /\ cacheKind = "postgres" /\ evicting = NotEvicting
    /\ evicting' \in IF DeadEntries(ks) = {} THEN {NotEvicting}
                     ELSE {[key |-> k, at |-> cacheTime] : k \in DeadEntries(ks)}
    /\ UNCHANGED entries
\* Mutant: the row is deleted whatever it holds now.
EvictBlindly ==
    /\ evicting # NotEvicting
    /\ entries' = WithoutEntries({evicting.key})
    /\ evicting' = NotEvicting
    /\ UNCHANGED <<cacheKind, cacheTime, keyIndex, keyLists, cacheRun, recorded, clear, cleared,
                   executions>>
PostgresEvict ==
    LET e == entries[evicting.key] IN
    /\ evicting # NotEvicting
    /\ entries' = IF e.exp > 0 /\ e.exp <= evicting.at THEN WithoutEntries({evicting.key}) ELSE entries
    /\ evicting' = NotEvicting
    /\ UNCHANGED <<cacheKind, cacheTime, keyIndex, keyLists, cacheRun, recorded, clear, cleared,
                   executions>>
\* or not at all: Redis expires keys itself and their names stay listed.
RedisGet(ks) == cacheKind = "redis" /\ entries' = WithoutEntries(DeadEntries(ks)) /\ UNCHANGED evicting

StoredEntries(new) ==
    [k \in CacheKeys |-> IF new[k] = 0 THEN entries[k]
                    ELSE [val |-> new[k], exp |-> IF TTL[k] > 0 THEN cacheTime + TTL[k] ELSE 0]]
MemorySet(new) ==
    /\ cacheKind = "memory" /\ entries' = StoredEntries(new)
    /\ UNCHANGED <<keyIndex, keyLists>>
SqliteSet(new) ==
    /\ cacheKind = "sqlite" /\ entries' = StoredEntries(new)
    /\ UNCHANGED <<keyIndex, keyLists>>
PostgresSet(new) ==
    /\ cacheKind = "postgres" /\ entries' = StoredEntries(new)
    /\ UNCHANGED <<keyIndex, keyLists>>
\* SET and three SADDs for each item in one MULTI.
RedisSet(new) ==
    LET ks == {k \in CacheKeys : new[k] # 0} IN
    /\ cacheKind = "redis"
    /\ entries' = StoredEntries(new)
    /\ keyIndex' = keyIndex \cup ks
    /\ keyLists' = [n \in CachedNodes |-> keyLists[n] \cup {k \in ks : NodeOf[k] = n}]

\* What Clear must remove: the values of these nodes that are there when it starts.
DueValues(scope) == {entries[k].val : k \in {x \in CacheKeys : NodeOf[x] \in scope}} \ {0}
ClearNow(store, scope) ==
    /\ cacheKind = store
    /\ entries' = WithoutEntries({k \in CacheKeys : NodeOf[k] \in scope})
    /\ cleared' = cleared \cup DueValues(scope)
    /\ UNCHANGED <<cacheKind, cacheTime, keyIndex, keyLists, cacheRun, recorded, evicting, clear,
                   executions>>
MemoryClear(scope) == ClearNow("memory", scope)
SqliteClear(scope) == ClearNow("sqlite", scope)
PostgresClear(scope) == ClearNow("postgres", scope)

\* SMEMBERS of the index, or of one namespace (the code clears a list of them
\* one by one), and then the deletions.
RedisClearList(scope) ==
    /\ cacheKind = "redis" /\ clear = IdleClear
    /\ clear' = [at |-> "listed", scope |-> scope, due |-> DueValues(scope),
                 found |-> IF scope = CachedNodes THEN keyIndex ELSE UNION {keyLists[n] : n \in scope}]
    /\ UNCHANGED <<cacheKind, cacheTime, entries, keyIndex, keyLists, cacheRun, recorded, evicting,
                   cleared, executions>>
RedisClear ==
    /\ clear.at = "listed"
    /\ entries' = WithoutEntries(clear.found)
    /\ keyIndex' = IF clear.scope = CachedNodes THEN {} ELSE keyIndex \ clear.found
    /\ keyLists' = [n \in CachedNodes |-> IF n \in clear.scope THEN {} ELSE keyLists[n]]
    /\ cleared' = cleared \cup clear.due
    /\ clear' = IdleClear
    /\ UNCHANGED <<cacheKind, cacheTime, cacheRun, recorded, evicting, executions>>

-----------------------------------------------------------------------------
(***************************************************************************)
(* A super-step of cached tasks.                                           *)
(***************************************************************************)
\* getCachedBatch: one Get for the tasks that no pending write restores.
Prefetch(r) ==
    LET ks == {k \in CacheKeys : recorded[r][k] = 0} IN
    /\ cacheRun[r].at = "idle"
    /\ MemoryGet(ks) \/ SqliteGet(ks) \/ PostgresGet(ks) \/ RedisGet(ks)
    /\ cacheRun' = [cacheRun EXCEPT ![r] = [at |-> "running", hits |-> FoundValues(ks)]]
    /\ UNCHANGED <<cacheKind, cacheTime, keyIndex, keyLists, recorded, clear, cleared, executions>>

\* invokeNode, prepareCached and PutWrites for a task that was not found.
ExecuteTask(r, k) ==
    /\ cacheRun[r].at = "running" /\ cacheRun[r].hits[k] = 0 /\ recorded[r][k] = 0
    /\ executions < MaxValues
    /\ executions' = executions + 1
    /\ recorded' = [recorded EXCEPT ![r][k] = executions + 1]
    /\ cacheRun' = [cacheRun EXCEPT ![r].hits[k] = executions + 1]
    /\ UNCHANGED <<cacheKind, cacheTime, entries, keyIndex, keyLists, evicting, clear, cleared>>

\* The step's results enter the cache once all tasks have ended.
StepResults(r) == [k \in CacheKeys |-> IF cacheRun[r].hits[k] # 0 THEN cacheRun[r].hits[k]
                                       ELSE recorded[r][k]]
FillCache(r) ==
    LET new == [k \in CacheKeys |-> IF recorded[r][k] # 0 THEN cacheRun[r].hits[k] ELSE 0]
    IN  MemorySet(new) \/ SqliteSet(new) \/ PostgresSet(new) \/ RedisSet(new)
Fill(r) ==
    /\ cacheRun[r].at = "running" /\ \A k \in CacheKeys : StepResults(r)[k] # 0
    /\ FillCache(r)
    /\ cacheRun' = [cacheRun EXCEPT ![r] = [at |-> "filled", hits |-> StepResults(r)]]
    /\ UNCHANGED <<cacheKind, cacheTime, recorded, evicting, clear, cleared, executions>>
\* A task failed: the results of the others enter the cache, the step fails.
FillFailed(r) ==
    /\ cacheRun[r].at = "running" /\ \E k \in CacheKeys : StepResults(r)[k] = 0
    /\ FillCache(r)
    /\ cacheRun' = [cacheRun EXCEPT ![r] = IdleStep]
    /\ UNCHANGED <<cacheKind, cacheTime, recorded, evicting, clear, cleared, executions>>
CommitStep(r) ==
    /\ cacheRun[r].at = "filled"
    /\ recorded' = [recorded EXCEPT ![r] = NoHits]
    /\ cacheRun' = [cacheRun EXCEPT ![r] = IdleStep]
    /\ UNCHANGED <<cacheKind, cacheTime, entries, keyIndex, keyLists, evicting, clear, cleared,
                   executions>>
\* The process dies, or a cache call fails the step: pending writes remain.
CrashStep(r) ==
    /\ cacheRun[r].at # "idle"
    /\ cacheRun' = [cacheRun EXCEPT ![r] = IdleStep]
    /\ UNCHANGED <<cacheKind, cacheTime, entries, keyIndex, keyLists, recorded, evicting, clear, cleared,
                   executions>>

CacheTick ==
    /\ cacheTime < MaxCacheTime
    /\ cacheTime' = cacheTime + 1
    /\ UNCHANGED <<cacheKind, entries, keyIndex, keyLists, cacheRun, recorded, evicting, clear, cleared,
                   executions>>

-----------------------------------------------------------------------------
ClearScopes == {CachedNodes} \cup {{n} : n \in CachedNodes}
CacheNext ==
    \/ \E r \in CacheRuns :
          \/ Prefetch(r) \/ Fill(r) \/ FillFailed(r) \/ CommitStep(r) \/ CrashStep(r)
          \/ \E k \in CacheKeys : ExecuteTask(r, k)
    \/ \E scope \in ClearScopes :
          MemoryClear(scope) \/ SqliteClear(scope) \/ PostgresClear(scope) \/ RedisClearList(scope)
    \/ RedisClear \/ PostgresEvict \/ CacheTick

CacheSpec == CacheInit /\ [][CacheNext]_cacheVars

-----------------------------------------------------------------------------
(***************************************************************************)
(* Properties.                                                             *)
(***************************************************************************)
\* An entry that no set of names lists any more.
OrphanEntry(k) ==
    /\ cacheKind = "redis" /\ entries[k].val # 0
    /\ (k \notin keyIndex \/ k \notin keyLists[NodeOf[k]])

\* A live entry disappears only by Clear, never because a Get that saw an older,
\* expired entry deletes late; and what a Clear had to remove stays removed: no
\* later lookup returns it, unless a Redis Clear overlapped the Set and left the
\* entry without a name (Get, Set and Clear of the stores).
CacheHonest ==
    [][/\ \A k \in CacheKeys :
            LiveEntry(k) /\ entries'[k].val = 0 => cleared' # cleared \/ clear' # clear
       /\ \A r \in CacheRuns, k \in CacheKeys :
            cacheRun[r].at = "idle" /\ cacheRun'[r].at = "running"
              /\ cacheRun'[r].hits[k] \in cleared => OrphanEntry(k)]_cacheVars
=============================================================================
