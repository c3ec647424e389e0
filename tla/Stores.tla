------------------------------- MODULE Stores --------------------------------
(***************************************************************************)
(* Batches and expiration in the long-term stores: memory, SQLite,         *)
(* PostgreSQL and Redis, behind the TTL manager's defaults.                *)
(*                                                                         *)
(* A batch reads some keys, perhaps refreshing their deadlines, and then   *)
(* puts or deletes others.  The memory and SQLite stores run a batch under *)
(* their mutex.  PostgreSQL runs it in a REPEATABLE READ transaction, in   *)
(* which a statement that meets a row changed since the snapshot fails,    *)
(* but a DELETE does not see a row that was inserted since, and an INSERT  *)
(* is free to put back one that was removed.  Redis reads the hash under   *)
(* WATCH and retries when EXEC finds that it changed.                      *)
(***************************************************************************)
EXTENDS Naturals, Sequences, FiniteSets, FiniteSetsExt

CONSTANTS
    StoreClients, StoreKeys,
    StoreBatches,    \* the batches that clients issue: gets [key, refresh] and a sequence of
                     \* puts [key, val, ttl, set]; set tells an explicit zero TTL from none
    DefaultTTL,      \* of the manager (0: none)
    MaxStoreTime,    \* bound: the last instant
    MaxExecAttempts, \* of a Redis transaction (256 in the code)
    MaxIssued        \* bound: batches issued

\* Operations name keys of the store, and times to live are not negative.
ASSUME StoreAssumption ==
    /\ DefaultTTL \in Nat
    /\ StoreBatches \subseteq
         [gets : SUBSET [key : StoreKeys, refresh : BOOLEAN],
          puts : Seq([key : StoreKeys, val : STRING, ttl : Nat, set : BOOLEAN])]

StoreKinds == {"memory", "sqlite", "postgres", "redis"}
NoItem == [val |-> "none", created |-> 0, exp |-> 0, ttl |-> 0]

VARIABLES
    storeKind, storeTime,
    items,    \* key -> stored item
    client,   \* the batch a client is executing
    sweeper,  \* Redis' SweepExpiredItems; when idle, keys is what the last one reported
    readings, \* what each client's last batch read (history)
    issuedBatches

storeVars == <<storeKind, storeTime, items, client, sweeper, readings, issuedBatches>>

NoBatch == [gets |-> {}, puts |-> <<>>]
IdleClient == [at |-> "idle", batch |-> NoBatch, snap |-> <<>>, seen |-> 0, dirty |-> FALSE,
    attempt |-> 0]
NothingRead == [k \in StoreKeys |-> "unread"]

StoreInit ==
    /\ storeKind \in StoreKinds /\ storeTime = 1
    /\ items = [k \in StoreKeys |-> NoItem]
    /\ client = [c \in StoreClients |-> IdleClient]
    /\ sweeper = [at |-> "idle", keys |-> {}, dirty |-> FALSE, attempt |-> 0]
    /\ readings = [c \in StoreClients |-> NothingRead]
    /\ issuedBatches = 0

-----------------------------------------------------------------------------
(***************************************************************************)
(* What a batch does.                                                      *)
(***************************************************************************)
\* Manager.Batch: defaults where nothing explicit was given.
WithDefaults(p) ==
    IF p.val = "delete" THEN p
    ELSE IF p.ttl > 0 THEN [p EXCEPT !.set = TRUE]
    ELSE IF ~p.set /\ DefaultTTL > 0 THEN [p EXCEPT !.ttl = DefaultTTL, !.set = TRUE]
    ELSE p

ItemExpired(item, t) == item.exp > 0 /\ item.exp <= t
Exists(item) == item # NoItem

\* Last write wins within a batch.
LastPut(b, k) ==
    LET ps == {i \in DOMAIN b.puts : b.puts[i].key = k}
    IN  IF ps = {} THEN <<>> ELSE <<WithDefaults(b.puts[Max(ps)])>>

\* The item after a put at time t over the old one: created_at survives.
StoredItem(p, old, t) ==
    IF p.val = "delete" THEN NoItem
    ELSE [val |-> p.val, created |-> IF Exists(old) THEN old.created ELSE t,
          exp |-> IF p.ttl > 0 THEN t + p.ttl ELSE 0, ttl |-> p.ttl]

Refreshed(item, t) == IF item.ttl > 0 THEN [item EXCEPT !.exp = t + item.ttl] ELSE item

\* Redis hides an expired record; the SQL stores show it until it is swept.
Visible(item, t) == IF storeKind = "redis" /\ ItemExpired(item, t) THEN NoItem ELSE item

ReadBy(b, snap, t) ==
    [k \in StoreKeys |-> IF \E g \in b.gets : g.key = k THEN Visible(snap[k], t).val ELSE "unread"]

\* The keys whose stored record the batch changes.
WrittenBy(b, snap, t) ==
    {k \in StoreKeys : \/ LastPut(b, k) # <<>>
                  \/ \E g \in b.gets : g.key = k /\ g.refresh /\ Visible(snap[k], t).ttl > 0}

\* The records a batch leaves, reads refreshed first: it read snap at time t and
\* counts its deadlines from a time that is not earlier.
ItemsAfter(b, snap, t, later) ==
    [k \in StoreKeys |->
        LET shown == Visible(snap[k], t)
            read == IF \E g \in b.gets : g.key = k /\ g.refresh THEN Refreshed(shown, later) ELSE shown
        IN  IF LastPut(b, k) # <<>> THEN StoredItem(LastPut(b, k)[1], shown, later) ELSE read]

\* The store once a client's batch has written these keys, what the client then
\* knows, and the watchers that notice.
Install(written, after, read, c) ==
    /\ items' = [k \in StoreKeys |-> IF k \in written THEN after[k] ELSE items[k]]
    /\ client' = [x \in StoreClients |->
         IF x = c THEN IdleClient
         ELSE [client[x] EXCEPT !.dirty = @ \/ (client[x].at # "idle" /\ items' # items)]]
    /\ sweeper' = [sweeper EXCEPT !.dirty = @ \/ (sweeper.at # "idle" /\ items' # items)]
    /\ readings' = [readings EXCEPT ![c] = read]

InstallBatch(b, snap, t, later, c) ==
    Install(WrittenBy(b, snap, t), ItemsAfter(b, snap, t, later), ReadBy(b, snap, t), c)

-----------------------------------------------------------------------------
(***************************************************************************)
(* Batch of each store.                                                    *)
(***************************************************************************)
IssueBatch(c, b) ==
    /\ client[c].at = "idle" /\ issuedBatches < MaxIssued
    /\ issuedBatches' = issuedBatches + 1

\* The memory store has no expiration and refuses a TTL.
MemoryBatch(c, b) ==
    /\ storeKind = "memory" /\ IssueBatch(c, b)
    /\ \A i \in DOMAIN b.puts : WithDefaults(b.puts[i]).ttl = 0
    /\ InstallBatch(b, items, storeTime, storeTime, c)
    /\ UNCHANGED <<storeKind, storeTime>>

SqliteBatch(c, b) ==
    /\ storeKind = "sqlite" /\ IssueBatch(c, b)
    /\ InstallBatch(b, items, storeTime, storeTime, c)
    /\ UNCHANGED <<storeKind, storeTime>>

\* The snapshot is taken by the first statement.
PostgresBegin(c, b) ==
    /\ storeKind = "postgres" /\ IssueBatch(c, b)
    /\ client' = [client EXCEPT ![c] = [IdleClient EXCEPT !.at = "began", !.batch = b, !.snap = items,
                                        !.seen = storeTime]]
    /\ UNCHANGED <<storeKind, storeTime, items, sweeper, readings>>

\* A DELETE or the refreshing UPDATE acts on the rows of the snapshot, so a DELETE
\* of a key that the snapshot lacks removes nothing.
PostgresWritten(b, snap, t) ==
    {k \in WrittenBy(b, snap, t) : LastPut(b, k) # <<>> /\ LastPut(b, k)[1].val = "delete" => Exists(snap[k])}
\* INSERT ... ON CONFLICT meets no row where another transaction removed it.
PutsBack(b, snap, k) ==
    /\ ~Exists(items[k])
    /\ LastPut(b, k) # <<>> /\ LastPut(b, k)[1].val # "delete"
    /\ \A g \in b.gets : g.key = k /\ g.refresh => snap[k].ttl = 0
\* The statements and the commit; a row that changed since the snapshot fails them.
PostgresCommit(c) ==
    LET b == client[c].batch
        snap == client[c].snap
        written == PostgresWritten(b, snap, storeTime) IN
    /\ client[c].at = "began"
    /\ IF \A k \in written : items[k] = snap[k] \/ PutsBack(b, snap, k)
       THEN Install(written, ItemsAfter(b, items, storeTime, storeTime), ReadBy(b, snap, storeTime), c)
       ELSE client' = [client EXCEPT ![c] = IdleClient] /\ UNCHANGED <<items, sweeper, readings>>
    /\ UNCHANGED <<storeKind, storeTime, issuedBatches>>

\* WATCH and HGETALL, at the time that the whole attempt uses.
RedisWatch(c, b) ==
    /\ storeKind = "redis" /\ IssueBatch(c, b)
    /\ client' = [client EXCEPT ![c] = [IdleClient EXCEPT !.at = "watching", !.batch = b, !.snap = items,
                                        !.seen = storeTime]]
    /\ UNCHANGED <<storeKind, storeTime, items, sweeper, readings>>

\* Mutant: the hash is not watched.
ExecBlindly(c) ==
    /\ client[c].at = "watching"
    /\ InstallBatch(client[c].batch, client[c].snap, client[c].seen, client[c].seen, c)
    /\ UNCHANGED <<storeKind, storeTime, issuedBatches>>
\* EXEC: refused if the hash changed; a batch without writes needs none.
RedisExec(c) ==
    LET b == client[c].batch IN
    /\ client[c].at = "watching"
    /\ ~client[c].dirty \/ WrittenBy(b, client[c].snap, client[c].seen) = {}
    /\ InstallBatch(b, client[c].snap, client[c].seen, client[c].seen, c)
    /\ UNCHANGED <<storeKind, storeTime, issuedBatches>>
RedisRetry(c) ==
    /\ client[c].at = "watching" /\ client[c].dirty
    /\ WrittenBy(client[c].batch, client[c].snap, client[c].seen) # {}
    /\ client' = [client EXCEPT ![c] =
         IF client[c].attempt + 1 >= MaxExecAttempts THEN IdleClient
         ELSE [client[c] EXCEPT !.attempt = @ + 1, !.snap = items, !.seen = storeTime, !.dirty = FALSE]]
    /\ UNCHANGED <<storeKind, storeTime, items, sweeper, readings, issuedBatches>>

\* get with a refresh: the deadline is taken from a later look at the clock.
RedisGetRefresh(c) ==
    LET b == client[c].batch IN
    /\ client[c].at = "watching" /\ ~client[c].dirty
    /\ b.puts = <<>> /\ WrittenBy(b, client[c].snap, client[c].seen) # {}
    /\ InstallBatch(b, client[c].snap, client[c].seen, storeTime, c)
    /\ UNCHANGED <<storeKind, storeTime, issuedBatches>>

\* A failing call, a cancelled context or a lost connection.
FailBatch(c) ==
    /\ client[c].at # "idle"
    /\ client' = [client EXCEPT ![c] = IdleClient]
    /\ UNCHANGED <<storeKind, storeTime, items, sweeper, readings, issuedBatches>>

-----------------------------------------------------------------------------
(***************************************************************************)
(* SweepExpiredItems.                                                      *)
(***************************************************************************)
DueItems == {k \in StoreKeys : Exists(items[k]) /\ ItemExpired(items[k], storeTime)}
RemoveItems(ks) ==
    /\ items' = [k \in StoreKeys |-> IF k \in ks THEN NoItem ELSE items[k]]
    /\ client' = [x \in StoreClients |->
                    [client[x] EXCEPT !.dirty = @ \/ (client[x].at # "idle" /\ ks # {})]]

\* DELETE ... RETURNING.
SqliteSweepExpiredItems ==
    /\ storeKind = "sqlite" /\ DueItems # {}
    /\ RemoveItems(DueItems)
    /\ UNCHANGED <<storeKind, storeTime, sweeper, readings, issuedBatches>>
PostgresSweepExpiredItems ==
    /\ storeKind = "postgres" /\ DueItems # {}
    /\ RemoveItems(DueItems)
    /\ UNCHANGED <<storeKind, storeTime, sweeper, readings, issuedBatches>>

RedisSweepWatch ==
    /\ storeKind = "redis" /\ sweeper.at = "idle" /\ DueItems # {}
    /\ sweeper' = [at |-> "watching", keys |-> DueItems, dirty |-> FALSE, attempt |-> 0]
    /\ UNCHANGED <<storeKind, storeTime, items, client, readings, issuedBatches>>

\* SweepExpiredItems returns what the caller takes as removed.
SweepReturns(reported) == sweeper' = [at |-> "idle", keys |-> reported, dirty |-> FALSE, attempt |-> 0]

RedisSweepExpiredItems ==
    /\ sweeper.at = "watching" /\ ~sweeper.dirty
    /\ RemoveItems(sweeper.keys)
    /\ SweepReturns(sweeper.keys)
    /\ UNCHANGED <<storeKind, storeTime, readings, issuedBatches>>
\* A sweep that was overtaken looks again; after its last attempt it still reports
\* what it found, since the error of Watch is assigned to a variable of the loop.
RedisSweepRetry ==
    /\ sweeper.at = "watching" /\ sweeper.dirty
    /\ IF sweeper.attempt + 1 >= MaxExecAttempts THEN SweepReturns(sweeper.keys)
       ELSE IF DueItems = {} THEN SweepReturns({})
       ELSE sweeper' = [at |-> "watching", keys |-> DueItems, dirty |-> FALSE,
                        attempt |-> sweeper.attempt + 1]
    /\ UNCHANGED <<storeKind, storeTime, items, client, readings, issuedBatches>>
\* So does one that another error ends; only waiting for the retry may return it.
RedisSweepFails ==
    /\ sweeper.at = "watching"
    /\ \/ SweepReturns(sweeper.keys)
       \/ sweeper.dirty /\ SweepReturns({})
    /\ UNCHANGED <<storeKind, storeTime, items, client, readings, issuedBatches>>

StoreTick ==
    /\ storeTime < MaxStoreTime /\ storeKind # "memory"
    /\ storeTime' = storeTime + 1
    /\ UNCHANGED <<storeKind, items, client, sweeper, readings, issuedBatches>>

-----------------------------------------------------------------------------
StoreNext ==
    \/ \E c \in StoreClients, b \in StoreBatches :
          MemoryBatch(c, b) \/ SqliteBatch(c, b) \/ PostgresBegin(c, b) \/ RedisWatch(c, b)
    \/ \E c \in StoreClients : PostgresCommit(c) \/ RedisExec(c) \/ RedisRetry(c) \/ RedisGetRefresh(c)
         \/ FailBatch(c)
    \/ SqliteSweepExpiredItems \/ PostgresSweepExpiredItems
    \/ RedisSweepWatch \/ RedisSweepExpiredItems \/ RedisSweepRetry \/ RedisSweepFails
    \/ StoreTick

StoreSpec == StoreInit /\ [][StoreNext]_storeVars

-----------------------------------------------------------------------------
(***************************************************************************)
(* Properties.                                                             *)
(***************************************************************************)
BatchApplied(c) ==
    client[c].at # "idle" /\ client'[c].at = "idle" /\ (items' # items \/ readings'[c] # readings[c])

\* PostgreSQL does not delete what was inserted since the batch's snapshot.
DeletesNothing(c, k) ==
    storeKind = "postgres" /\ LastPut(client[c].batch, k)[1].val = "delete" /\ ~Exists(client[c].snap[k])

\* When an optimistic batch takes effect, what it read is still there (Redis), each
\* key it puts holds the last put of that key, with the creation time of the item it
\* replaces, and no other key changes value; nor does one that it DeletesNothing of.
TakesEffectAtOnce(c) ==
    LET b == client[c].batch IN
    /\ storeKind = "redis" /\ (\E k \in StoreKeys : LastPut(b, k) # <<>>) =>
         \A g \in b.gets : readings'[c][g.key] = Visible(items[g.key], client[c].seen).val
    /\ \A k \in StoreKeys :
         LET p == LastPut(b, k) IN
         IF p # <<>> /\ ~DeletesNothing(c, k)
         THEN /\ items'[k].val = IF p[1].val = "delete" THEN "none" ELSE p[1].val
              /\ Exists(items[k]) /\ Exists(items'[k]) /\ ~ItemExpired(items[k], client[c].seen)
                   => items'[k].created = items[k].created
         ELSE items'[k].val = items[k].val

\* A live item disappears only by a batch that deletes it: the sweep never takes
\* one that was refreshed or put again since the sweep looked.
LiveItemKept(k) ==
    Exists(items[k]) /\ ~ItemExpired(items[k], storeTime) /\ ~Exists(items'[k])
      => \/ issuedBatches' # issuedBatches
         \/ \E c \in StoreClients : client[c].at # "idle" /\ client'[c].at = "idle"

\* A sweep of Redis that removes anything reports, to the index that is kept beside
\* the store, exactly the items that it removed.
ReportsRemoved ==
    sweeper.at = "watching" /\ sweeper'.at = "idle" /\ items' # items =>
      sweeper'.keys = {k \in StoreKeys : Exists(items[k]) /\ ~Exists(items'[k])}

\* A batch takes effect at once on what it read, whatever runs beside it, no live
\* item disappears but by a batch that deletes it, and a sweep that removes items
\* reports those (Batch, SweepExpiredItems).
BatchesAtomic ==
    [][/\ \A c \in StoreClients : BatchApplied(c) => TakesEffectAtOnce(c)
       /\ \A k \in StoreKeys : LiveItemKept(k)
       /\ ReportsRemoved]_storeVars
=============================================================================
