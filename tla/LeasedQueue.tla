----------------------------- MODULE LeasedQueue -----------------------------
(***************************************************************************)
(* The leased task queue of backend/distributed: MemoryQueue (queue.go)    *)
(* and PostgresQueue (postgres_queue.go) under arbitrary clients.          *)
(*                                                                         *)
(* Every queue method is one action: MemoryQueue runs it under a mutex,    *)
(* PostgresQueue in one transaction or one statement.  Clients keep every  *)
(* Lease a Claim ever returned (issued) and may present any of them at any *)
(* later time: late, twice, or after the task was claimed by another.      *)
(*                                                                         *)
(* MemoryQueue reads its clock under the mutex.  PostgresQueue reads the   *)
(* clock first and executes the statement later, so the statement uses a   *)
(* sample up to Lag older than the present; Lag = 0 is MemoryQueue.        *)
(***************************************************************************)
EXTENDS Naturals, FiniteSets

CONSTANTS
    Requests,   \* Enqueue requests clients make
    TaskIDs,    \* task IDs, explicit or drawn from the ID generator; ordered
    Tokens,     \* lease tokens the ID generator may return
    Workers,    \* worker IDs
    Payloads,   \* encoded payloads
    Keys,       \* idempotency keys
    NoKey,      \* EnqueueRequest.IdempotencyKey = ""
    NoToken,    \* Lease{}.Token
    NoWorker,   \* Lease{}.WorkerID
    Postgres,   \* TRUE: PostgresQueue, with its maintenance methods
    Lag,        \* how old a clock sample may be when its statement runs
    Delays,     \* Nack delays
    Durations,  \* lease durations and heartbeat extensions
    Limit,      \* largest Claim limit
    MaxTime     \* bound on the clock

ASSUME QueueAssumption ==
    /\ TaskIDs \subseteq Nat \ {0}
    /\ NoKey \notin Keys
    /\ NoToken \notin Tokens
    /\ NoWorker \notin Workers
    /\ Postgres \in BOOLEAN
    /\ Lag \in Nat
    /\ (~Postgres) => Lag = 0
    /\ Delays \subseteq Nat
    /\ Durations \subseteq Nat \ {0}
    /\ Limit \in Nat \ {0}
    /\ MaxTime \in Nat

NoID == 0                       \* EnqueueRequest.TaskID = ""
Immediately == MaxTime + 1      \* EnqueueRequest.AvailableAt.IsZero()
Times == 0 .. MaxTime

\* A request with no explicit time is available when it is enqueued.
Request == [task: TaskIDs \cup {NoID}, payload: Payloads,
            at: Times \cup {Immediately}, key: Keys \cup {NoKey}]

ASSUME RequestAssumption == Requests \subseteq Request

VARIABLES
    now,        \* what the clock shows
    records,    \* MemoryQueue.records / distributed_queue_tasks, by task ID
    bindings,   \* MemoryQueue.bindings / distributed_queue_idempotency
    usedIDs,    \* task IDs that were ever in the queue
    usedTokens, \* tokens the ID generator has returned
    issued      \* leases returned by Claim, as the clients remember them

vars == <<now, records, bindings, usedIDs, usedTokens, issued>>

-----------------------------------------------------------------------------
\* queueFingerprint hashes the payload and the request's own task ID and time,
\* before defaults are filled in; SHA-256 is taken to be injective.
Fingerprint(r) == [payload |-> r.payload, task |-> r.task, at |-> r.at]

Lease == [task: TaskIDs, token: Tokens, worker: Workers]

\* key is history: the idempotency key of the request that made the task.
Record == [payload: Payloads, attempt: Nat, enqueued: Nat, available: Nat,
           leased: BOOLEAN, token: Tokens \cup {NoToken},
           worker: Workers \cup {NoWorker}, expires: Nat, key: Keys \cup {NoKey}]

Binding == [task: TaskIDs,
            hash: [payload: Payloads, task: TaskIDs \cup {NoID},
                   at: Times \cup {Immediately}],
            created: Nat]

\* The clock samples a statement executed now may carry.
Samples == {at \in Times : at <= now /\ now <= at + Lag}

TypeOK ==
    /\ now \in Times
    /\ DOMAIN records \subseteq TaskIDs
    /\ records \in [DOMAIN records -> Record]
    /\ DOMAIN bindings \subseteq Keys
    /\ bindings \in [DOMAIN bindings -> Binding]
    /\ usedIDs \in SUBSET TaskIDs
    /\ usedTokens \in SUBSET Tokens
    /\ issued \in SUBSET Lease

-----------------------------------------------------------------------------
\* Adding an entry to a map, and dropping entries from it.
Put(f, k, v) == [x \in DOMAIN f \cup {k} |-> IF x = k THEN v ELSE f[x]]
Drop(f, S) == [x \in DOMAIN f \ S |-> f[x]]

Init ==
    /\ now = 0
    /\ records = [t \in {} |-> 0]
    /\ bindings = [k \in {} |-> 0]
    /\ usedIDs = {}
    /\ usedTokens = {}
    /\ issued = {}

\* The ID a request gets: its own, or one the generator never returned.
EnqueueID(r, id) ==
    IF r.task = NoID THEN id \in TaskIDs \ usedIDs ELSE id = r.task

\* The binding of a keyed request to the task it made.
BindKey(r, id, at) ==
    IF r.key = NoKey THEN bindings
    ELSE Put(bindings, r.key,
             [task |-> id, hash |-> Fingerprint(r), created |-> at])

\* Enqueue: a bound key answers without touching the queue (the same request
\* gets the bound task ID, another one ErrIdempotencyConflict); a present task
\* ID is refused; otherwise the task is stored and its key bound.
Enqueue(r, id, at) ==
    /\ r.key \notin DOMAIN bindings
    /\ EnqueueID(r, id)
    /\ id \notin DOMAIN records
    /\ records' = Put(records, id,
          [payload |-> r.payload, attempt |-> 0, enqueued |-> at,
           available |-> IF r.at = Immediately THEN at ELSE r.at,
           leased |-> FALSE, token |-> NoToken,
           worker |-> NoWorker, expires |-> 0, key |-> r.key])
    /\ usedIDs' = usedIDs \cup {id}
    /\ bindings' = BindKey(r, id, at)
    /\ UNCHANGED <<now, usedTokens, issued>>

-----------------------------------------------------------------------------
\* Mutant: leased tasks are taken too.
EligibleLeasedToo(at) ==
    {t \in DOMAIN records : records[t].available <= at}

\* The tasks Claim may hand out at a clock sample.
Eligible(at) ==
    {t \in DOMAIN records :
        /\ ~(records[t].leased /\ at < records[t].expires)
        /\ records[t].available <= at}

\* Claim's order: availability, then enqueue time, then ID.
Before(s, t) ==
    LET a == records[s]
        b == records[t]
    IN  \/ a.available < b.available
        \/ a.available = b.available /\ a.enqueued < b.enqueued
        \/ a.available = b.available /\ a.enqueued = b.enqueued /\ s < t

\* The first n tasks of S.
FirstOf(S, n) ==
    {t \in S : Cardinality({s \in S : Before(s, t)}) < n}

Injective(f) == \A x, y \in DOMAIN f : f[x] = f[y] => x = y

\* Claim leases a batch under fresh tokens.  FOR UPDATE SKIP LOCKED may leave
\* out tasks (skipped) whose rows a transaction that later fails has locked.
Claim(w, n, d, at, skipped, tok) ==
    LET batch == FirstOf(Eligible(at) \ skipped, n)
    IN  /\ batch # {}
        /\ DOMAIN tok = batch
        /\ \A t \in batch : tok[t] \in Tokens \ usedTokens
        /\ Injective(tok)
        /\ records' = [t \in DOMAIN records |->
              IF t \notin batch THEN records[t]
              ELSE [records[t] EXCEPT !.leased = TRUE, !.attempt = @ + 1,
                        !.token = tok[t], !.worker = w, !.expires = at + d]]
        /\ usedTokens' = usedTokens \cup {tok[t] : t \in batch}
        /\ issued' = issued \cup
              {[task |-> t, token |-> tok[t], worker |-> w] : t \in batch}
        /\ UNCHANGED <<now, bindings, usedIDs>>

\* Mutant: the token is not compared.
OwnedRecordNoToken(l, at) ==
    /\ l.task \in DOMAIN records
    /\ LET r == records[l.task]
       IN  r.leased /\ r.worker = l.worker /\ at < r.expires

\* Mutant: the expiry is not compared.
OwnedRecordNoExpiry(l, at) ==
    /\ l.task \in DOMAIN records
    /\ LET r == records[l.task]
       IN  r.leased /\ r.token = l.token /\ r.worker = l.worker

\* ownedRecord: the lease is the task's current one and has not expired.
OwnedRecord(l, at) ==
    /\ l.task \in DOMAIN records
    /\ LET r == records[l.task]
       IN  r.leased /\ r.token = l.token /\ r.worker = l.worker /\ at < r.expires

\* Ack removes the task; Nack releases it for later; Heartbeat moves the
\* expiry.  Each refuses a lease that ownedRecord refuses, changing nothing.
Ack(l, at) ==
    /\ OwnedRecord(l, at)
    /\ records' = Drop(records, {l.task})
    /\ UNCHANGED <<now, bindings, usedIDs, usedTokens, issued>>

Nack(l, delay, at) ==
    /\ OwnedRecord(l, at)
    /\ records' = [records EXCEPT ![l.task] =
          [@ EXCEPT !.leased = FALSE, !.token = NoToken, !.worker = NoWorker,
                    !.expires = 0, !.available = at + delay]]
    /\ UNCHANGED <<now, bindings, usedIDs, usedTokens, issued>>

Heartbeat(l, ext, at) ==
    /\ OwnedRecord(l, at)
    /\ records' = [records EXCEPT ![l.task] = [@ EXCEPT !.expires = at + ext]]
    /\ UNCHANGED <<now, bindings, usedIDs, usedTokens, issued>>

-----------------------------------------------------------------------------
\* PostgresQueue only: clears the ownership columns of expired leases.
ReleaseExpiredLeases(at) ==
    /\ Postgres
    /\ \E t \in DOMAIN records : records[t].leased /\ records[t].expires <= at
    /\ records' = [t \in DOMAIN records |->
          IF records[t].leased /\ records[t].expires <= at
          THEN [records[t] EXCEPT !.leased = FALSE, !.token = NoToken,
                                  !.worker = NoWorker, !.expires = 0]
          ELSE records[t]]
    /\ UNCHANGED <<now, bindings, usedIDs, usedTokens, issued>>

\* PostgresQueue only: forgets old keys whose task is gone.
PruneIdempotency(before) ==
    LET old == {k \in DOMAIN bindings :
                   /\ bindings[k].created < before
                   /\ bindings[k].task \notin DOMAIN records}
    IN  /\ Postgres
        /\ old # {}
        /\ bindings' = Drop(bindings, old)
        /\ UNCHANGED <<now, records, usedIDs, usedTokens, issued>>

Tick ==
    /\ now < MaxTime
    /\ now' = now + 1
    /\ UNCHANGED <<records, bindings, usedIDs, usedTokens, issued>>

Next ==
    \/ \E r \in Requests, id \in TaskIDs, at \in Samples : Enqueue(r, id, at)
    \/ \E w \in Workers, n \in 1 .. Limit, d \in Durations, at \in Samples :
          \E skipped \in (IF Postgres THEN SUBSET Eligible(at) ELSE {{}}) :
              \E tok \in [FirstOf(Eligible(at) \ skipped, n) -> Tokens \ usedTokens] :
                  Claim(w, n, d, at, skipped, tok)
    \/ \E l \in issued, at \in Samples : Ack(l, at)
    \/ \E l \in issued, delay \in Delays, at \in Samples : Nack(l, delay, at)
    \/ \E l \in issued, ext \in Durations, at \in Samples : Heartbeat(l, ext, at)
    \/ \E at \in Samples : ReleaseExpiredLeases(at)
    \/ \E before \in Times : PruneIdempotency(before)
    \/ Tick

Spec == Init /\ [][Next]_vars

-----------------------------------------------------------------------------
\* A client's lease is live: the queue would accept it on a fresh clock sample.
Live(l) ==
    /\ l.task \in DOMAIN records
    /\ records[l.task].leased
    /\ records[l.task].token = l.token
    /\ records[l.task].worker = l.worker
    /\ now < records[l.task].expires

\* Of all the leases ever handed out for a task, Ack, Nack and Heartbeat accept
\* at most one, whichever clock samples their statements carry: the fencing
\* promised by "Lease is an ownership fencing token" (queue.go ownedRecord).
OneAcceptedLease ==
    \A l, m \in issued : \A a, b \in Samples :
        l.task = m.task /\ OwnedRecord(l, a) /\ OwnedRecord(m, b) => l = m

\* An idempotency key never has two unacknowledged tasks: a retried Enqueue
\* after a lost answer, a redelivery, or a prune of old keys does not duplicate
\* work that is still queued (Enqueue and PruneIdempotency).
OneLiveTaskPerKey ==
    \A s, t \in DOMAIN records :
        records[s].key = records[t].key /\ records[s].key # NoKey => s = t

\* What a caller relies on when it retries: a task is accepted from one worker,
\* and a keyed request is one task (the token and the binding that Enqueue, Claim,
\* Ack, Nack and PruneIdempotency keep).
TasksOwnedOnce == OneAcceptedLease /\ OneLiveTaskPerKey

\* Claim never takes a task from a live lease: between a claim and its expiry
\* the task changes hands only by its owner's own Ack or Nack.
LiveLeaseNotStolen ==
    [][\A l \in issued :
          Live(l) /\ l.task \in DOMAIN records' =>
              records'[l.task].token \in {l.token, NoToken}]_vars

\* The token a fresh clock sample would accept for a task.
HolderOf(t) ==
    IF records[t].leased /\ now < records[t].expires THEN records[t].token ELSE NoToken

\* What clients see of the queue, without its clock.
Promise == INSTANCE TaskQueue WITH
    IDs <- TaskIDs,
    LeaseTokens <- Tokens,
    Unheld <- NoToken,
    used <- usedTokens,
    holder <- [t \in DOMAIN records |-> HolderOf(t)]

\* MemoryQueue implements the clockless queue: a task is leased only while
\* nobody holds it, removed only by its holder, and an expired lease, however
\* late its owner calls Ack, Nack or Heartbeat, is as good as none.
ImplementsTaskQueue == Promise!QueueSpec

\* With a clock read under the lock (MemoryQueue) a lost lease is lost for
\* good: no late Heartbeat, Nack or Claim makes it live again.
LostLeaseStaysLost ==
    [][\A l \in issued : ~Live(l) => ~Live(l)']_vars
=============================================================================
