---------------------------- MODULE DistributedRun -----------------------------
(***************************************************************************)
(* Super-steps executed by a pool of workers (backend/distributed).        *)
(* Drivers turn checkpoints into queued tasks (Scheduler), wait for their  *)
(* results (Barrier) and publish the next checkpoint (StepCoordinator);    *)
(* workers claim tasks, run the node and commit its result as a pending    *)
(* write of the checkpoint (Worker, WithOutbox, CheckpointOutbox or        *)
(* PostgresCheckpointOutbox).  Leases expire, workers stop and die, calls  *)
(* fail, and several drivers may serve one thread.                         *)
(*                                                                         *)
(* The queue is TaskQueue: LeasedQueue without its clock.  Checkpoint k of *)
(* a thread has the tasks Layers[k]; a graph without tasks left is done.   *)
(***************************************************************************)
EXTENDS Naturals, Sequences, FiniteSets, FiniteSetsExt

CONSTANTS
    Threads,    \* threads that share the queue
    Layers,     \* the nodes of each super-step, as sequences in task order
    Values,     \* what a node may return: one value for a deterministic node
    NoValue,
    Pool,       \* worker processes
    Slots,      \* MaxConcurrency of each, as a set
    Drivers,    \* processes that schedule, collect and commit
    AtomicWorkers, \* those with PostgresCheckpointOutbox, which acknowledges
                \* the lease in the transaction that writes the result
    MaxClaims,  \* bound on claims
    MaxPuts,    \* bound on the clock: readings of repeated commits of one checkpoint
    MaxFaults   \* bound on failing calls, lost leases, failing nodes, crashes

Jobs == Pool \X Slots
Last == Len(Layers) + 1

\* A task of a thread.  Its ID in the queue, "step:%d:task:%d:node:%s", does
\* not name the thread.
NodesOf(k) == IF k \in DOMAIN Layers THEN {Layers[k][i] : i \in DOMAIN Layers[k]} ELSE {}
AllTasks == {<<th, k, n>> : th \in Threads, k \in DOMAIN Layers,
                            n \in UNION {NodesOf(k) : k \in DOMAIN Layers}}
StepTasks(th, k) == {<<th, k, n>> : n \in NodesOf(k)}
QueueID(t) == <<t[2], t[3]>>

ASSUME DistributedAssumption ==
    /\ Layers \in Seq(Seq(UNION {NodesOf(k) : k \in DOMAIN Layers}))
    /\ \A k \in DOMAIN Layers : Len(Layers[k]) > 0
    /\ NoValue \notin Values
    /\ AtomicWorkers \subseteq Pool
    /\ MaxClaims \in Nat /\ MaxPuts \in Nat \ {0} /\ MaxFaults \in Nat

VARIABLES
    holder,     \* the queue: see TaskQueue
    used,
    payload,    \* the task each queued ID stands for
    keys,       \* idempotency keys: for each bound task the time in its payload
    stamp,      \* Timestamp of each checkpoint; 0: not published
    folded,     \* the results its state is the reduction of
    result,     \* pending task results (index 0) of every task
    up,         \* each worker: "up", "stopping" (its group failed) or "down"
    job,        \* each slot: its step, task, token and the node's value
    driver,     \* each driver: its step and what it read
    acked,      \* history: tasks removed from the queue
    faults

Q == INSTANCE TaskQueue WITH
    IDs <- {QueueID(t) : t \in AllTasks}, LeaseTokens <- 1 .. MaxClaims, Unheld <- 0

leases == <<holder, used>>
checkpoints == <<stamp, folded, result>>
poolVars ==
    <<holder, used, payload, keys, stamp, folded, result, up, job, driver, acked, faults>>

NoTask == <<0, 0, 0>>
Free == [pc |-> "free", task |-> NoTask, token |-> 0, value |-> NoValue]
Resting == [pc |-> "idle", thread |-> 0, k |-> 0, todo |-> {}, time |-> 0,
            results |-> [t \in {} |-> NoValue]]

PoolInit ==
    /\ Q!QueueInit
    /\ payload = [id \in {} |-> NoTask]
    /\ keys = [t \in {} |-> 0]
    /\ stamp = [c \in Threads \X (1 .. Last) |-> IF c[2] = 1 THEN 1 ELSE 0]
    /\ folded = [c \in Threads \X (1 .. Last) |-> [t \in {} |-> NoValue]]
    /\ result = [t \in AllTasks |-> NoValue]
    /\ up = [w \in Pool |-> "up"]
    /\ job = [j \in Jobs |-> Free]
    /\ driver = [d \in Drivers |-> Resting]
    /\ acked = {}
    /\ faults = 0

Fault == faults < MaxFaults /\ faults' = faults + 1

-----------------------------------------------------------------------------
\* Scheduler.Schedule reads the checkpoint: the tasks without a result, by their
\* position in the super-step, and the time that goes into their payloads.
Schedule(d, th, k) ==
    /\ driver[d].pc = "idle"
    /\ stamp[<<th, k>>] > 0
    /\ LET open == {i \in DOMAIN Layers[k] : result[<<th, k, Layers[k][i]>>] = NoValue}
       IN  /\ open # {}
           /\ driver' = [driver EXCEPT ![d] =
                 [Resting EXCEPT !.pc = "scheduling", !.thread = th, !.k = k,
                     !.todo = open, !.time = stamp[<<th, k>>]]]
    /\ UNCHANGED <<leases, payload, keys, checkpoints, up, job, acked, faults>>

\* The record of an enqueued task carries its payload.
PayloadWith(t) ==
    [id \in DOMAIN payload \cup {QueueID(t)} |-> IF id = QueueID(t) THEN t ELSE payload[id]]

\* A bound key answers for an equal payload and refuses another one; an ID that
\* is queued for something else is refused.
EnqueueTask(d, i) ==
    LET s == driver[d]
        t == <<s.thread, s.k, Layers[s.k][i]>>
        rest == s.todo \ {i}
        next == IF rest = {} THEN Resting ELSE [s EXCEPT !.todo = rest]
    IN  /\ \/ /\ t \in DOMAIN keys
              /\ keys[t] = s.time
              /\ driver' = [driver EXCEPT ![d] = next]
              /\ UNCHANGED <<leases, payload, keys>>
           \/ /\ \/ t \in DOMAIN keys /\ keys[t] # s.time
                 \/ t \notin DOMAIN keys /\ QueueID(t) \in DOMAIN holder
              /\ driver' = [driver EXCEPT ![d] = Resting]
              /\ UNCHANGED <<leases, payload, keys>>
           \/ /\ t \notin DOMAIN keys
              /\ Q!Add(QueueID(t))
              /\ payload' = PayloadWith(t)
              /\ keys' = [x \in DOMAIN keys \cup {t} |->
                    IF x = t THEN s.time ELSE keys[x]]
              /\ driver' = [driver EXCEPT ![d] = next]
        /\ UNCHANGED <<checkpoints, up, job, acked, faults>>

\* They are enqueued one by one, in task order.
EnqueueNext(d) ==
    /\ driver[d].pc = "scheduling"
    /\ \E i \in driver[d].todo :
          /\ \A x \in driver[d].todo : i <= x
          /\ EnqueueTask(d, i)

\* PostgresQueue.PruneIdempotency: keys of tasks that left the queue.
PruneTaskKeys ==
    LET gone == {t \in DOMAIN keys : QueueID(t) \notin DOMAIN holder}
    IN  /\ gone # {}
        /\ Fault
        /\ keys' = [t \in DOMAIN keys \ gone |-> keys[t]]
        /\ UNCHANGED <<leases, payload, checkpoints, up, job, driver, acked>>

\* Barrier.Collect: ready when every task has a result.
Collect(d, th, k) ==
    /\ driver[d].pc = "idle"
    /\ stamp[<<th, k>>] > 0
    /\ k < Last
    /\ \A t \in StepTasks(th, k) : result[t] # NoValue
    /\ driver' = [driver EXCEPT ![d] =
          [Resting EXCEPT !.pc = "ready", !.thread = th, !.k = k,
              !.results = [t \in StepTasks(th, k) |-> result[t]]]]
    /\ UNCHANGED <<leases, payload, keys, checkpoints, up, job, acked, faults>>

\* StepCoordinator.Commit puts the child checkpoint under its deterministic ID,
\* with the time of the call; an earlier one is replaced, its pending writes
\* stay.
Commit(d) ==
    LET c == <<driver[d].thread, driver[d].k + 1>>
    IN  /\ driver[d].pc = "ready"
        /\ stamp' = [stamp EXCEPT ![c] = IF @ < MaxPuts THEN @ + 1 ELSE @]
        /\ folded' = [folded EXCEPT ![c] = driver[d].results]
        /\ driver' = [driver EXCEPT ![d] = Resting]
        /\ UNCHANGED <<leases, payload, keys, result, up, job, acked, faults>>

\* A driver dies, or one of its calls fails before it reached the store; a call
\* that failed after it did is its success followed by the driver's death.
DriverFails(d) ==
    /\ driver[d].pc # "idle"
    /\ Fault
    /\ driver' = [driver EXCEPT ![d] = Resting]
    /\ UNCHANGED <<leases, payload, keys, checkpoints, up, job, acked>>

-----------------------------------------------------------------------------
Atomic(j) == j[1] \in AtomicWorkers
Holds(j) ==
    QueueID(job[j].task) \in DOMAIN holder /\ holder[QueueID(job[j].task)] = job[j].token

\* Worker.claimLoop: a free slot claims a task nobody holds.
ClaimTask(j) ==
    LET token == Cardinality(used) + 1
    IN  /\ up[j[1]] = "up"
        /\ job[j].pc = "free"
        /\ token <= MaxClaims
        /\ \E id \in DOMAIN holder :
              /\ Q!Take([x \in {id} |-> token])
              /\ job' = [job EXCEPT ![j] =
                    [Free EXCEPT !.pc = "run", !.task = payload[id], !.token = token]]
        /\ UNCHANGED <<payload, keys, checkpoints, up, driver, acked, faults>>

\* Mutant: the task is acknowledged before its result is written.
ReturnUncommitted(j, v) ==
    /\ job[j].pc = "run"
    /\ job' = [job EXCEPT ![j].value = v, ![j].pc = "ack"]
    /\ UNCHANGED <<leases, payload, keys, checkpoints, up, driver, acked, faults>>

\* The node returns and CheckpointOutbox.Commit reads the checkpoint: a result
\* that is there already must be the same one.
Return(j, v) ==
    /\ job[j].pc = "run"
    /\ job' = [job EXCEPT ![j].value = v,
          ![j].pc = IF Atomic(j) \/ result[job[j].task] = NoValue THEN "write"
                    ELSE IF result[job[j].task] = v THEN "ack" ELSE "nack"]
    /\ UNCHANGED <<leases, payload, keys, checkpoints, up, driver, acked, faults>>

\* PutWrites: the first result of a task stays.
FirstWriteWins(j) ==
    IF result[job[j].task] = NoValue
    THEN [result EXCEPT ![job[j].task] = job[j].value] ELSE result

\* CheckpointOutbox writes the result and reads it back: the worker may go on
\* to Ack only with the result that is stored.
Write(j) ==
    /\ ~Atomic(j)
    /\ job[j].pc = "write"
    /\ result' = FirstWriteWins(j)
    /\ job' = [job EXCEPT ![j].pc = IF result'[job[j].task] = job[j].value THEN "ack" ELSE "nack"]
    /\ UNCHANGED <<leases, payload, keys, stamp, folded, up, driver, acked, faults>>

\* PostgresCheckpointOutbox: result and acknowledgement are one transaction.
\* It commits for the lease holder, and for a late worker whose task is gone
\* and whose result is the stored one; otherwise it stores nothing.
WriteAndAck(j) ==
    LET t == job[j].task
        same == FirstWriteWins(j)[t] = job[j].value
    IN  /\ Atomic(j)
        /\ job[j].pc = "write"
        /\ \/ /\ same /\ Holds(j)
              /\ result' = FirstWriteWins(j)
              /\ Q!Remove(QueueID(t), job[j].token)
              /\ acked' = acked \cup {t}
              /\ job' = [job EXCEPT ![j] = Free]
           \/ /\ same /\ QueueID(t) \notin DOMAIN holder /\ result[t] # NoValue
              /\ job' = [job EXCEPT ![j] = Free]
              /\ UNCHANGED <<leases, result, acked>>
           \/ /\ ~same \/ (~Holds(j) /\ (QueueID(t) \in DOMAIN holder \/ result[t] = NoValue))
              /\ job' = [job EXCEPT ![j].pc = "nack"]
              /\ UNCHANGED <<leases, result, acked>>
        /\ UNCHANGED <<payload, keys, stamp, folded, up, driver, faults>>

\* The node or a panic fails the handler, or the outbox does: its call may have
\* reached the store, for a transaction with the acknowledgement.
HandlerFails(j) ==
    LET t == job[j].task
    IN  /\ job[j].pc \in {"run", "write"}
        /\ Fault
        /\ job' = [job EXCEPT ![j].pc = "nack"]
        /\ \/ UNCHANGED <<leases, result, acked>>
           \/ /\ job[j].pc = "write" /\ ~Atomic(j)
              /\ result' = FirstWriteWins(j)
              /\ UNCHANGED <<leases, acked>>
           \/ /\ job[j].pc = "write" /\ Atomic(j)
              /\ FirstWriteWins(j)[t] = job[j].value
              /\ result' = FirstWriteWins(j)
              /\ Q!Remove(QueueID(t), job[j].token)
              /\ acked' = acked \cup {t}
        /\ UNCHANGED <<payload, keys, stamp, folded, up, driver>>

\* An error of process fails the worker's group: its context is cancelled.
GroupFails(j) ==
    /\ job' = [job EXCEPT ![j] = Free]
    /\ up' = [up EXCEPT ![j[1]] = "stopping"]

\* Worker.process acknowledges, or gives the lease back; without the lease the
\* worker stops.
AckTask(j) ==
    /\ job[j].pc = "ack"
    /\ \/ /\ Holds(j)
          /\ Q!Remove(QueueID(job[j].task), job[j].token)
          /\ acked' = acked \cup {job[j].task}
          /\ job' = [job EXCEPT ![j] = Free]
          /\ UNCHANGED up
       \/ ~Holds(j) /\ GroupFails(j) /\ UNCHANGED <<leases, acked>>
    /\ UNCHANGED <<payload, keys, checkpoints, driver, faults>>

NackTask(j) ==
    /\ job[j].pc = "nack"
    /\ \/ /\ Holds(j)
          /\ Q!Release({QueueID(job[j].task)})
          /\ job' = [job EXCEPT ![j] = Free]
          /\ UNCHANGED up
       \/ ~Holds(j) /\ GroupFails(j) /\ UNCHANGED leases
    /\ UNCHANGED <<payload, keys, checkpoints, driver, acked, faults>>

\* The queue does not answer Ack or Nack.
QueueCallFails(j) ==
    /\ job[j].pc \in {"ack", "nack"}
    /\ Fault
    /\ GroupFails(j)
    /\ UNCHANGED <<leases, payload, keys, checkpoints, driver, acked>>

\* Worker.heartbeat finds the lease lost and cancels the handler, which returns
\* without a result.
HeartbeatLost(j) ==
    /\ job[j].pc \in {"run", "write"}
    /\ ~Holds(j)
    /\ GroupFails(j)
    /\ UNCHANGED <<leases, payload, keys, checkpoints, driver, acked, faults>>

\* The worker's context is cancelled: process returns without Ack or Nack.
Cancelled(j) ==
    /\ up[j[1]] = "stopping"
    /\ job[j].pc # "free"
    /\ job' = [job EXCEPT ![j] = Free]
    /\ UNCHANGED <<leases, payload, keys, checkpoints, up, driver, acked, faults>>

\* Run returns once its tasks are joined; a supervisor starts it again.
Restart(w) ==
    /\ \/ up[w] = "down"
       \/ up[w] = "stopping" /\ \A s \in Slots : job[<<w, s>>].pc = "free"
    /\ up' = [up EXCEPT ![w] = "up"]
    /\ UNCHANGED <<leases, payload, keys, checkpoints, job, driver, acked, faults>>

\* The process dies, or its caller cancels it.
Crash(w) ==
    /\ up[w] = "up"
    /\ Fault
    /\ \/ /\ up' = [up EXCEPT ![w] = "down"]
          /\ job' = [j \in Jobs |-> IF j[1] = w THEN Free ELSE job[j]]
       \/ /\ up' = [up EXCEPT ![w] = "stopping"]
          /\ UNCHANGED job
    /\ UNCHANGED <<leases, payload, keys, checkpoints, driver, acked>>

\* A lease runs out: its owner is gone, or its heartbeats came too late.
Owned(id) == \E j \in Jobs : job[j].pc # "free" /\ job[j].token = holder[id]
Expire(id) ==
    /\ id \in DOMAIN holder
    /\ holder[id] # 0
    /\ IF Owned(id) THEN Fault ELSE UNCHANGED faults
    /\ Q!Release({id})
    /\ UNCHANGED <<payload, keys, checkpoints, up, job, driver, acked>>

-----------------------------------------------------------------------------
JobStep(j) ==
    \/ \E v \in Values : Return(j, v)
    \/ Write(j) \/ WriteAndAck(j) \/ AckTask(j) \/ NackTask(j) \/ Cancelled(j)

DriverStep(d) ==
    \/ EnqueueNext(d) \/ Commit(d)

PoolNext ==
    \/ \E d \in Drivers, th \in Threads :
          \E k \in DOMAIN Layers : Schedule(d, th, k) \/ Collect(d, th, k)
    \/ \E d \in Drivers : DriverStep(d) \/ DriverFails(d)
    \/ \E j \in Jobs : ClaimTask(j) \/ JobStep(j) \/ HandlerFails(j) \/ QueueCallFails(j)
                          \/ HeartbeatLost(j)
    \/ \E w \in Pool : Restart(w) \/ Crash(w)
    \/ \E id \in DOMAIN holder : Expire(id)
    \/ PruneTaskKeys

PoolSpec == PoolInit /\ [][PoolNext]_poolVars

\* The driver of a thread keeps scheduling and collecting its latest checkpoint,
\* and goes on with what it started; workers keep claiming and their handlers
\* return; a supervisor restarts them; a lease without an owner runs out.
LatestOf(th) == Max({k \in 1 .. Last : stamp[<<th, k>>] > 0})
Fairness ==
    /\ \A th \in Threads :
          /\ SF_poolVars(\E d \in Drivers, k \in DOMAIN Layers : k = LatestOf(th) /\ Schedule(d, th, k))
          /\ SF_poolVars(\E d \in Drivers, k \in DOMAIN Layers : k = LatestOf(th) /\ Collect(d, th, k))
    /\ \A d \in Drivers : WF_poolVars(DriverStep(d))
    /\ \A j \in Jobs : SF_poolVars(ClaimTask(j)) /\ WF_poolVars(JobStep(j))
    /\ \A w \in Pool : WF_poolVars(Restart(w))
    /\ WF_poolVars(\E id \in DOMAIN holder : ~Owned(id) /\ Expire(id))
FairSpec == PoolSpec /\ Fairness

-----------------------------------------------------------------------------
PoolTypeOK ==
    /\ DOMAIN holder \subseteq {QueueID(t) : t \in AllTasks}
    /\ \A id \in DOMAIN holder : holder[id] \in used \cup {0}
    /\ used \subseteq 1 .. MaxClaims
    /\ \A id \in DOMAIN payload : payload[id] \in AllTasks /\ QueueID(payload[id]) = id
    /\ DOMAIN holder \subseteq DOMAIN payload
    /\ DOMAIN keys \subseteq AllTasks
    /\ \A t \in DOMAIN keys : keys[t] \in 1 .. MaxPuts
    /\ stamp \in [Threads \X (1 .. Last) -> 0 .. MaxPuts]
    /\ result \in [AllTasks -> Values \cup {NoValue}]
    /\ up \in [Pool -> {"up", "stopping", "down"}]
    /\ job \in [Jobs -> [pc: {"free", "run", "write", "ack", "nack"},
                         task: AllTasks \cup {NoTask}, token: 0 .. MaxClaims,
                         value: Values \cup {NoValue}]]
    /\ \A d \in Drivers : driver[d].pc \in {"idle", "scheduling", "ready"}
    /\ acked \subseteq AllTasks
    /\ faults \in 0 .. MaxFaults

\* No result is lost: a task leaves the queue only when its result is stored,
\* whoever held it and whatever failed ("The worker can Ack only after Commit
\* succeeds", WithOutbox; PostgresCheckpointOutbox).
AckedResultsStored == \A t \in acked : result[t] # NoValue

\* Every checkpoint is the reduction of the results its parent records, one of
\* each task, also when late workers return something else and drivers commit
\* a barrier they collected long ago (Barrier, StepCoordinator).
StepsFoldRecorded ==
    \A th \in Threads, k \in 2 .. Last :
        stamp[<<th, k>>] > 0 =>
            /\ stamp[<<th, k - 1>>] > 0
            /\ folded[<<th, k>>] = [t \in StepTasks(th, k - 1) |-> result[t]]
            /\ \A t \in StepTasks(th, k - 1) : result[t] # NoValue

\* A task acknowledged to the queue has its result in the checkpoint store, and
\* every committed super-step folded exactly the results recorded for its tasks.
ResultsKept == PoolTypeOK /\ AckedResultsStored /\ StepsFoldRecorded

\* However calls fail, leases expire and workers stop, every thread finishes.
Completes == \A th \in Threads : <>(stamp[<<th, Last>>] > 0)

\* With deterministic nodes the queue drains: a redelivered task is acknowledged,
\* not nacked for ever.
QueueDrains == <>[](DOMAIN holder = {})
=============================================================================
