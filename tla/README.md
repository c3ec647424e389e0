# TLA+ models of langgraph-go

langgraph-go runs stateful graphs: nodes compute updates, a reducer folds them
into a state, and every super-step can be checkpointed so that a thread survives
crashes, waits for people and can be rewound. The interesting part of the code is
what happens when tasks, clients, writers and workers interleave and fail half-way.
That is what these modules model. Paths below are relative to the repository
root (`src/` in the maps).

- `PROJECT.json` maps every definition to the lines it models and lists the
  components, runs, mutants, findings, hazards and theorems.
- Run a model with `tlc -config X.cfg MCModule`, check a proof with
  `tlapm ModuleProofs.tla`.

## 1. Inventory

### Components, their state and operations

| Component | Source | State | Operations | Module |
|---|---|---|---|---|
| Builder | `graph/builder.go` | the graph under construction | `AddNode`, `AddEdge`, `AddWaitingEdge`, branches, command and send destinations, `Compile` | `GraphBuilder` |
| Super-step loop | `graph/compiled.go` | step number, scheduled tasks, waiting joins and deferred nodes, channel versions, current checkpoint | `initializeRun`, the loop of `runInternal`, `resolveNextTasks`, `commitCheckpoint` | `SuperSteps` |
| Step execution, interrupts, time travel | `graph/compiled.go`, `interrupt.go`, `static_interrupt.go`, `error_handler.go` | one goroutine per task, recovered results, failure markers, task controls, gates | `executeStep`, `AwaitResume`, `Resume`, `Continue`, `forkInterrupt`, historical `Invoke` | `GraphRun` |
| Attempts | `graph/retry.go`, `timeout.go`, `functional/timeout.go`, `retry_cache.go` | an attempt, its watcher goroutine and timers | retries, run and idle timeouts, heartbeats | `Attempts` |
| Subgraphs, state access | `graph/subgraph.go`, `state.go` | child namespaces and the controls that name their checkpoints | child invocation, nested resume and fork, `GetState`, `UpdateState` | `Subgraphs` |
| Async saver | `graph/async_saver.go` | bounded command channel, first error, mutex, writer goroutine | `Put`, `PutWrites`, `Flush` | `AsyncSaver` |
| Exit saver | `graph/exit_saver.go` | drafts, pending writes, latest ID and first parent by scope | `Put`, `PutWrites`, `GetTuple`, `Flush` | `ExitBuffer` |
| Streams and batch | `graph/stream.go`, `batch.go`, `message_stream.go`, `functional/stream.go` | an event channel, remembered message ids | emit, close, receive, cancel | `Streams` |
| Channels | `channel` | a value, what of it is saved | `Update`, `Finish`, `Consume`, `Checkpoint`, `ReplayWrites` | `Channels` |
| Savers, retention | `checkpoint/*`, `redis/checkpoint` | checkpoints, channel blobs, pending writes, thread indexes | `Setup`, `Put`, `PutWrites`, `GetTuple`, `List`, `DeleteThread`, `PruneThread`, `retention.Apply` | `Savers` |
| Node cache | `graph/cache.go`, `cache/*`, `redis/cache` | entries with a deadline, Redis' sets of keys | `Get`, `Set`, `Clear` | `NodeCache` |
| Long-term stores | `store/memory`, `sqlite`, `postgres`, `redis/store`, `store/internal` | items with a deadline | `Batch`, sweeps, `Search`, `ListNamespaces` | `Stores`, `StoreQueries` |
| TTL manager | `store/ttl` | the sweeper goroutine and its context | `StartSweeper`, `StopSweeper` | `Sweeper` |
| Indexed store | `store/indexed`, `store/vector` | base store, vector index, outbox of intents | `Batch`, `RepairPending`, `SweepExpired`, search | `IndexedStore` |
| Leased queue | `backend/distributed/queue.go`, `postgres_queue.go` | task records with leases, idempotency bindings | `Enqueue`, `Claim`, `Ack`, `Nack`, `Heartbeat`, `ReleaseExpiredLeases`, `PruneIdempotency` | `LeasedQueue` |
| Distributed run | `worker.go`, `scheduler.go`, `barrier.go`, `coordinator.go`, `*checkpoint_outbox.go` | worker jobs, queue, pending results, child checkpoints | `Schedule`, `Run`, `Collect`, `Commit` | `DistributedRun` |
| Outboxes, interrupt store | `outbox.go`, `interrupt_store.go`, PostgreSQL variants | completions, awaited interrupts | commit, await, resume, prune | `ResultOutbox` |
| Event log and its readers | `event_log.go`, `postgres_event_log.go`, `remote/run_stream.go`, `sse.go` | ordered events, readers' positions, the client's connection | append, tail, serve, reconnect, prune | `EventLog` |
| Functional API | `functional` | attempts of an entrypoint or node, task goroutines, semaphore, thread lock | `Invoke`, `Resume`, task recovery | `Functional` |
| Control plane | `remote/control*.go` | threads, runs, idempotency records, goroutines of runs and their contexts | `createThread`, `createRun`, `cancelRun`, `deleteThread`, `executeRun`, `watchStoredRun`, `PruneRuns`, `Close` | `ControlPlane` |
| Prebuilt agent | `prebuilt/tool_node.go`, `react_agent.go`, `simple_agent.go` | the conversation, tool goroutines, prompts | model turn, tool calls, resume | `ToolAgent` |
| Remote endpoints, codecs, Temporal, providers, retrieval, integrations | rest | mostly none | adapters | not modelled |

### How they interact

A client calls `Invoke` or `Resume` on a compiled graph. The run takes a
process-local lock of its thread and namespace, wraps the saver for its
durability mode (none for sync, `asyncQueueSaver`, `exitBufferSaver`), restores
or initialises the run and loops: gate, execute the tasks concurrently in an
errgroup, write each result as a pending write of the *current* checkpoint,
reduce, route, put the *next* checkpoint. A restart reads the latest checkpoint
and its pending writes. Subgraphs are runs in a nested namespace over the same
saver. The distributed backend replaces the in-process loop: `Scheduler` turns
the tasks of a checkpoint into queue items, `Worker`s claim and execute them and
write the same pending writes, `Barrier` and `StepCoordinator` collect them and
put the next checkpoint; any of these processes may die or be duplicated.

### What is hard, and what correctness means

| Component | Hard behaviour | What makes it correct |
|---|---|---|
| Queue | expiring leases, late workers, skewed clocks, repeated enqueues | fencing, a live lease is exclusive, one task per key |
| Distributed run, outboxes | at-least-once delivery, crashes between result and acknowledgement, nodes that do not repeat their value, task IDs used again | nothing acknowledged without its result, every step folds the recorded results, one completion per task, threads complete |
| Event log | repeated appends, pruning, connections that break between two frames | the reader sees the stream in order, without gaps or repetitions, and reaches its end |
| Routing | cyclic joins, deferred nodes, stale triggers, several runs of a thread | joins wait for all sources, deferred nodes run last and do run, unique task IDs, memory equals checkpoint |
| Builder | declarations in any order, endpoints that come later or never | what `Compile` accepts runs as declared |
| Step execution | crashes and failing siblings between pending write and commit | recorded work is not repeated, history agrees with it |
| Attempts | a deadline, a heartbeat, a result and a cancellation at one instant | no timeout declared early, no goroutine left over, only what was retried runs again |
| Interrupts, subgraphs | several prompts per task, partial answers, forks, replays of branches that share a child's namespace | prompts resumable, answers reach their prompt and branch and stay, gates respected, history immutable |
| Functional API | replays after interrupts and crashes, tasks that wait for a semaphore while the body waits for them | results and answers of its own input only, nothing runs again, every call returns |
| Agent | concurrent tools of which some ask, fail, or return Commands | every call answered exactly once, by the answer to its own prompt |
| Async saver | failing writer, full channel, goroutines that outlive the step | commands in order without gaps, no send on a closed channel, `Flush` returns |
| Exit saver | recovery writes, nested namespaces, crashes inside `Flush` | boundary published with its writes, no dangling references |
| Streams | consumers that leave, producers blocked on a full channel | per-producer order, the end last, every channel closed |
| Savers, stores, caches | statements of concurrent transactions, retention and sweeps that act on what they read earlier, filters evaluated twice | checkpoints load whole, results stay, batches atomic, live items and entries kept, searches exact |
| Indexed store | a crash between intent, base store and index | base store and index agree once no intent is left |
| Channels | restores and replays at any point, half-applied updates | a channel holds what its history says |
| Control plane | handlers that unlock or make several store calls, repeated creates, cancels through another server, `Close`, lost servers | one run per key, a settled run stays settled, no running row without an owner, cancelled runs stop, deleted threads stay deleted |

`PROJECT.json` lists the hazards line by line.

## 2. Modules

One module per component, named in the table above. In addition:

| Module | Models | Used by |
|---|---|---|
| `TaskQueue` | what a queue promises: who holds which task, without a clock | implemented by `LeasedQueue`, instantiated by `DistributedRun` |
| `OrderedLog` | what an asynchronous saver promises | implemented by `AsyncSaver` |
| `RunLedger` | what the control plane promises of a run: created, settled and removed | implemented by `ControlPlane` |
| `Routing` | operators of routing and of channel versions | extended by `SuperSteps` |
| `Ordering` | sorted lists and scans of them (`sort.Slice`, `ORDER BY`) | extended by `Savers` and `StoreQueries` |
| `*Proofs` | theorems about the modules they extend (section 5) | |
| `MC*` | instances for TLC | the runs |

`MCDistributed`, `MCProgress`, `MCEndings`, `MCStorage` and `MCExecution` hold
several components that share no state. A constant variable `focus` chooses
the one that runs; the others keep an initial state. A
behaviour of such a run is a behaviour of exactly one component, and a property is
the component's own, under the component's own fairness. The components are
extended rather than instantiated, so that a run checks the very definitions the
theorems are about; for this their definitions carry names of their own
(`PoolInit`, `OutboxInit`, `StoreSpec`, ...). Only `Sweeper`, `Functional` beside
`Endings`, `Subgraphs`, `ToolAgent`, and `DistributedRun` in `MCProgress` are
instances. `MCSuperSteps`, `MCControlPlane`, `MCSubgraphs`, `MCFunctional` and
`MCExitBuffer` hold one component each.

### LeasedQueue, TaskQueue
`records` and `bindings` are the maps of `MemoryQueue` and the two PostgreSQL
tables; `issued` is what workers remember of their leases. Each method is one
action: the mutex, or the transaction, makes it atomic. A statement carries a
clock sample `at` that may be `Lag` old: 0 for the memory queue, which reads its
clock under the mutex, more for PostgreSQL, where the sample is taken before the
transaction. A PostgreSQL claim may skip locked rows. SHA-256 and the ID and
token generators are assumed not to collide. `TaskQueue` keeps only the holder
of each task and the set of used tokens; `HolderOf` is the refinement mapping, and
an expiry is a `Release`.

### DistributedRun
Built over `TaskQueue`, so that a lease may be lost at any time. `job` is the
state of a worker slot between the calls of `Worker.process`; each remote call
(claim, read, write, acknowledge, release) is a step of its own and may fail before
or after it took effect. `driver` is a process that schedules a checkpoint's
tasks one by one, or collects and commits. `AtomicWorkers` selects
`PostgresCheckpointOutbox` for a worker. A queue ID names step, index and node but not the
thread, as `taskID` does; the run `Progress` has two threads for that reason. The value of a checkpoint's timestamp is a counter of its puts.

### Routing, SuperSteps
`ResolveNext` is `resolveNextTasks`: routes in task order, joins, Sends, and
deferred nodes when nothing else was scheduled. `FreshTasks` is
`freshChannelTasks`. Versions are checkpoint IDs, as the code's are derived
from them. The results of a super-step are any of `Outcomes`, the channels they
change any set (none if no task returned an update). `Stop` is every way a run
can lose its memory. The input checkpoint takes a step number of its own.

### GraphRun
`cps` and `store` are durable: checkpoints in the order of their IDs and the
pending writes of each (results index 0, failures -4, controls -1, gate -3).
Everything else is one run's memory. Between `StartStep` and `Wait` the goroutines
interleave: `Launch` (with the recovered result or failure, or under the
concurrency limit), `CacheHit` (a cached result is folded and not recorded), `Hear` and `Interrupt` (`AwaitResume` with and without an
answer), `Retry`, `FailToHandler`, `Return`, `Fail`. A saver call that reports
an error may have reached the store. `Crash` is possible between any two steps.
`ResumeAt` and `ForkControls` are the two halves of a historical resume; `replay`
says that a run re-executes an update or fork checkpoint in place.
The answers of a task are a list: `Answered` fills the positions below a given
answer with `Null`, because `setResume` pads the list, JSON stores the gaps as
`null` and a decoded `null` counts as an answer.
Contexts are modelled where they decide something: a cancelled group stops failure
markers, not the interrupt's write, which uses the run's context. It does not
stop launches: `executeStep` starts every task it has. Its early returns, whose
goroutines go on behind it, are in `AsyncSaver` and `Streams`, not here.

### OrderedLog, AsyncSaver
Callers are the run and the task goroutines. `EnqueueLocked` holds the mutex
through the select, as the code does; `Send` and `SendCancelled` are the arms.
The writer executes a command or, after the first error, discards it; a failing
command may have reached the base saver. `AbandonStep` is the early return of
`executeStep`, after which its goroutines go on while `Flush` closes the channel.

### ExitBuffer
`base` is the saver below, the other variables the fields of one run's buffer.
A run starts with an input checkpoint (`StartWithInput`), goes on at the latest one
(`InvokeAtLatest`), or resumes an interrupted one (`Resume`), which first walks the
controls in the base saver and fails if a child checkpoint they name is missing.
`ChildStart` follows the selection of a stateful subgraph's checkpoint: the one
of this invocation, the latest before the root checkpoint, or the latest.
`Flush` publishes one boundary at a time, put and writes separately, and may
fail or die in between.

### RunLedger, ControlPlane
`stored` says whether the server was given a `ControlStore`; it is chosen
initially, so one specification covers both. `row` and `claims` are the tables
(of the store, or `control.runs` and `control.idempotency`), `job` the goroutines
of `executeRun` with the local record each one holds. In memory a handler is one
action (a critical section of `control.mu`), except `deleteThread`, which is two.
With a store, each store call and each look at the local records is an action,
`req` keeps what a handler remembers between them, and `Abandon` lets it stop at
any failing call. `RunSuccess` and `RunError` are one status. Timestamps are left
out: retention may remove any settled run. `executeRun` and `finishStoredRun` are
atomic from the return of `Invoke`, since what happens before their store call or
critical section cannot be observed; the prune at the end of `finishStoredRun` is
the action `PruneRequest`. `tables` differs from `threads` only after a deleted
thread was written back. `RunLedger` forgets servers, handlers and goroutines.
Three details are abstracted: the claims of a deleted thread, which the code finds by
a NUL-separated prefix of their keys (`remote/control.go:367-371`), are those of
the thread; IDs are unique, so the refusals of a repeated ID (`control.go:432-436`,
`control_store.go:128-130`) do not occur; and a goroutine that is added after
`Close` has begun to wait breaks the contract of `sync.WaitGroup`, of
which the model only keeps that `Close` returns when no goroutine is left.

### GraphBuilder
A set of calls in any order builds the graph; `Accepts` is `Compile`'s
validation, branch by branch, with its reachability search. An accepted plan is
then run: a node either takes its edges and branches, each router choosing all its
destinations, or returns a command, whose `Goto` replaces them and, like its Sends, may
name any node, declared or not. The Send routers of START are declared, and the
search counts them, but the code never asks them. `followed` and `strays` record
the routes taken and the undeclared targets. `PlanRuns` says that a run
schedules only nodes that exist, stays within what the search found unless a
command strayed, and that one which took every route of the nodes it executed
(`Exhausted`) executed every node and reached END, unless an option excuses it.

### Attempts
`unit` is a graph node or a functional task: the two packages hold the same
watcher and differ in whether the result is judged before or after the watcher
has stopped. Time is discrete; timers, heartbeats, the context and the result
race in the watcher's `select`. An attempt may also fail before its node starts,
because the state is not cloned, which no callback hears of; a command to something
that is no target is reported as an end and then fails; and the timeout of an
enclosing node, task or entrypoint (`"outer"`) is read as the attempt's own. The run
has a timeout policy; the case without one is covered by the theorem only.

### Subgraphs
Parent and child checkpoints share one saver and one sequence of IDs. A token in
the child's state stands for one invocation, so that a state shows
which branch built it. Resume by root or by namespace, forks of an interrupt,
replays, `UpdateState`, `BulkUpdateState` and crashes between any two writes are
actions. A run that names a checkpoint, the latest included (`NewRunAt`,
`Replay(Top)`, `Resume(TRUE)`), keeps it as the upper bound of its children's
states for all of its steps (`Cut`); a checkpoint records in `below` what such
an invocation started from, and `BranchMemory` is the memory that results.

### Functional
The body is a sequence of calls, awaits and questions. Tasks are goroutines under the
semaphore; a running checkpoint is the attempt that an invocation with the same
input replays. `Hosts` has entrypoints and functional nodes, which differ in how
they end, and entrypoints without `EnableTaskRecovery` (`"plain"`), which have no attempt:
they record their completion only, run every task again, and cannot ask. Of the
others, only the tasks of `Persistent` (the option `Persistence`) are recorded and
recovered. Not modelled: a node in a graph without a checkpointer, and a
thread on which `EnableTaskRecovery` is switched between invocations.

### Streams
Producers emit with the three ways of `message_stream.go` (write, remember,
dedupe); a batch has a feeding goroutine and workers. The consumer may leave
and then cancels, as the documented contract asks. A graph's step whose own emit fails
returns without its tasks (`ReturnEarly`): they go on while the channel is
closed, and a send on it panics (`SendOnClosed`).

### ToolAgent
`AwaitResume` in a tool stops the run; after `Resume` all tools of the task run
again from their start. `MyTurn` is `InterruptOrder`: the calls of one task take
their prompts in call order, whatever order they reach them in. Version v2
sends one task per call. In v1 the calls of a turn share one list of answers, so
an answer to a later call leaves `Null` for the ones before it, as in `GraphRun`.

### Ordering, Savers
One thread of checkpoints in two namespaces. A row names a version per channel
and the values live in blobs, which is what pruning can get wrong. PostgreSQL
(READ COMMITTED) and Redis (reads before the pipeline) are modelled statement by
statement; memory and SQLite serialise. `Setup` and the migration ledger come
first. `CheckpointsWhole` is about loading (`LoadsWhole`), deleting
(`ThreadIndexComplete`) and listing (`ListsNewestFirst`): the memory saver sorts
what matches, the SQL savers scan ordered rows, Redis scans a sorted index that
may name records which are gone. With a thread's configuration and all namespaces, Redis
scans the thread's index instead, which a deletion removes although a `Put` beside it
has just stored a record (`Unlisted`). The limit of `List` is none or one. `InOrder`
puts an element at the position that the number of its predecessors gives, which
is what a proof can use of a sort; `Scan` keeps some positions of a list.

### Stores, StoreQueries, IndexedStore, Sweeper
`Stores` has clients that issue batches against memory and SQLite (a mutex),
PostgreSQL (REPEATABLE READ: a changed row fails the batch, but a deletion does not
see, and spares, an item inserted after the snapshot) and Redis (WATCH, retries),
beside a sweep that deletes what it saw expired and reports what it removed. `StoreQueries` is about what
`Search` and `ListNamespaces` return over the items that one client puts and
deletes: the SQL stores push equalities into the database, whose JSON
comparison differs from Go's, and filter again; `FindsExactly` is the reference.
They refuse a filter with an unsupported operator before they read an item, the
memory store when it meets one.
`IndexedStore` makes every call to the outbox, the base store and the index a step that may
fail. `Sweeper` is the life of the TTL manager's goroutine.

### NodeCache
Two runs look up, execute, record and store the results of a step, over each of
the four caches; PostgreSQL selects and then deletes what expired, Redis finds
what `Clear` removes through sets of keys.

### EventLog, ResultOutbox
`EventLog` goes from workers that append under event keys and repeat lost
appends, over a tailing server, to a client that reconnects with its last event
ID. PostgreSQL's `List` is two queries, the cursor's number and then the rows behind
it; `raced` records that the stream was pruned in between. `ResultOutbox` is the completion of a task: with memory, with PostgreSQL, and
with the transaction that also deletes the queue's lease; the same task ID comes
back as another incarnation after a prune.

### Channels
Every kind of `channel`, under its caller: a loop that applies the writes of a
step, drops a channel whose `Update` failed, saves, and may be restarted from
what it saved. The operator and the reducer append, so that the value shows what
was applied and in which order. `HeldValue` is the reference: what the
history of operations says the channel holds.

## 3. Runs

State counts are distinct states of TLC.

| Run | Question | Bounds |
|---|---|---|
| `Distributed` (838k) | `TasksOwnedOnce`, `LiveLeaseNotStolen`, `ImplementsTaskQueue` of the queue; `ResultsKept` of the worker pool; `CompletedOnce` of the outboxes | queue: 2 tasks, 2 workers, 3 tokens, time 0..3, leases of 1 and 2, skipped rows, pruning. Pool: 2 workers with different outboxes, 2 drivers, steps of 2 and 1 tasks, 4 claims, 1 fault. Outboxes: 2 workers, 4 claims, 2 incarnations, 2 prunes, results that differ between executions |
| `Cycle` (12.6k) | `JoinsWaitForAll`, `DeferredRunLast`, `RunConsistent` (types, unique task IDs, memory equals checkpoint), `RunsEnd` | 4-node cyclic graph with a join, a deferred and a channel-triggered node, branches, gotos and Sends; limit 4, 2 runs |
| `Progress` (60k) | `RunsComplete`: two threads with the same queue IDs complete and the queue drains; a gated thread completes; `GateRespected` | 2 workers, 8 claims, 2 faults; gates before one node and after the other, 2 faults |
| `Endings` (109k) | `NoSendOnClosed`, `WritesFindTheirCheckpoint`, `ImplementsOrderedLog`, `FlushReturns` of the async saver; `SweeperStops`; `DeliveredExactly` and `StreamsEnd` of the event log; `StreamFaithful` and `StreamsEnd` of live streams; `InvocationsReturn` of the functional API | 2 task goroutines, channel of 1, 3 commands; 2 callers and 3 sweepers; 3 events in pages of 2, a lost connection, a repeated append, a prune; 2 producers of 3 emissions, a batch of 3; a body of 2 tasks and a question, 1 fault |
| `Storage` (1.95M) | `CheckpointsWhole`, `ResultsStable` of the savers; `FlushSound` of the exit buffer; `QueriesExact` and `BatchesAtomic` of the stores; `IndexConverges`; `CacheHonest`; `ChannelsFaithful` | 3 checkpoints, 2 namespaces, 2 channels, retention of 1; root and child run, 4 checkpoints, 3 runs (the third can meet what a flush that stopped half-way left); 4 item slots, 4 values, 9 filters; 2 clients, 3 batches, time 0..3; 5 intents, 3 faults; 2 runs over 2 keys; 3 channel operations and any number of saves and restarts |
| `Execution` (2.9M) | `WorkNotRepeated`, `CommittedAsRecorded`, `InterruptsAnswered`, `ThreadHistoryKept` of graph runs; `NestedBranchesApart` of subgraphs; `InvocationFaithful` of the functional API; `AttemptSound`; `PlanRuns` of the builder; `ToolCallsAnswered` of the agent | super-steps of 2 and 1 tasks, a node that asks twice, handlers that ask, a cached node, 2 faults, forks and replays up to 3 checkpoints; 2 rounds of a child, 3 client operations on the history, with and without a named checkpoint, or 2 and a crash (`HistoryBound`); 2 callers, 3 hosts, a persistent and another task, 4 invocations (3 without recovery, `PlainBound`), 1 fault; run timeout 3, idle timeout 2, 2 attempts; 7 of 12 builder calls; 4 conversations, 2 faults |
| `ControlPlane` (207k) | `RunsOwned` (types, one run per key, no forgotten run), `ImplementsRunLedger` (settled stays settled), `RunsSettle` | 2 servers over a store or 1 in memory, 2 concurrent requests, 1 thread, 2 runs, 1 key or none, one server that may close and die |
| `DeferredStranded`, `ExitLostInterrupt`, `DeletedThread`, `FutureChildState`, `NodePromptLost` | see Findings | |

The bounds suffice for the cases the properties are about: each property has a
mutant of the code that the run catches within them, and the findings below need
no more than two runs, two edits or one fault. The theorems have no bounds (section 5).

Symmetry is used in `Distributed` (workers and tokens of the queue, drivers,
values) and `Storage` (namespaces and channels); neither run has a liveness
property. Deadlock is not checked: every run contains a system that may stop for good, such as
a queue without requests left, a thread whose runs are used up, a
saver after its run, or a finished conversation.

### Fairness
- `SuperSteps`: a super-step that has begun ends (`StepEnds`): its nodes return, or
  it fails; and a run without tasks, or at its limit, returns.
- `AsyncSaver`: every goroutine that can move does (Go's scheduler), base saver
  calls return; a caller is never forced to cancel.
- `GraphRun`: a run's steps go on; the client invokes an unfinished thread again
  and answers. Answering and continuing are strongly fair, since a crash can put
  the thread into a state where they are not possible for a while.
- `DistributedRun`: workers poll, leases of dead workers expire, drivers are run
  again, supervisors restart workers. Faults are finite (`MaxFaults`), and are not
  fair. `QueueDrains` needs nodes that return the same value again: see the
  remark of `outbox.go` on conflicting results.
- `EventLog`: workers go on producing, the server serves, the client follows; a
  connection need not break. A stream that was pruned promises nothing.
- `Streams`: producers and the stream's own goroutines move, a consumer that is there
  receives, and one that left cancels the context.
- `Sweeper`: the loop's goroutine moves, and leaves once its context has ended.
  Leaving is strongly fair: Go's `select` chooses at random between
  a ready ticker and a ready `Done`.
- `Functional`: the invocation's goroutines move. Callers and crashes are not fair.
- `ControlPlane`: handlers and goroutines go on, the watcher's ticker fires, and an
  invocation returns once its context is cancelled (`graph` checks its context
  between steps). An invocation that nobody cancels may run for ever; failing
  calls, crashes and `Close` are not fair.

## 4. Findings

Runs that state a sentence of the documentation, of a comment or of a test and
violate it:

| Run | What the code does |
|---|---|
| `ExitLostInterrupt` | with exit durability, an interrupt in the first super-step of a *resumed* run is not flushed: no checkpoint was put, so no boundary exists |
| `DeferredStranded` | a deferred node never runs if the tasks scheduled instead of it are then filtered out as stale |
| `DeletedThread` | a run created while `deleteThread` waits brings the deleted thread back, without a table of runs; the next `createRun` on it panics with `control.mu` held, which `ControlPlane` models as `locked` |
| `FutureChildState` | a replay from a parent checkpoint older than every checkpoint of a stateful child finds none to start from, and the child loads its latest state, from invocations that the replayed branch has not made |
| `NodePromptLost` | a functional node whose own body asks, while no task does, returns its zero command without an error: the run completes and the stored prompt is never reported |

The models contain more behaviours that a maintainer may want to know of; the
properties are stated so that they allow them:

- `RecursionLimit` is compared with the step number of the thread, which `NewRun`
  continues (`graph/compiled.go:364`), so it bounds the thread rather than the
  run. `MaxSteps` of `SuperSteps` says so.
- A `NewRun` executes all start tasks while its input checkpoint stores only the
  fresh ones (`graph/compiled.go:632-648`). `Cycle` starts at untriggered nodes.
- A replay at an update or fork checkpoint runs in place and changes its pending
  writes (`graph/compiled.go:684-688`): its new prompts replace the answers stored
  there. `HistoryImmutable` and `AnswersKept` allow exactly this.
- A static gate that such a replay of a historical checkpoint meets cannot be
  continued: `Resume` without an ID acts on the latest checkpoint, and a fork
  refuses a checkpoint without task controls (`graph/interrupt.go:739`).
- Such a replay forgets recovered results and controls but keeps failure markers
  (`graph/compiled.go:681-683`): the error handler runs without its node.
- An error handler shares its node's task control (`graph/compiled.go:1313-1316`),
  so its first `AwaitResume` returns the answer to the node's first prompt.
  Node 1 of `Execution` asks in both, and `AnswersReachAsker` allows it exactly
  there (`SharesPositions`).
- A client that answers only a later prompt of a task answers the earlier ones with
  `null`: `setResume` pads the list (`graph/interrupt.go:884-889`), the gaps are
  stored as JSON `null`, and the decoded entries are not nil (`:350-361`), so
  `AwaitResume` returns the zero value (`graph/compiled.go:1596`) and the prompt is
  no longer listed (`graph/interrupt.go:495`). The same happens to two tools of one
  turn of a v1 agent. `AnswersReachAsker` and `AnswersReachTheirCall` allow it only
  below an answered position.
- A cached result is folded without a pending write (`graph/compiled.go:991-1008`), so the
  history does not record what such a task returned. `CommittedAsRecorded`
  allows it for nodes with a cache policy.
- A run that names the latest checkpoint keeps it as its replay bound
  (`graph/compiled.go:649-667`, `:337`): a stateful child that it invokes more than
  once starts each time from its state before that checkpoint and loses what the earlier
  steps of the run added. `MemoryFollowsBranch` says so (`BranchMemory`); on a thread
  that was forked such a run may read another branch's state, which it exempts.
- A task without `Persistence`, the default, is neither recorded nor recovered
  (`functional/recovery.go:30`, `:65`): it runs again in every replay, and its new result
  is the one that the body uses.
- The cause of a cancelled parent context is passed on (`graph/timeout.go:108-110`), so
  an enclosing timeout is judged, and retried, as the attempt's own.
- An attempt whose state cannot be cloned is retried without a start or an error at
  the callbacks (`graph/compiled.go:1424-1433`), and a command to an invalid target has
  been reported as an end when it fails (`:1531-1542`).
- `Compile` counts the Send routers of START as routes (`graph/builder.go:93`,
  `:555-559`), but only those of executed nodes are consulted (`graph/compiled.go:1745`):
  a node that nothing else leads to passes the reachability check and never runs.
  `Goto` and `Command.Sends` reach nodes that were not declared as destinations
  (`:2270-2295`, `:1728-1744`).
- `Flush` of the exit saver publishes in reverse order of each namespace's first
  `Put` (`graph/exit_saver.go:163`), where its comment says "deepest first" (`:15`). On a
  resumed thread the subgraph puts first, so the root is stored before it, and a
  flush that stops in between leaves a control that names a checkpoint which is not
  stored. `Resume` of such a thread fails with `ErrNotFound`
  (`graph/interrupt.go:529`). That refusal is what keeps `FlushFindsParents` true:
  a run that went on at the missing checkpoint would put a child whose parent no
  saver has.
- A repeated `Commit` writes a new clock reading, which `Schedule` copies into
  the payloads, so scheduling again after a partial schedule is refused as an
  idempotency conflict until the keys are pruned (`coordinator.go:104`,
  `scheduler.go:93`). `Completes` is checked for threads of one step, whose first
  checkpoint is not committed again.
- A plan that a tool returns beside another tool's Command is not copied into the
  agent's state (`prebuilt/simple_agent.go:181`). `ConversationWhole` exempts
  such turns.
- `Resume` of a functional entrypoint accepts answers for any running checkpoint of
  the thread (`functional/interrupt.go:99`), also for an attempt of the history from which an
  invocation has completed since: the answers stored there may then differ from
  those that invocation used. `InvocationFaithful` says that the results do not.
- A terminal event of a live stream may be dropped when the context has ended
  (`graph/stream.go:174`); the channel is closed all the same.
- `executeStep` returns on a failing emit before `group.Wait`
  (`graph/compiled.go:945-986`). The stream's owner then closes the channel while
  tasks still run, and one that emits late panics in its `select`
  (`graph/stream.go:109`, `:174-179`). `StreamFaithful` allows a panic after such a
  return only (`Abandoned`).
- `PostgresEventLog.List` reads the cursor's number and the rows in two statements
  (`postgres_event_log.go:242`, `:250-256`): if the stream is pruned and written anew
  in between, the reader continues in the new stream at the old position.
  `DeliveredExactly` allows two generations only then (`raced`).
- A Redis `Put` between the reads and the deletions of `DeleteThread`
  (`redis/checkpoint/checkpoint.go:272-286`) leaves a record that is missing from the
  thread's index, and so from listings of all its namespaces (`:213-215`).
- A PostgreSQL batch that deletes an item which was inserted after its snapshot
  deletes nothing and commits (`store/postgres/postgres.go:413`).
- A Redis sweep that fails, or gives up after its retries, returns a nil error together
  with the items of its last attempt, which it did not remove: the error is shadowed
  (`redis/store/store.go:331`). `IndexedStore` then drops their index entries
  (`store/indexed/indexed.go:279`); `ReportsRemoved` is about sweeps that remove something.
- The SQL stores refuse an unsupported operator even if no item is there to meet it
  (`store/sqlite/sqlite.go:656`, `store/postgres/postgres.go:670`), where the memory
  store succeeds (`store/memory/memory.go:353`).
- `DeltaChannel.Update` ignores regular writes after an overwrite of the same
  step, while `ReplayWrites` reduces them (`channel/delta.go:80`, `:111`): such a
  step is rebuilt differently. `ChannelsFaithful` exempts it (`Reproducible`).
- A node that returns another value when it is redelivered conflicts with its
  stored result and is released again and again (`outbox.go:82`).

## 5. Proofs

All proofs are by an inductive invariant; those of concurrent components were
checked by TLC on the bounded instances before they were proved. The assumptions are
the `ASSUME`s of the modules (types of the constants, sentinels outside the sets
they mark), which TLC evaluates on the instances; hypotheses that a theorem adds
are named below. There are no bounds: the theorems hold for every number of
tasks, workers, nodes, checkpoints, runs, items and faults.

| Module | Theorem | States | Inductive invariant |
|---|---|---|---|
| `QueueProofs` | `TypeCorrect`, `Fencing`, `KeyedEnqueueOnce`, `OwnedOnce`, `LeaseStability` | a lease that is accepted is the only one; one live task per key; a live lease is not stolen | `IInv` |
| | `QueueImplementsPromise` | `LeasedQueue` implements `TaskQueue` when clocks agree (`Lag = 0`) | `IInv` |
| | `TasksAreCompletedOnce` | one answer per prompt and one result per incarnation of a task, unless retention took the record; a task leaves the queue only with a result | `BInv` |
| `DistributedRunProofs` | `ResultsAreKept` | nothing is acknowledged without its result, every checkpoint folds the recorded results | `DInv` |
| `ExecutionProofs` | `JoinsCorrect` | a join fires when all its sources have completed | `JInv` |
| | `RunsAreConsistent`, `DeferredNodesRunLast` | unique task IDs, the run holds what its checkpoint would restore; deferred nodes run in super-steps of their own | `RInv` |
| | `AttemptsSound` | no timeout before its deadline, the verdict, the retry and the callbacks agree, no watcher is left | `AttemptInv` |
| | `InvocationsFaithful` | an invocation uses the results and answers of its own attempt, runs nothing recorded again and builds on its branch's last value | `FunctionalInv`, `PlainInv` |
| | `ChannelsAreFaithful` | a channel holds what its history says, also after a restart | `ChannelInv` |
| `EndingsProofs` | `AsyncTypeCorrect`, `NeverSendsOnClosed`, `AsyncImplementsLog` | no send on the closed channel; the stored commands are a prefix of the queued ones | `SInv` |
| | `WritesAfterCheckpoints` | no pending write is stored before its checkpoint | `SInv`, `OInv` |
| | `DeliveryIsExact` | a reconnecting client sees each event once, in order, of one stream unless a prune raced with a `List` | `EventInv` |
| | `StreamsAreFaithful` | a consumer sees what each producer sent, in order, the end last, and nothing panics, unless a step left its tasks behind | `StreamInv` |
| `StorageProofs` | `FlushIsSound` | a flush publishes the boundary of every namespace, under parents that are stored | `EInv` |
| | `BatchesAreAtomic` | a batch takes effect at once on what it read; live items stay | `StoreInv` |
| | `CachesHonest` | live entries stay; what was cleared is not returned | `CacheInv` |
| | `IndexesConverge` | base store and index agree on every key without an intent; pages part the results | `IndexInv` |
| `SaversProofs` | `CheckpointsAreWhole` | checkpoints load with all values, are found by a deletion and are listed newest first | `SaversInv`, `RecordsIndexed` |
| | `ResultsAreStable` | an accepted result stays while its checkpoint does | `SaversInv` |
| | `QueriesAreExact` | a search finds the page of exactly the items that satisfy the filter; listings are ordered and complete | `QueryInv` |
| `GraphRunProofs` | `RunTypeCorrect`, `RecoveryIsExact`, `HistoryIsRecorded` | recorded work is not repeated; a checkpoint folds what its parent records or the cache answered | `IInv` |
| | `GatesAreRespected`, `HistoryIsKept`, `InterruptsAreResumable` | no task passes an unconsumed gate; earlier checkpoints and given answers stay; a reported interrupt can be resumed | `IInv`, `HInv` |
| | `PromptsAreAnswered` | answers reach the prompt that asked, also across forks; only a prompt below an answered one hears null | `IInv`, `HInv`, `AInv` |
| | `PlansRun` | what `Compile` accepts runs as declared | `BuilderInv` |
| `ControlPlaneProofs` | `RunsAreOwned` | types, one run per key, no running row without an owner | `CInv` |
| | `LedgerIsKept` | `ControlPlane` implements `RunLedger` | `CInv` |

### Distributed backend

**LeasedQueue.** `IInv` adds to the types: a token names one lease
(`TokensNameLeases`: two issued leases with one token are the same lease, and
were issued for the task that holds it), records hold only used tokens
(`RecordsHoldUsedTokens`, so that a fresh token is not in any record), and a task
made for a key is the one the key is bound to (`KeysBound`). `Fencing` follows:
two leases accepted for one task both carry the record's token. `KeyedEnqueueOnce`
follows from `KeysBound`; that pruning spares live tasks is what keeps it.
`OwnedOnce` joins the two into the property of the run, `TasksOwnedOnce`.
`LeaseStability` and `QueueImplementsPromise` are step properties: with `Lag = 0`
an unexpired lease is not eligible, so `Claim` is a `Take` of free or expired
tasks, and expiry by `Tick` a `Release`.

**ResultOutbox.** `EnqueueIncarnation` keeps
the token of the task ID it uses again, so a token alone does not obviously name an
incarnation; `TokensCurrent` says that it does: a delivery with the current token
is of the current, still queued incarnation, and no two workers share a delivery.
`HeardIsStored` and `ResultIsStored` say that what was returned is what the rows
hold until retention takes them, `LeasedOnce` that the leased outbox commits
exactly when it takes the task from the queue, and `HasResult` that a task leaves the
queue with a result.

**DistributedRun.** `ResultsKept` is not inductive: it says nothing of what
processes hold between two calls. `DInv` adds `JobsSound` (a slot about to
acknowledge holds what the store holds, because the outbox reads it back) and
`DriversSound` (a driver that collected a barrier holds, however late it commits,
what the store records: results are first-writer-wins, so they do not change
after the barrier). The queue is used only through `TaskQueue`.

**EventLog.** `DeliveredExactly` compares the ends of a pipeline, so `EventInv`
follows the sequence numbers through it: what the client has, what is on the
wire, in the server's channel and in the page just read continue each other
without a gap (`Numbered`), each cursor counts what went past it (`Cursors`), and
generations never go back (`OneGeneration`: there is one only, unless a prune
`raced` with the two queries of a `List`), and what is of the current stream is still
in it (`StillStored`). Comments end a connection (`CommentsLast`). In the stream itself a
key has one event, at the position of its number (`LogNumbered`), repeated appends
included.

### Execution

**SuperSteps.** `JInv` keeps the counters of completions and firings in
step with the waiting sets, in memory and in the checkpoint; each source
completed as often as the join fired, plus one if it is waiting. `RInv` says that
the tasks of the run and those of the checkpoint are told apart and, if deferred,
by themselves (`TasksSound`), that step numbers count checkpoints
(`StepsCounted`), and that the two agree. What `resolveNextTasks` computes is
described by lemmas about the sequences it builds, proved by induction over their
length. Two hypotheses are those of the code: `StartsUntriggered`, for memory
equal to checkpoint (see section 4), and `SendsOrdinary`, for the deferred nodes,
as a Send to a deferred node runs at once.

**GraphRun.** `IInv` adds that checkpoints' parents exist (`Parents`), that
layers stay in the graph (`InGraph`) and `Sync`: what a goroutine holds agrees
with the pending writes it wrote, for every state of the goroutine (`TaskSync`).
`Sync` makes `CommittedAsRecorded` inductive, because `Wait` admits a commit only
when every goroutine is done. `HInv` relates the run to the client's side of the
store: where the run is (`RunAt`), that a step which went past a gate has a consumed gate
in the store (`GateSync`), that the answers a run read are still stored
(`AnswerSync`) and that a prompt that was asked and not answered is open
(`AskedOpen`). `HistoryIsKept` is proved step by step from it, with `Kept` as the
step's effect on every checkpoint. A done task's result is `Accounted` for: it is the
recorded one, or the cache's. `PromptsAreAnswered` has no hypothesis on who asks:
`AInv` says that every prompt and answer, in the store and in the run's
snapshot, stands at the position at which its asker raised it, and that an answer
which is not null is to the prompt of that position, or to the other asker's where
body and handler share the list (`SharesPositions`).

**GraphBuilder.** The search of `Compile` is a recursive function of the number of
rounds; it is closed after one round more than there are nodes, because each
round before that adds one (a count, by induction over the rounds). `BuilderInv` has
a part about the calls (`GraphOK`) and one about the run (`PlanOK`): what is scheduled or
executed lies in the closed set unless a command strayed, each join has
seen only sources that ran, and a followed route's targets are executed or scheduled.
An exhausted run is therefore closed under every route, and so contains what the
search found.

**Attempts.** The idle timer runs from the last heartbeat, so a declared deadline had
passed (`DeadlinesKept`); attempts and verdicts are counted by stage
(`AttemptsCounted`), an attempt that was followed by another had a verdict to
retry (`VerdictsJudged`), and the callbacks match, one to one, the verdicts on the
attempts whose body was called (`ReportsMatch`).

**Functional.** The holder of the thread's lock works on a running attempt of its
own input and holds only what that attempt records (`Holds`); when the lock is
free no run is left. `ThreadOK` describes the lineage: parents are older, and the
value an attempt builds on is that of the last completed invocation on the
way to the root. The lineage is stated as a least set, so that appending a
checkpoint does not change it. Entrypoints without recovery have an invariant of their
own (`PlainInv`): every checkpoint of the thread is a completed invocation.

**Channels.** `ChannelInv` says `HoldsHistory` twice, of the channel in memory and
of the one that the disk would restore, and for a delta channel that replaying the
log from the materialized base gives its value. A replayed write is a fold, and the
lemmas about it are by induction over the length of the log.

**Streams.** `StreamInv` orders everything that was sent, whether received or
still in the channel: each producer's emissions in its order, without one left out
unless the context is canceled or the step was abandoned, and the end behind all
of them; while the step waits for its tasks, none of them holds an event at the close.

### Persistence

**AsyncSaver.** `SInv` says who holds the mutex in which state
(`MutexHeld`), what the writer is doing with the head of the queue
(`WriterState`) and that the channel is closed only after the run's own commands
(`RunState`). The mutex held through the select is what proves
`NeverSendsOnClosed`. `AsyncImplementsLog` maps the queue, the command in hand
and the stored prefix to `OrderedLog`. `WritesAfterCheckpoints` needs an order in the
queue as well as in the store: `OInv` says that the checkpoint of the current
super-step was queued before the loop moved to it (`CurrentQueued`), so each
result is queued behind its checkpoint (`QueuedInOrder`), and that the applied
commands have no gap (`NoGaps`, a failing command that took effect included).

**ExitBuffer.** `EInv` follows a boundary from the buffer to the base saver.
`IDsGrow` makes a scope's latest draft the newest checkpoint of its namespace;
`RunFound` says that a run is only ever at checkpoints its saver finds, which is
where `Resume`'s walk over the controls is needed; then the first parent of each
scope is stored (`ParentsStored`) and stays so whichever boundary the flush is
at (`FlushRest`: every scope is published or still to come). An attempt to prove
this for a model in which `Resume` did not look its child checkpoint up failed at
`RunFound`, and TLC confirmed the counterexample with three runs.

**Savers.** `RowsWhole` says that every version a row names has its blob, unless the
row is an orphan of a deletion, and `HeldWhole` the same of what a run has
loaded; a deletion that overlaps a run marks it (`DeletesSeen`). IDs are used once
(`IDsUsedOnce`), so a blob of a new version is never one that pruning counted as
unused. For the lists of Redis, `RecordsIndexed` says that the sorted index names
every record and names no ID twice; what the thread's index misses was orphaned by a
deletion (`ThreadIndexComplete`). `ListsNewestFirst` then follows from lemmas about `Ordering`: an
element's rank is injective, so by finite cardinalities each position of `InOrder`
holds exactly one element, `Scan` keeps the order, and the first `n` of a
descending list are those that fewer than `n` exceed.

**Stores.** While Redis has not noticed a change (`dirty`), the snapshot of a
watching client is the store (`SnapshotsCurrent`) and what a sweep is about to
delete has expired (`SweepCurrent`); a noticed change makes `EXEC` fail.
PostgreSQL needs nothing of the kind: its commit fails if a row it writes changed,
and the one row it may miss, an item inserted after the snapshot that the batch would
delete, it leaves alone (`DeletesNothing`).

**StoreQueries.** Namespaces and items are strictly and totally ordered
(`NamespacesOrdered`, by the least position at which two differ), so a page
holds the elements whose number of predecessors lies in it (`PageOfOrdered`).
`PushdownSound` is the heart of the searches: a condition that holds of the value
read back holds in SQLite's and in PostgreSQL's terms as well, so the query
selects every row that the second evaluation accepts. `FailureKept` says that
what cannot be compared after JSON could not before; a refusal for an unsupported
operator is the only failure that the memory store need not share. A listing that is not full
has fewer namespaces than its limit, hence all of them.

**NodeCache.** Every value enters the cache once (`ValuesOnce`), so a value
that was cleared can only come back from an entry without a name, which Redis'
sets of keys miss (`ClearedGone`, `ClearListed`).

**IndexedStore.** Every key is up to date in the index, or has an intent in the
outbox that would repair it and that the next step of the call spares (`Cared`,
`CallKeeps`). Excepted are the keys that the code itself no longer repairs
(`exposed`): those of a batch that the base store committed although it reported
a failure.

**ControlPlane.** `CInv` has a part for each table. The two that carry the argument:
`JobsOK` (a goroutine that was cancelled has a settled row, and in memory one that
was not cancelled has a running one) and `RequestsOK` (a handler about to start a
run has stored its row, so a step in between cannot find a goroutine without a
row). With a store, a handler's writes are conditional on a running status, which is why
`LedgerIsKept` holds although cancels, completions and deletions overlap: each
step changes a row as one step of `RunLedger` does, or not at all.

### Only model-checked

- All liveness (`RunsEnd`, `RunsComplete`, `FlushReturns`, `SweeperStops`,
  `InvocationsReturn`, `StreamsEnd`, `RunsSettle`): the prover has no reasoning
  about fairness or `ENABLED`.
- `NestedBranchesApart` of `Subgraphs`: it compares what a child retains with the
  sorted tokens of its branch, found by recursion along the checkpoints (`Lines`);
  an invariant would have to carry that comparison through every crash point of
  parent and child.
- `ToolCallsAnswered` of `ToolAgent`: it counts calls and messages of whole
  conversations with `SelectSeq` and folds over concatenated results.

The library's induction theorems take an operator as a parameter, which the
provers cannot instantiate. Where a proof needs induction (lengths of
sequences, rounds of a search), it is stated of a set of numbers whose complement
would have a least member (`LeastNumber`), which the well-foundedness of the
naturals refutes. No module under a proof has a `RECURSIVE` operator.

## 6. Not modelled

- **Codecs, schemas, typed adapters, text extraction**: conversions without state,
  whose correctness is a matter of bytes and Go types.
- **Temporal backend**: hands workflows, activities and signals to the Temporal SDK;
  ordering, retries and recovery are the SDK's.
- **Remote invocation, state, command, interrupt and trace endpoints**: forward
  requests to the components modelled here.
- **Providers, retrieval, conversation memory, integrations, metrics, examples**:
  adapters of external services and pure transformations.
- **Within modelled components**: `Copy` and the inspection of
  histories; `InvokeCommand` updates; `List` merging of the exit saver; the
  contents of events; embeddings and scores; channel bindings and revisions of the
  builder; agent callbacks and middleware.
- **Two processes that run one thread over one database**: the run lock is
  process-local and the documentation asks for one run at a time.

## 7. State and plan

Done: every component above that keeps state, in 22 component modules; the abstract
specifications `TaskQueue`, `OrderedLog` and `RunLedger`, each implemented by its
component; five harnesses; eight proof modules. Of the safety and step properties
that the runs check, all but two are theorems. What is left:

1. `ToolCallsAnswered` of `ToolAgent`, with calls and messages counted as finite sets of
   positions instead of selected sequences.
2. `NestedBranchesApart` of `Subgraphs`, from an invariant that relates each child
   checkpoint to the parent invocation it serves.
3. Liveness stays with TLC.
