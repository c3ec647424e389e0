---------------------------- MODULE ControlPlane -----------------------------
(***************************************************************************)
(* The control plane of the remote servers (remote/control.go): threads    *)
(* and asynchronous runs, kept either in one server's memory or in a       *)
(* ControlStore that several servers share (control_store.go,              *)
(* control_store_sqlite.go, control_store_server.go).                      *)
(*                                                                         *)
(* In memory every handler works under control.mu, except deleteThread,    *)
(* which unlocks to wait for the runs it cancels.  With a store, a handler *)
(* is a sequence of atomic store calls and looks at the server's own       *)
(* records in between; the goroutine of a run and its watcher race with    *)
(* them, and a server may die.  Timestamps are left out: which settled     *)
(* runs are old enough to prune is a free choice.  Run IDs are unique.     *)
(***************************************************************************)
EXTENDS Naturals, FiniteSets

CONSTANTS
    Servers,    \* processes that serve the control API
    Solo,       \* the one server when runs are kept in memory
    Clients,    \* concurrent requests
    Via,        \* of each client, the server of a shared store it talks to
    Faulty,     \* servers that may be closed or die
    Threads,
    MaxRuns,    \* bound on the runs that are created
    Keys,       \* idempotency keys
    NoKey,      \* no Idempotency-Key header
    Payloads    \* request bodies, told apart by their hash

ASSUME ControlAssumption ==
    /\ Solo \in Servers
    /\ Via \in [Clients -> Servers]
    /\ NoKey \notin Keys
    /\ MaxRuns \in Nat

Runs == 1 .. MaxRuns        \* run IDs, in the order they are generated

VARIABLES
    stored,     \* options.ControlStore is set; never changes
    threads,    \* threads with an entry in the threads table
    tables,     \* threads with a (non-nil) table of runs
    row,        \* of each run ID, its row in the table of its thread
    claims,     \* idempotency records
    job,        \* of each run, its executeRun goroutine and local record
    req,        \* of each client, the request in progress
    closing,    \* of each server: "open", "waiting" in Close, "closed"
    locked,     \* control.mu was left locked by a handler that panicked
    deleted     \* threads whose deletion was confirmed and not created since

vars == <<stored, threads, tables, row, claims, job, req, closing, locked, deleted>>

RunStatus == {"running", "ended", "canceled"}     \* ended: success or error

terminalRun(status) == status \in {"ended", "canceled"}

Row == [thread: Threads, key: Keys \cup {NoKey}, status: RunStatus]
NoRow == [status |-> "none"]
Removed == [status |-> "removed"]

(* A goroutine that executes a run: whether its context is cancelled, and  *)
(* whether (in memory) the record it writes to was cancelled.  Lost is one *)
(* that could not store its end.                                           *)
Job == [pc: {"invoke"}, server: Servers, thread: Threads, stopped: BOOLEAN, canceled: BOOLEAN]
NoJob == [pc |-> "none"]
Done == [pc |-> "done"]
Lost == [pc |-> "lost"]

Claim == [thread: Threads, key: Keys, payload: Payloads, run: Runs]

(* A handler between two of its steps, with what it remembers. *)
Idle == [pc |-> "idle"]
Request ==
    {Idle}
    \cup [pc: {"insertThread", "cancelRecords", "dropThread"}, server: Servers, thread: Threads]
    \cup [pc: {"storeRun"}, server: Servers, thread: Threads, key: Keys \cup {NoKey},
          payload: Payloads]
    \cup [pc: {"register"}, server: Servers, thread: Threads, run: Runs]
    \cup [pc: {"transition", "cancelLocal"}, server: Servers, run: Runs]
    \cup [pc: {"cancelRows", "await"}, server: Servers, thread: Threads, runs: SUBSET Runs]

TypeOK ==
    /\ stored \in BOOLEAN
    /\ threads \subseteq Threads
    /\ tables \subseteq threads
    /\ stored => tables = threads
    /\ row \in [Runs -> Row \cup {NoRow, Removed}]
    /\ \A r \in Runs : row[r] \in Row => row[r].thread \in tables
    /\ claims \subseteq Claim
    /\ job \in [Runs -> Job \cup {NoJob, Done, Lost}]
    /\ \A r \in Runs : row[r] = NoRow => job[r] = NoJob
    /\ req \in [Clients -> Request]
    /\ closing \in [Servers -> {"open", "waiting", "closed"}]
    /\ locked \in BOOLEAN
    /\ deleted \subseteq Threads

Init ==
    /\ stored \in BOOLEAN
    /\ threads = {}
    /\ tables = {}
    /\ row = [r \in Runs |-> NoRow]
    /\ claims = {}
    /\ job = [r \in Runs |-> NoJob]
    /\ req = [c \in Clients |-> Idle]
    /\ closing = [s \in Servers |-> "open"]
    /\ locked = FALSE
    /\ deleted = {}

-----------------------------------------------------------------------------
(* Helpers.                                                                *)

Server(c) == IF stored THEN Via[c] ELSE Solo
closed(s) == closing[s] # "open"

(* IDGenerator. *)
NewID(r) == row[r] = NoRow /\ \A q \in 1 .. r - 1 : row[q] # NoRow

Begin(c, request) == req[c] = Idle /\ req' = [req EXCEPT ![c] = request]
Goto(c, request) == req' = [req EXCEPT ![c] = request]
Respond(c) == req' = [req EXCEPT ![c] = Idle]

Listed == {r \in Runs : row[r].status \in RunStatus}
RunsOf(t) == {r \in Listed : row[r].thread = t}
Remove(rs) == row' = [r \in Runs |-> IF r \in rs THEN Removed ELSE row[r]]

(* Runs that server s executes: its control.runs with a store. *)
Executing == {r \in Runs : job[r].pc = "invoke"}
RunsOn(s) == {r \in Executing : job[r].server = s}
CancelContexts(rs) ==
    job' = [r \in Runs |-> IF r \in rs /\ r \in Executing
                           THEN [job[r] EXCEPT !.stopped = TRUE] ELSE job[r]]
StartJob(r, s, t, stop) ==
    job' = [job EXCEPT ![r] = [pc |-> "invoke", server |-> s, thread |-> t,
                               stopped |-> stop, canceled |-> FALSE]]

ClaimOf(t, k) == {cl \in claims : cl.thread = t /\ cl.key = k}

InsertThread(t) ==
    /\ threads' = threads \cup {t}
    /\ tables' = tables \cup {t}
    /\ deleted' = deleted \ {t}

(* The insert of a run: row, table and idempotency record at once. *)
InsertRun(r, t, k, p) ==
    /\ row' = [row EXCEPT ![r] = [thread |-> t, key |-> k, status |-> "running"]]
    /\ claims' = IF k = NoKey THEN claims
                 ELSE (claims \ ClaimOf(t, k))
                      \cup {[thread |-> t, key |-> k, payload |-> p, run |-> r]}

(* Mutant: the expected status is not compared. *)
TransitionAnyway(r, next) == row' = [row EXCEPT ![r].status = next]

(* ControlStore.TransitionRun from {running}; the caller knows r is listed. *)
TransitionRun(r, next) ==
    row' = IF row[r].status = "running" THEN [row EXCEPT ![r].status = next] ELSE row

(* PruneRuns: settled runs that are old enough, with their claims. *)
PruneRuns(rs) ==
    /\ rs \subseteq {r \in Listed : terminalRun(row[r].status)}
    /\ Remove(rs)
    /\ claims' = {cl \in claims : cl.run \notin rs}

(* The tables without thread t. *)
DropThread(t) ==
    /\ threads' = threads \ {t}
    /\ tables' = tables \ {t}
    /\ Remove(RunsOf(t))
    /\ claims' = {cl \in claims : cl.thread # t}
    /\ deleted' = deleted \cup {t}

-----------------------------------------------------------------------------
(* Threads.                                                                *)

(* createThread looks at closed under a read lock it gives up again. *)
createThread(c, t) ==
    /\ ~locked /\ ~closed(Server(c))
    /\ Begin(c, [pc |-> "insertThread", server |-> Server(c), thread |-> t])
    /\ UNCHANGED <<stored, threads, tables, row, claims, job, closing, locked, deleted>>

createThreadInsert(c) ==
    /\ req[c].pc = "insertThread"
    /\ stored \/ ~locked
    /\ LET t == req[c].thread IN
       IF t \in threads
       THEN UNCHANGED <<threads, tables, deleted>>      \* thread already exists
       ELSE InsertThread(t)
    /\ Respond(c)
    /\ UNCHANGED <<stored, row, claims, job, closing, locked>>

(* deleteThread in memory: cancel the runs, unlock, wait for them ... *)
deleteThread(c, t) ==
    /\ ~stored /\ ~locked
    /\ t \in threads
    /\ CancelContexts(RunsOf(t))
    /\ Begin(c, [pc |-> "await", server |-> Solo, thread |-> t, runs |-> RunsOf(t)])
    /\ UNCHANGED <<stored, threads, tables, row, claims, closing, locked, deleted>>

(* ... and drop whatever the thread holds by then. *)
deleteThreadDrop(c) ==
    /\ req[c].pc = "await" /\ ~locked
    /\ \A r \in req[c].runs : job[r] = Done
    /\ DropThread(req[c].thread)
    /\ Respond(c)
    /\ UNCHANGED <<stored, job, closing, locked>>

(* deleteThread with a store: ListRuns ... *)
deleteStoredThread(c, t) ==
    /\ stored
    /\ t \in threads
    /\ Begin(c, [pc |-> "cancelRows", server |-> Server(c), thread |-> t,
                 runs |-> {r \in RunsOf(t) : row[r].status = "running"}])
    /\ UNCHANGED <<stored, threads, tables, row, claims, job, closing, locked, deleted>>

(* ... one TransitionRun per run that was running (not found is ignored) ... *)
deleteStoredThreadCancel(c, r) ==
    /\ req[c].pc = "cancelRows"
    /\ r \in req[c].runs
    /\ IF r \in Listed THEN TransitionRun(r, "canceled") ELSE UNCHANGED row
    /\ Goto(c, [req[c] EXCEPT !.runs = @ \ {r}])
    /\ UNCHANGED <<stored, threads, tables, claims, job, closing, locked, deleted>>

(* ... the records of this server ... *)
deleteStoredThreadLocal(c) ==
    /\ req[c].pc = "cancelRows"
    /\ req[c].runs = {}
    /\ LET s == req[c].server t == req[c].thread IN
       /\ CancelContexts({r \in RunsOn(s) : job[r].thread = t})
       /\ Goto(c, [pc |-> "dropThread", server |-> s, thread |-> t])
    /\ UNCHANGED <<stored, threads, tables, row, claims, closing, locked, deleted>>

(* ... and ControlStore.DeleteThread. *)
deleteStoredThreadDrop(c) ==
    /\ req[c].pc = "dropThread"
    /\ IF req[c].thread \in threads
       THEN DropThread(req[c].thread)
       ELSE UNCHANGED <<threads, tables, row, claims, deleted>>
    /\ Respond(c)
    /\ UNCHANGED <<stored, job, closing, locked>>

-----------------------------------------------------------------------------
(* Runs.                                                                   *)

(* createRun in memory, one critical section.  A claim with the same       *)
(* payload whose record is listed answers with that run and changes        *)
(* nothing; a claim with another payload is a conflict.                    *)
(* A thread without a table makes the insert panic with the mutex held.    *)
createRun(t, k, p, r) ==
    /\ ~stored /\ ~locked /\ ~closed(Solo)
    /\ \A cl \in ClaimOf(t, k) : cl.payload = p /\ cl.run \notin Listed
    /\ t \in threads
    /\ NewID(r)
    /\ IF t \in tables
       THEN /\ InsertRun(r, t, k, p)
            /\ StartJob(r, Solo, t, FALSE)
            /\ UNCHANGED locked
       ELSE /\ locked' = TRUE
            /\ UNCHANGED <<row, claims, job>>
    /\ UNCHANGED <<stored, threads, tables, req, closing, deleted>>

(* createStoredRun: the server is open ... *)
createStoredRun(c, t, k, p) ==
    /\ stored /\ ~closed(Server(c))
    /\ Begin(c, [pc |-> "storeRun", server |-> Server(c), thread |-> t, key |-> k, payload |-> p])
    /\ UNCHANGED <<stored, threads, tables, row, claims, job, closing, locked, deleted>>

(* ... ControlStore.CreateRun: not found, a claim (the prior run, or a     *)
(* conflict), or the insert ...                                            *)
createStoredRunInsert(c, r) ==
    /\ req[c].pc = "storeRun"
    /\ LET q == req[c] IN
       IF q.thread \notin threads \/ ClaimOf(q.thread, q.key) # {}
       THEN /\ Respond(c)
            /\ UNCHANGED <<row, claims>>
       ELSE /\ NewID(r)
            /\ InsertRun(r, q.thread, q.key, q.payload)
            /\ Goto(c, [pc |-> "register", server |-> q.server, thread |-> q.thread, run |-> r])
    /\ UNCHANGED <<stored, threads, tables, job, closing, locked, deleted>>

(* Mutant: a second look at closed, after the row was stored. *)
RegisterUnlessClosed(c) ==
    /\ req[c].pc = "register"
    /\ IF closed(req[c].server)
       THEN UNCHANGED job
       ELSE StartJob(req[c].run, req[c].server, req[c].thread, FALSE)
    /\ Respond(c)
    /\ UNCHANGED <<stored, threads, tables, row, claims, closing, locked, deleted>>

(* ... and the local record; its context is a child of the server's. *)
createStoredRunRegister(c) ==
    /\ req[c].pc = "register"
    /\ StartJob(req[c].run, req[c].server, req[c].thread, closed(req[c].server))
    /\ Respond(c)
    /\ UNCHANGED <<stored, threads, tables, row, claims, closing, locked, deleted>>

(* cancelRun in memory. *)
cancelRun(r) ==
    /\ ~stored /\ ~locked
    /\ r \in Listed
    /\ row[r].status = "running"
    /\ row' = [row EXCEPT ![r].status = "canceled"]
    /\ threads' = threads \cup {row[r].thread}
    /\ job' = IF r \in Executing
              THEN [job EXCEPT ![r].stopped = TRUE, ![r].canceled = TRUE] ELSE job
    /\ UNCHANGED <<stored, tables, claims, req, closing, locked, deleted>>

(* cancelRun with a store: GetRun ... *)
cancelStoredRun(c, r) ==
    /\ stored
    /\ r \in Listed
    /\ Begin(c, [pc |-> IF row[r].status = "running" THEN "transition" ELSE "cancelLocal",
                 server |-> Server(c), run |-> r])
    /\ UNCHANGED <<stored, threads, tables, row, claims, job, closing, locked, deleted>>

(* ... TransitionRun (a run not found any more ends the request) ... *)
cancelStoredRunTransition(c) ==
    /\ req[c].pc = "transition"
    /\ IF req[c].run \in Listed
       THEN /\ TransitionRun(req[c].run, "canceled")
            /\ Goto(c, [req[c] EXCEPT !.pc = "cancelLocal"])
       ELSE /\ Respond(c)
            /\ UNCHANGED row
    /\ UNCHANGED <<stored, threads, tables, claims, job, closing, locked, deleted>>

(* ... and the record, if this server executes the run. *)
cancelStoredRunLocal(c) ==
    /\ req[c].pc = "cancelLocal"
    /\ CancelContexts({req[c].run} \cap RunsOn(req[c].server))
    /\ Respond(c)
    /\ UNCHANGED <<stored, threads, tables, row, claims, closing, locked, deleted>>

(* A handler stops half-way: a store call fails, or the client of a        *)
(* deleteThread in memory gives up waiting.                                *)
Abandon(c) ==
    /\ \/ req[c].pc = "await"
       \/ /\ stored
          /\ req[c].pc \in {"insertThread", "storeRun", "transition", "cancelRows", "dropThread"}
    /\ Respond(c)
    /\ UNCHANGED <<stored, threads, tables, row, claims, job, closing, locked, deleted>>

-----------------------------------------------------------------------------
(* The goroutine of a run.                                                 *)

(* executeRun in memory, from the return of invoker.Invoke: the end of the *)
(* run, unless it was cancelled, and the thread's entry written back.      *)
executeRun(r) ==
    /\ ~stored /\ ~locked
    /\ r \in Executing
    /\ IF job[r].canceled
       THEN UNCHANGED <<row, threads>>
       ELSE /\ row' = IF r \in Listed THEN [row EXCEPT ![r].status = "ended"] ELSE row
            /\ threads' = threads \cup {job[r].thread}
    /\ job' = [job EXCEPT ![r] = Done]
    /\ UNCHANGED <<stored, tables, claims, req, closing, locked, deleted>>

(* With a store: finishStoredRun after Invoke, one TransitionRun whose     *)
(* error is dropped.  The prune that follows it under RunRetention is a    *)
(* store call of its own, PruneRequest; the deferred calls then drop the   *)
(* record and cancel the context, which nobody can tell apart any more.    *)
finishStoredRun(r) ==
    /\ stored
    /\ r \in Executing
    /\ \/ /\ IF r \in Listed THEN TransitionRun(r, "ended") ELSE UNCHANGED row
          /\ job' = [job EXCEPT ![r] = Done]
       \/ /\ job' = [job EXCEPT ![r] = Lost]
          /\ UNCHANGED row
    /\ UNCHANGED <<stored, threads, tables, claims, req, closing, locked, deleted>>

(* Mutant: a row that is gone is taken for one that still runs. *)
WatchStatusOnly(r) ==
    /\ stored
    /\ r \in Executing /\ ~job[r].stopped
    /\ row[r].status = "canceled"
    /\ CancelContexts({r})
    /\ UNCHANGED <<stored, threads, tables, row, claims, req, closing, locked, deleted>>

(* watchStoredRun polls the row while the invocation runs. *)
watchStoredRun(r) ==
    /\ stored
    /\ r \in Executing /\ ~job[r].stopped
    /\ row[r].status \in {"removed", "canceled"}
    /\ CancelContexts({r})
    /\ UNCHANGED <<stored, threads, tables, row, claims, req, closing, locked, deleted>>

(* Server.PruneRuns, and the prune at the end of finishStoredRun. *)
PruneRequest ==
    /\ stored \/ ~locked
    /\ \E rs \in SUBSET Listed : rs # {} /\ PruneRuns(rs)
    /\ UNCHANGED <<stored, threads, tables, job, req, closing, locked, deleted>>

-----------------------------------------------------------------------------
(* The server.                                                             *)

(* Close cancels the runs of s and the context later runs derive from ... *)
Close(s) ==
    /\ stored \/ s = Solo
    /\ ~locked
    /\ closing[s] = "open"
    /\ closing' = [closing EXCEPT ![s] = "waiting"]
    /\ CancelContexts(RunsOn(s))
    /\ UNCHANGED <<stored, threads, tables, row, claims, req, locked, deleted>>

(* ... and waits for the goroutines. *)
CloseWait(s) ==
    /\ closing[s] = "waiting"
    /\ RunsOn(s) = {}
    /\ closing' = [closing EXCEPT ![s] = "closed"]
    /\ UNCHANGED <<stored, threads, tables, row, claims, job, req, locked, deleted>>

(* The process dies and a new one takes its place; the store survives. *)
Crash(s) ==
    LET Mine(c) == req[c] # Idle /\ req[c].server = s
        lost == RunsOn(s) \cup {req[c].run : c \in {d \in Clients : Mine(d) /\ req[d].pc = "register"}}
    IN
    /\ stored
    /\ job' = [r \in Runs |-> IF r \in lost THEN Lost ELSE job[r]]
    /\ req' = [c \in Clients |-> IF Mine(c) THEN Idle ELSE req[c]]
    /\ closing' = [closing EXCEPT ![s] = "open"]
    /\ UNCHANGED <<stored, threads, tables, row, claims, locked, deleted>>

-----------------------------------------------------------------------------
(* The next step a handler takes by itself. *)
Handle(c) ==
    \/ createThreadInsert(c)
    \/ deleteThreadDrop(c)
    \/ \E r \in Runs : deleteStoredThreadCancel(c, r)
    \/ deleteStoredThreadLocal(c)
    \/ deleteStoredThreadDrop(c)
    \/ \E r \in Runs : createStoredRunInsert(c, r)
    \/ createStoredRunRegister(c)
    \/ cancelStoredRunTransition(c)
    \/ cancelStoredRunLocal(c)

(* A new request of client c. *)
Ask(c) ==
    \/ \E t \in Threads : createThread(c, t) \/ deleteThread(c, t) \/ deleteStoredThread(c, t)
    \/ \E t \in Threads, k \in Keys \cup {NoKey}, p \in Payloads : createStoredRun(c, t, k, p)
    \/ \E r \in Runs : cancelStoredRun(c, r)

Next ==
    \/ \E c \in Clients : Ask(c) \/ Handle(c) \/ Abandon(c)
    \/ \E t \in Threads, k \in Keys \cup {NoKey}, p \in Payloads, r \in Runs :
          createRun(t, k, p, r)
    \/ \E r \in Runs : cancelRun(r)
    \/ \E r \in Runs : executeRun(r) \/ finishStoredRun(r) \/ watchStoredRun(r)
    \/ PruneRequest
    \/ \E s \in Faulty : Close(s) \/ CloseWait(s) \/ Crash(s)

Spec == Init /\ [][Next]_vars

(* Handlers and goroutines are scheduled, the watcher's ticker fires, and  *)
(* an invocation returns once its context is cancelled.                    *)
FairSpec ==
    /\ Spec
    /\ \A c \in Clients : WF_vars(Handle(c))
    /\ \A r \in Runs :
          /\ WF_vars(job[r].pc = "invoke" /\ job[r].stopped /\ (executeRun(r) \/ finishStoredRun(r)))
          /\ WF_vars(watchStoredRun(r))
    /\ \A s \in Servers : WF_vars(CloseWait(s))

-----------------------------------------------------------------------------
(* Properties.                                                             *)

(* An idempotency record never outlives the run it answers with, through   *)
(* deletions, retention and concurrent creates: a repeated createRun finds *)
(* the run, never an empty one, and a keyed run can be found by its key.   *)
ClaimsResolve ==
    /\ \A cl \in claims : cl.run \in Listed
                          /\ row[cl.run].thread = cl.thread /\ row[cl.run].key = cl.key
    /\ \A r \in Listed : row[r].key # NoKey => \E cl \in claims : cl.run = r

(* A run that is listed as running has somebody who will end it: its       *)
(* goroutine, or the handler about to start it.  Only a crash or an end    *)
(* that could not be stored leaves it behind.                              *)
RunningIsOwned ==
    \A r \in Listed : row[r].status = "running" =>
        \/ r \in Executing
        \/ \E c \in Clients : req[c].pc = "register" /\ req[c].run = r
        \/ job[r] = Lost

(* The tables keep their shape, and runs and idempotency records their     *)
(* owners, through every interleaving of the handlers, retention and Close. *)
RunsOwned == TypeOK /\ ClaimsResolve /\ RunningIsOwned

(* A confirmed deletion holds until somebody creates the thread again. *)
DeletedStaysDeleted == deleted \cap threads = {}

(* The invocation of a cancelled run ends, whichever server took the       *)
(* request: the watcher sees the row, or sees that it is gone.             *)
CanceledRunStops ==
    \A r \in Runs : (r \in Listed /\ row[r].status = "canceled") ~> (r \notin Executing \/ locked)

(* Close returns, runs registered late included. *)
CloseReturns == \A s \in Servers : closing[s] = "waiting" ~> closing[s] # "waiting"

(* What was told to stop comes to an end: a cancelled run and a closed     *)
(* server.                                                                 *)
RunsSettle == CanceledRunStops /\ CloseReturns

(* The rows are the promised ledger. *)
Entry(r) ==
    IF r \in Listed
    THEN [thread |-> row[r].thread, key |-> row[r].key, status |-> row[r].status]
    ELSE [thread |-> "none", key |-> NoKey,
          status |-> IF row[r] = NoRow THEN "none" ELSE "removed"]

Entries == [r \in Runs |-> Entry(r)]

Ledger == INSTANCE RunLedger WITH ledger <- Entries

(* Whatever interleaves (creates with one key on two servers, a cancel     *)
(* with the end of the invocation, a deletion with either), a key names    *)
(* one listed run of its thread and a settled run keeps its status.        *)
ImplementsRunLedger == Ledger!Spec
=============================================================================
