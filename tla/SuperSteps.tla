----------------------------- MODULE SuperSteps ------------------------------
(***************************************************************************)
(* The bulk-synchronous loop of CompiledGraph.runInternal on one durable   *)
(* thread, one super-step per action: initializeRun, the recursion limit,  *)
(* routing, channel versions and the checkpoint of every boundary.  What   *)
(* happens inside a super-step is the subject of GraphRun.                 *)
(***************************************************************************)
EXTENDS Routing

CONSTANTS
    Outcomes,       \* Outcomes[n]: the results node n may produce
    RecursionLimit, \* RunConfig.RecursionLimit
    MaxRuns         \* bound on the number of invocations of the thread

ASSUME SuperStepsAssumption ==
    /\ \A n \in Nodes : Outcomes[n] \subseteq {r \in Result : r.node = n}
    /\ RecursionLimit \in Nat \ {0}
    /\ MaxRuns \in Nat \ {0}

VARIABLES
    status,     \* "idle", "running", "done", "recursion" (RecursionError) or
                \* "stopped" (any other error, a cancelled context, a crash)
    step,       \* the step of the next super-step
    tasks,      \* tasks of the next super-step, as the run holds them
    waiting,    \* join and deferral state, as the run holds it
    head,       \* the latest checkpoint: [id, next, waiting]
    versions,   \* its ChannelVersions
    seen,       \* its VersionsSeen
    runs,       \* invocations so far
    completed,  \* history: in how many super-steps each node completed
    fired       \* history: how often each join fired

vars == <<status, step, tasks, waiting, head, versions, seen, runs,
          completed, fired>>

NeverRan == [ran |-> FALSE, at |-> NoVersions]
\* Every NewRun takes the step of its input checkpoint, whatever the limit.
MaxSteps == RecursionLimit + MaxRuns - 1

TypeOK ==
    /\ status \in {"idle", "running", "done", "recursion", "stopped"}
    /\ step \in 0 .. MaxSteps
    /\ tasks \in Seq(Task)
    /\ waiting \in Waiting
    /\ head \in [id: 0 .. MaxSteps + 1, next: Seq(Task), waiting: Waiting]
    /\ versions \in [Channels -> Nat]
    /\ seen \in [Nodes -> [ran: BOOLEAN, at: [Channels -> Nat]]]
    /\ runs \in 0 .. MaxRuns
    /\ completed \in [Nodes -> Nat]
    /\ fired \in [DOMAIN Joins -> Nat]

Init ==
    /\ status = "idle"
    /\ step = 0
    /\ tasks = <<>>
    /\ waiting = EmptyWaiting
    /\ head = [id |-> 0, next |-> <<>>, waiting |-> EmptyWaiting]
    /\ versions = NoVersions
    /\ seen = [n \in Nodes |-> NeverRan]
    /\ runs = 0
    /\ completed = [n \in Nodes |-> 0]
    /\ fired = [j \in DOMAIN Joins |-> 0]

\* initializeRun on a thread with no unfinished tasks: a new thread, or NewRun
\* on a completed one.  The input checkpoint takes a step of its own; it stores
\* the fresh tasks only, the run keeps all of them.
StartRun(routes, changed) ==
    LET taskStep == IF head.id = 0 THEN 0 ELSE step + 1
        started == ScheduleStart(taskStep, routes, head.waiting)
        newVersions == NextVersions(versions, changed, head.id + 1)
    IN  /\ status # "running"
        /\ runs < MaxRuns
        /\ head.next = <<>>
        /\ status' = "running"
        /\ step' = taskStep
        /\ tasks' = started.tasks
        /\ waiting' = started.waiting
        /\ versions' = newVersions
        /\ head' = [id |-> head.id + 1, waiting |-> started.waiting,
                    next |-> FreshTasks(started.tasks, newVersions, seen)]
        /\ runs' = runs + 1
        /\ UNCHANGED <<seen, completed, fired>>

\* initializeRun on a thread with unfinished tasks: restoreRun rebuilds the run
\* from the latest checkpoint; the input is not used.
ContinueRun ==
    /\ status # "running"
    /\ runs < MaxRuns
    /\ head.next # <<>>
    /\ status' = "running"
    /\ tasks' = head.next
    /\ waiting' = head.waiting
    /\ runs' = runs + 1
    /\ UNCHANGED <<step, head, versions, seen, completed, fired>>

\* The guard of the loop: RecursionError before the super-step.
LimitReached == step >= RecursionLimit

\* Mutant: the loop goes on with the tasks it resolved.
HeldResolved(resolved, stored) == resolved

\* commitCheckpoint hands the loop the tasks it stored.
HeldTasks(resolved, stored) == stored

\* One iteration of the loop: the results of all tasks are routed in task
\* order and the next boundary is committed.
SuperStep(results, changed) ==
    LET next == ResolveNext(step, results, waiting)
        newVersions == NextVersions(versions, changed, head.id + 1)
        ran == {results[i].node : i \in DOMAIN results}
        newSeen == NextSeen(seen, versions, ran)
        fresh == FreshTasks(next.tasks, newVersions, newSeen)
    IN  /\ status = "running"
        /\ tasks # <<>>
        /\ ~LimitReached
        /\ (\A i \in DOMAIN results : ~results[i].update) => changed = {}
        /\ tasks' = HeldTasks(next.tasks, fresh)
        /\ waiting' = next.waiting
        /\ versions' = newVersions
        /\ seen' = newSeen
        /\ head' = [id |-> head.id + 1, next |-> fresh, waiting |-> next.waiting]
        /\ step' = step + 1
        /\ completed' = [n \in Nodes |->
              completed[n] + IF n \in ran THEN 1 ELSE 0]
        /\ fired' = [j \in DOMAIN Joins |->
              fired[j] + IF JoinFires(j, results, waiting) THEN 1 ELSE 0]
        /\ UNCHANGED <<status, runs>>

\* Mutant: the loop ends only when nothing waits.
FinishDrained ==
    /\ status = "running"
    /\ tasks = <<>>
    /\ waiting = EmptyWaiting
    /\ status' = "done"
    /\ UNCHANGED <<step, tasks, waiting, head, versions, seen, runs,
                   completed, fired>>

\* The loop ends: no tasks, or RecursionError before the next super-step.
Finish ==
    /\ status = "running"
    /\ tasks = <<>>
    /\ status' = "done"
    /\ UNCHANGED <<step, tasks, waiting, head, versions, seen, runs,
                   completed, fired>>

RecursionStop ==
    /\ status = "running"
    /\ tasks # <<>>
    /\ LimitReached
    /\ status' = "recursion"
    /\ UNCHANGED <<step, tasks, waiting, head, versions, seen, runs,
                   completed, fired>>

\* A failing node, reducer or router, a cancelled context or a crash: what the
\* run holds in memory is lost, the thread keeps its latest checkpoint.
Stop ==
    /\ status = "running"
    /\ status' = "stopped"
    /\ tasks' = <<>>
    /\ waiting' = EmptyWaiting
    /\ UNCHANGED <<step, head, versions, seen, runs, completed, fired>>

\* Any results of the scheduled tasks, and any channels they change.
AnySuperStep ==
    \E results \in [DOMAIN tasks -> UNION {Outcomes[n] : n \in Nodes}] :
        /\ \A i \in DOMAIN tasks : results[i] \in Outcomes[tasks[i].node]
        /\ \E changed \in SUBSET Channels : SuperStep(results, changed)

Next ==
    \/ \E routes \in StartRoutes, changed \in SUBSET Channels :
          StartRun(routes, changed)
    \/ ContinueRun
    \/ AnySuperStep
    \/ Finish
    \/ RecursionStop
    \/ Stop

Spec == Init /\ [][Next]_vars

\* A super-step that has begun ends: its nodes return, or it fails.
StepEnds == tasks # <<>> /\ ~LimitReached /\ (Stop \/ AnySuperStep)

\* The loop of a running invocation goes on.
FairSpec == Spec /\ WF_vars(StepEnds) /\ WF_vars(Finish \/ RecursionStop)

-----------------------------------------------------------------------------
\* A join fires only when every one of its sources has completed again since it
\* last fired, and not later: the checkpoint never holds a full set back, and a
\* join never fires more often than its least frequent source ran
\* (resolveNextWithStates, across super-steps, restarts and invocations).
JoinsWaitForAll ==
    \A j \in DOMAIN Joins :
        /\ head.waiting.joins[j] # Joins[j].sources
        /\ \A n \in Joins[j].sources :
              /\ fired[j] <= completed[n]
              /\ n \in head.waiting.joins[j] => fired[j] < completed[n]

\* A deferred node routed to over an edge runs in a super-step of deferred
\* nodes only: no ordinary work is left when it starts (releaseDeferredTasks).
\* Graphs whose Sends target deferred nodes are outside this property.
SendsOrdinary ==
    \A n \in Nodes : \A r \in Outcomes[n] :
        \A i \in DOMAIN r.sends : r.sends[i] \notin Deferred
DeferredRunLast ==
    (\E i \in DOMAIN tasks : tasks[i].node \in Deferred) =>
        (\A i \in DOMAIN tasks : tasks[i].node \in Deferred)

\* A finished invocation leaves no deferred node behind: IsDeferred says it
\* "waits until no ordinary graph work remains before it is scheduled".
NoDeferredLeftBehind == status = "done" => head.waiting.deferred = {}

\* Task IDs name the tasks of a super-step uniquely, Sends included: pending
\* writes are filed under them.
TaskIDsUnique ==
    \A i, j \in DOMAIN tasks : tasks[i].id = tasks[j].id => i = j

\* What the run is about to execute is what its checkpoint would recover, in
\* graphs whose first tasks are not subject to the freshness filter: initializeRun
\* keeps all of them and stores the fresh ones.
StartsUntriggered ==
    /\ \A n \in Deferred : Triggers[n] = {}
    /\ \A routes \in StartRoutes : \A i \in DOMAIN routes :
          routes[i] # END => Triggers[routes[i]] = {}
RunMatchesCheckpoint ==
    status = "running" => tasks = head.next /\ waiting = head.waiting

\* A run's state is well formed, its tasks are told apart, and they are those that
\* its checkpoint would recover.
RunConsistent == TypeOK /\ TaskIDsUnique /\ RunMatchesCheckpoint

\* The recursion limit bounds every invocation: it ends.
RunsEnd == status = "running" ~> status # "running"
=============================================================================
