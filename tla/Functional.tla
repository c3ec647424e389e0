----------------------------- MODULE Functional ------------------------------
(***************************************************************************)
(* Durable workflows of the functional API: an entrypoint (or a graph node *)
(* made by NewNode) that calls tasks, awaits them and asks for answers.    *)
(*                                                                         *)
(* An invocation holds the lock of its thread.  It works on a "running"    *)
(* checkpoint, the attempt; results of tasks and prompts are pending       *)
(* writes of it, and an invocation with the same input replays it.  Tasks  *)
(* run in goroutines of their own under a semaphore.  A task may fail, be  *)
(* retried, or ask; a prompt's identity is its scope and a counter that a  *)
(* retry does not reset.  The process may die at any step.                 *)
(*                                                                         *)
(* A result is recorded only for a task with the Persistence option, and   *)
(* an entrypoint without EnableTaskRecovery (host "plain") has no attempt: *)
(* it records nothing but its completion, and its tasks cannot ask.        *)
(***************************************************************************)
EXTENDS Naturals, Sequences, FiniteSets

CONSTANTS
    Hosts,                \* subset of {"entrypoint", "plain", "node"}
    Clients,
    TaskIDs,              \* 1 .. n, in the order in which the body calls them
    Body,                 \* sequence of <<"call", t>>, <<"await", t>> and <<"ask", 0>>
    Persistent,           \* tasks with the option Persistence
    Asking,               \* tasks that call AwaitResume once
    TaskAttempts,         \* task -> attempts of its retry policy (1: no policy)
    MaxConcurrency,       \* MaxConcurrency, 0: unlimited
    Inputs, AnswerValues,
    MaxThreadCheckpoints, \* bound: checkpoints of the thread
    MaxInvocations,       \* bound: invocations that begin
    MaxMishaps            \* bound: failing tasks and crashes

Entry == 0   \* the scope of the body; the scope of a task is the task

\* A task of the model is one call of the body.
ASSUME FunctionalAssumption ==
    /\ Hosts \subseteq {"entrypoint", "plain", "node"} /\ 0 \notin Clients /\ Entry \notin TaskIDs
    /\ Body \in Seq({"call", "await"} \X TaskIDs \cup {<<"ask", Entry>>})
    /\ \A i, j \in DOMAIN Body : Body[i] = Body[j] /\ Body[i][1] = "call" => i = j
    /\ TaskAttempts \in [TaskIDs -> Nat] /\ MaxConcurrency \in Nat
    /\ MaxThreadCheckpoints \in Nat /\ MaxInvocations \in Nat /\ MaxMishaps \in Nat

VARIABLES
    host,
    thread, \* the thread's checkpoints, oldest first
    run,    \* the invocation that holds the thread's lock
    caller, \* caller -> the call it makes and what it was told
    grants, \* node: the resume values of the graph's task, by call
    begun,  \* invocations so far
    mishaps,
    values  \* task executions so far; each returns a value of its own

functionalVars == <<host, thread, run, caller, grants, begun, mishaps, values>>

\* Pending writes: the value of a task's result, the answer of a prompt (0: none yet).
NothingWritten == [results |-> <<>>, prompts |-> <<>>]
NewCheckpoint(status, parent, input, prev) ==
    [status |-> status, parent |-> parent, input |-> input, prev |-> prev,
     writes |-> NothingWritten, used |-> NothingWritten]

NewTask == [at |-> "none", val |-> 0, asked |-> 0, answer |-> <<>>, attempts |-> 1, err |-> "none",
            prompt |-> <<>>]
NoRun == [caller |-> 0, attempt |-> 0, recovered |-> NothingWritten, pc |-> 1,
          task |-> [t \in TaskIDs |-> NewTask], entry |-> "running",
          asked |-> 0, answers |-> <<>>, canceled |-> FALSE, failed |-> FALSE,
          prompts |-> {}, own |-> {}, calls |-> 0]
NoCall == [at |-> "idle", input |-> 0, from |-> 0, told |-> {}, outcome |-> "none"]

FunctionalInit ==
    /\ host \in Hosts
    /\ thread = IF host = "node" THEN <<NewCheckpoint("running", 0, 0, 0)>> ELSE <<>>
    /\ run = NoRun /\ caller = [c \in Clients |-> NoCall]
    /\ grants = <<>> /\ begun = 0 /\ mishaps = 0 /\ values = 0

Extend(f, k, v) == [x \in DOMAIN f \cup {k} |-> IF x = k THEN v ELSE f[x]]
Busy == run.caller # 0
\* The task manager has a durable runtime, and it keeps the results of t.
Durable == host # "plain"
Recoverable(t) == Durable /\ t \in Persistent

-----------------------------------------------------------------------------
(***************************************************************************)
(* Beginning an invocation.                                                *)
(***************************************************************************)
\* A call for the latest checkpoint (from = 0) or for one of the history.
InvokeEntrypoint(c, input, from) ==
    /\ caller[c].at = "idle" /\ begun < MaxInvocations
    /\ caller' = [caller EXCEPT ![c] = [NoCall EXCEPT !.at = "waiting", !.input = input, !.from = from]]
    /\ begun' = begun + 1
    /\ UNCHANGED <<host, thread, run, grants, mishaps, values>>

\* Mutant: any running attempt is replayed.
ReusesAny(cp, input) == cp.status = "running"
\* invoke with the lock: the checkpoint is the attempt to replay if it is running
\* and has this input; otherwise a new attempt keeps the previous value.
Reuses(cp, input) == cp.status = "running" /\ cp.input = input
PreviousOf(id) == IF id = 0 THEN 0 ELSE IF thread[id].status = "complete" THEN id ELSE thread[id].prev
Begin(c) ==
    LET input == caller[c].input
        base == IF caller[c].from = 0 THEN Len(thread) ELSE caller[c].from IN
    /\ host = "entrypoint" /\ ~Busy /\ caller[c].at = "waiting"
    /\ \/ /\ base > 0 /\ Reuses(thread[base], input)
          /\ run' = [NoRun EXCEPT !.caller = c, !.attempt = base, !.recovered = thread[base].writes]
          /\ UNCHANGED thread
       \/ /\ ~(base > 0 /\ Reuses(thread[base], input))
          /\ Len(thread) < MaxThreadCheckpoints
          /\ thread' = Append(thread, NewCheckpoint("running", base, input, PreviousOf(base)))
          /\ run' = [NoRun EXCEPT !.caller = c, !.attempt = Len(thread) + 1]
    /\ caller' = [caller EXCEPT ![c].at = "running"]
    /\ UNCHANGED <<host, grants, begun, mishaps, values>>

\* invoke without EnableTaskRecovery: the completed invocation it builds on.
PlainBegin(c) ==
    /\ host = "plain" /\ ~Busy /\ caller[c].at = "waiting"
    /\ run' = [NoRun EXCEPT !.caller = c,
                            !.attempt = IF caller[c].from = 0 THEN Len(thread) ELSE caller[c].from]
    /\ caller' = [caller EXCEPT ![c].at = "running"]
    /\ UNCHANGED <<host, thread, grants, begun, mishaps, values>>

\* The answers of prompts that are written already.
Granted(writes, g) ==
    [writes EXCEPT !.prompts =
        [p \in DOMAIN writes.prompts |-> IF p \in g.prompts THEN g.answer ELSE writes.prompts[p]]]

\* Resume of an entrypoint: the answers are written under the lock, which is then
\* released before Invoke takes it again.
ResumeEntrypoint(c, a, from) ==
    LET id == IF from = 0 THEN Len(thread) ELSE from
        told == caller[c].told IN
    /\ host = "entrypoint" /\ ~Busy /\ caller[c].at = "told" /\ begun < MaxInvocations
    /\ IF thread[id].status = "running" /\ told \subseteq DOMAIN thread[id].writes.prompts
       THEN /\ thread' = [thread EXCEPT ![id].writes = Granted(@, [prompts |-> told, answer |-> a])]
            /\ caller' = [caller EXCEPT ![c] =
                             [NoCall EXCEPT !.at = "waiting", !.input = caller[c].input, !.from = from]]
       ELSE /\ caller' = [caller EXCEPT ![c] = [NoCall EXCEPT !.outcome = "invalid"]]
            /\ UNCHANGED thread
    /\ begun' = begun + 1
    /\ UNCHANGED <<host, run, grants, mishaps, values>>

\* A node: the graph answers the calls of its AwaitResume in order.
GraphResume(c, a) ==
    /\ host = "node" /\ ~Busy /\ caller[c].at = "told" /\ begun < MaxInvocations
    /\ grants' = Append(grants, [prompts |-> caller[c].told, answer |-> a])
    /\ caller' = [caller EXCEPT ![c] = [NoCall EXCEPT !.at = "waiting", !.input = caller[c].input]]
    /\ begun' = begun + 1
    /\ UNCHANGED <<host, thread, run, mishaps, values>>

\* graphNodeTaskManager and pendingGraphNodeInterrupts; prompts that are pending
\* from an earlier execution are put to the graph before the node runs.
Unanswered(writes) == {p \in DOMAIN writes.prompts : writes.prompts[p] = 0}
Told(c, ps) == [caller EXCEPT ![c].at = "told", ![c].told = ps, ![c].outcome = "interrupted"]

NodeBegin(c) ==
    LET writes == thread[1].writes
        pending == Unanswered(writes)
        n == run.calls + 1
        Resumed == Granted(writes, grants[n]) IN
    /\ host = "node" /\ thread[1].status = "running"
    /\ \/ ~Busy /\ caller[c].at = "waiting"
       \/ run.caller = c /\ run.entry = "again"
    /\ \/ /\ pending = {}
          /\ run' = [NoRun EXCEPT !.caller = c, !.attempt = 1, !.recovered = writes, !.calls = run.calls]
          /\ caller' = [caller EXCEPT ![c].at = "running"] /\ UNCHANGED thread
       \/ /\ pending # {} /\ Len(grants) < n
          /\ caller' = Told(c, pending) /\ run' = NoRun /\ UNCHANGED thread
       \/ /\ pending # {} /\ Len(grants) >= n /\ grants[n].prompts \subseteq DOMAIN writes.prompts
          /\ thread' = [thread EXCEPT ![1].writes = Resumed]
          /\ run' = [NoRun EXCEPT !.caller = c, !.attempt = 1, !.recovered = Resumed, !.calls = n]
          /\ caller' = [caller EXCEPT ![c].at = "running"]
    /\ UNCHANGED <<host, grants, begun, mishaps, values>>

-----------------------------------------------------------------------------
(***************************************************************************)
(* The body.                                                               *)
(***************************************************************************)
Op == Body[run.pc]
BodyRunning == Busy /\ run.entry = "running"
AtOp(op) == BodyRunning /\ run.pc <= Len(Body) /\ Op[1] = op

\* submit: a goroutine that first wants a slot of the semaphore.
Call ==
    /\ AtOp("call")
    /\ run' = [run EXCEPT !.task[Op[2]].at = "queued", !.pc = @ + 1]
    /\ UNCHANGED <<host, thread, caller, grants, begun, mishaps, values>>

\* Future.Await; the body returns the error of the task.
Ended == {"done", "failed"}
Await ==
    LET task == run.task[Op[2]] IN
    /\ AtOp("await") /\ task.at \in Ended
    /\ run' = IF task.at = "done" THEN [run EXCEPT !.pc = @ + 1]
              ELSE [run EXCEPT !.entry = task.err, !.canceled = @ \/ task.err # "interrupted"]
    /\ UNCHANGED <<host, thread, caller, grants, begun, mishaps, values>>

\* AwaitResume: a recovered answer, or the prompt is recorded and interrupts.
Lookup(id) == IF id \notin DOMAIN run.recovered.prompts THEN "new"
              ELSE IF run.recovered.prompts[id] = 0 THEN "open" ELSE "answered"
Unrecorded(id) == Lookup(id) = "new" /\ run.canceled   \* the write fails
Recorded(id) ==
    thread' = IF Lookup(id) = "new" /\ ~run.canceled
              THEN [thread EXCEPT ![run.attempt].writes.prompts = Extend(@, id, 0)] ELSE thread

Ask ==
    LET id == <<Entry, run.asked>> IN
    /\ AtOp("ask") /\ Durable
    /\ Recorded(id)
    /\ run' = IF Lookup(id) = "answered"
              THEN [run EXCEPT !.asked = @ + 1, !.pc = @ + 1,
                               !.answers = Extend(@, id, run.recovered.prompts[id])]
              ELSE IF Unrecorded(id) THEN [run EXCEPT !.entry = "failed"]
              ELSE [run EXCEPT !.asked = @ + 1, !.entry = "interrupted", !.own = @ \cup {id}]
    /\ UNCHANGED <<host, caller, grants, begun, mishaps, values>>

\* ErrInterruptRequiresDurability: the body, or the task, returns the error or goes on
\* without an answer.
AskRefused ==
    /\ AtOp("ask") /\ ~Durable
    /\ \/ run' = [run EXCEPT !.entry = "failed", !.canceled = TRUE]
       \/ run' = [run EXCEPT !.pc = @ + 1]
    /\ UNCHANGED <<host, thread, caller, grants, begun, mishaps, values>>
TaskAskRefused(t) ==
    /\ Busy /\ run.task[t].at = "started" /\ t \in Asking /\ ~Durable
    /\ \/ run' = [run EXCEPT !.task[t].at = "retry", !.task[t].err = "failed"]
       \/ run' = [run EXCEPT !.task[t].at = "answered"]
    /\ UNCHANGED <<host, thread, caller, grants, begun, mishaps, values>>

EntryReturn ==
    /\ BodyRunning /\ run.pc > Len(Body)
    /\ run' = [run EXCEPT !.entry = "ok"]
    /\ UNCHANGED <<host, thread, caller, grants, begun, mishaps, values>>

-----------------------------------------------------------------------------
(***************************************************************************)
(* The tasks.                                                              *)
(***************************************************************************)
\* Mutant: a failing task keeps its slot.
ActiveOrFailed == {t \in TaskIDs : run.task[t].at \in {"started", "answered", "retry", "failed"}}
\* Tasks that hold a slot.
Active == {t \in TaskIDs : run.task[t].at \in {"started", "answered", "retry"}}

\* recoverTaskResult: a recorded result is the result of a task that is kept.
TaskStart(t) ==
    /\ Busy /\ run.task[t].at = "queued" /\ (MaxConcurrency = 0 \/ Cardinality(Active) < MaxConcurrency)
    /\ run' = IF Recoverable(t) /\ t \in DOMAIN run.recovered.results
              THEN [run EXCEPT !.task[t].at = "done", !.task[t].val = run.recovered.results[t]]
              ELSE [run EXCEPT !.task[t].at = "started"]
    /\ UNCHANGED <<host, thread, caller, grants, begun, mishaps, values>>

TaskAsk(t) ==
    LET id == <<t, run.task[t].asked>> IN
    /\ Busy /\ run.task[t].at = "started" /\ t \in Asking /\ Durable
    /\ Recorded(id)
    /\ run' = IF Lookup(id) = "answered"
              THEN [run EXCEPT !.task[t].at = "answered", !.task[t].asked = @ + 1,
                               !.task[t].answer = Extend(<<>>, id, run.recovered.prompts[id])]
              ELSE [run EXCEPT !.task[t].at = "retry", !.task[t].asked = @ + 1, !.task[t].prompt = id,
                               !.task[t].err = IF Unrecorded(id) THEN "failed" ELSE "interrupted"]
    /\ UNCHANGED <<host, caller, grants, begun, mishaps, values>>

\* invokeTaskSafely returned a value; persistTaskResult fails on a cancelled manager,
\* unless it has nothing to record.
TaskReturn(t) ==
    /\ Busy /\ run.task[t].at = IF t \in Asking THEN "answered" ELSE "started"
    /\ values' = values + 1
    /\ IF Recoverable(t) /\ run.canceled
       THEN /\ run' = [run EXCEPT !.task[t].at = "failed", !.task[t].err = "failed", !.failed = TRUE]
            /\ UNCHANGED thread
       ELSE /\ thread' = IF Recoverable(t)
                         THEN [thread EXCEPT ![run.attempt].writes.results = Extend(@, t, values + 1)]
                         ELSE thread
            /\ run' = [run EXCEPT !.task[t].at = "done", !.task[t].val = values + 1]
    /\ UNCHANGED <<host, caller, grants, begun, mishaps>>

TaskError(t) ==
    /\ Busy /\ run.task[t].at \in {"started", "answered"} /\ mishaps < MaxMishaps
    /\ run' = [run EXCEPT !.task[t].at = "retry", !.task[t].err = "failed"]
    /\ mishaps' = mishaps + 1
    /\ UNCHANGED <<host, thread, caller, grants, begun, values>>

\* executeWithRetry: the default predicate retries an interrupt as well, with the
\* same scope, unless the context ended; otherwise fail keeps the prompt or the
\* first error, which cancels the manager.
RetryTask(t) ==
    /\ Busy /\ run.task[t].at = "retry"
    /\ run.task[t].attempts < TaskAttempts[t] /\ ~run.canceled
    /\ run' = [run EXCEPT !.task[t].at = "started", !.task[t].attempts = @ + 1,
                          !.task[t].err = "none", !.task[t].answer = <<>>]
    /\ UNCHANGED <<host, thread, caller, grants, begun, mishaps, values>>
FailTask(t) ==
    /\ Busy /\ run.task[t].at = "retry"
    /\ ~(run.task[t].attempts < TaskAttempts[t] /\ ~run.canceled)
    /\ run' = IF run.task[t].err = "interrupted" /\ run.task[t].attempts >= TaskAttempts[t]
              THEN [run EXCEPT !.task[t].at = "failed", !.prompts = @ \cup {run.task[t].prompt}]
              ELSE [run EXCEPT !.task[t].at = "failed", !.task[t].err = "failed",
                               !.failed = TRUE, !.canceled = TRUE]
    /\ UNCHANGED <<host, thread, caller, grants, begun, mishaps, values>>
\* A task that waits for a slot, or looks at its context, sees the cancellation.
Cancel(t) ==
    /\ Busy /\ run.canceled /\ run.task[t].at \in {"queued", "started", "answered"}
    /\ run' = [run EXCEPT !.task[t].at = "failed", !.task[t].err = "failed", !.failed = TRUE]
    /\ UNCHANGED <<host, thread, caller, grants, begun, mishaps, values>>

-----------------------------------------------------------------------------
(***************************************************************************)
(* The end of an invocation.                                               *)
(***************************************************************************)
Waited ==
    /\ Busy /\ run.entry \notin {"running", "again"}
    /\ \A t \in TaskIDs : run.task[t].at \in Ended \cup {"none"}

Outcome(c, o) == [caller EXCEPT ![c] = [NoCall EXCEPT !.outcome = o]]

\* What the invocation used: results of tasks and answers of prompts.
Used ==
    LET answered == {t \in TaskIDs : run.task[t].answer # <<>>}
        prompts == DOMAIN run.answers \cup UNION {DOMAIN run.task[t].answer : t \in answered}
    IN  [results |-> [t \in {x \in TaskIDs : run.task[x].at = "done"} |-> run.task[t].val],
         prompts |-> [p \in prompts |->
                        IF p \in DOMAIN run.answers THEN run.answers[p] ELSE run.task[p[1]].answer[p]]]

\* manager.err: the first error, or the prompts of the tasks.
FinishInvocation ==
    LET c == run.caller
        interrupted == run.entry = "interrupted"
        reported == IF run.prompts # {} THEN run.prompts ELSE run.own IN
    /\ host = "entrypoint" /\ Waited
    /\ IF run.entry = "failed" \/ run.failed
       THEN caller' = Outcome(c, "failed") /\ UNCHANGED thread
       ELSE IF interrupted \/ run.prompts # {}
       THEN caller' = Told(c, reported) /\ UNCHANGED thread
       ELSE /\ Len(thread) < MaxThreadCheckpoints
            /\ thread' = Append(thread,
                 [NewCheckpoint("complete", run.attempt, caller[c].input, thread[run.attempt].prev)
                    EXCEPT !.used = Used])
            /\ caller' = Outcome(c, "complete")
    /\ run' = NoRun
    /\ UNCHANGED <<host, grants, begun, mishaps, values>>

\* An invocation without recovery puts one checkpoint, after the one it began from.
PlainFinish ==
    LET c == run.caller IN
    /\ host = "plain" /\ Waited
    /\ IF run.entry = "failed" \/ run.failed
       THEN caller' = Outcome(c, "failed") /\ UNCHANGED thread
       ELSE /\ Len(thread) < MaxThreadCheckpoints
            /\ thread' = Append(thread,
                 [NewCheckpoint("complete", run.attempt, caller[c].input, PreviousOf(run.attempt))
                    EXCEPT !.used = Used])
            /\ caller' = Outcome(c, "complete")
    /\ run' = NoRun
    /\ UNCHANGED <<host, grants, begun, mishaps, values>>

\* NewNode: prompts of tasks go to the graph, which may have an answer already;
\* then the node begins once more.
NodeFinish ==
    LET c == run.caller
        writes == thread[1].writes
        n == run.calls + 1 IN
    /\ host = "node" /\ Waited
    /\ \/ /\ run.entry = "failed" \/ run.failed
          /\ caller' = Outcome(c, "failed") /\ run' = NoRun /\ UNCHANGED thread
       \/ /\ run.entry # "failed" /\ ~run.failed /\ run.prompts = {}
          /\ thread' = [thread EXCEPT ![1].status = "complete", ![1].used = Used]
          /\ caller' = Outcome(c, "complete") /\ run' = NoRun
       \/ /\ run.entry # "failed" /\ ~run.failed /\ run.prompts # {} /\ Len(grants) < n
          /\ caller' = Told(c, run.prompts) /\ run' = NoRun /\ UNCHANGED thread
       \/ /\ run.entry # "failed" /\ ~run.failed /\ run.prompts # {} /\ Len(grants) >= n
          /\ IF grants[n].prompts \subseteq DOMAIN run.recovered.prompts
             THEN /\ thread' = [thread EXCEPT ![1].writes = Granted(writes, grants[n])]
                  /\ run' = [NoRun EXCEPT !.caller = c, !.attempt = 1, !.calls = n, !.entry = "again"]
                  /\ UNCHANGED caller
             ELSE caller' = Outcome(c, "failed") /\ run' = NoRun /\ UNCHANGED thread
    /\ UNCHANGED <<host, grants, begun, mishaps, values>>

ProcessDies ==
    /\ mishaps < MaxMishaps /\ \E c \in Clients : caller[c].at \in {"waiting", "running"}
    /\ run' = NoRun
    /\ caller' = [c \in Clients |-> IF caller[c].at \in {"waiting", "running"} THEN NoCall
                                    ELSE caller[c]]
    /\ mishaps' = mishaps + 1
    /\ UNCHANGED <<host, thread, grants, begun, values>>

-----------------------------------------------------------------------------
FunctionalStep ==
    \/ \E c \in Clients : NodeBegin(c)
    \/ Call \/ Await \/ Ask \/ AskRefused \/ EntryReturn
    \/ FinishInvocation \/ PlainFinish \/ NodeFinish
    \/ \E t \in TaskIDs :
          \/ TaskStart(t) \/ TaskAsk(t) \/ TaskAskRefused(t) \/ TaskReturn(t)
          \/ RetryTask(t) \/ FailTask(t)
FunctionalNext ==
    \/ \E c \in Clients :
          \/ \E input \in Inputs, from \in 0 .. (IF host = "node" THEN 0 ELSE Len(thread)) :
                InvokeEntrypoint(c, input, from)
          \/ Begin(c) \/ PlainBegin(c) \/ \E a \in AnswerValues : GraphResume(c, a)
          \/ \E a \in AnswerValues, from \in 0 .. Len(thread) : ResumeEntrypoint(c, a, from)
    \/ FunctionalStep
    \/ \E t \in TaskIDs : TaskError(t) \/ Cancel(t)
    \/ ProcessDies

\* Goroutines run; callers call, tasks fail and processes die as they like.
FunctionalFairness == WF_functionalVars(FunctionalStep)
FunctionalSpec == FunctionalInit /\ [][FunctionalNext]_functionalVars /\ FunctionalFairness

-----------------------------------------------------------------------------
(***************************************************************************)
(* Properties.                                                             *)
(***************************************************************************)
Agrees(used, writes) == \A k \in DOMAIN used : k \in DOMAIN writes /\ writes[k] = used[k]
KeptAgree(used, writes) ==
    \A t \in DOMAIN used \cap Persistent : t \in DOMAIN writes /\ writes[t] = used[t]

\* The checkpoints of th from which i descends, and i: the least set that contains i
\* and the parent of every member.
Branch(th, i) ==
    {x \in 0 .. Len(th) : \A S \in SUBSET (0 .. Len(th)) :
        i \in S /\ (\A j \in S \ {0} : th[j].parent \in S) => x \in S}

\* id is the last completed invocation at or above checkpoint i (0: there is none).
CompleteOrNone(th, id) == id = 0 \/ th[id].status = "complete"
LastCompleted(th, id, i) ==
    /\ id \in Branch(th, i) /\ CompleteOrNone(th, id)
    /\ \A x \in Branch(th, i) : CompleteOrNone(th, x) => x <= id

\* However often it was interrupted, answered, retried, killed and replayed, an
\* invocation with recovery uses only answers, and of persistent tasks only results,
\* that are recorded on its attempt, as they are recorded, and no persistent task with
\* a recorded result runs again; a completed one used the recorded results of the
\* attempt of its own input, which no later invocation changes (invoke,
\* recoverTaskResult, AwaitResume).  With recovery or without, it built on the value
\* that the last completed invocation of its branch saved.  What a task without
\* Persistence returned is not recorded, and a replay computes it again.  The answers
\* may change later: Resume accepts new ones for an attempt of the history.
InvocationFaithful ==
    /\ Busy /\ Durable =>
          /\ KeptAgree(Used.results, thread[run.attempt].writes.results)
          /\ Agrees(Used.prompts, thread[run.attempt].writes.prompts)
    /\ \A t \in Active : Recoverable(t) => t \notin DOMAIN thread[run.attempt].writes.results
    /\ \A i \in DOMAIN thread :
         LET a == IF host = "node" THEN i ELSE thread[i].parent IN
         thread[i].status = "complete" =>
             /\ Durable => /\ KeptAgree(thread[i].used.results, thread[a].writes.results)
                           /\ thread[i].input = thread[a].input
             /\ host = "entrypoint" => LastCompleted(thread, thread[i].prev, thread[a].parent)
             /\ host = "plain" => LastCompleted(thread, thread[i].prev, a)

\* Every invocation ends and gives its thread back (manager.wait, the semaphore).
InvocationsReturn == Busy ~> ~Busy

\* AwaitResume "returns a previously supplied typed value or durably interrupts the
\* current invocation with prompt": an invocation that a prompt stopped does not end
\* as if it had not asked, and tells every such prompt.
PromptsReported ==
    [][Busy /\ run' = NoRun /\ caller'[run.caller].outcome \in {"complete", "interrupted"}
         => run.own \cup run.prompts \subseteq caller'[run.caller].told]_functionalVars
=============================================================================
