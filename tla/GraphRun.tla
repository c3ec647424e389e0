------------------------------ MODULE GraphRun -------------------------------
(***************************************************************************)
(* One durable thread of a CompiledGraph (DurabilitySync): what happens    *)
(* inside super-steps.  The tasks of a super-step run concurrently, answer *)
(* or raise interrupts, fail over to error handlers and record what they   *)
(* did as pending writes of the current checkpoint; the process may die    *)
(* anywhere; clients invoke, resume and time-travel the thread.            *)
(*                                                                         *)
(* Which tasks a super-step has is the subject of SuperSteps; here layer i *)
(* of the graph has the tasks Layers[i].  Runs of a thread exclude each    *)
(* other (runLocks), so one run is active at a time.  Task IDs are unique  *)
(* within a checkpoint, and a task is named by its node.                   *)
(***************************************************************************)
EXTENDS Naturals, Sequences, FiniteSets

CONSTANTS
    Nodes,      \* nodes, ordered as the tasks of a super-step are
    Layers,     \* the tasks of each successive super-step
    Asks,       \* how many interrupts each node body raises
    Handled,    \* nodes with an error handler
    HandlerAsks,\* how many interrupts each error handler raises
    Cached,     \* nodes with a cache policy
    GateBefore, \* g.interruptBefore
    GateAfter,  \* g.interruptAfter
    Values,     \* updates a node may return
    NoResult,   \* the task has no pending result
    Limit,      \* MaxConcurrency
    Replays,    \* TRUE: clients also invoke at historical checkpoints
    MaxCps,     \* bound on checkpoints when history is forked or replayed
    MaxFaults   \* bound on failing nodes, failing saver calls and crashes

ASSUME RunAssumption ==
    /\ Nodes \subseteq Nat
    /\ IsFiniteSet(Nodes)
    /\ Layers \in Seq((SUBSET Nodes) \ {{}})
    /\ Len(Layers) > 0
    /\ Asks \in [Nodes -> Nat]
    /\ HandlerAsks \in [Nodes -> Nat]
    /\ Handled \subseteq Nodes
    /\ Cached \subseteq Nodes
    /\ GateBefore \subseteq Nodes
    /\ GateAfter \subseteq Nodes
    /\ Limit \in Nat \ {0}
    /\ Replays \in BOOLEAN
    /\ MaxCps \in Nat
    /\ MaxFaults \in Nat

\* A result of the body, of its error handler, or from the cache.
Asker == {"body", "handler"}
Result == [value: Values, by: Asker \cup {"cache"}]
ASSUME NoResultAssumption == NoResult \notin Result

\* persistedTaskControl: the prompt at each position and, where there is an
\* answer, the prompt it was given for.  A prompt is the asker's i-th.  Resumes is a
\* list: a position without an answer below one that has it is stored as null, and
\* decodes to an answer, the zero value.
Prompt == Asker \X Nat
Null == <<"null", 0>>
IsControl(c) ==
    /\ c = [asked |-> c.asked, answers |-> c.answers]
    /\ c.asked \in Seq(Prompt)
    /\ DOMAIN c.answers \subseteq DOMAIN c.asked
    /\ c.answers \in [DOMAIN c.answers -> Prompt \cup {Null}]
NoAnswers == [i \in {} |-> <<>>]
NoControl == [asked |-> <<>>, answers |-> NoAnswers]

\* The pending writes of a checkpoint: results (index 0), failure markers (-4),
\* interrupt controls (-1), and the static interrupt gate (-3).
IsWrites(w) ==
    /\ w = [result |-> w.result, failed |-> w.failed, control |-> w.control,
            gate |-> w.gate, consumed |-> w.consumed]
    /\ w.result \in [Nodes -> Result \cup {NoResult}]
    /\ w.failed \subseteq Nodes
    /\ w.control = [n \in Nodes |-> w.control[n]]
    /\ \A n \in Nodes : IsControl(w.control[n])
    /\ w.gate \in {"none", "before", "after"}
    /\ w.consumed \in BOOLEAN
NoWrites == [result |-> [n \in Nodes |-> NoResult], failed |-> {},
             control |-> [n \in Nodes |-> NoControl], gate |-> "none",
             consumed |-> FALSE]

\* The pending writes w with their gate entry replaced.
WithGate(w, kind, used) ==
    [result |-> w.result, failed |-> w.failed, control |-> w.control,
     gate |-> kind, consumed |-> used]

\* results: what the reducer folded into the state of a loop checkpoint.
\* replayed is history: the run that committed it re-executed its parent.
Checkpoint == [parent: Nat, source: {"input", "loop", "fork"},
               layer: 1 .. Len(Layers) + 1,
               results: [Nodes -> Result \cup {NoResult}], replayed: BOOLEAN]

VARIABLES
    cps,        \* the thread's checkpoints, in the order of their IDs
    store,      \* the pending writes of each
    phase,      \* of the run: "idle", "gate", "step", "commit", "after" or
                \* "forking" (a historical resume between Put and PutWrites)
    cur,        \* the run's current checkpoint
    replay,     \* the run re-executes a historical checkpoint in place
    snap,       \* recovered, failures, controls and staticBeforeConsumed
    pc,         \* of each task's goroutine
    at,         \* interrupts its current attempt has passed
    results,    \* results of executeStep
    cancelled,  \* groupCtx is cancelled
    outcome,    \* how the last run ended
    faults,     \* faults so far
    heard       \* history: node, prompt, and what AwaitResume returned to it

durable == <<cps, store>>
tasksOf == <<pc, at, results, cancelled>>
vars == <<cps, store, phase, cur, replay, snap, pc, at, results, cancelled,
          outcome, faults, heard>>

DurableOK ==
    /\ cps \in Seq(Checkpoint)
    /\ store = [c \in DOMAIN cps |-> store[c]]
    /\ \A c \in DOMAIN store : IsWrites(store[c])

RunOK ==
    /\ phase \in {"idle", "gate", "step", "commit", "after", "forking"}
    /\ cur \in 0 .. Len(cps)
    /\ phase # "idle" => cur # 0
    /\ replay \in BOOLEAN
    /\ IsWrites(snap)
    /\ outcome \in {"none", "done", "interrupt", "error"}
    /\ faults \in 0 .. MaxFaults
    /\ heard \subseteq Nodes \X Prompt \X (Prompt \cup {Null})

TasksOK ==
    /\ pc \in [Nodes -> {"ready", "body", "handler", "done", "interrupted", "failed"}]
    /\ at \in [Nodes -> Nat]
    /\ results \in [Nodes -> Result \cup {NoResult}]
    /\ cancelled \in BOOLEAN

TypeOK == DurableOK /\ RunOK /\ TasksOK

Init ==
    /\ cps = <<>>
    /\ store = <<>>
    /\ phase = "idle"
    /\ cur = 0
    /\ replay = FALSE
    /\ snap = NoWrites
    /\ pc = [n \in Nodes |-> "ready"]
    /\ at = [n \in Nodes |-> 0]
    /\ results = [n \in Nodes |-> NoResult]
    /\ cancelled = FALSE
    /\ outcome = "none"
    /\ faults = 0
    /\ heard = {}

-----------------------------------------------------------------------------
Latest == Len(cps)

\* checkpoint.Next of c.
Tasks(c) == IF cps[c].layer \in DOMAIN Layers THEN Layers[cps[c].layer] ELSE {}

\* putCheckpoint: a new latest checkpoint without pending writes.
PutCheckpoint(cp) ==
    /\ cps' = Append(cps, cp)
    /\ store' = [c \in 1 .. Latest + 1 |-> IF c > Latest THEN NoWrites ELSE store[c]]

ForkOf(c) ==
    [parent |-> c, source |-> "fork", layer |-> cps[c].layer,
     results |-> NoWrites.result, replayed |-> FALSE]

\* The unanswered prompts of the scheduled tasks of a checkpoint.
Open(control) == DOMAIN control.asked \ DOMAIN control.answers
Pending(c) ==
    UNION {{n} \X Open(store[c].control[n]) : n \in Tasks(c)}

\* Mutant: the results of finished tasks are not restored.
RestoreUnfinished(c) == [store[c] EXCEPT !.result = NoWrites.result]

\* restoreRun: what a checkpoint's pending writes tell the run.
Restore(c) == store[c]

\* An exact historical checkpoint is a replay boundary: results, controls and
\* the gate of the original branch are dropped; failure markers are not.
RestoreReplay(c) ==
    [NoWrites EXCEPT !.failed = Restore(c).failed]

BeginRun(c, restored, inPlace) ==
    /\ phase' = "gate"
    /\ cur' = c
    /\ snap' = restored
    /\ replay' = inPlace

\* Invoke without a checkpoint ID: initializeRun of a new thread, or of one that
\* goes on at its latest checkpoint (a finished one has no tasks: the run ends).
Invoke ==
    /\ phase = "idle"
    /\ IF cps = <<>>
       THEN /\ PutCheckpoint([parent |-> 0, source |-> "input", layer |-> 1,
                              results |-> NoWrites.result, replayed |-> FALSE])
            /\ BeginRun(1, NoWrites, FALSE)
       ELSE /\ BeginRun(Latest, Restore(Latest), FALSE)
            /\ UNCHANGED durable
    /\ UNCHANGED <<tasksOf, outcome, faults, heard>>

\* Invoke at a historical checkpoint: a fork checkpoint is re-executed in
\* place, any other first receives a fork checkpoint whose tasks have new IDs.
InvokeAt(c) ==
    /\ Replays
    /\ phase = "idle"
    /\ c \in DOMAIN cps
    /\ c # Latest
    /\ \/ /\ cps[c].source = "fork"
          /\ Latest <= MaxCps
          /\ BeginRun(c, RestoreReplay(c), TRUE)
          /\ UNCHANGED durable
       \/ /\ cps[c].source # "fork"
          /\ Latest < MaxCps
          /\ PutCheckpoint(ForkOf(c))
          /\ BeginRun(Latest + 1, NoWrites, FALSE)
    /\ UNCHANGED <<tasksOf, outcome, faults, heard>>

-----------------------------------------------------------------------------
\* Mutant: answers are matched by their order.
AnsweredPacked(control, P) ==
    LET free == Cardinality(DOMAIN control.answers)
    IN  [control EXCEPT !.answers =
            [i \in DOMAIN @ \cup (free + 1 .. free + Cardinality(P)) |->
                IF i \in DOMAIN @ THEN @[i]
                ELSE control.asked[CHOOSE p \in P :
                         Cardinality({q \in P : q < p}) = i - free - 1]]]

\* setResume: answers to the prompts at the positions P, as they are read back.
Answered(control, P) ==
    [control EXCEPT !.answers =
        [i \in DOMAIN @ \cup {k \in DOMAIN control.asked : \E p \in P : k <= p} |->
            IF i \in P THEN control.asked[i] ELSE IF i \in DOMAIN @ THEN @[i] ELSE Null]]

\* Resume of the latest checkpoint with answers to some of its open prompts
\* (all of them when there is one: a single value).  The controls are stored
\* one by one; a crash in between is a crash after a resume with fewer answers.
Resume(P) ==
    /\ phase = "idle"
    /\ Latest > 0
    /\ P # {}
    /\ P \subseteq Pending(Latest)
    /\ LET stored == [store[Latest] EXCEPT !.control =
             [n \in Nodes |-> Answered(store[Latest].control[n], {p[2] : p \in {q \in P : q[1] = n}})]]
       IN  /\ store' = [store EXCEPT ![Latest] = stored]
           /\ BeginRun(Latest, stored, FALSE)
    /\ UNCHANGED <<cps, tasksOf, outcome, faults, heard>>

\* Mutant: the run uses the writes it read before.
ContinueStale ==
    /\ phase = "idle"
    /\ Latest > 0
    /\ Pending(Latest) = {}
    /\ store[Latest].gate # "none"
    /\ store' = [store EXCEPT ![Latest].consumed = TRUE]
    /\ BeginRun(Latest, [store[Latest] EXCEPT !.consumed = FALSE], FALSE)
    /\ UNCHANGED <<cps, tasksOf, outcome, faults, heard>>

\* Resume of a static gate, when no prompt is open: the gate is consumed.
Continue ==
    /\ phase = "idle"
    /\ Latest > 0
    /\ Pending(Latest) = {}
    /\ store[Latest].gate # "none"
    /\ LET stored == WithGate(store[Latest], store[Latest].gate, TRUE)
       IN  /\ store' = [store EXCEPT ![Latest] = stored]
           /\ BeginRun(Latest, stored, FALSE)
    /\ UNCHANGED <<cps, tasksOf, outcome, faults, heard>>

\* Resume of a historical interrupt: forkInterrupt publishes a fork checkpoint,
\* then copies the controls without their answers; Resume goes on at the fork.
ResumeAt(c) ==
    /\ phase = "idle"
    /\ c \in DOMAIN cps
    /\ c # Latest
    /\ Latest < MaxCps
    /\ \E n \in Tasks(c) : store[c].control[n] # NoControl
    /\ PutCheckpoint(ForkOf(c))
    /\ phase' = "forking"
    /\ cur' = c
    /\ replay' = FALSE
    /\ UNCHANGED <<snap, tasksOf, outcome, faults, heard>>

\* Mutant: the answers of the forked checkpoint are cleared.
ClearedInPlace ==
    [store EXCEPT ![cur].control =
        [n \in Nodes |-> [store[cur].control[n] EXCEPT !.answers = NoAnswers]]]

\* control.Resumes = nil, under the fork's task IDs.
ForkedStore ==
    [store EXCEPT ![Latest].control =
        [n \in Nodes |-> [store[cur].control[n] EXCEPT !.answers = NoAnswers]]]

ForkControls ==
    /\ phase = "forking"
    /\ store' = ForkedStore
    /\ phase' = "idle"
    /\ UNCHANGED <<cps, cur, replay, snap, tasksOf, outcome, faults, heard>>

-----------------------------------------------------------------------------
\* The top of the loop: the run ends without tasks, pauses at a static gate
\* that was not consumed, or starts the super-step.
Finish ==
    /\ phase = "gate"
    /\ Tasks(cur) = {}
    /\ phase' = "idle"
    /\ outcome' = "done"
    /\ UNCHANGED <<durable, cur, replay, snap, tasksOf, faults, heard>>

\* Mutant: the kind of the gate is not looked at.
AnyConsumed == snap.consumed
StaticBeforeConsumed == snap.gate = "before" /\ snap.consumed
AtGate == Tasks(cur) \cap GateBefore # {} /\ ~StaticBeforeConsumed

\* putStaticInterrupt, and the run returns.
PauseAt(kind) ==
    /\ store' = [store EXCEPT ![cur] = WithGate(@, kind, FALSE)]
    /\ phase' = "idle"
    /\ outcome' = "interrupt"
    /\ UNCHANGED <<cps, cur, replay, snap, tasksOf, faults, heard>>

PauseBefore ==
    /\ phase = "gate"
    /\ Tasks(cur) # {}
    /\ AtGate
    /\ PauseAt("before")

StartStep ==
    /\ phase = "gate"
    /\ Tasks(cur) # {}
    /\ ~AtGate
    /\ phase' = "step"
    /\ pc' = [n \in Nodes |-> "ready"]
    /\ at' = [n \in Nodes |-> 0]
    /\ results' = NoWrites.result
    /\ cancelled' = FALSE
    /\ UNCHANGED <<durable, cur, replay, snap, outcome, faults, heard>>

Running == {n \in Tasks(cur) : pc[n] \in Asker}

\* executeStep launches the tasks in order, also after one of them failed.
NextToLaunch(n) ==
    /\ phase = "step"
    /\ n \in Tasks(cur)
    /\ pc[n] = "ready"
    /\ \A m \in Tasks(cur) : m < n => pc[m] # "ready"

\* A task with a recovered result does not run; as MaxConcurrency allows, one with a
\* failure marker goes to its error handler, and any other runs its body.
Launch(n) ==
    /\ NextToLaunch(n)
    /\ IF snap.result[n] # NoResult
       THEN /\ pc' = [pc EXCEPT ![n] = "done"]
            /\ results' = [results EXCEPT ![n] = snap.result[n]]
       ELSE /\ Cardinality(Running) < Limit
            /\ pc' = [pc EXCEPT ![n] = IF n \in snap.failed THEN "handler" ELSE "body"]
            /\ UNCHANGED results
    /\ UNCHANGED <<durable, phase, cur, replay, snap, at, cancelled, outcome, faults, heard>>

\* A saver call, or the emission of an event, that reports an error; a write may have
\* reached the store.
Fault == faults < MaxFaults /\ faults' = faults + 1
Reported(n, ok) ==
    \/ pc' = [pc EXCEPT ![n] = ok] /\ UNCHANGED <<cancelled, faults>>
    \/ Fault /\ pc' = [pc EXCEPT ![n] = "failed"] /\ cancelled' = TRUE

\* What getCachedBatch found for the task takes the place of body and handler, and is
\* not recorded; the cache may hold any update that the node once returned.
CacheHit(n, v) ==
    /\ NextToLaunch(n)
    /\ n \in Cached /\ snap.result[n] = NoResult
    /\ Cardinality(Running) < Limit
    /\ results' = [results EXCEPT ![n] = [value |-> v, by |-> "cache"]]
    /\ Reported(n, "done")
    /\ UNCHANGED <<durable, phase, cur, replay, snap, at, outcome, heard>>

AsksOf(n) == IF pc[n] = "body" THEN Asks[n] ELSE HandlerAsks[n]

\* interruptHandler: a call whose position has an answer returns it.
Hear(n) ==
    /\ phase = "step"
    /\ n \in Running
    /\ at[n] < AsksOf(n)
    /\ at[n] + 1 \in DOMAIN snap.control[n].answers
    /\ at' = [at EXCEPT ![n] = @ + 1]
    /\ heard' = heard \cup {<<n, <<pc[n], at[n] + 1>>, snap.control[n].answers[at[n] + 1]>>}
    /\ UNCHANGED <<durable, phase, cur, replay, snap, pc, results, cancelled,
                   outcome, faults>>

\* The control of the signal: this attempt's prompts replace those at their
\* positions, the answers stay.
SignalControl(n) ==
    LET asked == snap.control[n].asked
        top == IF at[n] < Len(asked) THEN Len(asked) ELSE at[n] + 1
    IN  [snap.control[n] EXCEPT !.asked =
            [i \in 1 .. top |-> IF i <= at[n] + 1 THEN <<pc[n], i>> ELSE asked[i]]]

\* Any other call raises an interrupt: its control is stored, with the run's
\* context (a failing sibling does not cancel it).
Interrupt(n) ==
    /\ phase = "step"
    /\ n \in Running
    /\ at[n] < AsksOf(n)
    /\ at[n] + 1 \notin DOMAIN snap.control[n].answers
    /\ store' = [store EXCEPT ![cur].control[n] = SignalControl(n)]
    /\ Reported(n, "interrupted")
    /\ UNCHANGED <<cps, phase, cur, replay, snap, at, results, outcome, heard>>

\* The body or the handler returns: the first result of a task is kept
\* (pending writes with an index >= 0 are never replaced), the run goes on with
\* the one it computed.
Return(n, v) ==
    LET r == [value |-> v, by |-> pc[n]]
    IN  /\ phase = "step"
        /\ n \in Running
        /\ at[n] = AsksOf(n)
        /\ store' = IF store[cur].result[n] = NoResult
                    THEN [store EXCEPT ![cur].result[n] = r] ELSE store
        /\ results' = [results EXCEPT ![n] = r]
        /\ Reported(n, "done")
        /\ UNCHANGED <<cps, phase, cur, replay, snap, at, outcome, heard>>

\* A failing attempt that its RetryPolicy repeats starts over.
Retry(n) ==
    /\ phase = "step"
    /\ n \in Running
    /\ at[n] > 0
    /\ Fault
    /\ at' = [at EXCEPT ![n] = 0]
    /\ UNCHANGED <<durable, phase, cur, replay, snap, pc, results, cancelled, outcome,
                   heard>>

\* The body of a node with an error handler fails: the failure marker is stored
\* (with the group's context: only while no sibling has failed), then the
\* handler runs with the same controls.
FailToHandler(n) ==
    /\ phase = "step"
    /\ pc[n] = "body"
    /\ n \in Handled
    /\ ~cancelled
    /\ Fault
    /\ store' = [store EXCEPT ![cur].failed = @ \cup {n}]
    /\ pc' = [pc EXCEPT ![n] = "handler"]
    /\ at' = [at EXCEPT ![n] = 0]
    /\ UNCHANGED <<cps, phase, cur, replay, snap, results, cancelled, outcome, heard>>

\* Any other failure cancels the group: a body without a handler, a handler, or
\* a marker's write that reports an error; a node whose group is cancelled may
\* fail because of it.
Fail(n) ==
    /\ phase = "step"
    /\ n \in Running
    /\ \/ cancelled /\ UNCHANGED <<faults, store>>
       \/ Fault /\ UNCHANGED store
       \/ /\ Fault
          /\ pc[n] = "body" /\ n \in Handled
          /\ store' = [store EXCEPT ![cur].failed = @ \cup {n}]
    /\ pc' = [pc EXCEPT ![n] = "failed"]
    /\ cancelled' = TRUE
    /\ UNCHANGED <<cps, phase, cur, replay, snap, at, results, outcome, heard>>

-----------------------------------------------------------------------------
\* Mutant: a step with an interrupt commits.
WaitIgnoringInterrupts ==
    /\ phase = "step"
    /\ \A n \in Tasks(cur) : pc[n] \in {"done", "interrupted", "failed"}
    /\ LET failed == \E n \in Tasks(cur) : pc[n] = "failed"
       IN  /\ phase' = IF failed THEN "idle" ELSE "commit"
           /\ outcome' = IF failed THEN "error" ELSE outcome
    /\ UNCHANGED <<durable, cur, replay, snap, tasksOf, faults, heard>>

\* group.Wait: an error comes before an interrupt; without either the results
\* are committed.
Wait ==
    /\ phase = "step"
    /\ \A n \in Tasks(cur) : pc[n] \in {"done", "interrupted", "failed"}
    /\ LET failed == \E n \in Tasks(cur) : pc[n] = "failed"
           interrupted == \E n \in Tasks(cur) : pc[n] = "interrupted"
       IN  /\ phase' = IF failed \/ interrupted THEN "idle" ELSE "commit"
           /\ outcome' = IF failed THEN "error"
                         ELSE IF interrupted THEN "interrupt" ELSE outcome
    /\ UNCHANGED <<durable, cur, replay, snap, tasksOf, faults, heard>>

\* The reducer folds the results in task order, the next tasks are resolved and
\* the boundary is stored; nothing recovered survives it.
Commit ==
    /\ phase = "commit"
    /\ PutCheckpoint([parent |-> cur, source |-> "loop", layer |-> cps[cur].layer + 1,
                      results |-> results, replayed |-> replay])
    /\ cur' = Latest + 1
    /\ phase' = IF \E n \in Tasks(cur) : n \in GateAfter /\ results[n].by # "handler"
                THEN "after" ELSE "gate"
    /\ snap' = NoWrites
    /\ replay' = FALSE
    /\ UNCHANGED <<tasksOf, outcome, faults, heard>>

PauseAfter == phase = "after" /\ PauseAt("after")

\* The process dies, a saver call, a reducer or a router fails, or the caller
\* cancels: the run's memory is lost.
Crash ==
    /\ phase # "idle"
    /\ Fault
    /\ phase' = "idle"
    /\ outcome' = "error"
    /\ UNCHANGED <<durable, cur, replay, snap, tasksOf, heard>>

TaskStep(n) ==
    \/ Launch(n) \/ Hear(n) \/ Interrupt(n) \/ Retry(n) \/ FailToHandler(n)
    \/ Fail(n) \/ \E v \in Values : CacheHit(n, v) \/ Return(n, v)

RunStep ==
    \/ Finish \/ PauseBefore \/ StartStep \/ \E n \in Nodes : TaskStep(n)
    \/ Wait \/ Commit \/ PauseAfter \/ ForkControls

Next ==
    \/ Invoke
    \/ \E c \in DOMAIN cps : InvokeAt(c) \/ ResumeAt(c)
    \/ Latest > 0 /\ \E P \in SUBSET Pending(Latest) : Resume(P)
    \/ Continue
    \/ RunStep
    \/ Crash

Spec == Init /\ [][Next]_vars

\* A run goes on; the client invokes an unfinished thread again, and sooner or
\* later answers every open prompt and continues past every gate.
Fairness ==
    /\ WF_vars(RunStep)
    /\ WF_vars(Invoke)
    /\ SF_vars(Latest > 0 /\ Resume(Pending(Latest)))
    /\ SF_vars(Continue)
FairSpec == Spec /\ Fairness

-----------------------------------------------------------------------------
\* Recovery does not repeat finished work: outside a historical replay no body
\* or handler runs for a task whose result is stored, and no body for a task
\* whose failure is (executeStep, restoreRun), whatever failed or crashed.
WorkNotRepeated ==
    phase = "step" /\ ~replay =>
        \A n \in Running :
            /\ store[cur].result[n] = NoResult
            /\ pc[n] = "body" => n \notin store[cur].failed

\* A folded result is the recorded one, or came from the cache for a node that has a
\* cache policy.
Accounted(n, r, w) ==
    /\ r # NoResult
    /\ r = w.result[n] \/ (r.by = "cache" /\ n \in Cached)

\* What a checkpoint committed is what its parent's pending writes record, for
\* every task that the cache did not answer: readers of history and the run agree
\* (outside replays in place).
CommittedAsRecorded ==
    \A c \in DOMAIN cps :
        cps[c].source = "loop" /\ ~cps[c].replayed =>
            \A n \in Tasks(cps[c].parent) : Accounted(n, cps[c].results[n], store[cps[c].parent])

\* A node behind an interrupt-before gate runs only at a checkpoint whose gate
\* a client has consumed (putStaticInterrupt, resumeInternal).
GateRespected ==
    phase = "step" /\ Tasks(cur) \cap GateBefore # {} =>
        store[cur].gate = "before" /\ store[cur].consumed

\* The interrupt a run returned is there to be resumed: the checkpoint it
\* stopped at, the latest one unless the run replayed a historical checkpoint in
\* place, has an open prompt or a gate.
InterruptsResumable ==
    phase = "idle" /\ outcome = "interrupt" =>
        LET c == IF replay THEN cur ELSE Latest
        IN  Pending(c) # {} \/ store[c].gate # "none"

\* The body and the error handler of a node count their prompts from one, in one
\* list of answers.
SharesPositions(n) == n \in Handled /\ Asks[n] > 0 /\ HandlerAsks[n] > 0

\* AwaitResume returns the answer to its own prompt, not to another prompt of
\* the task (interruptHandler, setResume), also when a fork reopened several
\* prompts and a client answers only the later ones; but a prompt below an answered
\* one hears null, and where body and handler both ask, one hears the other's.
AnswersReachAsker ==
    \A h \in heard :
        \/ h[3] \in {h[2], Null}
        \/ SharesPositions(h[1]) /\ h[3][2] = h[2][2]

\* Null answers a prompt only where a client answered a later one of the task: one
\* that answers every prompt it is shown, or the first of each task, makes none.
NullBelowAnswer ==
    \A c \in DOMAIN cps : \A n \in Nodes :
        LET answers == store[c].control[n].answers
        IN  \A i \in DOMAIN answers :
                answers[i] = Null => \E j \in DOMAIN answers : i < j /\ answers[j] # Null

\* A stored answer is never lost or changed: not by a failing sibling, a second
\* interrupt of the task, a crash, or a fork of the checkpoint.  Only the prompts
\* of a run that re-executes the checkpoint in place replace its controls.
AnswersKept ==
    [][\A c \in DOMAIN cps : ~(replay /\ c = cur) =>
          \A n \in Nodes : \A i \in DOMAIN store[c].control[n].answers :
              /\ i \in DOMAIN store'[c].control[n].answers
              /\ store'[c].control[n].answers[i] = store[c].control[n].answers[i]]_vars

\* Time travel does not mutate earlier history: the pending writes of a
\* checkpoint that is not the latest change only in a run that re-executes that
\* very checkpoint in place, an explicit branch point (initializeRun).
HistoryImmutable ==
    [][\A c \in DOMAIN cps : c # Latest /\ ~(replay /\ c = cur) => store'[c] = store[c]]_vars

\* What a client is told to answer can be answered, and reaches the prompt that
\* asked; a prompt that hears null was passed over by its client.
InterruptsAnswered == InterruptsResumable /\ AnswersReachAsker /\ NullBelowAnswer

\* What the checkpoints of a thread say of its past, answers included, stays so.
ThreadHistoryKept == HistoryImmutable /\ AnswersKept

\* No sequence of failures, crashes, interrupts and gates wedges the thread: a
\* client that keeps invoking and answering completes it.
Completes == <>[](Latest > 0 /\ Tasks(Latest) = {})
=============================================================================
