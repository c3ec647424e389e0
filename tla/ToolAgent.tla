----------------------------- MODULE ToolAgent ------------------------------
(***************************************************************************)
(* The prebuilt agent on a durable thread: the model asks for tool calls,  *)
(* a ToolNode runs them and the results go back to the model.  Version v1  *)
(* runs the calls of a turn as goroutines of one graph task, v2 sends a    *)
(* task per call.  A tool may ask for human input (AwaitResume): the run   *)
(* pauses, and after Resume the tools of the task run again from their     *)
(* start.  A call is a record [id, tool]; its k-th prompt is <<id, k>> and *)
(* an answer is named by the prompt it was given for, or is Null: a prompt *)
(* below an answered one of its task counts as answered, with null.  The   *)
(* adapters are those of NewAgent; a v2 agent also has a ToolCallState     *)
(* adapter, which gives each task the state with its one call.             *)
(***************************************************************************)
EXTENDS Naturals, Sequences, FiniteSets, SequencesExt

CONSTANTS
    Conversations,  \* sequences of turns; a turn is a sequence of calls
    Versions,       \* ReactAgentConfig.Version: "v1" and "v2"
    Limits,         \* ToolNodeConfig.MaxConcurrency, 0 for no limit
    Budgets,        \* what the RemainingSteps adapter may report
    MaxFaults       \* bound on failing tools and crashes

VARIABLES
    conf,       \* the agent's configuration and what its model will ask for
    history,    \* AgentState.Messages
    todos,      \* AgentState.Todos: the id of the call that wrote the plan
    tasks,      \* the tools tasks of the checkpoint with their pending writes
    phase,      \* "agent", "tools", "paused", "failed", "stopped", "rejected", "over"
    procs,      \* the tasks' goroutines and their in-process interrupt control
    faults

vars == <<conf, history, todos, tasks, phase, procs, faults>>

Init ==
    /\ conf \in [turns: Conversations, version: Versions, limit: Limits, handle: BOOLEAN]
    /\ history = <<>>
    /\ todos = <<>>
    /\ tasks = <<>>
    /\ phase = "agent"
    /\ procs = <<>>
    /\ faults = 0

-----------------------------------------------------------------------------
Prompts(call) == CASE call.tool = "asks" -> 1 [] call.tool = "asksTwice" -> 2 [] OTHER -> 0
Direct(call) == call.tool = "direct"

Assistants == SelectSeq(history, LAMBDA m : m.role = "assistant")
ToolMessages == SelectSeq(history, LAMBDA m : m.role = "tool")
Ids(calls) == {calls[i].id : i \in DOMAIN calls}

\* Every call of the history has a result; the order does not matter.
ValidateChatHistory ==
    \A a \in Range(Assistants) : \A id \in Ids(a.calls) :
        \E m \in Range(ToolMessages) : m.id = id

\* reactStepsInsufficient: a turn of direct tools needs no further model call.
StepsInsufficient(remaining, calls) ==
    remaining < (IF \A i \in DOMAIN calls : Direct(calls[i]) THEN 1 ELSE 2)

Null == <<>>
NoControl == [asked |-> <<>>, answers |-> [i \in {} |-> Null]]
Task(calls) == [calls |-> calls, control |-> NoControl, result |-> <<>>]

\* The goroutines of a task that starts: none when its result is recovered.
Child == [pc |-> "idle", asks |-> 0, heard |-> <<>>, signal |-> <<>>, out |-> "none"]
Start(task) ==
    [asked |-> task.control.asked,
     end |-> IF task.result = <<>> THEN "none" ELSE "done",
     kids |-> IF task.result = <<>> THEN [i \in DOMAIN task.calls |-> Child] ELSE <<>>]

\* The routes out of the model: a tools task, or one per call.
Fanout(calls) ==
    IF conf.version = "v1" THEN <<Task(calls)>>
    ELSE [i \in DOMAIN calls |-> Task(<<calls[i]>>)]

\* The agent node and the routing after it.
Agent(remaining) ==
    /\ phase = "agent"
    /\ IF ~ValidateChatHistory
       THEN phase' = "rejected" /\ UNCHANGED <<history, tasks, procs>>
       ELSE LET turn == Len(Assistants) + 1
                asked == IF turn \in DOMAIN conf.turns THEN conf.turns[turn] ELSE <<>>
                calls == IF StepsInsufficient(remaining, asked) THEN <<>> ELSE asked
            IN  /\ history' = Append(history, [role |-> "assistant", calls |-> calls])
                /\ phase' = IF calls = <<>> THEN "over" ELSE "tools"
                /\ tasks' = IF calls = <<>> THEN <<>> ELSE Fanout(calls)
                /\ procs' = [t \in DOMAIN tasks' |-> Start(tasks'[t])]
    /\ UNCHANGED <<conf, todos, faults>>

-----------------------------------------------------------------------------
(***************************************************************************)
(* ToolNode.Invoke.                                                        *)
(***************************************************************************)
Kid(t, i) == procs[t].kids[i]
Call(t, i) == tasks[t].calls[i]
Duplicates(t) == \E i, j \in DOMAIN tasks[t].calls : i # j /\ Call(t, i).id = Call(t, j).id
Busy(t) == {i \in DOMAIN procs[t].kids : Kid(t, i).pc \in {"running", "waiting"}}
Live(t) == phase = "tools" /\ t \in DOMAIN procs /\ procs[t].end = "none"

\* The node rejects calls with the same id before it runs any of them.
RejectDuplicates(t) ==
    /\ Live(t)
    /\ Duplicates(t)
    /\ procs' = [procs EXCEPT ![t].end = "failed"]
    /\ UNCHANGED <<conf, history, todos, tasks, phase, faults>>

\* group.Go, in call order and within the limit.
Launch(t, i) ==
    /\ Live(t)
    /\ ~Duplicates(t)
    /\ i \in DOMAIN procs[t].kids
    /\ Kid(t, i).pc = "idle"
    /\ \A j \in 1 .. i - 1 : Kid(t, j).pc # "idle"
    /\ conf.limit = 0 \/ Cardinality(Busy(t)) < conf.limit
    /\ procs' = [procs EXCEPT ![t].kids[i].pc = "running"]
    /\ UNCHANGED <<conf, history, todos, tasks, phase, faults>>

Running(t, i) == Live(t) /\ i \in DOMAIN procs[t].kids /\ Kid(t, i).pc = "running"

\* The tool calls AwaitResume: its local index is taken, then it waits its turn.
Await(t, i) ==
    /\ Running(t, i)
    /\ Kid(t, i).asks < Prompts(Call(t, i))
    /\ procs' = [procs EXCEPT ![t].kids[i].pc = "waiting", ![t].kids[i].asks = @ + 1]
    /\ UNCHANGED <<conf, history, todos, tasks, phase, faults>>

\* InterruptOrder: a child asks when every earlier child is done.
MyTurn(t, i) == \A j \in 1 .. i - 1 : Kid(t, j).pc = "done"

ByArrival(t, i) ==
    1 + FoldSeq(LAMBDA k, n : n + Len(k.heard) + (IF k.signal = <<>> THEN 0 ELSE 1),
                0, procs[t].kids)

\* The position of the child's prompt in the control of the task, found by its
\* coordinate, or the end of the list.
Position(t, i) ==
    LET asked == procs[t].asked
        mine == {p \in DOMAIN asked : asked[p].child = i /\ asked[p].index = Kid(t, i).asks}
    IN  IF mine = {} THEN Len(asked) + 1 ELSE CHOOSE p \in mine : \A q \in mine : p <= q

\* interruptHandler: the prompt takes its position; an answer there is
\* returned, otherwise the tool ends with a signal that carries the control.
Boundary(t, i) ==
    /\ Live(t)
    /\ i \in DOMAIN procs[t].kids
    /\ Kid(t, i).pc = "waiting"
    /\ MyTurn(t, i)
    /\ LET p == Position(t, i)
           prompt == [child |-> i, index |-> Kid(t, i).asks,
                      prompt |-> <<Call(t, i).id, Kid(t, i).asks>>]
           asked == [q \in 1 .. Len(procs[t].asked) \cup {p} |->
                        IF q = p THEN prompt ELSE procs[t].asked[q]]
           kid == IF p \in DOMAIN tasks[t].control.answers
                  THEN [Kid(t, i) EXCEPT !.pc = "running",
                                         !.heard = Append(@, tasks[t].control.answers[p])]
                  ELSE [Kid(t, i) EXCEPT !.pc = "done", !.signal = asked]
       IN  procs' = [procs EXCEPT ![t].asked = asked, ![t].kids[i] = kid]
    /\ UNCHANGED <<conf, history, todos, tasks, phase, faults>>

\* invokeOne returns a message or a command; an unknown tool is a message.
Return(t, i) ==
    /\ Running(t, i)
    /\ Kid(t, i).asks = Prompts(Call(t, i))
    /\ procs' = [procs EXCEPT ![t].kids[i].pc = "done",
           ![t].kids[i].out = IF Call(t, i).tool = "transfer" THEN "command" ELSE "message"]
    /\ UNCHANGED <<conf, history, todos, tasks, phase, faults>>

\* The tool fails (or panics): a handled error is a message, any other ends the
\* group, whose context is then cancelled.
Fail(t, i) ==
    /\ Running(t, i)
    /\ Call(t, i).tool = "breaks"
    /\ faults < MaxFaults
    /\ faults' = faults + 1
    /\ procs' = [procs EXCEPT ![t].kids[i].pc = "done",
           ![t].kids[i].out = IF conf.handle THEN "message" ELSE "error"]
    /\ UNCHANGED <<conf, history, todos, tasks, phase>>

\* A tool that notices that its task or its super-step is cancelled.
Cancelled(t) ==
    \/ \E j \in DOMAIN procs[t].kids : Kid(t, j).out = "error"
    \/ \E u \in DOMAIN procs : procs[u].end = "failed"
Cancel(t, i) ==
    /\ Running(t, i)
    /\ Cancelled(t)
    /\ procs' = [procs EXCEPT ![t].kids[i].pc = "done", ![t].kids[i].out = "error"]
    /\ UNCHANGED <<conf, history, todos, tasks, phase, faults>>

Message(t, i) ==
    [role |-> "tool", id |-> Call(t, i).id, tool |-> Call(t, i).tool, heard |-> Kid(t, i).heard]

\* The ids of the calls of task t with an outcome, in call order.
Outputs(t, out) ==
    LET with == SelectSeq([i \in DOMAIN procs[t].kids |-> i], LAMBDA i : Kid(t, i).out = out)
    IN  [k \in DOMAIN with |-> Message(t, with[k])]

\* The Messages adapter, which copies a plan into the state.
Plan(messages) ==
    LET plans == SelectSeq(messages, LAMBDA m : m.tool = "todo")
    IN  IF plans = <<>> THEN <<>> ELSE <<Last(plans).id>>

\* combineAgentToolOutputs: messages first, then the updates of the commands.
Combine(t) ==
    [messages |-> Outputs(t, "message") \o Outputs(t, "command"), todos |-> <<>>]

Delta(t) ==
    IF Outputs(t, "command") = <<>>
    THEN [messages |-> Outputs(t, "message"), todos |-> Plan(Outputs(t, "message"))]
    ELSE Combine(t)

\* The interrupt that carries the most prompts stands for the task.
MostPending(t) ==
    LET signals == {k.signal : k \in Range(procs[t].kids)}
    IN  CHOOSE s \in signals : \A r \in signals : Len(r) <= Len(s)

\* group.Wait, and executeStep records what the task did.
Join(t) ==
    /\ Live(t)
    /\ ~Duplicates(t)
    /\ \A i \in DOMAIN procs[t].kids : Kid(t, i).pc = "done"
    /\ \/ /\ \E i \in DOMAIN procs[t].kids : Kid(t, i).out = "error"
          /\ procs' = [procs EXCEPT ![t].end = "failed"]
          /\ UNCHANGED tasks
       \/ /\ \A i \in DOMAIN procs[t].kids : Kid(t, i).out # "error"
          /\ \E i \in DOMAIN procs[t].kids : Kid(t, i).signal # <<>>
          /\ tasks' = [tasks EXCEPT ![t].control.asked = MostPending(t)]
          /\ procs' = [procs EXCEPT ![t].end = "interrupted"]
       \/ /\ \A i \in DOMAIN procs[t].kids : Kid(t, i).out \in {"message", "command"}
          /\ tasks' = [tasks EXCEPT ![t].result = <<Delta(t)>>]
          /\ procs' = [procs EXCEPT ![t].end = "done"]
    /\ UNCHANGED <<conf, history, todos, phase, faults>>

-----------------------------------------------------------------------------
(***************************************************************************)
(* The super-step of the tools and the clients of the thread.              *)
(***************************************************************************)
Ended(end) == \E t \in DOMAIN procs : procs[t].end = end
AllEnded == \A t \in DOMAIN procs : procs[t].end # "none"

StepStops ==
    /\ phase = "tools"
    /\ AllEnded
    /\ Ended("failed") \/ Ended("interrupted")
    /\ phase' = IF Ended("failed") THEN "failed" ELSE "paused"
    /\ UNCHANGED <<conf, history, todos, tasks, procs, faults>>

\* reduceAgentState in task order; then the ReturnDirect router or the edge
\* back to the model.
Commit ==
    /\ phase = "tools"
    /\ AllEnded
    /\ ~Ended("failed") /\ ~Ended("interrupted")
    /\ LET deltas == [t \in DOMAIN tasks |-> tasks[t].result[1]]
       IN  /\ history' = FoldLeft(LAMBDA h, d : h \o d.messages, history, deltas)
           /\ todos' = FoldLeft(LAMBDA p, d : IF d.todos = <<>> THEN p ELSE d.todos, todos, deltas)
    /\ phase' = IF \E i \in DOMAIN history' : history'[i].role = "tool" /\ Direct(history'[i])
                THEN "over" ELSE "agent"
    /\ tasks' = <<>>
    /\ procs' = <<>>
    /\ UNCHANGED <<conf, faults>>

\* The process dies during the super-step.
Crash ==
    /\ phase = "tools"
    /\ faults < MaxFaults
    /\ faults' = faults + 1
    /\ phase' = "stopped"
    /\ procs' = <<>>
    /\ UNCHANGED <<conf, history, todos, tasks>>

Stopped == phase \in {"paused", "failed", "stopped"}
Rerun(restored) ==
    /\ tasks' = restored
    /\ phase' = "tools"
    /\ procs' = [t \in DOMAIN restored |-> Start(restored[t])]
    /\ UNCHANGED <<conf, history, todos, faults>>

\* Invoke of the thread again: the unfinished tasks run once more.
Invoke ==
    /\ Stopped
    /\ Rerun(tasks)

\* The open prompts of a task without result.
Open(t) ==
    IF tasks[t].result # <<>> THEN {}
    ELSE DOMAIN tasks[t].control.asked \ DOMAIN tasks[t].control.answers
Pending == UNION {{t} \X Open(t) : t \in DOMAIN tasks}

\* setResume stores the answers to the prompts of A; the positions below them that
\* have none are padded, and read back as null.
Answered(control, A) ==
    [control EXCEPT !.answers =
        [p \in DOMAIN @ \cup {q \in DOMAIN control.asked : \E a \in A : q <= a} |->
            IF p \in A THEN control.asked[p].prompt ELSE IF p \in DOMAIN @ THEN @[p] ELSE Null]]

\* Resume with answers to some of the reported prompts, by interrupt ID.
Resume(P) ==
    /\ Stopped
    /\ P # {}
    /\ P \subseteq Pending
    /\ Rerun([t \in DOMAIN tasks |-> [tasks[t] EXCEPT !.control =
           Answered(@, {q[2] : q \in {r \in P : r[1] = t}})]])

AgentStep == \E remaining \in Budgets : Agent(remaining)
ToolStep ==
    \E t \in DOMAIN procs :
        \/ RejectDuplicates(t)
        \/ Join(t)
        \/ \E i \in DOMAIN procs[t].kids :
               \/ Launch(t, i)
               \/ Await(t, i)
               \/ Boundary(t, i)
               \/ Return(t, i)
               \/ Fail(t, i)
               \/ Cancel(t, i)
ClientStep == Invoke \/ \E P \in SUBSET Pending : Resume(P)

Next == AgentStep \/ ToolStep \/ StepStops \/ Commit \/ Crash \/ ClientStep
Spec == Init /\ [][Next]_vars

-----------------------------------------------------------------------------
\* Whatever the order in which the tools of a turn run, how often they are run
\* again and which prompts were answered first: the k-th AwaitResume of a tool
\* call returns the answer to that call's k-th prompt, or null.  It returns null
\* only in a task of several calls, when another call of the turn was answered
\* although it had asked later; a v2 agent never does.
Heard(heard, id) == \A k \in DOMAIN heard : heard[k] \in {<<id, k>>, Null}
AnswersReachTheirCall ==
    /\ \A t \in DOMAIN tasks :
           LET control == tasks[t].control IN
           \A p \in DOMAIN control.answers :
               control.answers[p] = Null =>
                   /\ conf.version = "v1"
                   /\ \E q \in DOMAIN control.answers :
                          /\ q > p /\ control.answers[q] # Null
                          /\ control.asked[q].child # control.asked[p].child
    /\ \A t \in DOMAIN procs : \A i \in DOMAIN procs[t].kids :
           Heard(Kid(t, i).heard, Call(t, i).id)
    /\ \A m \in Range(ToolMessages) :
           /\ Len(m.heard) = Prompts(m)
           /\ Heard(m.heard, m.id)
           /\ Null \in Range(m.heard) =>
                  /\ conf.version = "v1"
                  /\ \E a \in Range(Assistants), n \in Range(ToolMessages) :
                         /\ {m.id, n.id} \subseteq Ids(a.calls) /\ n.id # m.id
                         /\ Range(n.heard) \ {Null} # {}

\* The control stored by a paused run holds exactly the prompts its tools wait
\* at: none of those raised by the concurrent calls of a task is lost, and none
\* that was answered or replaced is still open.
PausesKeepEveryPrompt ==
    phase = "paused" =>
        {<<q[1], tasks[q[1]].control.asked[q[2]].prompt>> : q \in Pending} =
        UNION {{<<t, <<Call(t, i).id, Kid(t, i).asks>>>> :
                   i \in {j \in DOMAIN procs[t].kids : Kid(t, j).signal # <<>>}}
               : t \in DOMAIN procs}

\* A turn of v1 whose results include a Command is combined without its plans.
Combined(m) ==
    /\ conf.version = "v1"
    /\ \E a \in Range(Assistants) :
           m.id \in Ids(a.calls) /\ \E j \in DOMAIN a.calls : a.calls[j].tool = "transfer"

\* Every call the model made is answered by exactly one tool message before the
\* model runs again or the agent ends, however its turn was interrupted, retried
\* or mixed with commands; so the model node never rejects the history.  The
\* state's plan is that of the latest write_todos message in it, but for the plans
\* that combineAgentToolOutputs leaves out.
ConversationWhole ==
    /\ phase # "rejected"
    /\ phase \in {"agent", "over"} =>
           LET calls == FlattenSeq([i \in DOMAIN Assistants |-> Assistants[i].calls])
               plans == SelectSeq(ToolMessages, LAMBDA m : m.tool = "todo" /\ ~Combined(m))
           IN  /\ \A id \in Ids(calls) \cup {m.id : m \in Range(ToolMessages)} :
                      Len(SelectSeq(calls, LAMBDA c : c.id = id)) =
                      Len(SelectSeq(ToolMessages, LAMBDA m : m.id = id))
               /\ todos = IF plans = <<>> THEN <<>> ELSE <<Last(plans).id>>
=============================================================================
