---------------------------- MODULE MCExecution ------------------------------
(***************************************************************************)
(* The ways in which a program's own code is executed: the super-steps of  *)
(* a compiled graph with their recovery, a subgraph in a node, a           *)
(* functional invocation, the attempts of one node or task, a graph as the *)
(* builder accepts it, and the prebuilt tool-calling agent.  They share no *)
(* state: focus chooses the one that runs, and the others stay in an       *)
(* initial state.                                                          *)
(***************************************************************************)
EXTENDS GraphRun, Attempts, Functional, GraphBuilder, TLC

CONSTANTS v1, v2

\* Two tasks and then one; node 1 asks twice, and both error handlers once.
TwoLayers == <<{1, 2}, {2}>>
AskTwice == [n \in Nodes |-> IF n = 1 THEN 2 ELSE 0]
HandlersAsk == [n \in Nodes |-> 1]

VARIABLES
    focus,
    child, asks, history, invocation, tokens, edits, crashes,
    conf, messages, todos, tools, turn, procs, losses

nested == <<child, asks, history, invocation, tokens, edits, crashes>>
agent == <<conf, messages, todos, tools, turn, procs, losses>>

-----------------------------------------------------------------------------
\* Two rounds of a child that asks or does not, under three client operations on
\* the thread's history, or two of them and a crash.
S == INSTANCE Subgraphs WITH
       Kinds <- {"stateful", "stateless"}, Asks <- {TRUE, FALSE}, Rounds <- 2,
       MaxCheckpoints <- 12, MaxTokens <- 4, MaxEdits <- 3, MaxCrashes <- 1,
       kind <- child, cps <- history, run <- invocation

\* The body calls two tasks, asks, and awaits them; task 1 asks and is retried.
TwoTasks == <<<<"call", 1>>, <<"call", 2>>, <<"ask", 0>>, <<"await", 1>>, <<"await", 2>>>>
FirstRetried == <<2, 1>>

\* Calls that declare one node twice, name nodes that never come, or route by
\* every kind of edge.
Declare(op, from, to, as) == [op |-> op, from |-> from, to |-> to, as |-> as]
BuilderCalls ==
    { Declare("node", {"a"}, {}, "plain"), Declare("node", {"b"}, {}, "plain"),
      Declare("node", {"c"}, {}, "incompatible"),
      Declare("node", {"c"}, {}, "stateful"),
      Declare("edge", {"a"}, {"b"}, ""),
      Declare("edge", {"c"}, {"E"}, ""),
      Declare("branch", {"S"}, {"a", "b"}, "x"), Declare("branch", {"b"}, {"a", "E"}, "x"),
      Declare("command", {"a"}, {"c"}, ""), Declare("wait", {"a", "b"}, {"c"}, ""),
      Declare("send", {"a"}, {"b", "c"}, ""), Declare("send", {"S"}, {"b"}, "") }
Opts(saver, gates, lenient) ==
    [persistence |-> saver, gates |-> gates, unreachable |-> lenient, unreachableEnd |-> lenient]
BuilderOptions == {Opts(FALSE, {}, FALSE), Opts(TRUE, {"a"}, FALSE), Opts(TRUE, {}, TRUE)}

\* Turns that mix prompts, commands, failures, plans, direct returns, an unknown
\* tool and a repeated call id.
c(id, tool) == [id |-> id, tool |-> tool]
Conversations ==
    { << <<c("a", "asks"), c("b", "asksTwice"), c("d", "transfer")>>, <<c("e", "todo")>> >>,
      << <<c("a", "breaks"), c("b", "asksTwice"), c("d", "asks")>>,
         <<c("e", "asks"), c("f", "direct")>> >>,
      << <<c("a", "asks"), c("a", "plain")>> >>,
      << <<c("a", "unknown"), c("b", "transfer"), c("d", "transfer")>>, <<c("e", "direct")>>,
         <<c("f", "plain")>> >> }
T == INSTANCE ToolAgent WITH
       Versions <- {"v1", "v2"}, Limits <- {0, 1, 2}, Budgets <- {1, 2}, MaxFaults <- 2,
       history <- messages, tasks <- tools, phase <- turn, faults <- losses

-----------------------------------------------------------------------------
\* An agent that stands by.
Unused == [turns |-> << <<c("a", "plain")>> >>, version |-> "v1", limit |-> 0, handle |-> FALSE]

ExecutionInit ==
    /\ focus \in {"graph", "nested", "functional", "attempt", "builder", "agent"}
    /\ Init
    /\ S!Init /\ (focus # "nested" => child = "stateless" /\ ~asks)
    /\ FunctionalInit /\ (focus # "functional" => host = "entrypoint")
    /\ AttemptInit /\ (focus # "attempt" => unit = "node")
    /\ BuilderInit
    /\ IF focus = "agent" THEN T!Init
       ELSE /\ conf = Unused /\ messages = <<>> /\ todos = <<>> /\ tools = <<>>
            /\ turn = "agent" /\ procs = <<>> /\ losses = 0

\* Bound: a crash takes the place of one of the operations on the history.
HistoryBound == edits' + crashes' <= 3
\* Bound: without recovery one invocation fewer begins.
PlainBound == host = "plain" => begun' < MaxInvocations
ExecutionNext ==
    /\ UNCHANGED focus
    /\ \/ focus = "graph" /\ Next /\ UNCHANGED <<nested, functionalVars, attemptVars, builderVars,
                                                 agent>>
       \/ focus = "nested" /\ S!Next /\ HistoryBound
            /\ UNCHANGED <<vars, functionalVars, attemptVars, builderVars, agent>>
       \/ focus = "functional" /\ FunctionalNext /\ PlainBound
            /\ UNCHANGED <<vars, nested, attemptVars, builderVars, agent>>
       \/ focus = "attempt" /\ AttemptNext /\ UNCHANGED <<vars, nested, functionalVars, builderVars,
                                                          agent>>
       \/ focus = "builder" /\ BuilderNext /\ UNCHANGED <<vars, nested, functionalVars, attemptVars,
                                                          agent>>
       \/ focus = "agent" /\ T!Next /\ UNCHANGED <<vars, nested, functionalVars, attemptVars,
                                                   builderVars>>

ExecutionSpec ==
    ExecutionInit /\ [][ExecutionNext]_<<focus, vars, nested, functionalVars, attemptVars, builderVars,
                                         agent>>

-----------------------------------------------------------------------------
\* The state that a stateful child retains is the one its own branch built, and a
\* nested invocation continues with an answer given to its branch, used once
\* (compiledSubgraph.invoke, resumeInternal, forkInterrupt).
NestedBranchesApart == focus = "nested" => S!MemoryFollowsBranch /\ S!NestedAnswersOwned

\* The k-th AwaitResume of a tool call returns the answer to its k-th prompt, a
\* paused run keeps exactly the prompts its tools wait at, and every call the model
\* made is answered by exactly one tool message before the model runs again or the
\* agent ends, with its plan in the state (ToolNode.Invoke, NewAgent).
ToolCallsAnswered ==
    focus = "agent" => T!AnswersReachTheirCall /\ T!PausesKeepEveryPrompt /\ T!ConversationWhole
=============================================================================
