----------------------------- MODULE MCEndings -------------------------------
(***************************************************************************)
(* The components that hand values from one goroutine, process or caller   *)
(* to another, and must come to an end: the asynchronous saver, the sweeper *)
(* of a store, the event log and its reader, a functional invocation and   *)
(* the event streams.  They share no state: focus chooses the one that     *)
(* runs, the others stay in an initial state, and each is under the        *)
(* fairness of its own module.                                             *)
(***************************************************************************)
EXTENDS AsyncSaver, EventLog, Streams

CONSTANTS t1, t2, w1, w2

VARIABLES
    focus,
    current, loop, stopping, stopper, stopped,
    host, thread, invocation, caller, grants, begun, mishaps, values

sweep == <<current, loop, stopping, stopper, stopped>>
calls == <<host, thread, invocation, caller, grants, begun, mishaps, values>>

S == INSTANCE Sweeper WITH
       Callers <- {1, 2}, MaxRuns <- 3, canceled <- stopping, caller <- stopper
\* The body calls two tasks, asks, and awaits them; task 1 asks and is retried.
F == INSTANCE Functional WITH
       Hosts <- {"entrypoint", "plain", "node"}, Clients <- {1}, TaskIDs <- {1, 2},
       Body <- <<<<"call", 1>>, <<"call", 2>>, <<"ask", 0>>, <<"await", 1>>, <<"await", 2>>>>,
       Persistent <- {1}, Asking <- {1}, TaskAttempts <- <<2, 1>>, MaxConcurrency <- 1,
       Inputs <- {1, 2}, AnswerValues <- {1, 2}, MaxThreadCheckpoints <- 4, MaxInvocations <- 2,
       MaxMishaps <- 1, run <- invocation
\* Two nodes that write, remember and repeat message ids, a consumer of every
\* mode or of messages alone, and a batch of three items.
Emits(mode, how, id) == [mode |-> mode, how |-> how, id |-> id]
TwoNodes ==
    << <<Emits("messages", "remember", 1), Emits("messages", "write", 2),
         Emits("messages", "dedupe", 3)>>,
       <<Emits("messages", "dedupe", 1), Emits("custom", "block", 0), Emits("messages", "dedupe", 3)>> >>

EndingsInit ==
    /\ focus \in {"saver", "sweeper", "events", "functional", "stream"}
    /\ Init
    /\ S!Init
    /\ EventInit /\ (focus # "events" => logKind = "memory")
    /\ F!FunctionalInit /\ (focus # "functional" => host = "node")
    /\ StreamInit /\ (focus # "stream" => streamKind = "graph" /\ modes = {"messages"})

EndingsNext ==
    /\ UNCHANGED focus
    /\ \/ focus = "saver" /\ Next /\ UNCHANGED <<sweep, eventVars, calls, flow>>
       \/ focus = "sweeper" /\ S!Next /\ UNCHANGED <<vars, eventVars, calls, flow>>
       \/ focus = "events" /\ EventNext /\ UNCHANGED <<vars, sweep, calls, flow>>
       \/ focus = "functional" /\ F!FunctionalNext /\ UNCHANGED <<vars, sweep, eventVars, flow>>
       \/ focus = "stream" /\ StreamNext /\ UNCHANGED <<vars, sweep, eventVars, calls>>

\* The fairness of the modules, for the component in focus.
SaverFairness ==
    /\ WF_vars(focus = "saver" /\ Writer)
    /\ \A c \in Callers : WF_vars(focus = "saver" /\ Calls(c))
    /\ WF_vars(focus = "saver" /\ FlushClose)
    /\ WF_vars(focus = "saver" /\ FlushDone)
SweepFairness ==
    /\ \A i \in S!RunIDs :
          /\ WF_sweep(focus = "sweeper" /\ S!Loop(i))
          /\ SF_sweep(focus = "sweeper" /\ S!Leave(i))
    /\ \A c \in {1, 2} : WF_sweep(focus = "sweeper" /\ S!StopReturns(c))
LogFairness ==
    /\ WF_eventVars(focus = "events" /\ Produce)
    /\ WF_eventVars(focus = "events" /\ Serve)
    /\ WF_eventVars(focus = "events" /\ Follow)
CallFairness == WF_calls(focus = "functional" /\ F!FunctionalStep)
FlowFairness ==
    /\ \A p \in Producers : WF_flow(focus = "stream" /\ Work(p))
    /\ WF_flow(focus = "stream" /\ Own)
    /\ WF_flow(focus = "stream" /\ ReceiveEvent)
    /\ WF_flow(focus = "stream" /\ left /\ CancelStream)

EndingsSpec ==
    /\ EndingsInit
    /\ [][EndingsNext]_<<focus, vars, sweep, eventVars, calls, flow>>
    /\ SaverFairness
    /\ SweepFairness
    /\ LogFairness
    /\ CallFairness
    /\ FlowFairness

-----------------------------------------------------------------------------
\* Two sweepers of a store never run at once, a Stop that returned left none
\* behind, and every Stop returns (ttl.Manager).
SweeperStops == S!SweeperStops

\* An invocation of an entrypoint or a functional node returns to its caller,
\* with at most Limit tasks at a time and however tasks fail or ask.
InvocationsReturn == F!InvocationsReturn

\* A reader of a stored stream that is not pruned reaches its terminal event, or
\* fails (Tail); the channel of a live one is closed, also when its consumer leaves
\* (Stream, Batch).
StreamsEnd ==
    /\ StreamEnds
    /\ focus = "stream" => StreamCloses
=============================================================================
