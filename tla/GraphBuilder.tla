----------------------------- MODULE GraphBuilder ----------------------------
(***************************************************************************)
(* StateGraph: the calls that build a graph, in any order, the checks of   *)
(* Compile, and runs of the compiled graph.  A router chooses all of its   *)
(* destinations; a command chooses any nodes, declared or not.             *)
(***************************************************************************)
EXTENDS Naturals, FiniteSets

CONSTANTS
    START, END,
    Calls,    \* the calls that a program may make: [op, from, to, as]
    Options,  \* the options of Compile: [persistence, gates, unreachable, unreachableEnd]
    MaxCalls  \* bound: accepted calls

Names == UNION {c.from : c \in Calls}
ASSUME BuilderAssumption ==
    /\ START # END /\ IsFiniteSet(Names)
    /\ \A c \in Calls : c.op # "wait" => \E s \in Names : c.from = {s}
    /\ MaxCalls \in Nat

VARIABLES
    graph,     \* the builder
    accepted,  \* accepted calls
    plan,      \* the compiled graph, or NoPlan
    scheduled, \* the run: tasks of the next step
    arrived,   \* the sources that each waiting edge has seen
    done,      \* what the run executed
    followed,  \* history: the routes that it took
    strays     \* history: targets of its commands that nothing declared

builderVars == <<graph, accepted, plan, scheduled, arrived, done, followed, strays>>

NoPlan == [nodes |-> {}, options |-> {}]
BuilderInit ==
    /\ graph = [nodes |-> {}, asking |-> {}, children |-> {}, edges |-> {}, branches |-> {},
                commands |-> {}, waits |-> {}, sends |-> {}]
    /\ accepted = 0 /\ plan = NoPlan /\ scheduled = {} /\ arrived = <<>> /\ done = {}
    /\ followed = {} /\ strays = {}
-----------------------------------------------------------------------------
(***************************************************************************)
(* Building.  Endpoints need not exist yet.                                *)
(***************************************************************************)
Building == plan = NoPlan /\ accepted < MaxCalls /\ accepted' = accepted + 1
Keep == UNCHANGED <<plan, scheduled, arrived, done, followed, strays>>
Source(c) == CHOOSE s \in c.from : TRUE

\* An error handler of another state or delta type is refused after the options have
\* been stored, and only some of them are removed.
AddNode(c) ==
    /\ c.op = "node" /\ Building /\ Source(c) \notin graph.nodes \cup {START, END}
    /\ graph' = [graph EXCEPT !.nodes = IF c.as = "incompatible" THEN @ ELSE @ \cup c.from,
                      !.asking = IF c.as \in {"asking", "incompatible"} THEN @ \cup c.from ELSE @,
                      !.children = IF c.as = "stateful" THEN @ \cup c.from ELSE @]
    /\ Keep
AddEdge(c) ==
    /\ c.op = "edge" /\ Building /\ Source(c) # END /\ START \notin c.to
    /\ c \notin graph.edges
    /\ graph' = [graph EXCEPT !.edges = @ \cup {c}] /\ Keep
AddConditionalEdges(c) ==
    /\ c.op = "branch" /\ Building /\ Source(c) # END /\ c.to # {} /\ START \notin c.to
    /\ \A d \in graph.branches : ~(d.from = c.from /\ d.as = c.as)
    /\ graph' = [graph EXCEPT !.branches = @ \cup {c}] /\ Keep
AddCommandDestinations(c) ==
    /\ c.op = "command" /\ Building /\ Source(c) \notin {START, END} /\ c.to # {} /\ START \notin c.to
    /\ \A d \in graph.commands : d.from # c.from
    /\ graph' = [graph EXCEPT !.commands = @ \cup {c}] /\ Keep
AddWaitingEdge(c) ==
    /\ c.op = "wait" /\ Building /\ Cardinality(c.from) >= 2 /\ START \notin c.to
    /\ c.from \cap {START, END} = {} /\ c \notin graph.waits
    /\ graph' = [graph EXCEPT !.waits = @ \cup {c}] /\ Keep
AddSendEdges(c) ==
    /\ c.op = "send" /\ Building /\ Source(c) # END /\ c.to # {} /\ c.to \cap {START, END} = {}
    /\ \A d \in graph.sends : d.from # c.from
    /\ graph' = [graph EXCEPT !.sends = @ \cup {c}] /\ Keep
-----------------------------------------------------------------------------
(***************************************************************************)
(* Compile.                                                                *)
(***************************************************************************)
Routes(g) == g.edges \cup g.branches \cup g.commands \cup g.waits \cup g.sends
\* Mutant: the targets of Send routers are not looked up.
KnownButSends(g) == \A r \in Routes(g) \ g.sends : r.from \cup r.to \subseteq g.nodes \cup {START, END}
EndpointsKnown(g) == \A r \in Routes(g) : r.from \cup r.to \subseteq g.nodes \cup {START, END}
HasEntry(g) == \E r \in g.edges \cup g.branches : r.from = {START}
\* The search from START; a waiting edge is reached from any one of its sources.
Reached(g, S) == S \cup UNION {r.to : r \in {q \in Routes(g) : q.from \cap (S \ {END}) # {}}}
Reachable(g) ==
    LET visit[i \in 0 .. Cardinality(g.nodes) + 1] ==
            IF i = 0 THEN {START} ELSE Reached(g, visit[i - 1])
    IN  visit[Cardinality(g.nodes) + 1]
\* Gates, declared interrupts and stateful subgraphs need a saver.
NeedsSaver(g, o) == o.gates # {} \/ g.asking # {} \/ g.children # {}
Accepts(g, o) ==
    /\ NeedsSaver(g, o) => o.persistence
    /\ o.gates \subseteq g.nodes /\ g.nodes # {}
    /\ EndpointsKnown(g) /\ HasEntry(g)
    /\ o.unreachable \/ g.nodes \subseteq Reachable(g)
    /\ o.unreachableEnd \/ END \in Reachable(g)
\* A refused Compile changes nothing; an accepted one copies the builder.
Compile(o) ==
    /\ plan = NoPlan /\ Accepts(graph, o)
    /\ plan' = [nodes |-> graph.nodes, options |-> {o}]
    /\ scheduled' = {START} /\ arrived' = [w \in graph.waits |-> {}]
    /\ UNCHANGED <<graph, accepted, done, followed, strays>>
-----------------------------------------------------------------------------
(***************************************************************************)
(* One step of the run.                                                    *)
(***************************************************************************)
Seen(w) == arrived[w] \cup (w.from \cap scheduled)
Fires(w) == Seen(w) = w.from
\* A Goto takes the place of the edges and branches of its node.  Send routers are
\* asked after a node has run: one at START never is.
Taken(jumps) ==
    {r \in graph.edges \cup graph.branches : r.from \subseteq scheduled \ jumps}
    \cup {r \in graph.sends : r.from \subseteq scheduled \ {START}}
    \cup {w \in graph.waits : Fires(w)}
Routed(jumps, aims) == aims \cup UNION {r.to : r \in Taken(jumps)}
Declared == UNION {r.to : r \in {q \in graph.commands : q.from \subseteq scheduled}}

\* jumps: the nodes whose command has a Goto; aims: where the Gotos and the Sends of the
\* commands go, to any node that exists (another target fails the run).
Step(jumps, aims) ==
    /\ plan # NoPlan /\ scheduled # {}
    /\ jumps \subseteq scheduled \ {START}
    /\ aims \subseteq plan.nodes \cup (IF jumps = {} THEN {} ELSE {END})
    /\ scheduled = {START} => aims = {}
    /\ scheduled' = Routed(jumps, aims) \ {END}
    /\ arrived' = [w \in graph.waits |-> IF Fires(w) THEN {} ELSE Seen(w)]
    /\ done' = done \cup scheduled \cup (Routed(jumps, aims) \cap {END})
    /\ followed' = followed \cup Taken(jumps)
                    \cup {r \in graph.commands : r.from \subseteq jumps /\ r.to \subseteq aims}
    /\ strays' = strays \cup (aims \ Declared)
    /\ UNCHANGED <<graph, accepted, plan>>

BuilderNext ==
    \/ \E c \in Calls : \/ AddNode(c) \/ AddEdge(c) \/ AddConditionalEdges(c)
                        \/ AddCommandDestinations(c) \/ AddWaitingEdge(c) \/ AddSendEdges(c)
    \/ \E o \in Options : Compile(o)
    \/ \E jumps \in SUBSET scheduled, aims \in SUBSET (plan.nodes \cup {END}) : Step(jumps, aims)

BuilderSpec == BuilderInit /\ [][BuilderNext]_builderVars

-----------------------------------------------------------------------------
(***************************************************************************)
(* Properties.                                                             *)
(***************************************************************************)
\* The run has executed what it scheduled and, at one time or another, taken every route
\* of the nodes that it executed; no join waits for a node that never ran, and no Send
\* router is at START, which Compile takes for routes that can be taken.
Exhausted ==
    /\ scheduled \subseteq done
    /\ \A r \in Routes(graph) : r.from \cap done # {} =>
          r.from \subseteq done /\ (r \in graph.waits \/ r \in followed)

\* What Compile accepts can be run as it was declared: no step schedules a node that
\* does not exist, or one that the search did not reach unless a command named it
\* undeclared, and a run that took every route there was executed every node and got to
\* END, unless the options allow otherwise (Compile, resolveNextTasks).
PlanRuns ==
    plan # NoPlan =>
        /\ scheduled \subseteq plan.nodes \cup {START}
        /\ strays = {} => done \subseteq Reachable(graph)
        /\ Exhausted => \A o \in plan.options :
              /\ o.unreachable \/ plan.nodes \subseteq done
              /\ o.unreachableEnd \/ END \in done
=============================================================================
