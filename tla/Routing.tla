------------------------------- MODULE Routing -------------------------------
(***************************************************************************)
(* How graph/compiled.go turns the results of one super-step into the      *)
(* tasks of the next: explicit destinations and default routes, waiting    *)
(* edges (joins), deferred nodes, Send tasks, and the freshness filter of  *)
(* nodes triggered by channels.                                            *)
(*                                                                         *)
(* Nodes are numbered from 1 in the order of their names, by which the     *)
(* code sorts deferred nodes; END is 0.  The trigger names the code        *)
(* records with a task only matter here through whether a deferred node    *)
(* has any, so they are left out.                                          *)
(***************************************************************************)
EXTENDS Naturals, Sequences, FiniteSets, SequencesExt

CONSTANTS
    Nodes,      \* node IDs
    StartRoutes,\* what START's edges and conditional routers may yield
    Edges,      \* g.edges: the static destinations of each node
    Joins,      \* g.waitingEdges, in order: [sources, target]
    Deferred,   \* g.deferredNodes
    Channels,   \* checkpoint channels, the state channel included
    Reads,      \* readChannelsForNode: the state channel and WithChannelReads
    Triggers,   \* g.nodeChannelTriggers
    NoGoto      \* Command.Goto = nil

END == 0
Destinations == Nodes \cup {END}

ASSUME RoutingAssumption ==
    /\ IsFiniteSet(Nodes)
    /\ Nodes = 1 .. Cardinality(Nodes)
    /\ StartRoutes \subseteq Seq(Destinations)
    /\ Edges \in [Nodes -> Seq(Destinations)]
    /\ Joins \in Seq([sources: SUBSET Nodes, target: Nodes])
    /\ \A j \in DOMAIN Joins : Joins[j].sources # {}
    /\ Deferred \subseteq Nodes
    /\ Reads \in [Nodes -> SUBSET Channels]
    /\ Triggers \in [Nodes -> SUBSET Channels]

\* The result of one task: its output node (the error handler's when one
\* handled the failure), its explicit destinations, what the node's conditional
\* routers return, its Sends, and whether it carries an update.
Result == [node: Nodes, goto: Seq(Destinations) \cup {NoGoto},
           branch: Seq(Destinations), sends: Seq(Nodes), update: BOOLEAN]

\* "step:%d:task:%d:node:%s" is injective in its three parts.
Task == [id: Nat \X Nat \X Nodes, node: Nodes]

\* waiting: the sources each join has seen, and the deferred nodes that were
\* routed to and not yet released.
Waiting == [joins: [DOMAIN Joins -> SUBSET Nodes], deferred: SUBSET Deferred]
EmptyWaiting == [joins |-> [j \in DOMAIN Joins |-> {}], deferred |-> {}]

MakeTask(step, index, node) == [id |-> <<step, index, node>>, node |-> node]

-----------------------------------------------------------------------------
\* The elements of s at the positions I, in order.
Kept(s, I) ==
    LET upTo[i \in 0 .. Len(s)] ==
            IF i = 0 THEN <<>>
            ELSE IF i \in I THEN Append(upTo[i - 1], s[i]) ELSE upTo[i - 1]
    IN  upTo[Len(s)]

\* A destination counts where it occurs first.
FirstAt(dests, i) == \A j \in 1 .. i - 1 : dests[j] # dests[i]

\* The add closure of resolveNextWithStates: END is dropped, a deferred
\* destination waits, any other is scheduled once.
Scheduled(dests) ==
    Kept(dests, {i \in DOMAIN dests :
        dests[i] # END /\ dests[i] \notin Deferred /\ FirstAt(dests, i)})
DeferredIn(dests) == ToSet(dests) \cap Deferred

DefaultRoutes(r) == Edges[r.node] \o r.branch
RoutesOf(r) == IF r.goto = NoGoto THEN DefaultRoutes(r) ELSE r.goto

\* A join remembers its sources among this step's results until all have run;
\* then it fires and forgets them.
FilledJoin(j, results, waiting) ==
    waiting.joins[j] \cup
        {n \in Joins[j].sources : \E i \in DOMAIN results : results[i].node = n}
JoinFires(j, results, waiting) == FilledJoin(j, results, waiting) = Joins[j].sources

\* Mutant: a fired join keeps its sources.
JoinsKept(results, waiting) ==
    [j \in DOMAIN Joins |-> FilledJoin(j, results, waiting)]

JoinsAfter(results, waiting) ==
    [j \in DOMAIN Joins |->
        IF JoinFires(j, results, waiting) THEN {} ELSE FilledJoin(j, results, waiting)]

JoinTargets(results, waiting) ==
    LET firing == Kept(Joins, {j \in DOMAIN Joins : JoinFires(j, results, waiting)})
    IN  [k \in DOMAIN firing |-> firing[k].target]

\* releaseDeferredTasks: every waiting deferred node, in name order.
ReleaseDeferred(step, waiting) ==
    LET nodes == Kept([n \in Nodes |-> n], waiting.deferred)
    IN  [tasks |-> [i \in DOMAIN nodes |-> MakeTask(step, i - 1, nodes[i])],
         waiting |-> [waiting EXCEPT !.deferred = {}]]

\* Mutant: deferred nodes are released at once.
ReleaseAlways(step, tasks, waiting) ==
    LET released == ReleaseDeferred(step, waiting)
    IN  [tasks |-> tasks \o released.tasks, waiting |-> released.waiting]

\* Deferred nodes are released only when nothing else was scheduled.
ReleaseIfIdle(step, tasks, waiting) ==
    IF tasks = <<>> THEN ReleaseDeferred(step, waiting)
    ELSE [tasks |-> tasks, waiting |-> waiting]

\* Sends are numbered after the routed tasks.
NumberTasks(nodes, sends, step) ==
    LET all == nodes \o sends
    IN  [i \in DOMAIN all |-> MakeTask(step, i - 1, all[i])]

\* resolveNextTasks: routes of the results in task order, then the joins, then
\* the Sends (which bypass deferral); deferred nodes only when none of these
\* made a task.
ResolveNext(step, results, waiting) ==
    LET dests == FlattenSeq([i \in DOMAIN results |-> RoutesOf(results[i])])
                   \o JoinTargets(results, waiting)
        sends == FlattenSeq([i \in DOMAIN results |-> results[i].sends])
    IN  ReleaseIfIdle(step + 1, NumberTasks(Scheduled(dests), sends, step + 1),
            [joins |-> JoinsAfter(results, waiting),
             deferred |-> waiting.deferred \cup DeferredIn(dests)])

\* scheduleDefaultTasks for START.
ScheduleStart(taskStep, routes, waiting) ==
    ReleaseIfIdle(taskStep, NumberTasks(Scheduled(routes), <<>>, taskStep),
        [waiting EXCEPT !.deferred = @ \cup DeferredIn(routes)])

-----------------------------------------------------------------------------
\* prepareCheckpointWithTasks: a changed channel takes the new checkpoint's ID
\* as its version (version 0: never tracked); every node that ran has seen the
\* versions of the parent checkpoint, the ones it read.
NextVersions(versions, changed, id) ==
    [c \in Channels |-> IF c \in changed \/ versions[c] = 0 THEN id ELSE versions[c]]

NoVersions == [c \in Channels |-> 0]

NextSeen(seen, versions, ran) ==
    [n \in Nodes |-> IF n \in ran
                     THEN [ran |-> TRUE,
                           at |-> [c \in Channels |-> IF c \in Reads[n] THEN versions[c] ELSE 0]]
                     ELSE seen[n]]

\* freshChannelTasks: a channel-triggered node that ran before is scheduled only
\* if one of its channels changed since it last read it.
FreshTasks(tasks, versions, seen) ==
    Kept(tasks, {i \in DOMAIN tasks :
        LET n == tasks[i].node
        IN  \/ Triggers[n] = {}
            \/ ~seen[n].ran
            \/ \E c \in Triggers[n] : versions[c] # seen[n].at[c]})
=============================================================================
