------------------------------- MODULE Streams -------------------------------
(***************************************************************************)
(* The channels on which a caller follows work in progress: the events of  *)
(* a graph run, the events of a functional workflow, and the results of a  *)
(* batch in the order of their completion.  Producers are the nodes or     *)
(* tasks that emit, or the workers of the batch.  The consumer may stop    *)
(* reading, and then cancels the context.                                  *)
(***************************************************************************)
EXTENDS Naturals, Sequences, FiniteSets, SequencesExt

CONSTANTS
    StreamKinds, \* subset of {"graph", "functional", "batch"}
    Producers,
    Emissions,   \* function from Producers to sequences of [mode, how, id]
    ModeSets,    \* the selections of modes
    Buffer,      \* StreamOptions.Buffer
    Items        \* number of items of a batch

\* What a producer emits: a message, which is written, extracted from the node's result
\* (dedupe) or only known to be in the state (remember), or an event of another mode.
Emission == {e \in [mode: STRING, how: {"write", "remember", "dedupe", "block"}, id: Nat] :
                e.how # "block" => e.mode = "messages"}
ASSUME StreamAssumption ==
    /\ StreamKinds \subseteq {"graph", "functional", "batch"}
    /\ 0 \notin Producers
    /\ Emissions \in [Producers -> Seq(Emission)]
    /\ Buffer \in Nat /\ Items \in Nat

VARIABLES
    streamKind, modes,
    node,      \* index of a producer's next emission; for a worker, its item or 0
    held,      \* the event that a producer is sending
    failed,    \* producers whose node or emit failed
    seen,      \* seenMessages
    fed,       \* items handed to the workers
    owner,     \* the goroutine that owns the channel
    outcome,   \* what the run returned
    buf, got,  \* the channel; what the consumer has received
    canceled, left

flow == <<streamKind, modes, node, held, failed, seen, fed, owner, outcome, buf, got, canceled, left>>

Nothing == [from |-> 0, nr |-> 0, how |-> "none", id |-> 0]
TerminalEvent(how) == [from |-> 0, nr |-> 0, how |-> how, id |-> 0]
Past(p) == Len(Emissions[p]) + 1
\* A step that returned without waiting for its tasks.
Abandoned == outcome = "abandoned"

StreamInit ==
    /\ streamKind \in StreamKinds /\ modes \in ModeSets
    /\ node = [p \in Producers |-> IF streamKind = "batch" THEN 0 ELSE 1]
    /\ held = [p \in Producers |-> Nothing]
    /\ failed = {} /\ seen = {} /\ fed = 0 /\ owner = "running" /\ outcome = "none"
    /\ buf = <<>> /\ got = <<>> /\ canceled = FALSE /\ left = FALSE

\* A graph's stream has at least one slot, a batch's one for each worker; a channel
\* without slots hands the event over.
ChannelSize == CASE streamKind = "graph" -> IF Buffer = 0 THEN 1 ELSE Buffer
              [] streamKind = "functional" -> Buffer
              [] streamKind = "batch" -> Cardinality(Producers)
Put(event) ==
    IF ChannelSize = 0
    THEN ~left /\ got' = Append(got, event) /\ UNCHANGED buf
    ELSE Len(buf) < ChannelSize /\ buf' = Append(buf, event) /\ UNCHANGED got
-----------------------------------------------------------------------------
(***************************************************************************)
(* The producers of a stream.                                              *)
(***************************************************************************)
Emitting(p) == streamKind # "batch" /\ node[p] < Past(p) /\ held[p] = Nothing
Event(p) == LET e == Emissions[p][node[p]] IN [from |-> p, nr |-> node[p], how |-> e.how, id |-> e.id]

\* Mutant: the identity of a message is looked up but not recorded.
RecordNothing(e) == seen
Record(e) == seen \cup {e.id}

\* emit, up to the send: the mutex covers the lookup and the record of a message's
\* identity.  A functional stream sends every selected event.
Emit(p) ==
    LET e == Event(p)
        skip == node' = [node EXCEPT ![p] = @ + 1] /\ UNCHANGED held
        send == held' = [held EXCEPT ![p] = e] /\ UNCHANGED node
        message == streamKind = "graph" /\ Emissions[p][node[p]].mode = "messages" /\ e.how # "block"
    IN
    /\ Emitting(p)
    /\ IF Emissions[p][node[p]].mode \notin modes THEN skip /\ UNCHANGED seen
       ELSE IF ~message THEN send /\ UNCHANGED seen
       ELSE /\ seen' = Record(e)
            /\ IF e.how = "remember" \/ (e.how = "dedupe" /\ e.id \in seen) THEN skip ELSE send
    /\ UNCHANGED <<streamKind, modes, outcome, failed, fed, owner, buf, got, canceled, left>>

\* The node or task of the producer fails.
Fail(p) ==
    /\ Emitting(p)
    /\ node' = [node EXCEPT ![p] = Past(p)] /\ failed' = failed \cup {p}
    /\ UNCHANGED <<streamKind, modes, outcome, held, seen, fed, owner, buf, got, canceled, left>>

\* The send; then the producer goes on.
Deliver(p) ==
    /\ held[p] # Nothing /\ owner # "closed" /\ Put(held[p])
    /\ held' = [held EXCEPT ![p] = Nothing]
    /\ node' = [node EXCEPT ![p] = IF streamKind = "batch" THEN 0 ELSE @ + 1]
    /\ UNCHANGED <<streamKind, modes, outcome, failed, seen, fed, owner, canceled, left>>

\* Mutant: the send does not watch the context.
NeverGivesUp(p) == FALSE /\ UNCHANGED flow
\* The other branch of the select: emit returns the context's error, and the node
\* fails; the worker of a batch returns and its result is lost.
GiveUp(p) ==
    /\ held[p] # Nothing /\ canceled
    /\ held' = [held EXCEPT ![p] = Nothing]
    /\ node' = [node EXCEPT ![p] = IF streamKind = "batch" THEN Items + 1 ELSE Past(p)]
    /\ failed' = failed \cup {p}
    /\ UNCHANGED <<streamKind, modes, outcome, seen, fed, owner, buf, got, canceled, left>>

\* A send on the closed channel, which a producer that the owner did not wait for may
\* choose even when its context has ended: the process panics.
SendOnClosed(p) ==
    /\ held[p] # Nothing /\ owner = "closed"
    /\ owner' = "panicked"
    /\ UNCHANGED <<streamKind, modes, outcome, node, held, failed, seen, fed, buf, got, canceled, left>>

\* The run returns.  A graph's run emits the done event itself, and returns the error
\* of emit.
Return ==
    /\ streamKind # "batch" /\ owner = "running" /\ \A p \in Producers : node[p] = Past(p)
    /\ owner' \in IF failed # {} THEN {"error"}
               ELSE {"done", "interrupt"} \cup (IF canceled THEN {"error"} ELSE {})
    /\ outcome' = owner'
    /\ UNCHANGED <<streamKind, modes, node, held, failed, seen, fed, buf, got, canceled, left>>
\* executeStep fails between two launches, on an event of its own that is not sent or on
\* a recovered result of another node, and returns without waiting for the tasks that
\* it launched; some were not.
ReturnEarly ==
    /\ streamKind = "graph" /\ owner = "running"
    /\ \E unlaunched \in SUBSET {p \in Producers : node[p] = 1 /\ held[p] = Nothing} :
         /\ unlaunched # {}
         /\ node' = [p \in Producers |-> IF p \in unlaunched THEN Past(p) ELSE node[p]]
         /\ failed' = failed \cup unlaunched
    /\ owner' = "error" /\ outcome' = "abandoned"
    /\ UNCHANGED <<streamKind, modes, held, seen, fed, buf, got, canceled, left>>
\* Terminal events; errors and interrupts ignore the selection.
Ending == streamKind # "batch" /\ owner \in {"done", "interrupt", "error"}
SendTerminal ==
    /\ Ending
    /\ owner = "done" => owner \in modes
    /\ Put(TerminalEvent(owner)) /\ owner' = "closing"
    /\ UNCHANGED <<streamKind, modes, outcome, node, held, failed, seen, fed, canceled, left>>
SkipTerminal ==
    /\ Ending
    /\ \/ owner = "done" /\ owner \notin modes /\ owner' = "closing"
       \/ /\ owner = "done" /\ owner \in modes /\ canceled
          /\ owner' = (IF streamKind = "graph" THEN "error" ELSE "closing")
       \/ owner # "done" /\ canceled /\ owner' = "closing"
    /\ UNCHANGED <<streamKind, modes, outcome, node, held, failed, seen, fed, buf, got, canceled, left>>
CloseEvents ==
    /\ owner = "closing" /\ owner' = "closed"
    /\ UNCHANGED <<streamKind, modes, outcome, node, held, failed, seen, fed, buf, got, canceled, left>>
-----------------------------------------------------------------------------
(***************************************************************************)
(* A batch: its workers, and the goroutine that feeds them.                *)
(***************************************************************************)
Gone == Items + 1
Feed(p) ==
    /\ streamKind = "batch" /\ owner = "running" /\ fed < Items /\ node[p] = 0
    /\ fed' = fed + 1 /\ node' = [node EXCEPT ![p] = fed + 1]
    /\ UNCHANGED <<streamKind, modes, outcome, held, failed, seen, owner, buf, got, canceled, left>>
\* invokeBatchItem: a result, an error or a panic, all of them a completion.
InvokeItem(p) ==
    /\ streamKind = "batch" /\ node[p] \in 1 .. Items /\ held[p] = Nothing
    /\ held' = [held EXCEPT ![p] = [from |-> p, nr |-> node[p], how |-> "item", id |-> node[p]]]
    /\ UNCHANGED <<streamKind, modes, outcome, node, failed, seen, fed, owner, buf, got, canceled, left>>
CloseJobs ==
    /\ streamKind = "batch" /\ owner = "running" /\ (fed = Items \/ canceled)
    /\ owner' = "waiting"
    /\ UNCHANGED <<streamKind, modes, outcome, node, held, failed, seen, fed, buf, got, canceled, left>>
WorkerReturns(p) ==
    /\ streamKind = "batch" /\ owner = "waiting" /\ node[p] = 0
    /\ node' = [node EXCEPT ![p] = Gone]
    /\ UNCHANGED <<streamKind, modes, outcome, held, failed, seen, fed, owner, buf, got, canceled, left>>
CloseCompleted ==
    /\ streamKind = "batch" /\ owner = "waiting" /\ \A p \in Producers : node[p] = Gone
    /\ owner' = "closed"
    /\ UNCHANGED <<streamKind, modes, outcome, node, held, failed, seen, fed, buf, got, canceled, left>>
-----------------------------------------------------------------------------
(***************************************************************************)
(* The consumer.                                                           *)
(***************************************************************************)
ReceiveEvent ==
    /\ ~left /\ owner # "panicked" /\ buf # <<>>
    /\ got' = Append(got, Head(buf)) /\ buf' = Tail(buf)
    /\ UNCHANGED <<streamKind, modes, outcome, node, held, failed, seen, fed, owner, canceled, left>>
Leave ==
    /\ ~left /\ owner \notin {"closed", "panicked"} /\ left' = TRUE
    /\ UNCHANGED <<streamKind, modes, outcome, node, held, failed, seen, fed, owner, buf, got, canceled>>
CancelStream ==
    /\ ~canceled /\ owner \notin {"closed", "panicked"} /\ canceled' = TRUE
    /\ UNCHANGED <<streamKind, modes, outcome, node, held, failed, seen, fed, owner, buf, got, left>>

Work(p) ==
    /\ owner # "panicked"
    /\ \/ Emit(p) \/ Fail(p) \/ Deliver(p) \/ GiveUp(p) \/ SendOnClosed(p)
       \/ Feed(p) \/ InvokeItem(p) \/ WorkerReturns(p)
Own ==
    \/ Return \/ ReturnEarly \/ SendTerminal \/ SkipTerminal \/ CloseEvents
    \/ CloseJobs \/ CloseCompleted
StreamNext == (\E p \in Producers : Work(p)) \/ Own \/ ReceiveEvent \/ Leave \/ CancelStream

\* Nodes and items return, the consumer reads until it leaves, and a consumer that
\* leaves cancels the context.
StreamFairness ==
    /\ \A p \in Producers : WF_flow(Work(p))
    /\ WF_flow(Own) /\ WF_flow(ReceiveEvent) /\ WF_flow(left /\ CancelStream)
StreamSpec == StreamInit /\ [][StreamNext]_flow /\ StreamFairness

-----------------------------------------------------------------------------
(***************************************************************************)
(* Properties.                                                             *)
(***************************************************************************)
Sent == got \o buf
SentEvents == ToSet(Sent)
Selected(p, i) == Emissions[p][i].mode \in modes
How(p, i) == Emissions[p][i].how
\* The identities of messages that some producer knows to be in the state.
Known == UNION {{e.id : e \in {f \in ToSet(Emissions[p]) : f.how = "remember"}} : p \in Producers}

\* What the consumer of a stream or a batch reads: nothing twice, the events of a
\* producer in their order, no message whose identity was sent before it was extracted
\* from a node's result, nothing after the terminal event, and nothing is sent after the
\* close.  If the context is not cancelled, a consumer that reads to the end misses
\* nothing: a message is left out only for another one with its identity, every item of
\* a batch is there, and the error or interrupt of the run is the last event.  Only a
\* step that did not wait for its tasks leaves producers behind the terminal event and
\* the close (streamWithOptions, executeStep, streamRun, executeBatchAsCompleted).
StreamFaithful ==
    /\ \A i, j \in DOMAIN Sent : i < j =>
          /\ Sent[i] # Sent[j]
          /\ streamKind # "batch" /\ Sent[i].from = Sent[j].from => Sent[i].nr < Sent[j].nr
          /\ Abandoned \/ Sent[i].from # 0
          /\ streamKind = "graph" => ~(Sent[i].how = "dedupe" /\ Sent[j].how = "dedupe"
               /\ Sent[i].id = Sent[j].id)
    /\ owner = "panicked" => Abandoned
    /\ owner = "closed" /\ ~Abandoned => \A p \in Producers : held[p] = Nothing
    /\ owner = "closed" /\ ~canceled /\ ~Abandoned =>
          IF streamKind = "batch" THEN {e.nr : e \in SentEvents} = 1 .. Items
          ELSE /\ \A p \in Producers \ failed : \A i \in 1 .. Past(p) - 1 :
                     Selected(p, i) /\ (streamKind = "graph" => How(p, i) # "remember") =>
                        \/ \E e \in SentEvents : e.from = p /\ e.nr = i
                        \/ /\ streamKind = "graph" /\ How(p, i) = "dedupe"
                           /\ \/ Emissions[p][i].id \in Known
                              \/ \E e \in SentEvents : e.id = Emissions[p][i].id /\ e.how # "block"
               /\ outcome # "done" \/ "done" \in modes => Sent # <<>> /\ Last(Sent).from = 0

\* The channel is closed in the end, whether the consumer reads on or leaves.
StreamCloses == <>(owner = "closed")
=============================================================================
