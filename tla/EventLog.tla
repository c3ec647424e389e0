------------------------------- MODULE EventLog ------------------------------
(***************************************************************************)
(* The durable event stream of a run, from the workers that append to it   *)
(* to a remote client that follows it and reconnects.                      *)
(*                                                                         *)
(* Workers append events under idempotency keys and repeat an append whose *)
(* answer they lost.  A server tails the stream (by notification in memory,*)
(* by polling in PostgreSQL) and writes it to the client's connection as   *)
(* SSE; the invoke stream has no log, so that a reconnect runs the graph   *)
(* again and skips what the client has.  PostgreSQL prunes whole streams.  *)
(***************************************************************************)
EXTENDS Naturals, Sequences, FiniteSets

CONSTANTS
    Workers,
    Events,        \* events of the run: 1 .. Events, the last one terminal
    Payloads,      \* payloads that a worker may compute for an event
    BatchLimit,    \* EventQuery.Limit of a batch, 0: none
    MaxReconnects, \* StreamOptions.MaxReconnectAttempts
    MaxRepeats,    \* bound: appends repeated by each worker
    MaxPrunes      \* bound: prunings

ASSUME EventAssumption ==
    /\ Events \in Nat \ {0}
    /\ BatchLimit \in Nat /\ MaxReconnects \in Nat /\ MaxRepeats \in Nat /\ MaxPrunes \in Nat

VARIABLES
    logKind,  \* memory, postgres, or invoke: the stream without a log
    log,      \* the stream: events in sequence order
    bindings, \* idempotency key -> sequence and payload
    stream,   \* generation of the stream row (history; pruning starts another)
    raced,    \* a stream was pruned between the two queries of a List (history)
    worker,   \* worker -> next event and repeats
    tail,     \* the server's Tail goroutine
    output,   \* its channel, of capacity 1
    wire,     \* written by the server and not yet read by the client
    client,   \* the reconnecting client
    delivered \* events given to the caller

eventVars == <<logKind, log, bindings, stream, raced, worker, tail, output, wire, client, delivered>>

EventKeys == 1 .. Events
Terminal(e) == e.key = Events
NoCursor == [gen |-> 0, seq |-> 0]
Cursor(e) == [gen |-> e.gen, seq |-> e.seq]
Unbound == [seq |-> 0, data |-> 0]
NoTail == [at |-> "off", after |-> NoCursor, events |-> <<>>, watched |-> FALSE]
CompleteComment == [key |-> 0]      \* the completion comment
ErrorEvent(code) == [key |-> 0, error |-> code]

EventInit ==
    /\ logKind \in {"memory", "postgres", "invoke"}
    /\ log = <<>> /\ bindings = [k \in EventKeys |-> Unbound] /\ stream = 1 /\ raced = FALSE
    /\ worker = [w \in Workers |-> [next |-> 1, repeats |-> 0]]
    /\ tail = NoTail /\ output = <<>> /\ wire = <<>>
    /\ client = [at |-> "idle", last |-> NoCursor, attempt |-> 0]
    /\ delivered = <<>>

-----------------------------------------------------------------------------
(***************************************************************************)
(* Append.                                                                 *)
(***************************************************************************)
\* What a keyed append does to the stream; conflicts change nothing.
Repeated(k) == bindings[k] # Unbound
StreamClosed == log # <<>> /\ Terminal(log[Len(log)])

\* Mutant: a repeated key is appended again.
AddAgain(k, d) ==
    IF StreamClosed THEN UNCHANGED <<log, bindings>>
    ELSE /\ log' = Append(log, [gen |-> stream, seq |-> Len(log) + 1, key |-> k, data |-> d])
         /\ bindings' = [bindings EXCEPT ![k] = [seq |-> Len(log) + 1, data |-> d]]
Add(k, d) ==
    IF Repeated(k) \/ StreamClosed THEN UNCHANGED <<log, bindings>>
    ELSE /\ log' = Append(log, [gen |-> stream, seq |-> Len(log) + 1, key |-> k, data |-> d])
         /\ bindings' = [bindings EXCEPT ![k] = [seq |-> Len(log) + 1, data |-> d]]

\* The next event of a worker, or, when an answer was lost, the same one again.
Advance(w) ==
    \/ worker' = [worker EXCEPT ![w].next = @ + 1]
    \/ /\ worker[w].repeats < MaxRepeats
       /\ worker' = [worker EXCEPT ![w].repeats = @ + 1]

\* Append closes the channel that a tail took with its batch.
MemoryAppend(w, d) ==
    /\ logKind = "memory" /\ worker[w].next <= Events
    /\ Add(worker[w].next, d) /\ Advance(w)
    /\ tail' = [tail EXCEPT !.watched = @ /\ log' = log]
    /\ UNCHANGED <<logKind, stream, raced, output, wire, client, delivered>>
\* The stream's row is locked: sequences are committed in order.
PostgresAppend(w, d) ==
    /\ logKind = "postgres" /\ worker[w].next <= Events
    /\ Add(worker[w].next, d) /\ Advance(w)
    /\ UNCHANGED <<logKind, stream, raced, tail, output, wire, client, delivered>>

\* Prune deletes terminal streams with their events and bindings.
Prune ==
    /\ logKind = "postgres" /\ StreamClosed /\ stream <= MaxPrunes
    /\ log' = <<>> /\ bindings' = [k \in EventKeys |-> Unbound]
    /\ stream' = stream + 1
    /\ raced' = (raced \/ (tail.at = "rows" /\ tail.after # NoCursor))
    /\ UNCHANGED <<logKind, worker, tail, output, wire, client, delivered>>

-----------------------------------------------------------------------------
(***************************************************************************)
(* Tail.                                                                   *)
(***************************************************************************)
SeqAfter(c) == IF c = NoCursor THEN 0 ELSE c.seq
CursorKnown(c) == c = NoCursor \/ (c.gen = stream /\ c.seq <= Len(log))
BatchAfter(c) ==
    SubSeq(log, SeqAfter(c) + 1,
           IF BatchLimit > 0 /\ SeqAfter(c) + BatchLimit < Len(log)
           THEN SeqAfter(c) + BatchLimit ELSE Len(log))

\* tailBatch: the events and the channel that the next append closes, together.
MemoryTailBatch ==
    LET events == BatchAfter(tail.after)
        completed == tail.after # NoCursor /\ Terminal(log[tail.after.seq]) IN
    /\ logKind = "memory" /\ tail.at = "batch"
    /\ tail' = [tail EXCEPT !.events = events, !.watched = TRUE,
                            !.at = IF events # <<>> THEN "send" ELSE IF completed THEN "closed"
                                ELSE "wait"]
    /\ UNCHANGED <<logKind, log, bindings, stream, raced, worker, output, wire, client, delivered>>
Wake ==
    /\ tail.at = "wait" /\ (logKind = "postgres" \/ ~tail.watched)
    /\ tail' = [tail EXCEPT !.at = "batch"]
    /\ UNCHANGED <<logKind, log, bindings, stream, raced, worker, output, wire, client, delivered>>

\* List, two queries without a transaction: the sequence number of the cursor, which
\* fails when its stream was pruned, and then the rows after that number, of whatever
\* stream is there by now.
PostgresListCursor ==
    /\ logKind = "postgres" /\ tail.at = "batch"
    /\ tail' = [tail EXCEPT !.at = IF CursorKnown(tail.after) THEN "rows" ELSE "failed"]
    /\ UNCHANGED <<logKind, log, bindings, stream, raced, worker, output, wire, client, delivered>>
PostgresListRows ==
    LET events == BatchAfter(tail.after) IN
    /\ tail.at = "rows"
    /\ tail' = [tail EXCEPT !.events = events, !.at = IF events = <<>> THEN "check" ELSE "send"]
    /\ UNCHANGED <<logKind, log, bindings, stream, raced, worker, output, wire, client, delivered>>
\* streamTerminalAtCursor, a query of its own: without a row it is not terminal.
StreamTerminalAtCursor ==
    LET terminal == StreamClosed /\ tail.after = Cursor(log[Len(log)]) IN
    /\ tail.at = "check"
    /\ tail' = [tail EXCEPT !.at = IF terminal THEN "closed" ELSE "wait"]
    /\ UNCHANGED <<logKind, log, bindings, stream, raced, worker, output, wire, client, delivered>>

TailSend ==
    LET e == Head(tail.events) IN
    /\ tail.at = "send" /\ output = <<>>
    /\ output' = <<e>>
    /\ tail' = [tail EXCEPT !.after = Cursor(e), !.events = Tail(@),
                            !.at = IF Terminal(e) THEN "closed"
                                ELSE IF Len(tail.events) = 1 THEN "batch" ELSE "send"]
    /\ UNCHANGED <<logKind, log, bindings, stream, raced, worker, wire, client, delivered>>

\* The invoke stream: the graph's events, of which those up to the cursor are skipped.
ServeStream ==
    LET n == tail.after.seq + 1 IN
    /\ logKind = "invoke" /\ tail.at = "batch" /\ output = <<>>
    /\ IF n > Events
       THEN tail' = [tail EXCEPT !.at = "closed"] /\ UNCHANGED output
       ELSE /\ tail' = [tail EXCEPT !.after = [gen |-> 1, seq |-> n]]
            /\ output' = IF n <= client.last.seq THEN <<>>
                         ELSE <<[gen |-> 1, seq |-> n, key |-> n, data |-> 0]>>
    /\ UNCHANGED <<logKind, log, bindings, stream, raced, worker, wire, client, delivered>>

-----------------------------------------------------------------------------
(***************************************************************************)
(* The server's response and the client.                                   *)
(***************************************************************************)
\* streamRemoteRun: every event, and the completion comment when Tail has closed.
ServeEvent ==
    /\ output # <<>>
    /\ wire' = Append(wire, Head(output)) /\ output' = <<>>
    /\ UNCHANGED <<logKind, log, bindings, stream, raced, worker, tail, client, delivered>>
ServeEnd ==
    /\ output = <<>> /\ tail.at \in {"closed", "failed"}
    /\ wire' = Append(wire, IF tail.at = "closed" THEN CompleteComment ELSE ErrorEvent("not_found"))
    /\ tail' = [tail EXCEPT !.at = "off"]
    /\ UNCHANGED <<logKind, log, bindings, stream, raced, worker, output, client, delivered>>

\* StreamRun: a new request after the last event that the caller got.
StreamRun ==
    /\ client.at = "idle"
    /\ client' = [client EXCEPT !.at = "reading"]
    /\ tail' = [NoTail EXCEPT !.at = "batch", !.after = IF logKind = "invoke" THEN NoCursor
                                                        ELSE client.last]
    /\ output' = <<>> /\ wire' = <<>>
    /\ UNCHANGED <<logKind, log, bindings, stream, raced, worker, delivered>>

\* scanSSE: deliver unless it is the last one again; note the completion comment.
ScanSSE ==
    LET e == Head(wire) IN
    /\ client.at = "reading" /\ wire # <<>>
    /\ wire' = Tail(wire)
    /\ CASE e = CompleteComment -> client' = [client EXCEPT !.at = "complete"] /\ UNCHANGED delivered
         [] e = ErrorEvent("not_found") -> client' = [client EXCEPT !.at = "failed"]
           /\ UNCHANGED delivered
         [] OTHER -> /\ client' = [client EXCEPT !.last = Cursor(e)]
                     /\ delivered' = IF Cursor(e) = client.last THEN delivered ELSE Append(delivered, e)
    /\ UNCHANGED <<logKind, log, bindings, stream, raced, worker, tail, output>>

\* The connection breaks, with what is on the wire: StreamRunWithOptions and
\* StreamWithOptions try again from the last delivered event.
Reconnect ==
    /\ client.at = "reading"
    /\ client' = IF client.attempt < MaxReconnects
                 THEN [client EXCEPT !.at = "idle", !.attempt = @ + 1]
                 ELSE [client EXCEPT !.at = "failed"]
    /\ tail' = NoTail /\ output' = <<>> /\ wire' = <<>>
    /\ UNCHANGED <<logKind, log, bindings, stream, raced, worker, delivered>>

-----------------------------------------------------------------------------
Produce == \E w \in Workers, d \in Payloads : MemoryAppend(w, d) \/ PostgresAppend(w, d)
Serve ==
    \/ MemoryTailBatch \/ Wake \/ PostgresListCursor \/ PostgresListRows \/ StreamTerminalAtCursor
    \/ TailSend \/ ServeStream
    \/ ServeEvent \/ ServeEnd
Follow == StreamRun \/ ScanSSE

EventNext == Produce \/ Prune \/ Serve \/ Follow \/ Reconnect

\* Workers, server and client go on; nothing has to break or to be pruned.
EventFairness == WF_eventVars(Produce) /\ WF_eventVars(Serve) /\ WF_eventVars(Follow)
EventSpec == EventInit /\ [][EventNext]_eventVars /\ EventFairness

-----------------------------------------------------------------------------
(***************************************************************************)
(* Properties.                                                             *)
(***************************************************************************)
\* However appends are repeated and connections break, the caller gets the events of
\* the stream in the order of their sequence numbers, from the first on, without a gap
\* and none twice, and a stream that ends without an error has delivered the terminal
\* event ("from the last event successfully delivered to the caller").  All of it is
\* of one generation of the stream, unless that was pruned between the two queries
\* of a List, which then goes on in the middle of the stream written since.
DeliveredExactly ==
    /\ \A i \in DOMAIN delivered : delivered[i].seq = i
    /\ \A i, j \in DOMAIN delivered :
         /\ i < j => delivered[i].gen <= delivered[j].gen
         /\ i # j /\ delivered[i].gen = delivered[j].gen => delivered[i].key # delivered[j].key
         /\ raced \/ delivered[i].gen = delivered[j].gen
    /\ client.at = "complete" => delivered # <<>> /\ Terminal(delivered[Len(delivered)])

\* A client that follows a run gets to its end, or to the end of its attempts, as
\* long as the stream is not pruned: no append is missed by a waiting tail (Tail,
\* tailBatch, Append).
StreamEnds == client.at = "reading" ~> (client.at \in {"complete", "failed", "idle"} \/ stream > 1)
=============================================================================
