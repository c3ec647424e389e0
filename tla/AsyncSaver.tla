----------------------------- MODULE AsyncSaver ------------------------------
(***************************************************************************)
(* DurabilityAsync: asyncQueueSaver (graph/async_saver.go) under one run.  *)
(* The run loop commits a checkpoint per super-step with Put; in between,  *)
(* the goroutines of the super-step record their results with PutWrites.   *)
(* Every call is queued under enqueueMu; one background writer applies     *)
(* them to the base saver.                                                 *)
(*                                                                         *)
(* executeStep may return while its goroutines still run (an emitter error *)
(* before group.Wait), so late calls race with Flush.                      *)
(***************************************************************************)
EXTENDS Naturals, Sequences, FiniteSets

CONSTANTS
    Tasks,      \* the tasks of each super-step, one goroutine each
    Main,       \* the run loop
    NoOne,      \* enqueueMu is free
    Capacity,   \* cap(commands); 64 in the code
    MaxSteps    \* bound on the number of super-steps

Callers == Tasks \cup {Main}

ASSUME SaverAssumption ==
    /\ Main \notin Tasks
    /\ NoOne \notin Callers
    /\ Capacity \in Nat \ {0}
    /\ MaxSteps \in Nat \ {0}

VARIABLES
    pc,         \* of each caller, in its current saver call
    run,        \* "step", "commit", "flush", "wait" (Flush waits for done), "returned"
    runErr,     \* the error the run loop will return is not nil
    cur,        \* the current checkpoint; checkpoint 1 is stored by earlier runs
    mutex,      \* who holds enqueueMu
    closed,     \* commands is closed
    sent,       \* every command ever sent on the channel
    taken,      \* how many the writer has received
    busy,       \* the writer is executing command number taken
    applied,    \* positions of the commands the base saver has applied
    firstErr,   \* asyncQueueSaver.firstErr is not nil
    ctxDone,    \* the run context is cancelled
    done        \* the writer has returned

vars == <<pc, run, runErr, cur, mutex, closed, sent, taken, busy, applied,
          firstErr, ctxDone, done>>

Command == [kind: {"put", "write"}, cp: 1 .. MaxSteps, by: Callers]

TypeOK ==
    /\ pc \in [Callers -> {"idle", "busy", "enqueue", "send", "ok", "err"}]
    /\ run \in {"step", "commit", "flush", "wait", "returned"}
    /\ runErr \in BOOLEAN
    /\ cur \in 1 .. MaxSteps
    /\ mutex \in Callers \cup {NoOne}
    /\ closed \in BOOLEAN
    /\ sent \in Seq(Command)
    /\ taken \in 0 .. Len(sent)
    /\ Len(sent) - taken <= Capacity
    /\ busy \in BOOLEAN
    /\ applied \in SUBSET DOMAIN sent
    /\ firstErr \in BOOLEAN
    /\ ctxDone \in BOOLEAN
    /\ done \in BOOLEAN

Init ==
    /\ pc = [c \in Callers |-> IF c = Main THEN "idle" ELSE "busy"]
    /\ run = "step"
    /\ runErr = FALSE
    /\ cur = 1
    /\ mutex = NoOne
    /\ closed = FALSE
    /\ sent = <<>>
    /\ taken = 0
    /\ busy = FALSE
    /\ applied = {}
    /\ firstErr = FALSE
    /\ ctxDone = FALSE
    /\ done = FALSE

-----------------------------------------------------------------------------
\* A node finishes and its goroutine calls PutWrites, or it fails; PutWrites
\* refuses a cancelled context.
NodeReturns(t) ==
    /\ pc[t] = "busy"
    /\ \/ ~ctxDone /\ pc' = [pc EXCEPT ![t] = "enqueue"]
       \/ pc' = [pc EXCEPT ![t] = "err"]
    /\ UNCHANGED <<run, runErr, cur, mutex, closed, sent, taken, busy, applied,
                   firstErr, ctxDone, done>>

\* The command of a caller: the run loop's checkpoint, or a task's result.
CommandOf(c) ==
    IF c = Main THEN [kind |-> "put", cp |-> cur + 1, by |-> c]
    ELSE [kind |-> "write", cp |-> cur, by |-> c]

\* Mutant: closed is not looked at under the lock.
LockedIgnoringClose(c) ==
    /\ pc[c] = "enqueue"
    /\ mutex = NoOne
    /\ IF firstErr
       THEN pc' = [pc EXCEPT ![c] = "err"] /\ UNCHANGED mutex
       ELSE pc' = [pc EXCEPT ![c] = "send"] /\ mutex' = c
    /\ UNCHANGED <<run, runErr, cur, closed, sent, taken, busy, applied,
                   firstErr, ctxDone, done>>

\* enqueue, up to the select: takes enqueueMu, refuses when the saver is
\* flushed or has failed.
EnqueueLocked(c) ==
    /\ pc[c] = "enqueue"
    /\ mutex = NoOne
    /\ IF closed \/ firstErr
       THEN pc' = [pc EXCEPT ![c] = "err"] /\ UNCHANGED mutex
       ELSE pc' = [pc EXCEPT ![c] = "send"] /\ mutex' = c
    /\ UNCHANGED <<run, runErr, cur, closed, sent, taken, busy, applied,
                   firstErr, ctxDone, done>>

\* enqueue's select: the send succeeds, or the context is done; then the
\* mutex is released.
Send(c) ==
    /\ pc[c] = "send"
    /\ Len(sent) - taken < Capacity
    /\ sent' = Append(sent, CommandOf(c))
    /\ pc' = [pc EXCEPT ![c] = "ok"]
    /\ mutex' = NoOne
    /\ UNCHANGED <<run, runErr, cur, closed, taken, busy, applied, firstErr,
                   ctxDone, done>>

SendCancelled(c) ==
    /\ pc[c] = "send"
    /\ ctxDone
    /\ pc' = [pc EXCEPT ![c] = "err"]
    /\ mutex' = NoOne
    /\ UNCHANGED <<run, runErr, cur, closed, sent, taken, busy, applied, firstErr,
                   ctxDone, done>>

-----------------------------------------------------------------------------
\* The background writer: the next command is received; it is skipped once the
\* saver has failed, otherwise executed.
Receive ==
    /\ ~busy
    /\ taken < Len(sent)
    /\ taken' = taken + 1
    /\ busy' = ~firstErr
    /\ UNCHANGED <<pc, run, runErr, cur, mutex, closed, sent, applied, firstErr,
                   ctxDone, done>>

\* Mutant: a failure is not remembered.
ExecuteAndForget(fails, reached) ==
    /\ busy
    /\ fails \/ reached
    /\ busy' = FALSE
    /\ applied' = IF reached THEN applied \cup {taken} ELSE applied
    /\ ctxDone' = (ctxDone \/ fails)
    /\ UNCHANGED <<pc, run, runErr, cur, mutex, closed, sent, taken, firstErr, done>>

\* The base saver's answer.  A failing call may have reached the database
\* before the error; fail records the error and cancels the run.
Execute(fails, reached) ==
    /\ busy
    /\ fails \/ reached
    /\ busy' = FALSE
    /\ applied' = IF reached THEN applied \cup {taken} ELSE applied
    /\ firstErr' = (firstErr \/ fails)
    /\ ctxDone' = (ctxDone \/ fails)
    /\ UNCHANGED <<pc, run, runErr, cur, mutex, closed, sent, taken, done>>

\* Mutant: after an error the writer does not drain.
ExitUndrained ==
    /\ ~busy
    /\ closed
    /\ ~firstErr
    /\ taken = Len(sent)
    /\ done' = TRUE
    /\ UNCHANGED <<pc, run, runErr, cur, mutex, closed, sent, taken, busy, applied,
                   firstErr, ctxDone>>

\* The range over the closed channel ends.
WriterExit ==
    /\ ~busy
    /\ closed
    /\ taken = Len(sent)
    /\ done' = TRUE
    /\ UNCHANGED <<pc, run, runErr, cur, mutex, closed, sent, taken, busy, applied,
                   firstErr, ctxDone>>

-----------------------------------------------------------------------------
\* The run loop.  All goroutines returned (group.Wait): on success the next
\* checkpoint is Put, or the run is over; on an error it returns.
StepDone ==
    /\ run = "step"
    /\ \A t \in Tasks : pc[t] \in {"ok", "err"}
    /\ \/ /\ \A t \in Tasks : pc[t] = "ok"
          /\ ~ctxDone
          /\ cur < MaxSteps
          /\ run' = "commit"
          /\ pc' = [pc EXCEPT ![Main] = "enqueue"]
          /\ UNCHANGED runErr
       \/ /\ run' = "flush"
          /\ runErr' \in BOOLEAN
          /\ (\E t \in Tasks : pc[t] = "err") => runErr'
          /\ UNCHANGED pc
    /\ UNCHANGED <<cur, mutex, closed, sent, taken, busy, applied, firstErr,
                   ctxDone, done>>

\* Put has returned: the next super-step begins at the new checkpoint.
Committed ==
    /\ run = "commit"
    /\ pc[Main] \in {"ok", "err"}
    /\ IF pc[Main] = "ok"
       THEN /\ run' = "step"
            /\ cur' = cur + 1
            /\ pc' = [c \in Callers |-> IF c = Main THEN "idle" ELSE "busy"]
            /\ UNCHANGED runErr
       ELSE /\ run' = "flush"
            /\ runErr' = TRUE
            /\ UNCHANGED <<cur, pc>>
    /\ UNCHANGED <<mutex, closed, sent, taken, busy, applied, firstErr, ctxDone,
                   done>>

\* executeStep returns early; its goroutines go on.
AbandonStep ==
    /\ run = "step"
    /\ run' = "flush"
    /\ runErr' = TRUE
    /\ UNCHANGED <<pc, cur, mutex, closed, sent, taken, busy, applied, firstErr,
                   ctxDone, done>>

\* The caller cancels its context.
Cancel ==
    /\ ~ctxDone
    /\ run # "returned"
    /\ ctxDone' = TRUE
    /\ UNCHANGED <<pc, run, runErr, cur, mutex, closed, sent, taken, busy, applied,
                   firstErr, done>>

\* Mutant: Flush does not wait for the writer.
FlushNoWait ==
    /\ run = "flush"
    /\ mutex = NoOne
    /\ closed' = TRUE
    /\ run' = "returned"
    /\ runErr' = (runErr \/ firstErr)
    /\ UNCHANGED <<pc, cur, mutex, sent, taken, busy, applied, firstErr, ctxDone,
                   done>>

\* Flush: closes the channel under enqueueMu, waits for the writer, returns its
\* first error and cancels the context.
FlushClose ==
    /\ run = "flush"
    /\ mutex = NoOne
    /\ closed' = TRUE
    /\ run' = "wait"
    /\ UNCHANGED <<pc, runErr, cur, mutex, sent, taken, busy, applied, firstErr,
                   ctxDone, done>>

FlushDone ==
    /\ run = "wait"
    /\ done
    /\ run' = "returned"
    /\ runErr' = (runErr \/ firstErr)
    /\ ctxDone' = TRUE
    /\ UNCHANGED <<pc, cur, mutex, closed, sent, taken, busy, applied, firstErr,
                   done>>

Writer ==
    \/ Receive
    \/ \E fails, reached \in BOOLEAN : Execute(fails, reached)
    \/ WriterExit

Calls(c) == EnqueueLocked(c) \/ Send(c) \/ SendCancelled(c)

Next ==
    \/ \E t \in Tasks : NodeReturns(t)
    \/ \E c \in Callers : Calls(c)
    \/ Writer
    \/ StepDone
    \/ Committed
    \/ AbandonStep
    \/ Cancel
    \/ FlushClose
    \/ FlushDone

Spec == Init /\ [][Next]_vars

\* Goroutines that are ready run: the writer, the callers inside a saver call
\* (Go's mutex is starvation free), and Flush.  Nodes may take forever.
FairSpec ==
    /\ Spec
    /\ WF_vars(Writer)
    /\ \A c \in Callers : WF_vars(Calls(c))
    /\ WF_vars(FlushClose)
    /\ WF_vars(FlushDone)

-----------------------------------------------------------------------------
\* The asynchronous saver implements the ordered log: persisted in call order,
\* a nil return means everything is stored, nothing is stored after it.
Log == INSTANCE OrderedLog WITH
    Commands <- Command,
    log <- sent,
    persisted <- applied,
    result <- IF run # "returned" THEN "open" ELSE IF runErr THEN "error" ELSE "ok"

ImplementsOrderedLog == Log!Spec

\* A result is stored only after the checkpoint it belongs to: a base saver
\* refuses pending writes for a checkpoint it does not hold (PutWrites in
\* checkpoint/memory), so an inversion would fail the run.
WritesFindTheirCheckpoint ==
    \A i \in applied :
        sent[i].kind = "write" /\ sent[i].cp > 1 =>
            \E j \in applied : j < i /\ sent[j].kind = "put" /\ sent[j].cp = sent[i].cp

\* No goroutine sends on a closed channel, late callers included: enqueue and
\* Flush exclude each other through enqueueMu.
NoSendOnClosed == closed => \A c \in Callers : pc[c] # "send"

\* Flush returns, even if the base saver fails while callers are blocked on a
\* full queue, the context is cancelled or goroutines outlive the super-step.
FlushReturns == run = "flush" ~> run = "returned"
=============================================================================
