---------------------------- MODULE EndingsProofs ---------------------------
(***************************************************************************)
(* Proofs about AsyncSaver, EventLog and Streams. asyncQueueSaver          *)
(* implements OrderedLog for any set of tasks, any queue capacity and any  *)
(* number of super-steps; a client of a run's event stream gets every      *)
(* event once, for any number of workers, events and reconnections; and a  *)
(* stream delivers what its producers emitted, in their order, for any     *)
(* capacity and any number of producers, emissions and batch items.        *)
(***************************************************************************)
EXTENDS AsyncSaver, EventLog, Streams, TLAPS

-----------------------------------------------------------------------------
(***************************************************************************)
(* AsyncSaver: the queue, its writer and the run that flushes it.          *)
(***************************************************************************)
\* enqueueMu protects the send, and Flush closes the channel only when no call
\* is inside it.
MutexHeld ==
    /\ \A c \in Callers : pc[c] = "send" => mutex = c
    /\ mutex # NoOne => ~closed /\ pc[mutex] = "send"

\* What the writer has done with the commands it received.
WriterState ==
    /\ busy => ~firstErr /\ taken > 0
    /\ applied \subseteq 1 .. taken
    /\ ~firstErr => applied = 1 .. (IF busy THEN taken - 1 ELSE taken)
    /\ done => closed /\ taken = Len(sent) /\ ~busy

\* Where the run loop is.
RunState ==
    /\ run \in {"wait", "returned"} => closed
    /\ run = "returned" => done
    /\ run = "commit" => cur < MaxSteps /\ \A t \in Tasks : pc[t] = "ok"
    /\ pc[Main] \in {"enqueue", "send"} => run = "commit"

SInv == TypeOK /\ MutexHeld /\ WriterState /\ RunState

USE SaverAssumption DEF Callers

\* A caller's command is a command: a checkpoint is only Put below the bound.
LEMMA CommandTyped ==
    ASSUME SInv, NEW c \in Callers, pc[c] = "send"
    PROVE  CommandOf(c) \in Command
BY DEF SInv, TypeOK, RunState, CommandOf, Command

\* The initial state satisfies the invariant.
LEMMA SInit == Init => SInv
<1> SUFFICES ASSUME Init PROVE SInv
  OBVIOUS
<1>1. Len(sent) = 0 /\ sent \in Seq(Command) /\ applied \in SUBSET DOMAIN sent
  BY DEF Init
<1>2. TypeOK
  <2>1. pc \in [Callers -> {"idle", "busy", "enqueue", "send", "ok", "err"}]
    BY DEF Init
  <2>2. /\ taken \in 0 .. Len(sent) /\ Len(sent) - taken <= Capacity
        /\ cur \in 1 .. MaxSteps
    BY <1>1 DEF Init
  <2> QED BY <1>1, <2>1, <2>2 DEF Init, TypeOK
<1>3. MutexHeld
  BY DEF Init, MutexHeld
<1>4. WriterState
  BY DEF Init, WriterState
<1>5. RunState
  BY DEF Init, RunState
<1> QED BY <1>2, <1>3, <1>4, <1>5 DEF SInv

\* Every action keeps the invariant.
LEMMA SNext == SInv /\ [Next]_vars => SInv'
<1> SUFFICES ASSUME SInv, [Next]_vars PROVE SInv'
  OBVIOUS
<1> USE DEF SInv
<1>1. ASSUME NEW t \in Tasks, NodeReturns(t) PROVE SInv'
  BY <1>1 DEF NodeReturns, TypeOK, MutexHeld, WriterState, RunState
<1>2. ASSUME NEW c \in Callers, EnqueueLocked(c) PROVE SInv'
  BY <1>2 DEF EnqueueLocked, TypeOK, MutexHeld, WriterState, RunState
<1>3. ASSUME NEW c \in Callers, Send(c) PROVE SInv'
  <2>1. CommandOf(c) \in Command
    BY <1>3, CommandTyped DEF Send
  <2>2. /\ sent' \in Seq(Command) /\ Len(sent') = Len(sent) + 1
        /\ DOMAIN sent \subseteq DOMAIN sent'
    BY <1>3, <2>1 DEF Send, TypeOK
  <2>3. TypeOK'
    BY <1>3, <2>2 DEF Send, TypeOK
  <2>4. MutexHeld'
    BY <1>3 DEF Send, TypeOK, MutexHeld
  <2>5. WriterState'
    <3>1. ~closed BY <1>3 DEF Send, MutexHeld, TypeOK
    <3>2. ~done BY <3>1 DEF WriterState
    <3> QED BY <1>3, <3>2 DEF Send, WriterState
  <2>6. RunState'
    BY <1>3 DEF Send, RunState, TypeOK
  <2> QED BY <2>3, <2>4, <2>5, <2>6
<1>4. ASSUME NEW c \in Callers, SendCancelled(c) PROVE SInv'
  BY <1>4 DEF SendCancelled, TypeOK, MutexHeld, WriterState, RunState
<1>5. CASE Receive
  <2>1. TypeOK'
    BY <1>5 DEF Receive, TypeOK
  <2>2. WriterState'
    <3>1. ~done BY <1>5 DEF Receive, WriterState, TypeOK
    <3>2. applied' \subseteq 1 .. taken' /\ taken' > 0
      BY <1>5 DEF Receive, WriterState, TypeOK
    <3>3. CASE firstErr
      BY <1>5, <3>1, <3>2, <3>3 DEF Receive, WriterState, TypeOK
    <3>4. CASE ~firstErr
      <4>1. /\ applied' = 1 .. taken /\ taken \in Nat /\ taken' - 1 = taken
            /\ busy' /\ ~firstErr' /\ ~done'
        <5>1. applied = 1 .. taken /\ taken \in Nat
          BY <1>5, <3>4 DEF Receive, WriterState, TypeOK
        <5>2. taken' = taken + 1 /\ applied' = applied /\ busy' = ~firstErr
              /\ firstErr' = firstErr /\ done' = done
          BY <1>5 DEF Receive
        <5>3. busy' /\ ~firstErr' /\ ~done'
          BY <3>1, <3>4, <5>2, Zenon
        <5>4. applied' = 1 .. taken
          BY <5>1, <5>2
        <5>5. taken' - 1 = taken
          BY <5>1, <5>2
        <5> QED BY <5>1, <5>3, <5>4, <5>5
      <4> QED BY <3>2, <4>1 DEF WriterState
    <3> QED BY <3>3, <3>4
  <2> QED BY <1>5, <2>1, <2>2 DEF Receive, MutexHeld, RunState
<1>6. ASSUME NEW fails \in BOOLEAN, NEW reached \in BOOLEAN, Execute(fails, reached)
      PROVE  SInv'
  <2>1. taken \in DOMAIN sent
    BY <1>6 DEF Execute, TypeOK, WriterState
  <2>2. TypeOK'
    BY <1>6, <2>1 DEF Execute, TypeOK
  <2>3. WriterState'
    <3>1. /\ busy /\ ~firstErr /\ ~done /\ taken \in Nat /\ taken > 0
          /\ applied = 1 .. (taken - 1)
          /\ ~busy' /\ ~done' /\ taken' = taken
      BY <1>6 DEF Execute, TypeOK, WriterState
    <3>2. applied' \subseteq 1 .. taken
      BY <1>6, <3>1 DEF Execute
    <3>3. CASE fails
      BY <1>6, <3>1, <3>2, <3>3 DEF Execute, WriterState
    <3>4. CASE ~fails
      <4>1. applied' = (1 .. (taken - 1)) \cup {taken}
        BY <1>6, <3>1, <3>4 DEF Execute
      <4>2. (1 .. (taken - 1)) \cup {taken} = 1 .. taken
        BY <3>1
      <4> QED BY <3>1, <4>1, <4>2 DEF WriterState
    <3> QED BY <3>3, <3>4
  <2> QED BY <1>6, <2>2, <2>3 DEF Execute, MutexHeld, RunState
<1>7. CASE WriterExit
  BY <1>7 DEF WriterExit, TypeOK, MutexHeld, WriterState, RunState
<1>8. CASE StepDone
  <2>1. TypeOK'
    BY <1>8 DEF StepDone, TypeOK
  <2>2. MutexHeld'
    BY <1>8 DEF StepDone, TypeOK, MutexHeld, RunState
  <2>3. WriterState'
    BY <1>8 DEF StepDone, WriterState
  <2>4. RunState'
    BY <1>8 DEF StepDone, RunState, TypeOK
  <2> QED BY <2>1, <2>2, <2>3, <2>4
<1>9. CASE Committed
  <2>1. TypeOK'
    <3>1. pc' \in [Callers -> {"idle", "busy", "enqueue", "send", "ok", "err"}]
      BY <1>9 DEF Committed, TypeOK
    <3>2. cur' \in 1 .. MaxSteps
      BY <1>9 DEF Committed, TypeOK, RunState
    <3>3. /\ run' \in {"step", "commit", "flush", "wait", "returned"}
          /\ runErr' \in BOOLEAN
      BY <1>9 DEF Committed, TypeOK
    <3> QED BY <1>9, <3>1, <3>2, <3>3 DEF Committed, TypeOK
  <2>2. MutexHeld'
    <3>1. mutex = NoOne
      BY <1>9 DEF Committed, TypeOK, MutexHeld, RunState
    <3>2. \A c \in Callers : pc'[c] # "send"
      BY <1>9 DEF Committed, TypeOK, RunState
    <3> QED BY <1>9, <3>1, <3>2 DEF Committed, MutexHeld
  <2>3. WriterState'
    BY <1>9 DEF Committed, WriterState
  <2>4. RunState'
    BY <1>9 DEF Committed, RunState, TypeOK
  <2> QED BY <2>1, <2>2, <2>3, <2>4
<1>10. CASE AbandonStep
  BY <1>10 DEF AbandonStep, TypeOK, MutexHeld, WriterState, RunState
<1>11. CASE Cancel
  BY <1>11 DEF Cancel, TypeOK, MutexHeld, WriterState, RunState
<1>12. CASE FlushClose
  BY <1>12 DEF FlushClose, TypeOK, MutexHeld, WriterState, RunState
<1>13. CASE FlushDone
  BY <1>13 DEF FlushDone, TypeOK, MutexHeld, WriterState, RunState
<1>14. CASE UNCHANGED vars
  BY <1>14 DEF vars, TypeOK, MutexHeld, WriterState, RunState
<1> QED
  BY <1>1, <1>2, <1>3, <1>4, <1>5, <1>6, <1>7, <1>8, <1>9, <1>10, <1>11, <1>12,
     <1>13, <1>14 DEF Next, Writer, Calls

\* The invariant holds in every reachable state.
LEMMA SHolds == Spec => []SInv
BY SInit, SNext, PTL DEF Spec

\* Type correctness of the asynchronous saver, the queue bound included.
THEOREM AsyncTypeCorrect == Spec => []TypeOK
<1>1. SInv => TypeOK BY DEF SInv
<1> QED BY <1>1, SHolds, PTL

\* No call of a goroutine that outlives its super-step can panic the process by
\* sending on the channel Flush closed (enqueue and Flush).
THEOREM NeverSendsOnClosed == Spec => []NoSendOnClosed
<1>1. SInv => NoSendOnClosed
  BY DEF SInv, MutexHeld, NoSendOnClosed, TypeOK
<1> QED BY <1>1, SHolds, PTL

-----------------------------------------------------------------------------
\* Checkpoint cp was queued before position n.
PutBefore(cp, n) ==
    \E j \in DOMAIN sent : j < n /\ sent[j].kind = "put" /\ sent[j].cp = cp

\* Commands are applied without gaps, a failing last one included.
NoGaps == \A i \in applied : \A j \in DOMAIN sent : j < i => j \in applied

\* The checkpoint the super-step works on is queued: before the loop moves to
\* it (Committed), and from then on.
CurrentQueued ==
    /\ cur > 1 => PutBefore(cur, Len(sent) + 1)
    /\ run = "commit" /\ pc[Main] = "ok" => PutBefore(cur + 1, Len(sent) + 1)

\* A result is queued after its checkpoint.
QueuedInOrder ==
    \A i \in DOMAIN sent :
        sent[i].kind = "write" /\ sent[i].cp > 1 => PutBefore(sent[i].cp, i)

OInv == NoGaps /\ CurrentQueued /\ QueuedInOrder

\* What appending a command leaves of the queue.
LEMMA AppendKeeps ==
    ASSUME SInv, NEW c \in Callers, Send(c)
    PROVE  /\ Len(sent') = Len(sent) + 1
           /\ DOMAIN sent' = 1 .. (Len(sent) + 1)
           /\ DOMAIN sent = 1 .. Len(sent)
           /\ Len(sent) \in Nat
           /\ \A i \in DOMAIN sent : sent'[i] = sent[i]
           /\ sent'[Len(sent) + 1] = CommandOf(c)
<1>1. CommandOf(c) \in Command
  BY CommandTyped DEF Send
<1>2. sent \in Seq(Command) /\ sent' = Append(sent, CommandOf(c))
  BY DEF SInv, TypeOK, Send
<1> QED BY <1>1, <1>2

\* Queuing a command keeps the order: the run loop Puts the next checkpoint,
\* a task writes for the current one, which is already in the queue.
LEMMA SendKeepsOrder ==
    ASSUME SInv, OInv, NEW c \in Callers, Send(c)
    PROVE  OInv'
<1> USE AppendKeeps
<1>0. /\ cur \in Nat /\ cur' = cur /\ run' = run /\ applied' = applied
      /\ applied \subseteq DOMAIN sent
      /\ pc' = [pc EXCEPT ![c] = "ok"]
  BY DEF SInv, TypeOK, Send
<1>1. NoGaps'
  BY <1>0 DEF OInv, NoGaps
<1>2. ASSUME NEW cp, PutBefore(cp, Len(sent) + 1) PROVE PutBefore(cp, Len(sent) + 1)'
  <2>1. PICK j \in DOMAIN sent :
           j < Len(sent) + 1 /\ sent[j].kind = "put" /\ sent[j].cp = cp
    BY <1>2 DEF PutBefore
  <2>2. j \in DOMAIN sent' /\ sent'[j] = sent[j] /\ j < Len(sent') + 1
    BY <2>1
  <2> QED BY <2>1, <2>2 DEF PutBefore
<1>3. cur' > 1 => PutBefore(cur, Len(sent) + 1)'
  BY <1>0, <1>2 DEF OInv, CurrentQueued
<1>4. ASSUME run = "commit", pc'[Main] = "ok"
      PROVE  PutBefore(cur + 1, Len(sent) + 1)'
  <2>1. CASE c = Main
    <3>1. /\ Len(sent) + 1 \in DOMAIN sent'
          /\ sent'[Len(sent) + 1] = CommandOf(c)
          /\ Len(sent) + 1 < Len(sent') + 1
      OBVIOUS
    <3>2. CommandOf(c).kind = "put" /\ CommandOf(c).cp = cur + 1
      BY <2>1 DEF CommandOf
    <3> QED BY <1>0, <3>1, <3>2 DEF PutBefore
  <2>2. CASE c # Main
    <3>1. pc[Main] = "ok"
      BY <1>0, <1>4, <2>2 DEF SInv, TypeOK
    <3> QED BY <1>0, <1>2, <1>4, <3>1 DEF OInv, CurrentQueued
  <2> QED BY <2>1, <2>2
<1>5. CurrentQueued'
  BY <1>0, <1>3, <1>4 DEF CurrentQueued
<1>6. ASSUME NEW i \in DOMAIN sent', sent'[i].kind = "write", sent'[i].cp > 1
      PROVE  \E j \in DOMAIN sent' :
                 j < i /\ sent'[j].kind = "put" /\ sent'[j].cp = sent'[i].cp
  <2>1. CASE i \in DOMAIN sent
    <3>1. PICK j \in DOMAIN sent :
             j < i /\ sent[j].kind = "put" /\ sent[j].cp = sent[i].cp
      BY <1>6, <2>1 DEF OInv, QueuedInOrder, PutBefore
    <3> QED BY <2>1, <3>1
  <2>2. CASE i \notin DOMAIN sent
    <3>1. i = Len(sent) + 1
      BY <2>2
    <3>2. c # Main /\ sent'[i].cp = cur
      <4>1. CommandOf(c).kind = "write" /\ sent'[i] = CommandOf(c)
        BY <1>6, <3>1
      <4>2. ASSUME c = Main PROVE CommandOf(c).kind = "put"
        BY <4>2 DEF CommandOf
      <4>3. ASSUME c # Main PROVE CommandOf(c).cp = cur
        BY <4>3 DEF CommandOf
      <4> QED BY <4>1, <4>2, <4>3
    <3>3. PICK j \in DOMAIN sent :
             j < Len(sent) + 1 /\ sent[j].kind = "put" /\ sent[j].cp = cur
      BY <1>6, <3>2 DEF OInv, CurrentQueued, PutBefore
    <3> QED BY <3>1, <3>2, <3>3
  <2> QED BY <2>1, <2>2
<1>7. QueuedInOrder'
  BY <1>6 DEF QueuedInOrder, PutBefore
<1> QED BY <1>1, <1>5, <1>7 DEF OInv

\* Every action keeps the order.
LEMMA ONext == SInv /\ OInv /\ [Next]_vars => OInv'
<1> SUFFICES ASSUME SInv, OInv, [Next]_vars PROVE OInv'
  OBVIOUS
<1> USE DEF OInv
<1>1. ASSUME UNCHANGED <<sent, applied, cur>>,
             run' = "commit" /\ pc'[Main] = "ok" => run = "commit" /\ pc[Main] = "ok"
      PROVE  OInv'
  BY <1>1 DEF NoGaps, CurrentQueued, QueuedInOrder, PutBefore
<1>2. ASSUME NEW t \in Tasks, NodeReturns(t) PROVE OInv'
  <2>1. pc'[Main] = pc[Main]
    BY <1>2 DEF NodeReturns, SInv, TypeOK
  <2> QED BY <1>1, <1>2, <2>1 DEF NodeReturns
<1>3. ASSUME NEW c \in Callers, EnqueueLocked(c) \/ SendCancelled(c) PROVE OInv'
  <2>1. pc'[Main] = "ok" => pc[Main] = "ok"
    BY <1>3 DEF EnqueueLocked, SendCancelled, SInv, TypeOK
  <2> QED BY <1>1, <1>3, <2>1 DEF EnqueueLocked, SendCancelled
<1>4. ASSUME NEW c \in Callers, Send(c) PROVE OInv'
  BY <1>4, SendKeepsOrder
<1>5. CASE Receive
  BY <1>1, <1>5 DEF Receive
<1>6. ASSUME NEW fails \in BOOLEAN, NEW reached \in BOOLEAN, Execute(fails, reached)
      PROVE  OInv'
  <2>1. /\ applied = 1 .. (taken - 1) /\ taken \in DOMAIN sent
        /\ DOMAIN sent = 1 .. Len(sent) /\ Len(sent) \in Nat
    BY <1>6 DEF Execute, SInv, TypeOK, WriterState
  <2>2. applied' = 1 .. (taken - 1) \/ applied' = 1 .. taken
    <3>1. applied' = applied \/ applied' = applied \cup {taken}
      BY <1>6 DEF Execute
    <3>2. (1 .. (taken - 1)) \cup {taken} = 1 .. taken
      BY <2>1
    <3> QED BY <2>1, <3>1, <3>2
  <2>3. NoGaps'
    BY <1>6, <2>1, <2>2 DEF Execute, NoGaps
  <2>4. UNCHANGED <<sent, cur, run, pc>>
    BY <1>6 DEF Execute
  <2> QED BY <2>3, <2>4 DEF CurrentQueued, QueuedInOrder, PutBefore
<1>7. CASE WriterExit
  BY <1>1, <1>7 DEF WriterExit
<1>8. CASE StepDone
  <2>1. run' = "commit" => pc'[Main] = "enqueue"
    BY <1>8 DEF StepDone, SInv, TypeOK
  <2> QED BY <1>1, <1>8, <2>1 DEF StepDone
<1>9. CASE Committed
  <2>1. UNCHANGED <<sent, applied>> /\ run' # "commit" /\ cur \in Nat
    BY <1>9 DEF Committed, SInv, TypeOK
  <2>2. cur' > 1 => PutBefore(cur', Len(sent) + 1)
    BY <1>9, <2>1 DEF Committed, CurrentQueued
  <2> QED BY <2>1, <2>2 DEF NoGaps, CurrentQueued, QueuedInOrder, PutBefore
<1>10. CASE AbandonStep
  BY <1>1, <1>10 DEF AbandonStep
<1>11. CASE Cancel
  BY <1>1, <1>11 DEF Cancel
<1>12. CASE FlushClose
  BY <1>1, <1>12 DEF FlushClose
<1>13. CASE FlushDone
  BY <1>1, <1>13 DEF FlushDone
<1>14. CASE UNCHANGED vars
  BY <1>1, <1>14 DEF vars
<1> QED
  BY <1>2, <1>3, <1>4, <1>5, <1>6, <1>7, <1>8, <1>9, <1>10, <1>11, <1>12, <1>13,
     <1>14 DEF Next, Writer, Calls

\* A result reaches the base saver only after the checkpoint it belongs to, also
\* when a failing call was stored, a goroutine outlives its super-step or the
\* queue is full: an inversion would make the base saver refuse the write
\* (asyncQueueSaver.PutWrites).
THEOREM WritesAfterCheckpoints == Spec => []WritesFindTheirCheckpoint
<1>1. Init => OInv
  BY DEF Init, OInv, NoGaps, CurrentQueued, QueuedInOrder
<1>2. SInv /\ OInv => WritesFindTheirCheckpoint
  <2> SUFFICES ASSUME SInv, OInv, NEW i \in applied,
                      sent[i].kind = "write" /\ sent[i].cp > 1
               PROVE  \E j \in applied :
                        j < i /\ sent[j].kind = "put" /\ sent[j].cp = sent[i].cp
    BY DEF WritesFindTheirCheckpoint
  <2>1. i \in DOMAIN sent
    BY DEF SInv, TypeOK
  <2>2. PICK j \in DOMAIN sent :
           j < i /\ sent[j].kind = "put" /\ sent[j].cp = sent[i].cp
    BY <2>1 DEF OInv, QueuedInOrder, PutBefore
  <2> QED BY <2>2 DEF OInv, NoGaps
<1> QED BY <1>1, <1>2, ONext, SHolds, PTL DEF Spec

-----------------------------------------------------------------------------
\* The run's result as the log sees it.
Result == IF run # "returned" THEN "open" ELSE IF runErr THEN "error" ELSE "ok"

\* Every step of the saver is a step of the log or leaves it alone.
LEMMA Simulation ==
    ASSUME SInv, [Next]_vars
    PROVE  [Log!Next]_<<sent, applied, Result>>
<1> USE DEF SInv
<1> DEFINE Quiet == UNCHANGED <<sent, applied, Result>>
<1>1. ASSUME NEW t \in Tasks, NodeReturns(t) PROVE Quiet
  BY <1>1 DEF NodeReturns, Result
<1>2. ASSUME NEW c \in Callers, EnqueueLocked(c) PROVE Quiet
  BY <1>2 DEF EnqueueLocked, Result
<1>3. ASSUME NEW c \in Callers, Send(c) PROVE Log!Next
  <2>1. CommandOf(c) \in Command
    BY <1>3, CommandTyped DEF Send
  <2>2. run # "returned"
    BY <1>3 DEF Send, MutexHeld, RunState, TypeOK
  <2>3. Log!Accept(CommandOf(c))
    BY <1>3, <2>2 DEF Send, Log!Accept
  <2> QED BY <2>1, <2>3 DEF Log!Next
<1>4. ASSUME NEW c \in Callers, SendCancelled(c) PROVE Quiet
  BY <1>4 DEF SendCancelled, Result
<1>5. CASE Receive
  BY <1>5 DEF Receive, Result
<1>6. ASSUME NEW fails \in BOOLEAN, NEW reached \in BOOLEAN, Execute(fails, reached)
      PROVE  Quiet \/ Log!Next
  <2>1. CASE ~reached
    BY <1>6, <2>1 DEF Execute, Result
  <2>2. CASE reached
    <3>1. /\ taken \in DOMAIN sent
          /\ applied = 1 .. (taken - 1)
          /\ run # "returned"
      BY <1>6 DEF Execute, TypeOK, WriterState, RunState
    <3>2. taken \notin applied
      BY <3>1 DEF TypeOK
    <3>3. Log!Persist(taken)
      BY <1>6, <2>2, <3>1, <3>2 DEF Execute, Log!Persist
    <3> QED BY <3>1, <3>3 DEF Log!Next
  <2> QED BY <2>1, <2>2
<1>7. CASE WriterExit
  BY <1>7 DEF WriterExit, Result
<1>8. CASE StepDone
  BY <1>8 DEF StepDone, Result
<1>9. CASE Committed
  BY <1>9 DEF Committed, Result
<1>10. CASE AbandonStep
  BY <1>10 DEF AbandonStep, Result
<1>11. CASE Cancel
  BY <1>11 DEF Cancel, Result
<1>12. CASE FlushClose
  BY <1>12 DEF FlushClose, Result
<1>13. CASE FlushDone
  <2>1. ~runErr' => applied = DOMAIN sent
    BY <1>13 DEF FlushDone, WriterState, TypeOK
  <2>2. Log!Return(Result')
    BY <1>13, <2>1 DEF FlushDone, Log!Return, Result
  <2>3. Result' \in {"ok", "error"}
    BY <1>13 DEF FlushDone, Result
  <2> QED BY <2>2, <2>3 DEF Log!Next
<1>14. CASE UNCHANGED vars
  BY <1>14 DEF vars, Result
<1> QED
  BY <1>1, <1>2, <1>3, <1>4, <1>5, <1>6, <1>7, <1>8, <1>9, <1>10, <1>11, <1>12,
     <1>13, <1>14 DEF Next, Writer, Calls

\* DurabilityAsync keeps its promise: saver calls are persisted in the order
\* they were queued, a run that returns nil has all of them stored, and nothing
\* is stored after it has returned, for any number of goroutines and any
\* failure of the base saver (asyncQueueSaver).
THEOREM AsyncImplementsLog == Spec => ImplementsOrderedLog
<1>1. Init => Log!Init
  BY DEF Init, Log!Init
<1>2. SInv /\ [Next]_vars => [Log!Next]_<<sent, applied, Result>>
  BY Simulation
<1> QED
  BY <1>1, <1>2, SHolds, PTL DEF Spec, ImplementsOrderedLog, Log!Spec, Result

HIDE SaverAssumption DEF Callers

-----------------------------------------------------------------------------
(***************************************************************************)
(* EventLog: from the stream to the client that follows it.                *)
(***************************************************************************)
\* The events of a stream, and what the server writes to a connection.
StreamEvent == [gen: Nat \ {0}, seq: Nat \ {0}, key: EventKeys, data: Payloads \cup {0}]
Comments == {CompleteComment, ErrorEvent("not_found")}

EventTypeOK ==
    /\ logKind \in {"memory", "postgres", "invoke"}
    /\ log \in Seq(StreamEvent) /\ stream \in Nat \ {0} /\ raced \in BOOLEAN
    /\ bindings \in [EventKeys -> [seq: Nat, data: Payloads \cup {0}]]
    /\ worker \in [Workers -> [next: Nat \ {0}, repeats: Nat]]
    /\ tail \in [at: {"off", "batch", "rows", "wait", "check", "send", "closed", "failed"},
                 after: [gen: Nat, seq: Nat], events: Seq(StreamEvent), watched: BOOLEAN]
    /\ output \in Seq(StreamEvent) /\ Len(output) <= 1
    /\ wire \in Seq(StreamEvent \cup Comments)
    /\ client \in [at: {"idle", "reading", "complete", "failed"},
                   last: [gen: Nat, seq: Nat], attempt: Nat]
    /\ delivered \in Seq(StreamEvent)

\* The stream: positions are sequence numbers, a key has one event, and nothing
\* follows the terminal one.
LogNumbered ==
    /\ \A i \in DOMAIN log : log[i].gen = stream /\ log[i].seq = i /\ Repeated(log[i].key)
    /\ \A i, j \in DOMAIN log : log[i].key = log[j].key => i = j
    /\ logKind # "postgres" => stream = 1
    /\ logKind = "invoke" => log = <<>>

\* What has left the stream: for the client, on its way, or read by the tail.
InSeq(s) == {s[i] : i \in DOMAIN s}
Taken == InSeq(delivered) \cup (InSeq(wire) \ Comments) \cup InSeq(output) \cup InSeq(tail.events)

\* Later events are of no earlier generation, and of the same one unless a List was
\* raced by a prune; a key has one sequence number in a generation, and what was taken
\* is still in the stream unless that was pruned.
OneGeneration ==
    \A e, f \in Taken :
       /\ e.seq <= f.seq => e.gen <= f.gen
       /\ e.gen = f.gen /\ e.key = f.key => e.seq = f.seq
       /\ raced \/ e.gen = f.gen
StillStored ==
    \A e \in Taken :
       /\ e.gen <= stream
       /\ logKind = "invoke" => e.gen = 1 /\ e.key = e.seq
       /\ logKind # "invoke" /\ e.gen = stream => e.seq <= Len(log) /\ log[e.seq] = e

\* Comments end a response, when the tail is gone.
CommentsLast ==
    \A i \in DOMAIN wire :
       wire[i] \in Comments => i = Len(wire) /\ output = <<>> /\ tail.at = "off"

\* Sequence numbers run on from what was delivered to the wire, the channel and the
\* batch of the tail.
Numbered ==
    /\ \A i \in DOMAIN delivered : delivered[i].seq = i
    /\ \A i \in DOMAIN wire : wire[i] \notin Comments => wire[i].seq = Len(delivered) + i
    /\ \A i \in DOMAIN output : output[i].seq = Len(delivered) + Len(wire) + 1
    /\ \A i \in DOMAIN tail.events : tail.events[i].seq = tail.after.seq + i

\* The cursors: the client's is what it delivered, the tail's what it has sent; a
\* stream that runs again may still be behind the client.
Forwarded == Len(delivered) + Len(wire) + Len(output)
Behind == logKind = "invoke" /\ tail.after.seq <= Len(delivered) /\ wire = <<>> /\ output = <<>>
Cursors ==
    /\ client.last.seq = Len(delivered)
    /\ client.last.gen = 0 <=> delivered = <<>>
    /\ delivered # <<>> => client.last = Cursor(delivered[Len(delivered)])
    /\ tail.at # "off" =>
          /\ tail.after.seq = Forwarded \/ Behind
          /\ tail.after.gen = 0 <=> tail.after.seq = 0
          /\ \A e \in Taken :
                tail.after.seq # 0 /\ (raced => e.seq = tail.after.seq) => tail.after.gen = e.gen
    /\ tail.at = "rows" => raced \/ tail.after.seq = 0 \/ tail.after.gen = stream

\* Who is there: a tail serves a reading client.
Connected ==
    /\ client.at # "reading" => wire = <<>> /\ output = <<>> /\ tail.at = "off"
    /\ tail.at = "off" => output = <<>>
    /\ tail.at = "send" => tail.events # <<>>
    /\ tail.at \in {"batch", "rows", "wait", "check"} => tail.events = <<>>
    /\ tail.at \in {"rows", "wait", "check", "send", "failed"} => logKind # "invoke"
    /\ tail.at \in {"rows", "check", "failed"} => logKind = "postgres"

\* What was sent last.
LastSent ==
    IF output # <<>> THEN output[1]
    ELSE IF wire # <<>> THEN wire[Len(wire)] ELSE delivered[Len(delivered)]

\* The stream is closed, and the response completed, after the terminal event.
EndsTerminal ==
    /\ tail.at = "closed" => Forwarded > 0 /\ Terminal(LastSent)
    /\ \A i \in DOMAIN wire : wire[i] = CompleteComment =>
          \/ i > 1 /\ Terminal(wire[i - 1])
          \/ i = 1 /\ delivered # <<>> /\ Terminal(delivered[Len(delivered)])
    /\ client.at = "complete" => delivered # <<>> /\ Terminal(delivered[Len(delivered)])

EventInv ==
    /\ EventTypeOK /\ LogNumbered /\ OneGeneration /\ StillStored /\ CommentsLast
    /\ Numbered /\ Cursors /\ Connected /\ EndsTerminal

USE EventAssumption

-----------------------------------------------------------------------------
(***************************************************************************)
(* Sequences.                                                              *)
(***************************************************************************)
\* The empty sequence is the one of length 0.
LEMMA EmptyLen == ASSUME NEW S, NEW s \in Seq(S) PROVE (s = <<>> <=> Len(s) = 0) /\ Len(s) \in Nat
OBVIOUS

\* A channel of capacity 1 is empty or full.
LEMMA ZeroOrOne == ASSUME NEW n \in Nat, n <= 1 PROVE n \in 0 .. 1 /\ (n # 0 => n = 1)
OBVIOUS

\* What is left when the head of a sequence is taken.
LEMMA TailOf ==
    ASSUME NEW S, NEW s \in Seq(S), s # <<>>
    PROVE  /\ Tail(s) \in Seq(S) /\ Len(Tail(s)) = Len(s) - 1 /\ Len(s) \in Nat \ {0}
           /\ DOMAIN Tail(s) = 1 .. Len(s) - 1
           /\ \A i \in 1 .. Len(s) - 1 : Tail(s)[i] = s[i + 1]
           /\ InSeq(Tail(s)) \subseteq InSeq(s)
           /\ Head(s) = s[1] /\ s[1] \in InSeq(s) /\ s[1] \in S
<1>1. Len(s) \in Nat \ {0} /\ DOMAIN s = 1 .. Len(s) /\ 1 \in DOMAIN s /\ Head(s) = s[1]
  OBVIOUS
<1>2. /\ Tail(s) \in Seq(S) /\ Len(Tail(s)) = Len(s) - 1 /\ DOMAIN Tail(s) = 1 .. Len(s) - 1
      /\ \A i \in 1 .. Len(s) - 1 : Tail(s)[i] = s[i + 1]
  BY <1>1
<1>3. InSeq(Tail(s)) \subseteq InSeq(s)
  BY <1>1, <1>2 DEF InSeq
<1> QED
  BY <1>1, <1>2, <1>3 DEF InSeq

\* A sequence with one more element.
LEMMA AppendTo ==
    ASSUME NEW S, NEW s \in Seq(S), NEW e \in S
    PROVE  /\ Append(s, e) \in Seq(S) /\ Len(Append(s, e)) = Len(s) + 1 /\ Len(s) \in Nat
           /\ DOMAIN Append(s, e) = 1 .. Len(s) + 1 /\ DOMAIN s = 1 .. Len(s)
           /\ \A i \in 1 .. Len(s) : Append(s, e)[i] = s[i]
           /\ Append(s, e)[Len(s) + 1] = e
           /\ InSeq(Append(s, e)) = InSeq(s) \cup {e}
           /\ Append(s, e) # <<>>
<1>1. /\ Append(s, e) \in Seq(S) /\ Len(Append(s, e)) = Len(s) + 1 /\ Len(s) \in Nat
      /\ DOMAIN Append(s, e) = 1 .. Len(s) + 1 /\ DOMAIN s = 1 .. Len(s)
      /\ \A i \in 1 .. Len(s) : Append(s, e)[i] = s[i]
      /\ Append(s, e)[Len(s) + 1] = e
  OBVIOUS
<1>2. InSeq(Append(s, e)) \subseteq InSeq(s) \cup {e}
  BY <1>1 DEF InSeq
<1>3. InSeq(s) \cup {e} \subseteq InSeq(Append(s, e))
  BY <1>1 DEF InSeq
<1>4. Append(s, e) # <<>>
  BY <1>1
<1> QED
  BY <1>1, <1>2, <1>3, <1>4

\* The two comments are apart from each other and from every event.
LEMMA CommentsApart ==
    /\ CompleteComment # ErrorEvent("not_found")
    /\ StreamEvent \cap Comments = {}
<1>1. CompleteComment # ErrorEvent("not_found")
  <2>1. DOMAIN CompleteComment = {"key"}
    BY DEF CompleteComment
  <2>2. "error" \in DOMAIN ErrorEvent("not_found")
    BY DEF ErrorEvent
  <2> QED
    BY <2>1, <2>2
<1>2. ASSUME NEW e \in StreamEvent PROVE e \notin Comments
  <2>1. e.key # 0
    BY DEF StreamEvent, EventKeys
  <2>2. CompleteComment.key = 0 /\ ErrorEvent("not_found").key = 0
    BY DEF CompleteComment, ErrorEvent
  <2> QED
    BY <2>1, <2>2 DEF Comments
<1> QED
  BY <1>1, <1>2

-----------------------------------------------------------------------------
(***************************************************************************)
(* The initial state, and what a step that takes nothing new keeps.        *)
(***************************************************************************)
LEMMA EventStart == EventInit => EventInv
<1> SUFFICES ASSUME EventInit PROVE EventInv
  OBVIOUS
<1>1. log = <<>> /\ output = <<>> /\ wire = <<>> /\ delivered = <<>> /\ tail.events = <<>>
      /\ tail.at = "off" /\ client.at = "idle"
  BY DEF EventInit, NoTail
<1>2. EventTypeOK
  <2>1. NoTail \in [at: {"off", "batch", "rows", "wait", "check", "send", "closed", "failed"},
                    after: [gen: Nat, seq: Nat], events: Seq(StreamEvent), watched: BOOLEAN]
    BY DEF NoTail, NoCursor
  <2>2. bindings \in [EventKeys -> [seq: Nat, data: Payloads \cup {0}]]
    BY DEF EventInit, Unbound
  <2> QED
    <3>1. client \in [at: {"idle", "reading", "complete", "failed"}, last: [gen: Nat, seq: Nat], attempt: Nat]
      BY DEF EventInit, NoCursor
    <3>2. /\ log \in Seq(StreamEvent) /\ output \in Seq(StreamEvent) /\ Len(output) <= 1
          /\ wire \in Seq(StreamEvent \cup Comments) /\ delivered \in Seq(StreamEvent)
      BY <1>1
    <3>3. worker \in [Workers -> [next: Nat \ {0}, repeats: Nat]] /\ stream \in Nat \ {0}
      BY DEF EventInit
    <3>4. logKind \in {"memory", "postgres", "invoke"} /\ raced \in BOOLEAN /\ tail = NoTail
      BY DEF EventInit
    <3> QED
      BY <2>1, <2>2, <3>1, <3>2, <3>3, <3>4 DEF EventTypeOK
<1>3. Taken = {}
  BY <1>1 DEF Taken, InSeq
<1> QED
  BY <1>1, <1>2, <1>3 DEF EventInit, EventInv, LogNumbered, OneGeneration, StillStored, CommentsLast,
     Numbered, Cursors, Connected, EndsTerminal, NoCursor

\* What was taken is events.
LEMMA TakenEvents == EventTypeOK => Taken \subseteq StreamEvent
<1> SUFFICES ASSUME EventTypeOK PROVE Taken \subseteq StreamEvent
  OBVIOUS
<1>1. InSeq(delivered) \subseteq StreamEvent /\ InSeq(output) \subseteq StreamEvent
      /\ InSeq(tail.events) \subseteq StreamEvent
  BY DEF EventTypeOK, InSeq
<1>2. InSeq(wire) \subseteq StreamEvent \cup Comments
  BY DEF EventTypeOK, InSeq
<1> QED
  BY <1>1, <1>2 DEF Taken

\* A step that takes nothing from the stream, and does not change that.
LEMMA TakenKept ==
    ASSUME EventInv, Taken' \subseteq Taken, UNCHANGED <<logKind, log, stream, raced>>
    PROVE  OneGeneration' /\ StillStored'
BY DEF EventInv, OneGeneration, StillStored

\* A step that leaves the response alone.
LEMMA ResponseKept ==
    ASSUME EventInv,
           raced => raced',
           tail.at = "rows" => raced' \/ tail.after.seq = 0 \/ tail.after.gen = stream',
           UNCHANGED <<logKind, tail.at, tail.after, tail.events, output, wire, client, delivered>>
    PROVE  /\ Taken' = Taken
           /\ OneGeneration' /\ CommentsLast' /\ Numbered' /\ Cursors' /\ Connected' /\ EndsTerminal'
<1>1. Taken' = Taken
  BY DEF Taken, InSeq
<1>2. OneGeneration' /\ CommentsLast'
  BY <1>1 DEF EventInv, OneGeneration, CommentsLast
<1>3. Numbered' /\ Cursors'
  BY <1>1 DEF EventInv, Numbered, Cursors, Forwarded, Behind
<1>4. Connected' /\ EndsTerminal'
  BY DEF EventInv, Connected, EndsTerminal, Forwarded, LastSent, Terminal
<1> QED
  BY <1>1, <1>2, <1>3, <1>4

-----------------------------------------------------------------------------
(***************************************************************************)
(* Append and Prune.                                                       *)
(***************************************************************************)
\* An append numbers its event after the others, or changes nothing.
LEMMA AddNumbers ==
    ASSUME EventInv, NEW k \in EventKeys, NEW d \in Payloads, Add(k, d),
           logKind # "invoke", UNCHANGED <<logKind, stream>>
    PROVE  /\ LogNumbered' /\ log' \in Seq(StreamEvent)
           /\ bindings' \in [EventKeys -> [seq: Nat, data: Payloads \cup {0}]]
           /\ Len(log) <= Len(log') /\ \A i \in DOMAIN log : log'[i] = log[i]
<1>1. CASE Repeated(k) \/ StreamClosed
  BY <1>1 DEF Add, EventInv, EventTypeOK, LogNumbered, Repeated
<1>2. CASE ~(Repeated(k) \/ StreamClosed)
  <2> DEFINE e == [gen |-> stream, seq |-> Len(log) + 1, key |-> k, data |-> d]
             b == [seq |-> Len(log) + 1, data |-> d]
  <2>1. log' = Append(log, e) /\ bindings' = [bindings EXCEPT ![k] = b]
    BY <1>2 DEF Add
  <2>2. log \in Seq(StreamEvent) /\ Len(log) \in Nat /\ stream \in Nat \ {0}
    BY DEF EventInv, EventTypeOK
  <2>3. e \in StreamEvent /\ b \in [seq: Nat, data: Payloads \cup {0}] /\ b # Unbound
    BY <2>2 DEF StreamEvent, Unbound
  <2>4. /\ log' \in Seq(StreamEvent) /\ Len(log') = Len(log) + 1 /\ DOMAIN log' = 1 .. Len(log) + 1
        /\ DOMAIN log = 1 .. Len(log) /\ \A i \in DOMAIN log : log'[i] = log[i]
        /\ log'[Len(log) + 1] = e
    BY <2>1, <2>2, <2>3, AppendTo
  <2>5. /\ bindings' \in [EventKeys -> [seq: Nat, data: Payloads \cup {0}]]
        /\ bindings'[k] = b /\ \A l \in EventKeys \ {k} : bindings'[l] = bindings[l]
    BY <2>1, <2>3 DEF EventInv, EventTypeOK
  <2>6. \A i \in DOMAIN log : log[i] \in StreamEvent /\ log[i].key \in EventKeys /\ log[i].key # k
    <3>1. \A i \in DOMAIN log : log[i] \in StreamEvent /\ Repeated(log[i].key)
      BY <2>2 DEF EventInv, LogNumbered
    <3> QED
      BY <3>1, <1>2 DEF StreamEvent, Repeated
  <2>7. \A i \in DOMAIN log' : log'[i].gen = stream /\ log'[i].seq = i
          /\ bindings'[log'[i].key] # Unbound
    <3> SUFFICES ASSUME NEW i \in DOMAIN log'
                 PROVE  log'[i].gen = stream /\ log'[i].seq = i /\ bindings'[log'[i].key] # Unbound
      OBVIOUS
    <3>1. CASE i = Len(log) + 1
      BY <3>1, <2>3, <2>4, <2>5
    <3>2. CASE i \in DOMAIN log
      BY <3>2, <2>4, <2>5, <2>6 DEF EventInv, LogNumbered, Repeated
    <3> QED
      BY <3>1, <3>2, <2>2, <2>4
  <2>8. \A i, j \in DOMAIN log' : log'[i].key = log'[j].key => i = j
    <3> SUFFICES ASSUME NEW i \in DOMAIN log', NEW j \in DOMAIN log', log'[i].key = log'[j].key
                 PROVE  i = j
      OBVIOUS
    <3>1. CASE i \in DOMAIN log /\ j \in DOMAIN log
      BY <3>1, <2>4 DEF EventInv, LogNumbered
    <3>2. CASE i = Len(log) + 1 \/ j = Len(log) + 1
      BY <3>2, <2>2, <2>4, <2>6
    <3> QED
      BY <3>1, <3>2, <2>2, <2>4
  <2>9. Len(log) <= Len(log')
    BY <2>2, <2>4
  <2>10. logKind' # "postgres" => stream' = 1
    BY DEF EventInv, LogNumbered
  <2> QED
    BY <2>4, <2>5, <2>7, <2>8, <2>9, <2>10 DEF LogNumbered, Repeated
<1> QED
  BY <1>1, <1>2

\* Append of the memory and the PostgreSQL log: a new key adds one event, a known one adds
\* none.
LEMMA EventAppendKeeps ==
    ASSUME EventInv, NEW w \in Workers, NEW d \in Payloads, MemoryAppend(w, d) \/ PostgresAppend(w, d)
    PROVE  EventInv'
<1> DEFINE k == worker[w].next
<1>1. /\ k \in EventKeys /\ Add(k, d) /\ logKind # "invoke" /\ Advance(w)
      /\ UNCHANGED <<logKind, stream, raced, output, wire, client, delivered>>
  <2>1. k \in Nat \ {0} /\ k <= Events
    BY DEF EventInv, EventTypeOK, MemoryAppend, PostgresAppend
  <2>2. k \in EventKeys
    BY <2>1 DEF EventKeys
  <2> QED
    BY <2>2 DEF MemoryAppend, PostgresAppend
<1>2. /\ tail' \in [at: {"off", "batch", "rows", "wait", "check", "send", "closed", "failed"},
                    after: [gen: Nat, seq: Nat], events: Seq(StreamEvent), watched: BOOLEAN]
      /\ UNCHANGED <<tail.at, tail.after, tail.events>>
  <2>1. CASE tail' = tail
    BY <2>1 DEF EventInv, EventTypeOK
  <2>2. CASE tail' = [tail EXCEPT !.watched = tail.watched /\ log' = log]
    BY <2>2 DEF EventInv, EventTypeOK
  <2> QED
    BY <2>1, <2>2 DEF MemoryAppend, PostgresAppend
<1>3. /\ LogNumbered' /\ log' \in Seq(StreamEvent)
      /\ bindings' \in [EventKeys -> [seq: Nat, data: Payloads \cup {0}]]
      /\ Len(log) <= Len(log') /\ \A i \in DOMAIN log : log'[i] = log[i]
  BY <1>1, AddNumbers
<1>4. worker' \in [Workers -> [next: Nat \ {0}, repeats: Nat]]
  <2>1. worker \in [Workers -> [next: Nat \ {0}, repeats: Nat]]
    BY DEF EventInv, EventTypeOK
  <2>2. CASE worker' = [worker EXCEPT ![w].next = @ + 1]
    BY <2>1, <2>2
  <2>3. CASE worker' = [worker EXCEPT ![w].repeats = @ + 1]
    BY <2>1, <2>3
  <2> QED
    BY <2>2, <2>3, <1>1 DEF Advance
<1>5. EventTypeOK'
  BY <1>1, <1>2, <1>3, <1>4 DEF EventInv, EventTypeOK
<1>6. /\ Taken' = Taken
      /\ OneGeneration' /\ CommentsLast' /\ Numbered' /\ Cursors' /\ Connected' /\ EndsTerminal'
  <2>1. /\ raced \in BOOLEAN /\ raced' = raced /\ stream' = stream
        /\ tail.at = "rows" => raced \/ tail.after.seq = 0 \/ tail.after.gen = stream
    BY <1>1 DEF EventInv, EventTypeOK, Cursors
  <2> QED
    BY <1>1, <1>2, <2>1, ResponseKept
<1>7. StillStored'
  <2> SUFFICES ASSUME NEW e \in Taken
               PROVE  /\ e.gen <= stream
                      /\ logKind # "invoke" /\ e.gen = stream => e.seq <= Len(log') /\ log'[e.seq] = e
    BY <1>1, <1>6 DEF StillStored
  <2>1. /\ e.gen <= stream
        /\ e.gen = stream => e.seq <= Len(log) /\ log[e.seq] = e
    BY <1>1 DEF EventInv, StillStored
  <2>2. e \in StreamEvent
    BY TakenEvents DEF EventInv
  <2>3. e.seq \in Nat \ {0} /\ Len(log) \in Nat /\ Len(log') \in Nat /\ DOMAIN log = 1 .. Len(log)
    <3>1. e.seq \in Nat \ {0}
      BY <2>2 DEF StreamEvent
    <3>2. log \in Seq(StreamEvent)
      BY DEF EventInv, EventTypeOK
    <3> QED
      BY <3>1, <3>2, <1>3
  <2> QED
    BY <2>1, <2>3, <1>3
<1> QED
  BY <1>3, <1>5, <1>6, <1>7 DEF EventInv

\* Prune deletes a stream that has ended: what its readers took is of an older generation.
LEMMA PruneKeeps == ASSUME EventInv, Prune PROVE EventInv'
<1>1. EventTypeOK'
  BY DEF Prune, EventInv, EventTypeOK, Unbound
<1>2. LogNumbered'
  BY DEF Prune, LogNumbered
<1>3. /\ Taken' = Taken
      /\ OneGeneration' /\ CommentsLast' /\ Numbered' /\ Cursors' /\ Connected' /\ EndsTerminal'
  <2>1. UNCHANGED <<logKind, tail.at, tail.after, tail.events, output, wire, client, delivered>>
    BY DEF Prune
  <2>2. (raced => raced') /\ (tail.at = "rows" /\ tail.after # NoCursor => raced')
    BY Zenon DEF Prune
  <2>3. tail.after = NoCursor => tail.after.seq = 0
    BY DEF NoCursor
  <2> QED
    BY <2>1, <2>2, <2>3, ResponseKept
<1>4. StillStored'
  <2> SUFFICES ASSUME NEW e \in Taken PROVE e.gen <= stream' /\ e.gen # stream' /\ logKind' # "invoke"
    BY <1>3 DEF StillStored
  <2>1. e.gen \in Nat /\ stream \in Nat /\ e.gen <= stream
    BY TakenEvents DEF EventInv, EventTypeOK, StillStored, StreamEvent
  <2> QED
    BY <2>1 DEF Prune
<1> QED
  BY <1>1, <1>2, <1>3, <1>4 DEF EventInv

-----------------------------------------------------------------------------
(***************************************************************************)
(* Tail.                                                                   *)
(***************************************************************************)
TailStates == [at: {"off", "batch", "rows", "wait", "check", "send", "closed", "failed"},
               after: [gen: Nat, seq: Nat], events: Seq(StreamEvent), watched: BOOLEAN]

\* The last event sent is one of those taken, and its number is how many were sent.
LEMMA LastSentTaken ==
    ASSUME EventInv, tail.at # "off"
    PROVE  /\ Forwarded \in Nat /\ Len(delivered) \in Nat /\ Len(wire) \in Nat /\ Len(output) \in 0 .. 1
           /\ Forwarded > 0 => LastSent \in Taken /\ LastSent.seq = Forwarded
<1>1. /\ Len(delivered) \in Nat /\ Len(wire) \in Nat /\ Len(output) \in 0 .. 1
      /\ DOMAIN delivered = 1 .. Len(delivered) /\ DOMAIN wire = 1 .. Len(wire)
      /\ DOMAIN output = 1 .. Len(output)
      /\ (output = <<>> <=> Len(output) = 0) /\ (wire = <<>> <=> Len(wire) = 0)
  <2>0. Len(output) <= 1
    BY DEF EventInv, EventTypeOK
  <2>1. /\ delivered \in Seq(StreamEvent) /\ wire \in Seq(StreamEvent \cup Comments)
        /\ output \in Seq(StreamEvent)
    BY DEF EventInv, EventTypeOK
  <2>2. Len(delivered) \in Nat /\ DOMAIN delivered = 1 .. Len(delivered)
    BY <2>1
  <2>3. Len(wire) \in Nat /\ DOMAIN wire = 1 .. Len(wire) /\ (wire = <<>> <=> Len(wire) = 0)
    BY <2>1, EmptyLen
  <2>4. Len(output) \in 0 .. 1 /\ DOMAIN output = 1 .. Len(output) /\ (output = <<>> <=> Len(output) = 0)
    <3>1. (output = <<>> <=> Len(output) = 0) /\ Len(output) \in Nat
      BY <2>1, EmptyLen
    <3>2. Len(output) \in 0 .. 1
      BY <3>1, <2>0, ZeroOrOne
    <3>3. DOMAIN output = 1 .. Len(output)
      BY <2>1
    <3> QED
      BY <3>1, <3>2, <3>3
  <2> QED
    BY <2>2, <2>3, <2>4
<1>2. Forwarded \in Nat
  BY <1>1 DEF Forwarded
<1>3. ASSUME Forwarded > 0 PROVE LastSent \in Taken /\ LastSent.seq = Forwarded
  <2>1. CASE output # <<>>
    <3>1. Len(output) = 1 /\ 1 \in DOMAIN output /\ LastSent = output[1]
      BY <1>1, <2>1 DEF LastSent
    <3>2. output[1] \in Taken
      BY <3>1 DEF Taken, InSeq
    <3>3. output[1].seq = Forwarded
      BY <1>1, <3>1 DEF EventInv, Numbered, Forwarded
    <3> QED
      BY <3>1, <3>2, <3>3
  <2>2. CASE output = <<>> /\ wire # <<>>
    <3>1. Len(wire) \in DOMAIN wire /\ LastSent = wire[Len(wire)] /\ Len(output) = 0
      BY <1>1, <2>2 DEF LastSent
    <3>2. wire[Len(wire)] \notin Comments
      BY <3>1 DEF EventInv, CommentsLast
    <3>3. wire[Len(wire)] \in Taken
      BY <3>1, <3>2 DEF Taken, InSeq
    <3>4. wire[Len(wire)].seq = Forwarded
      BY <1>1, <3>1, <3>2 DEF EventInv, Numbered, Forwarded
    <3> QED
      BY <3>1, <3>3, <3>4
  <2>3. CASE output = <<>> /\ wire = <<>>
    <3>1. /\ Len(output) = 0 /\ Len(wire) = 0 /\ Len(delivered) \in DOMAIN delivered
          /\ LastSent = delivered[Len(delivered)]
      BY <1>1, <1>3, <2>3 DEF LastSent, Forwarded
    <3>2. delivered[Len(delivered)] \in Taken
      BY <3>1 DEF Taken, InSeq
    <3>3. delivered[Len(delivered)].seq = Forwarded
      BY <1>1, <3>1 DEF EventInv, Numbered, Forwarded
    <3> QED
      BY <3>1, <3>2, <3>3
  <2> QED
    BY <2>1, <2>2, <2>3
<1> QED
  BY <1>1, <1>2, <1>3

\* Without a batch, what was taken was sent: its numbers are up to that of the last.
LEMMA TakenBefore ==
    ASSUME EventInv, tail.at # "off", tail.events = <<>>
    PROVE  \A e \in Taken : e.seq <= Forwarded
<1>1. /\ Forwarded \in Nat /\ Len(delivered) \in Nat /\ Len(wire) \in Nat /\ Len(output) \in 0 .. 1
      /\ Forwarded = Len(delivered) + Len(wire) + Len(output)
  BY LastSentTaken DEF Forwarded
<1>2. /\ DOMAIN delivered = 1 .. Len(delivered) /\ DOMAIN wire = 1 .. Len(wire)
      /\ DOMAIN output = 1 .. Len(output) /\ InSeq(tail.events) = {}
  BY DEF EventInv, EventTypeOK, InSeq
<1>3. ASSUME NEW i \in DOMAIN delivered PROVE delivered[i].seq <= Forwarded
  BY <1>1, <1>2 DEF EventInv, Numbered
<1>4. ASSUME NEW i \in DOMAIN wire, wire[i] \notin Comments PROVE wire[i].seq <= Forwarded
  <2>1. wire[i].seq = Len(delivered) + i
    BY <1>4 DEF EventInv, Numbered
  <2> QED
    BY <2>1, <1>1, <1>2
<1>5. ASSUME NEW i \in DOMAIN output PROVE output[i].seq <= Forwarded
  BY <1>1, <1>2 DEF EventInv, Numbered
<1> QED
  BY <1>2, <1>3, <1>4, <1>5 DEF Taken, InSeq

\* Where the stream is not pruned, the cursor of the tail is in it: at the last
\* event sent.
LEMMA CursorAtLast ==
    ASSUME EventInv, tail.at # "off", logKind # "invoke", tail.after # NoCursor, tail.after.gen = stream
    PROVE  /\ tail.after.seq = Forwarded /\ Forwarded > 0 /\ tail.after.seq \in DOMAIN log
           /\ log[tail.after.seq] = LastSent
<1>1. tail.after \in [gen: Nat, seq: Nat] /\ stream \in Nat \ {0} /\ tail.after.seq \in Nat
  BY DEF EventInv, EventTypeOK
<1>2. tail.after.seq # 0 /\ tail.after.seq = Forwarded
  BY <1>1 DEF EventInv, Cursors, Behind
<1>3. Forwarded \in Nat /\ Forwarded > 0 /\ LastSent \in Taken /\ LastSent.seq = Forwarded
  BY <1>1, <1>2, LastSentTaken
<1>4. LastSent.gen = stream
  BY <1>2, <1>3 DEF EventInv, Cursors
<1>5. LastSent.seq <= Len(log) /\ log[LastSent.seq] = LastSent
  BY <1>3, <1>4 DEF EventInv, StillStored
<1>6. DOMAIN log = 1 .. Len(log) /\ Len(log) \in Nat
  BY DEF EventInv, EventTypeOK
<1> QED
  BY <1>2, <1>3, <1>5, <1>6

\* The cursor of a memory stream is always known.
LEMMA MemoryKnows ==
    ASSUME EventInv, tail.at # "off", logKind = "memory"
    PROVE  CursorKnown(tail.after) /\ (tail.after # NoCursor => tail.after.gen = stream)
<1> SUFFICES ASSUME tail.after # NoCursor PROVE CursorKnown(tail.after) /\ tail.after.gen = stream
  BY DEF CursorKnown
<1>1. tail.after \in [gen: Nat, seq: Nat] /\ tail.after.seq \in Nat
  BY DEF EventInv, EventTypeOK
<1>2. tail.after.seq # 0 /\ tail.after.seq = Forwarded
  <2>1. tail.after.gen = 0 <=> tail.after.seq = 0
    BY DEF EventInv, Cursors
  <2>2. tail.after.seq = Forwarded
    BY DEF EventInv, Cursors, Behind
  <2> QED
    BY <1>1, <2>1, <2>2 DEF NoCursor
<1>3. LastSent \in Taken
  BY <1>1, <1>2, LastSentTaken
<1>4. tail.after.gen = LastSent.gen
  <2>1. LastSent.seq = tail.after.seq
    BY <1>1, <1>2, LastSentTaken
  <2> QED
    BY <1>2, <1>3, <2>1 DEF EventInv, Cursors
<1>5. stream = 1 /\ LastSent.gen \in Nat \ {0} /\ LastSent.gen <= stream
  BY <1>3, TakenEvents DEF EventInv, LogNumbered, StillStored, StreamEvent
<1>6. tail.after.gen = stream
  BY <1>4, <1>5
<1>7. tail.after.seq <= Len(log)
  BY <1>6, CursorAtLast DEF EventInv, EventTypeOK
<1> QED
  BY <1>6, <1>7 DEF CursorKnown

\* A batch is the stretch of the stream that follows the cursor.
LEMMA BatchFollows ==
    ASSUME EventInv, tail.at # "off"
    PROVE  LET b == BatchAfter(tail.after) IN
           /\ b \in Seq(StreamEvent) /\ DOMAIN b = 1 .. Len(b) /\ Len(b) \in Nat
           /\ \A i \in DOMAIN b : tail.after.seq + i \in DOMAIN log /\ b[i] = log[tail.after.seq + i]
<1> DEFINE n == tail.after.seq
           m == IF BatchLimit > 0 /\ n + BatchLimit < Len(log) THEN n + BatchLimit ELSE Len(log)
           b == BatchAfter(tail.after)
<1>1. n \in Nat /\ Len(log) \in Nat /\ log \in Seq(StreamEvent) /\ DOMAIN log = 1 .. Len(log)
  BY DEF EventInv, EventTypeOK
<1>2. SeqAfter(tail.after) = n
  BY DEF SeqAfter, NoCursor
<1>3. b = SubSeq(log, n + 1, m)
  BY <1>2 DEF BatchAfter
<1>4. m \in Nat /\ m <= Len(log)
  BY <1>1
<1> HIDE DEF m, n, b
<1>5. \A i \in 1 .. Len(log) : log[i] \in StreamEvent
  BY <1>1
<1>6. CASE n + 1 <= m
  <2>1. b \in Seq(StreamEvent) /\ Len(b) = m - n
    BY <1>1, <1>3, <1>4, <1>5, <1>6
  <2>2. ASSUME NEW i \in 1 .. m - n PROVE b[i] = log[n + i]
    <3>1. b[i] = log[(n + 1) + i - 1]
      BY <1>1, <1>3, <1>4, <1>6
    <3> QED
      BY <3>1, <1>1
  <2>3. DOMAIN b = 1 .. Len(b) /\ Len(b) \in Nat
    BY <2>1, <1>1, <1>4, <1>6
  <2>4. \A i \in DOMAIN b : n + i \in DOMAIN log /\ b[i] = log[n + i]
    BY <2>1, <2>2, <2>3, <1>1, <1>4
  <2> QED
    BY <2>1, <2>3, <2>4 DEF b, n
<1>7. CASE ~(n + 1 <= m)
  <2>1. b = <<>>
    BY <1>1, <1>3, <1>4, <1>7
  <2> QED
    BY <2>1 DEF b
<1> QED
  BY <1>6, <1>7

\* A tail that looks again, waits or ends, without a batch.
LEMMA TailMoves ==
    ASSUME EventInv, tail.at # "off", tail' \in TailStates,
           tail'.at \in {"batch", "rows", "wait", "check", "closed", "failed"},
           tail'.at = "rows" => raced \/ tail.after.seq = 0 \/ tail.after.gen = stream,
           tail'.after = tail.after, tail.events = <<>>, tail'.events = <<>>,
           tail'.at \in {"rows", "wait", "check", "failed"} => logKind # "invoke",
           tail'.at \in {"rows", "check", "failed"} => logKind = "postgres",
           tail'.at = "closed" => Forwarded > 0 /\ Terminal(LastSent),
           UNCHANGED <<logKind, log, bindings, stream, raced, worker, output, wire, client, delivered>>
    PROVE  EventInv'
<1>1. EventTypeOK' /\ LogNumbered'
  BY DEF EventInv, EventTypeOK, LogNumbered, Repeated, TailStates
<1>2. Taken' = Taken
  BY DEF Taken, InSeq
<1>3. OneGeneration' /\ StillStored'
  BY <1>2, TakenKept
<1>4. CommentsLast' /\ Numbered'
  BY DEF EventInv, CommentsLast, Numbered
<1>5. Cursors'
  BY <1>2 DEF EventInv, Cursors, Forwarded, Behind
<1>6. Connected'
  BY DEF EventInv, Connected
<1>7. EndsTerminal'
  BY DEF EventInv, EndsTerminal, Forwarded, LastSent, Terminal
<1> QED
  BY <1>1, <1>3, <1>4, <1>5, <1>6, <1>7 DEF EventInv

\* A tail that reads a batch.
LEMMA TailReads ==
    ASSUME EventInv, tail.at \in {"batch", "rows"}, logKind # "invoke",
           raced \/ tail.after.seq = 0 \/ tail.after.gen = stream,
           tail' \in TailStates, tail'.at = "send", tail'.after = tail.after,
           tail'.events = BatchAfter(tail.after), tail'.events # <<>>,
           UNCHANGED <<logKind, log, bindings, stream, raced, worker, output, wire, client, delivered>>
    PROVE  EventInv'
<1> DEFINE b == BatchAfter(tail.after)
<1>0. tail.events = <<>>
  BY DEF EventInv, Connected
<1>1. EventTypeOK' /\ LogNumbered'
  BY DEF EventInv, EventTypeOK, LogNumbered, Repeated, TailStates
<1>2. /\ b \in Seq(StreamEvent) /\ DOMAIN b = 1 .. Len(b) /\ Len(b) \in Nat
      /\ \A i \in DOMAIN b : tail.after.seq + i \in DOMAIN log /\ b[i] = log[tail.after.seq + i]
  BY BatchFollows
<1> HIDE DEF b
<1>3. tail'.events = b
  BY DEF b
<1>4. Taken' = Taken \cup InSeq(b)
  <2>1. InSeq(tail.events) = {}
    BY <1>0 DEF InSeq
  <2> QED
    BY <2>1, <1>3 DEF Taken, InSeq
<1>5. \A e \in InSeq(b) : \E i \in DOMAIN log : e = log[i] /\ e.gen = stream /\ e.seq = i
  BY <1>2 DEF InSeq, EventInv, LogNumbered
<1>6. /\ Forwarded \in Nat /\ tail.after.seq = Forwarded
      /\ \A e \in Taken : e.seq <= Forwarded /\ e.seq \in Nat \ {0} /\ e.gen \in Nat
  <2>1. Forwarded \in Nat /\ tail.after.seq = Forwarded
    BY LastSentTaken DEF EventInv, Cursors, Behind
  <2>2. \A e \in Taken : e.seq <= Forwarded
    BY <1>0, TakenBefore
  <2> QED
    BY <2>1, <2>2, TakenEvents DEF EventInv, StreamEvent
<1>7. \A e \in Taken :
         /\ e.gen <= stream /\ (raced \/ e.gen = stream)
         /\ e.gen = stream => e.seq \in DOMAIN log /\ e = log[e.seq]
  <2> SUFFICES ASSUME NEW e \in Taken
               PROVE  /\ e.gen <= stream /\ (raced \/ e.gen = stream)
                      /\ e.gen = stream => e.seq \in DOMAIN log /\ e = log[e.seq]
    OBVIOUS
  <2>1. e.gen <= stream /\ (e.gen = stream => e.seq <= Len(log) /\ log[e.seq] = e)
    BY DEF EventInv, StillStored
  <2>2. e.gen = stream => e.seq \in DOMAIN log
    BY <2>1, <1>6 DEF EventInv, EventTypeOK
  <2>3. tail.after.seq # 0
    BY <1>6
  <2>4. raced \/ tail.after.gen = e.gen
    BY <2>3 DEF EventInv, Cursors
  <2> QED
    BY <2>1, <2>2, <2>3, <2>4
<1>8. OneGeneration' /\ StillStored'
  <2>1. \A e \in InSeq(b) : e.gen = stream /\ e.seq \in DOMAIN log /\ e = log[e.seq]
           /\ e.seq > Forwarded /\ e.seq \in Nat /\ e.seq <= Len(log)
    <3> SUFFICES ASSUME NEW i \in DOMAIN b
                 PROVE  /\ b[i].gen = stream /\ b[i].seq \in DOMAIN log /\ b[i] = log[b[i].seq]
                        /\ b[i].seq > Forwarded /\ b[i].seq \in Nat /\ b[i].seq <= Len(log)
      BY DEF InSeq
    <3>1. tail.after.seq + i \in DOMAIN log /\ b[i] = log[tail.after.seq + i] /\ i \in Nat \ {0}
      BY <1>2
    <3>2. b[i].gen = stream /\ b[i].seq = tail.after.seq + i
      BY <3>1 DEF EventInv, LogNumbered
    <3>3. DOMAIN log = 1 .. Len(log) /\ Len(log) \in Nat
      BY DEF EventInv, EventTypeOK
    <3> QED
      BY <3>1, <3>2, <3>3, <1>6
  <2>2. \A e, f \in Taken' : e.gen = f.gen /\ e.key = f.key => e.seq = f.seq
    <3> SUFFICES ASSUME NEW e \in Taken', NEW f \in Taken', e.gen = f.gen, e.key = f.key
                 PROVE  e.seq = f.seq
      OBVIOUS
    <3>1. CASE e \in Taken /\ f \in Taken
      BY <3>1 DEF EventInv, OneGeneration
    <3>2. CASE e \in InSeq(b) \/ f \in InSeq(b)
      <4>1. e.gen = stream /\ f.gen = stream
        BY <3>2, <2>1
      <4>2. /\ e.seq \in DOMAIN log /\ e = log[e.seq]
            /\ f.seq \in DOMAIN log /\ f = log[f.seq]
        BY <4>1, <1>4, <1>7, <2>1
      <4> QED
        BY <4>2 DEF EventInv, LogNumbered
    <3> QED
      BY <3>1, <3>2, <1>4
  <2>3. \A e, f \in Taken' : e.seq <= f.seq => e.gen <= f.gen
    <3> SUFFICES ASSUME NEW e \in Taken', NEW f \in Taken', e.seq <= f.seq PROVE e.gen <= f.gen
      OBVIOUS
    <3>0. stream \in Nat
      BY DEF EventInv, EventTypeOK
    <3>1. CASE e \in Taken /\ f \in Taken
      BY <3>1 DEF EventInv, OneGeneration
    <3>2. CASE f \in InSeq(b)
      BY <3>0, <3>2, <1>4, <1>7, <2>1
    <3>3. CASE e \in InSeq(b) /\ f \in Taken
      BY <3>3, <2>1, <1>6
    <3> QED
      BY <3>1, <3>2, <3>3, <1>4
  <2>4. \A e, f \in Taken' : raced \/ e.gen = f.gen
    BY <1>4, <1>7, <2>1
  <2>5. StillStored'
    <3> SUFFICES ASSUME NEW e \in Taken'
                 PROVE  e.gen <= stream /\ (e.gen = stream => e.seq <= Len(log) /\ log[e.seq] = e)
      BY DEF StillStored
    <3>0. stream \in Nat
      BY DEF EventInv, EventTypeOK
    <3>1. CASE e \in Taken
      BY <3>1 DEF EventInv, StillStored
    <3>2. CASE e \in InSeq(b)
      BY <3>0, <3>2, <2>1
    <3> QED
      BY <3>1, <3>2, <1>4
  <2> QED
    BY <2>2, <2>3, <2>4, <2>5 DEF OneGeneration
<1>9. CommentsLast'
  BY DEF EventInv, CommentsLast
<1>10. Numbered'
  <2>1. \A i \in DOMAIN b : b[i].seq = tail.after.seq + i
    BY <1>2 DEF EventInv, LogNumbered
  <2> QED
    BY <2>1, <1>3 DEF EventInv, Numbered
<1>11. Cursors'
  <2>1. /\ tail'.after.seq = Forwarded' \/ Behind'
        /\ tail'.after.gen = 0 <=> tail'.after.seq = 0
    BY DEF EventInv, Cursors, Forwarded, Behind
  <2>2. \A e \in Taken' : tail'.after.seq # 0 /\ (raced => e.seq = tail'.after.seq) => tail'.after.gen = e.gen
    <3> SUFFICES ASSUME NEW e \in Taken', tail.after.seq # 0, raced => e.seq = tail.after.seq
                 PROVE  tail.after.gen = e.gen
      OBVIOUS
    <3>1. CASE e \in Taken
      BY <3>1 DEF EventInv, Cursors
    <3>2. CASE e \notin Taken
      <4>1. e \in InSeq(b)
        BY <3>2, <1>4
      <4>2. PICK i \in DOMAIN b : e = b[i]
        BY <4>1 DEF InSeq
      <4>3. e.gen = stream /\ e.seq = tail.after.seq + i /\ i \in Nat \ {0}
        BY <4>2, <1>2 DEF EventInv, LogNumbered
      <4> QED
        BY <4>3, <1>6
    <3> QED
      BY <3>1, <3>2
  <2> QED
    BY <2>1, <2>2 DEF EventInv, Cursors
<1>12. Connected'
  BY DEF EventInv, Connected
<1>13. EndsTerminal'
  BY DEF EventInv, EndsTerminal
<1> QED
  BY <1>1, <1>8, <1>9, <1>10, <1>11, <1>12, <1>13 DEF EventInv

\* A tail that reads its next batch, waits for one or finds the end of its stream.
LEMMA TailKeeps ==
    ASSUME EventInv, MemoryTailBatch \/ Wake \/ PostgresListCursor \/ PostgresListRows
           \/ StreamTerminalAtCursor
    PROVE  EventInv'
<1>0. /\ tail \in TailStates /\ tail.at # "off"
      /\ UNCHANGED <<logKind, log, bindings, stream, raced, worker, output, wire, client, delivered>>
  BY DEF EventInv, EventTypeOK, TailStates, MemoryTailBatch, Wake,
     PostgresListCursor, PostgresListRows, StreamTerminalAtCursor
<1>1. CASE MemoryTailBatch
  <2> DEFINE b == BatchAfter(tail.after)
             completed == tail.after # NoCursor /\ Terminal(log[tail.after.seq])
             now == IF b # <<>> THEN "send" ELSE IF completed THEN "closed" ELSE "wait"
  <2>1. /\ tail' = [tail EXCEPT !.events = b, !.watched = TRUE, !.at = now]
        /\ logKind = "memory" /\ tail.at = "batch" /\ tail.events = <<>>
    BY <1>1 DEF MemoryTailBatch, EventInv, Connected
  <2>2. /\ CursorKnown(tail.after) /\ (tail.after # NoCursor => tail.after.gen = stream)
        /\ tail.after.seq = 0 \/ tail.after.gen = stream
    BY <1>0, <2>1, MemoryKnows DEF NoCursor
  <2>3. b \in Seq(StreamEvent)
    BY <1>0, <2>2, BatchFollows
  <2>4. completed => Forwarded > 0 /\ Terminal(LastSent)
    BY <2>1, <2>2, CursorAtLast DEF Terminal
  <2> HIDE DEF b, completed
  <2>5. /\ tail' \in TailStates /\ tail'.at = now /\ tail'.after = tail.after /\ tail'.events = b
    BY <1>0, <2>1, <2>3 DEF TailStates
  <2>6. CASE b # <<>>
    BY <1>0, <2>1, <2>2, <2>5, <2>6, TailReads DEF b
  <2>7. CASE b = <<>>
    BY <1>0, <2>1, <2>4, <2>5, <2>7, TailMoves
  <2> QED
    BY <2>6, <2>7
<1>2. CASE Wake
  <2>1. tail.at = "wait" /\ tail' = [tail EXCEPT !.at = "batch"]
    BY <1>2 DEF Wake
  <2>2. tail.events = <<>> /\ logKind # "invoke"
    BY <2>1 DEF EventInv, Connected
  <2>3. /\ tail' \in TailStates /\ tail'.at = "batch" /\ tail'.after = tail.after
        /\ tail'.events = tail.events
    BY <1>0, <2>1 DEF TailStates
  <2> QED
    BY <1>0, <2>1, <2>2, <2>3, TailMoves
<1>3. CASE PostgresListCursor
  <2> DEFINE now == IF CursorKnown(tail.after) THEN "rows" ELSE "failed"
  <2>1. /\ logKind = "postgres" /\ tail.at = "batch" /\ tail.events = <<>>
        /\ tail' = [tail EXCEPT !.at = now]
    BY <1>3 DEF PostgresListCursor, EventInv, Connected
  <2>2. now = "rows" => tail.after.seq = 0 \/ tail.after.gen = stream
    BY DEF CursorKnown, NoCursor
  <2>3. now \in {"rows", "failed"}
    OBVIOUS
  <2> HIDE DEF now
  <2>4. tail' \in TailStates /\ tail'.at = now /\ tail'.after = tail.after /\ tail'.events = tail.events
    BY <1>0, <2>1, <2>3 DEF TailStates
  <2> QED
    BY <1>0, <2>1, <2>2, <2>3, <2>4, TailMoves
<1>5. CASE PostgresListRows
  <2> DEFINE b == BatchAfter(tail.after)
  <2>1. /\ tail.at = "rows" /\ logKind = "postgres" /\ tail.events = <<>>
        /\ raced \/ tail.after.seq = 0 \/ tail.after.gen = stream
        /\ tail' = [tail EXCEPT !.events = b, !.at = IF b = <<>> THEN "check" ELSE "send"]
    BY <1>5 DEF PostgresListRows, EventInv, Connected, Cursors
  <2>2. b \in Seq(StreamEvent)
    BY <1>0, BatchFollows
  <2> HIDE DEF b
  <2>3. /\ tail' \in TailStates /\ tail'.at = IF b = <<>> THEN "check" ELSE "send"
        /\ tail'.after = tail.after /\ tail'.events = b
    BY <1>0, <2>1, <2>2 DEF TailStates
  <2>4. CASE b = <<>>
    BY <1>0, <2>1, <2>3, <2>4, TailMoves
  <2>5. CASE b # <<>>
    BY <1>0, <2>1, <2>3, <2>5, TailReads DEF b
  <2> QED
    BY <2>4, <2>5
<1>4. CASE StreamTerminalAtCursor
  <2> DEFINE terminal == StreamClosed /\ tail.after = Cursor(log[Len(log)])
             now == IF terminal THEN "closed" ELSE "wait"
  <2>1. /\ tail.at = "check" /\ tail' = [tail EXCEPT !.at = now] /\ logKind = "postgres"
        /\ tail.events = <<>>
    BY <1>4 DEF StreamTerminalAtCursor, EventInv, Connected
  <2>2. terminal => Forwarded > 0 /\ Terminal(LastSent)
    <3> SUFFICES ASSUME terminal PROVE Forwarded > 0 /\ Terminal(LastSent)
      OBVIOUS
    <3>1. Len(log) \in DOMAIN log /\ Terminal(log[Len(log)])
      BY DEF StreamClosed, EventInv, EventTypeOK
    <3>2. tail.after = [gen |-> stream, seq |-> Len(log)] /\ stream # 0
      BY <3>1 DEF Cursor, EventInv, LogNumbered, EventTypeOK
    <3>3. tail.after.gen = stream /\ tail.after.seq = Len(log) /\ tail.after # NoCursor
      BY <3>2 DEF NoCursor
    <3> QED
      BY <1>0, <2>1, <3>1, <3>3, CursorAtLast
  <2> HIDE DEF terminal
  <2>3. tail' \in TailStates /\ tail'.at = now /\ tail'.after = tail.after /\ tail'.events = tail.events
    BY <1>0, <2>1 DEF TailStates
  <2> QED
    BY <1>0, <2>1, <2>2, <2>3, TailMoves
<1> QED
  BY <1>1, <1>2, <1>3, <1>4, <1>5

\* The tail hands the next event of its batch to the channel.
LEMMA SendKeeps == ASSUME EventInv, TailSend PROVE EventInv'
<1> DEFINE e == Head(tail.events)
           now == IF Terminal(e) THEN "closed" ELSE IF Len(tail.events) = 1 THEN "batch" ELSE "send"
<1>1. /\ tail.at = "send" /\ output = <<>> /\ output' = <<e>>
      /\ tail' = [tail EXCEPT !.after = Cursor(e), !.events = Tail(tail.events), !.at = now]
      /\ UNCHANGED <<logKind, log, bindings, stream, raced, worker, wire, client, delivered>>
  BY DEF TailSend
<1>2. /\ tail \in TailStates /\ tail.events \in Seq(StreamEvent) /\ tail.events # <<>>
      /\ logKind # "invoke" /\ client.at = "reading"
  BY <1>1 DEF EventInv, EventTypeOK, TailStates, Connected
<1>3. /\ Tail(tail.events) \in Seq(StreamEvent) /\ Len(Tail(tail.events)) = Len(tail.events) - 1
      /\ Len(tail.events) \in Nat \ {0} /\ DOMAIN Tail(tail.events) = 1 .. Len(tail.events) - 1
      /\ \A i \in 1 .. Len(tail.events) - 1 : Tail(tail.events)[i] = tail.events[i + 1]
      /\ InSeq(Tail(tail.events)) \subseteq InSeq(tail.events)
      /\ e = tail.events[1] /\ e \in InSeq(tail.events) /\ e \in StreamEvent
      /\ DOMAIN tail.events = 1 .. Len(tail.events)
  BY <1>2, TailOf
<1> DEFINE rest == Tail(tail.events)
<1> HIDE DEF e, rest
<1>4. Cursor(e) \in [gen: Nat, seq: Nat] /\ Cursor(e).gen = e.gen /\ Cursor(e).seq = e.seq
      /\ e.gen \in Nat \ {0} /\ e.seq \in Nat \ {0}
  BY <1>3 DEF Cursor, StreamEvent
<1>5. /\ tail' \in TailStates /\ tail'.at = now /\ tail'.after = Cursor(e) /\ tail'.events = rest
  BY <1>1, <1>2, <1>3, <1>4 DEF TailStates, rest
<1>6. output' \in Seq(StreamEvent) /\ Len(output') = 1 /\ DOMAIN output' = {1} /\ output'[1] = e
      /\ Len(output) = 0 /\ output' # <<>>
  BY <1>1, <1>3
<1>7. EventTypeOK' /\ LogNumbered'
  <2>1. EventTypeOK'
    BY <1>1, <1>5, <1>6 DEF EventInv, EventTypeOK, TailStates
  <2>2. LogNumbered'
    BY <1>1 DEF EventInv, LogNumbered, Repeated
  <2> QED
    BY <2>1, <2>2
<1>8. Taken' \subseteq Taken
  <2>1. InSeq(output') = {e} /\ InSeq(tail'.events) \subseteq InSeq(tail.events)
    BY <1>3, <1>5, <1>6 DEF InSeq, rest
  <2>2. e \in InSeq(tail.events) /\ UNCHANGED <<wire, delivered>>
    BY <1>1, <1>3
  <2> QED
    BY <2>1, <2>2 DEF Taken
<1>9. OneGeneration' /\ StillStored'
  BY <1>1, <1>8, TakenKept
<1>10. e \in Taken
  BY <1>3 DEF Taken
<1>11. tail.after.seq = Forwarded /\ Forwarded = Len(delivered) + Len(wire) /\ e.seq = Forwarded + 1
       /\ Len(delivered) \in Nat /\ Len(wire) \in Nat /\ tail.after.seq \in Nat
  <2>1. tail.after.seq = Forwarded
    BY <1>1, <1>2 DEF EventInv, Cursors, Behind
  <2>2. e.seq = tail.after.seq + 1
    BY <1>3 DEF EventInv, Numbered
  <2>3. Len(delivered) \in Nat /\ Len(wire) \in Nat /\ Forwarded \in Nat
    BY <1>1, LastSentTaken
  <2> QED
    BY <2>1, <2>2, <2>3, <1>6 DEF Forwarded
<1>12. CommentsLast'
  BY <1>1 DEF EventInv, CommentsLast
<1>13. Numbered'
  <2>1. \A i \in DOMAIN rest : rest[i].seq = e.seq + i
    <3> SUFFICES ASSUME NEW i \in DOMAIN rest PROVE rest[i].seq = e.seq + i
      OBVIOUS
    <3>1. i \in 1 .. Len(tail.events) - 1 /\ rest[i] = tail.events[i + 1] /\ i + 1 \in DOMAIN tail.events
      BY <1>3 DEF rest
    <3>2. rest[i].seq = tail.after.seq + (i + 1)
      BY <3>1 DEF EventInv, Numbered
    <3> QED
      BY <3>1, <3>2, <1>3, <1>11
  <2>2. \A i \in DOMAIN output' : output'[i].seq = Len(delivered) + Len(wire) + 1
    BY <1>6, <1>11
  <2> QED
    <3>1. \A i \in DOMAIN tail'.events : tail'.events[i].seq = tail'.after.seq + i
      BY <2>1, <1>4, <1>5
    <3>2. /\ \A i \in DOMAIN delivered' : delivered'[i].seq = i
          /\ \A i \in DOMAIN wire' : wire'[i] \notin Comments => wire'[i].seq = Len(delivered') + i
      BY <1>1 DEF EventInv, Numbered
    <3>3. \A i \in DOMAIN output' : output'[i].seq = Len(delivered') + Len(wire') + 1
      BY <2>2, <1>1
    <3> QED
      BY <3>1, <3>2, <3>3 DEF Numbered
<1>14. Cursors'
  <2>1. tail'.after.seq = Forwarded'
    BY <1>1, <1>4, <1>5, <1>6, <1>11 DEF Forwarded
  <2>2. tail'.after.gen # 0 /\ tail'.after.seq # 0
    BY <1>4, <1>5
  <2>3. \A f \in Taken' : (raced => f.seq = tail'.after.seq) => tail'.after.gen = f.gen
    <3> SUFFICES ASSUME NEW f \in Taken, raced => f.seq = e.seq PROVE e.gen = f.gen
      BY <1>4, <1>5, <1>8
    <3>1. f.seq \in Nat /\ f.gen \in Nat
      BY TakenEvents DEF EventInv, StreamEvent
    <3>2. /\ e.seq <= f.seq => e.gen <= f.gen
          /\ f.seq <= e.seq => f.gen <= e.gen
          /\ raced \/ e.gen = f.gen
      BY <1>10 DEF EventInv, OneGeneration
    <3> QED
      BY <3>1, <3>2, <1>4
  <2> QED
    BY <2>1, <2>2, <2>3, <1>1 DEF EventInv, Cursors
<1>15. Connected'
  <2>1. (now = "send" => rest # <<>>) /\ (now = "batch" => rest = <<>>)
    <3>1. rest = <<>> <=> Len(rest) = 0
      BY <1>3, EmptyLen DEF rest
    <3> QED
      BY <3>1, <1>3 DEF rest
  <2>2. now \in {"closed", "batch", "send"}
    OBVIOUS
  <2> HIDE DEF now
  <2>3. client'.at = "reading" /\ logKind' # "invoke" /\ tail'.at = now /\ tail'.events = rest
    BY <1>1, <1>2, <1>5
  <2> QED
    BY <2>1, <2>2, <2>3 DEF Connected
<1>16. EndsTerminal'
  <2>1. LastSent' = e
    BY <1>6 DEF LastSent
  <2>2. now = "closed" => Terminal(e)
    OBVIOUS
  <2>3. Forwarded' > 0
    BY <1>1, <1>6, <1>11 DEF Forwarded
  <2> QED
    BY <2>1, <2>2, <2>3, <1>1, <1>2, <1>5 DEF EventInv, EndsTerminal, Terminal
<1> QED
  BY <1>7, <1>9, <1>12, <1>13, <1>14, <1>15, <1>16 DEF EventInv

\* The invoke stream runs again: what the client has is skipped, and the rest is sent.
LEMMA ServeStreamKeeps == ASSUME EventInv, ServeStream PROVE EventInv'
<1> DEFINE n == tail.after.seq + 1
           c == [gen |-> 1, seq |-> n]
           e == [gen |-> 1, seq |-> n, key |-> n, data |-> 0]
<1>1. /\ logKind = "invoke" /\ tail.at = "batch" /\ output = <<>>
      /\ UNCHANGED <<logKind, log, bindings, stream, raced, worker, wire, client, delivered>>
  BY DEF ServeStream
<1>2. /\ tail \in TailStates /\ tail.after.seq \in Nat /\ tail.after.gen \in Nat /\ tail.events = <<>>
      /\ client.at = "reading" /\ stream = 1 /\ log = <<>> /\ client.last.seq = Len(delivered)
  BY <1>1 DEF EventInv, EventTypeOK, TailStates, Connected, LogNumbered, Cursors
<1>3. /\ Forwarded \in Nat /\ Len(delivered) \in Nat /\ Len(wire) \in Nat /\ Len(output) = 0
      /\ Forwarded = Len(delivered) + Len(wire)
      /\ Forwarded > 0 => LastSent \in Taken /\ LastSent.seq = Forwarded
  BY <1>1, LastSentTaken DEF Forwarded
<1>4. (tail.after.seq = Forwarded) \/ (tail.after.seq <= Len(delivered) /\ wire = <<>>)
  BY <1>1 DEF EventInv, Cursors, Behind
<1>5. \A f \in Taken : f \in StreamEvent /\ f.gen = 1 /\ f.key = f.seq /\ f.seq <= Events
  BY <1>1, TakenEvents DEF EventInv, StillStored, StreamEvent, EventKeys
<1>6. CASE n > Events
  <2>1. tail' = [tail EXCEPT !.at = "closed"] /\ output' = output
    BY <1>6 DEF ServeStream
  <2>2. /\ tail' \in TailStates /\ tail'.at = "closed" /\ tail'.after = tail.after
        /\ tail'.events = tail.events
    BY <1>2, <2>1 DEF TailStates
  <2>3. Forwarded > 0 /\ Terminal(LastSent)
    <3>1. Forwarded <= Events
      BY <1>3, <1>5
    <3>2. CASE tail.after.seq = Forwarded
      BY <3>1, <3>2, <1>2, <1>3, <1>5, <1>6 DEF Terminal
    <3>3. CASE tail.after.seq <= Len(delivered) /\ wire = <<>>
      BY <3>1, <3>3, <1>2, <1>3, <1>5, <1>6 DEF Terminal
    <3> QED
      BY <3>2, <3>3, <1>4
  <2> QED
    BY <1>1, <1>2, <2>1, <2>2, <2>3, TailMoves
<1>7. CASE n <= Events
  <2>1. /\ tail' = [tail EXCEPT !.after = c]
        /\ output' = IF n <= client.last.seq THEN <<>> ELSE <<e>>
    BY <1>2, <1>7 DEF ServeStream
  <2>2. /\ tail' \in TailStates /\ tail'.at = "batch" /\ tail'.after = c /\ tail'.events = <<>>
        /\ c.seq = n /\ c.gen = 1 /\ n \in Nat \ {0}
    BY <1>1, <1>2, <2>1 DEF TailStates
  <2>3. e \in StreamEvent /\ e.gen = 1 /\ e.key = n /\ e.seq = n
    BY <1>2, <1>7, <2>2 DEF StreamEvent, EventKeys
  <2> HIDE DEF c, e
  <2>4. CASE n <= client.last.seq
    <3>1. output' = <<>> /\ output' = output /\ wire = <<>>
      <4>1. wire = <<>>
        BY <1>2, <1>3, <1>4, <2>4
      <4> QED
        BY <4>1, <2>1, <2>4, <1>1
    <3>2. EventTypeOK' /\ LogNumbered' /\ CommentsLast'
      BY <1>1, <2>2, <3>1 DEF EventInv, EventTypeOK, LogNumbered, Repeated, TailStates, CommentsLast
    <3>3. Taken' = Taken
      BY <1>1, <1>2, <2>2, <3>1 DEF Taken, InSeq
    <3>4. OneGeneration' /\ StillStored'
      BY <1>1, <3>3, TakenKept
    <3>5. Numbered'
      BY <1>1, <2>2, <3>1 DEF EventInv, Numbered
    <3>6. Cursors'
      <4>1. Behind'
        BY <1>1, <1>2, <2>2, <2>4, <3>1 DEF Behind
      <4>2. \A f \in Taken' : tail'.after.gen = f.gen
        BY <1>5, <2>2, <3>3
      <4> QED
        BY <4>1, <4>2, <1>1, <2>2 DEF EventInv, Cursors
    <3>7. Connected' /\ EndsTerminal'
      BY <1>1, <1>2, <2>2, <3>1 DEF EventInv, Connected, EndsTerminal
    <3> QED
      BY <3>2, <3>4, <3>5, <3>6, <3>7 DEF EventInv
  <2>5. CASE ~(n <= client.last.seq)
    <3>1. /\ output' = <<e>> /\ output' \in Seq(StreamEvent) /\ Len(output') = 1 /\ DOMAIN output' = {1}
          /\ output'[1] = e /\ output' # <<>>
      BY <2>1, <2>3, <2>5
    <3>2. tail.after.seq = Forwarded /\ n = Len(delivered) + Len(wire) + 1
      <4>1. CASE tail.after.seq = Forwarded
        BY <4>1, <1>3
      <4>2. CASE tail.after.seq <= Len(delivered) /\ wire = <<>>
        BY <4>2, <1>2, <1>3, <2>5
      <4> QED
        BY <4>1, <4>2, <1>4
    <3>3. EventTypeOK' /\ LogNumbered'
      BY <1>1, <2>2, <3>1 DEF EventInv, EventTypeOK, LogNumbered, Repeated, TailStates
    <3>4. CommentsLast'
      BY <1>1 DEF EventInv, CommentsLast
    <3>5. Taken' = Taken \cup {e}
      <4>1. InSeq(output') = {e} /\ InSeq(output) = {} /\ InSeq(tail'.events) = InSeq(tail.events)
        BY <1>1, <1>2, <2>2, <3>1 DEF InSeq
      <4> QED
        BY <4>1, <1>1 DEF Taken, InSeq
    <3>6. OneGeneration' /\ StillStored'
      BY <1>1, <1>2, <1>5, <2>3, <3>5 DEF OneGeneration, StillStored
    <3>7. Numbered'
      <4>1. \A i \in DOMAIN output' : output'[i].seq = Len(delivered') + Len(wire') + 1
        BY <3>1, <3>2, <2>3, <1>1
      <4> QED
        BY <4>1, <1>1, <2>2 DEF EventInv, Numbered
    <3>8. Cursors'
      <4>1. tail'.after.seq = Forwarded'
        BY <1>1, <1>3, <2>2, <3>1, <3>2 DEF Forwarded
      <4>2. \A f \in Taken' : tail'.after.gen = f.gen
        BY <1>5, <2>2, <2>3, <3>5
      <4> QED
        BY <4>1, <4>2, <1>1, <2>2 DEF EventInv, Cursors
    <3>9. Connected' /\ EndsTerminal'
      BY <1>1, <1>2, <2>2 DEF EventInv, Connected, EndsTerminal
    <3> QED
      BY <3>3, <3>4, <3>6, <3>7, <3>8, <3>9 DEF EventInv
  <2> QED
    BY <2>4, <2>5
<1> QED
  BY <1>2, <1>6, <1>7

-----------------------------------------------------------------------------
(***************************************************************************)
(* The response and the client.                                            *)
(***************************************************************************)
\* What the server writes to the connection, an event or a comment, is the next.
LEMMA ServeEventKeeps == ASSUME EventInv, ServeEvent PROVE EventInv'
<1> DEFINE e == Head(output)
<1>1. /\ output # <<>> /\ wire' = Append(wire, e) /\ output' = <<>>
      /\ UNCHANGED <<logKind, log, bindings, stream, raced, worker, tail, client, delivered>>
  BY DEF ServeEvent
<1>2. tail.at # "off" /\ client.at = "reading"
  BY <1>1 DEF EventInv, Connected
<1>3. /\ output \in Seq(StreamEvent) /\ Len(output) = 1 /\ DOMAIN output = {1} /\ e = output[1]
      /\ e \in StreamEvent /\ Len(output') = 0
  <2>1. output \in Seq(StreamEvent)
    BY DEF EventInv, EventTypeOK
  <2>2. Len(output) = 1
    <3>1. Len(output) \in Nat /\ Len(output) # 0
      BY <2>1, <1>1, EmptyLen
    <3>2. Len(output) <= 1
      BY DEF EventInv, EventTypeOK
    <3> QED
      BY <3>1, <3>2, ZeroOrOne
  <2>3. DOMAIN output = {1} /\ e = output[1] /\ output[1] \in StreamEvent
    BY <2>1, <2>2
  <2>4. Len(output') = 0
    BY <1>1
  <2> QED
    BY <2>1, <2>2, <2>3, <2>4
<1>4. e \notin Comments
  BY <1>3, CommentsApart
<1> HIDE DEF e
<1>5. wire \in Seq(StreamEvent \cup Comments) /\ e \in StreamEvent \cup Comments
  BY <1>3 DEF EventInv, EventTypeOK
<1>6. /\ wire' \in Seq(StreamEvent \cup Comments) /\ Len(wire') = Len(wire) + 1 /\ Len(wire) \in Nat
      /\ DOMAIN wire' = 1 .. Len(wire) + 1 /\ DOMAIN wire = 1 .. Len(wire)
      /\ \A i \in 1 .. Len(wire) : wire'[i] = wire[i]
      /\ wire'[Len(wire) + 1] = e
      /\ InSeq(wire') = InSeq(wire) \cup {e} /\ wire' # <<>>
  BY <1>1, <1>5, AppendTo
<1>7. Len(delivered) \in Nat /\ Forwarded = Len(delivered) + Len(wire) + 1 /\ e.seq = Forwarded
  <2>1. Len(delivered) \in Nat /\ Forwarded = Len(delivered) + Len(wire) + 1
    BY <1>3, <1>2, LastSentTaken DEF Forwarded
  <2>2. e.seq = Len(delivered) + Len(wire) + 1
    BY <1>3 DEF EventInv, Numbered
  <2> QED
    BY <2>1, <2>2
<1>8. EventTypeOK' /\ LogNumbered'
  BY <1>1, <1>3, <1>6 DEF EventInv, EventTypeOK, LogNumbered, Repeated
<1>9. Taken' = Taken
  <2>1. InSeq(output') = {} /\ InSeq(output) = {e} /\ InSeq(delivered') = InSeq(delivered)
        /\ InSeq(tail'.events) = InSeq(tail.events)
    BY <1>1, <1>3 DEF InSeq
  <2> QED
    BY <2>1, <1>4, <1>6 DEF Taken
<1>10. OneGeneration' /\ StillStored'
  BY <1>1, <1>9, TakenKept
<1>11. \A i \in DOMAIN wire' : wire'[i] \notin Comments
  <2>1. \A i \in DOMAIN wire : wire[i] \notin Comments
    BY <1>2 DEF EventInv, CommentsLast
  <2> QED
    BY <2>1, <1>4, <1>6
<1>12. CommentsLast'
  BY <1>11 DEF CommentsLast
<1>13. Numbered'
  <2>1. ASSUME NEW i \in DOMAIN wire' PROVE wire'[i].seq = Len(delivered) + i
    <3>1. CASE i = Len(wire) + 1
      BY <3>1, <1>6, <1>7
    <3>2. CASE i \in 1 .. Len(wire)
      <4>1. wire[i] = wire'[i] /\ wire[i] \notin Comments /\ i \in DOMAIN wire
        BY <3>2, <1>6, <1>11
      <4> QED
        BY <4>1 DEF EventInv, Numbered
    <3> QED
      BY <3>1, <3>2, <1>6
  <2> QED
    BY <2>1, <1>1 DEF EventInv, Numbered
<1>14. Cursors'
  <2>1. Forwarded' = Forwarded /\ tail.after.seq = Forwarded
    BY <1>1, <1>2, <1>3, <1>6, <1>7 DEF Forwarded, EventInv, Cursors, Behind
  <2> QED
    BY <2>1, <1>1, <1>9 DEF EventInv, Cursors
<1>15. Connected'
  BY <1>1, <1>2 DEF EventInv, Connected
<1>16. EndsTerminal'
  <2>1. LastSent' = e /\ LastSent = e /\ Forwarded' = Forwarded
    BY <1>1, <1>3, <1>6, <1>7 DEF LastSent, Forwarded
  <2>2. \A i \in DOMAIN wire' : wire'[i] # CompleteComment
    BY <1>11 DEF Comments
  <2> QED
    BY <2>1, <2>2, <1>1 DEF EventInv, EndsTerminal, Terminal
<1> QED
  BY <1>8, <1>10, <1>12, <1>13, <1>14, <1>15, <1>16 DEF EventInv

\* The server ends a response: the complete comment or the error follows the last event.
LEMMA ServeEndKeeps == ASSUME EventInv, ServeEnd PROVE EventInv'
<1> DEFINE e == IF tail.at = "closed" THEN CompleteComment ELSE ErrorEvent("not_found")
<1>1. /\ output = <<>> /\ tail.at \in {"closed", "failed"} /\ wire' = Append(wire, e)
      /\ tail' = [tail EXCEPT !.at = "off"]
      /\ UNCHANGED <<logKind, log, bindings, stream, raced, worker, output, client, delivered>>
  BY DEF ServeEnd
<1>2. tail \in TailStates /\ client.at = "reading"
  BY <1>1 DEF EventInv, EventTypeOK, TailStates, Connected
<1>3. tail' \in TailStates /\ tail'.at = "off" /\ tail'.after = tail.after /\ tail'.events = tail.events
  BY <1>1, <1>2 DEF TailStates
<1>4. e \in Comments /\ (e = CompleteComment => tail.at = "closed")
  BY CommentsApart DEF Comments
<1> HIDE DEF e
<1>5. wire \in Seq(StreamEvent \cup Comments) /\ e \in StreamEvent \cup Comments
  BY <1>4 DEF EventInv, EventTypeOK
<1>6. /\ wire' \in Seq(StreamEvent \cup Comments) /\ Len(wire') = Len(wire) + 1 /\ Len(wire) \in Nat
      /\ DOMAIN wire' = 1 .. Len(wire) + 1 /\ DOMAIN wire = 1 .. Len(wire)
      /\ \A i \in 1 .. Len(wire) : wire'[i] = wire[i]
      /\ wire'[Len(wire) + 1] = e
      /\ InSeq(wire') = InSeq(wire) \cup {e} /\ wire' # <<>>
  BY <1>1, <1>5, AppendTo
<1>7. EventTypeOK' /\ LogNumbered'
  BY <1>1, <1>3, <1>6 DEF EventInv, EventTypeOK, LogNumbered, Repeated, TailStates
<1>8. Taken' = Taken
  <2>1. InSeq(output') = InSeq(output) /\ InSeq(delivered') = InSeq(delivered)
        /\ InSeq(tail'.events) = InSeq(tail.events)
    BY <1>1, <1>3 DEF InSeq
  <2> QED
    BY <2>1, <1>4, <1>6 DEF Taken
<1>9. OneGeneration' /\ StillStored'
  BY <1>1, <1>8, TakenKept
<1>10. \A i \in DOMAIN wire : wire[i] \notin Comments
  BY <1>1 DEF EventInv, CommentsLast
<1>11. CommentsLast'
  BY <1>1, <1>3, <1>6, <1>10 DEF CommentsLast
<1>12. Numbered'
  <2>1. ASSUME NEW i \in DOMAIN wire', wire'[i] \notin Comments PROVE wire'[i].seq = Len(delivered) + i
    <3>1. i \in DOMAIN wire /\ wire'[i] = wire[i]
      BY <2>1, <1>4, <1>6
    <3> QED
      BY <3>1, <1>10 DEF EventInv, Numbered
  <2>2. \A i \in DOMAIN output' : output'[i].seq = Len(delivered') + Len(wire') + 1
    BY <1>1
  <2> QED
    BY <2>1, <2>2, <1>1, <1>3 DEF EventInv, Numbered
<1>13. Cursors'
  BY <1>1, <1>3 DEF EventInv, Cursors
<1>14. Connected'
  BY <1>1, <1>2, <1>3 DEF EventInv, Connected
<1>15. EndsTerminal'
  <2>1. ASSUME NEW i \in DOMAIN wire', wire'[i] = CompleteComment
        PROVE  \/ i > 1 /\ Terminal(wire'[i - 1])
               \/ i = 1 /\ delivered # <<>> /\ Terminal(delivered[Len(delivered)])
    <3>1. i = Len(wire) + 1 /\ e = CompleteComment
      BY <2>1, <1>6, <1>10 DEF Comments
    <3>2. Forwarded > 0 /\ Terminal(LastSent)
      BY <3>1, <1>4 DEF EventInv, EndsTerminal
    <3>3. CASE wire # <<>>
      <4>1. Len(wire) > 0 /\ LastSent = wire[Len(wire)] /\ wire'[i - 1] = wire[Len(wire)]
        <5>1. Len(wire) # 0
          BY <3>3, <1>5, EmptyLen
        <5>2. LastSent = wire[Len(wire)]
          BY <3>3, <1>1 DEF LastSent
        <5>3. Len(wire) > 0 /\ i - 1 = Len(wire) /\ Len(wire) \in 1 .. Len(wire)
          BY <5>1, <3>1, <1>6
        <5> QED
          BY <5>2, <5>3, <1>6
      <4> QED
        BY <4>1, <3>1, <3>2, <1>6
    <3>4. CASE wire = <<>>
      <4>1. /\ LastSent = delivered[Len(delivered)] /\ Len(wire) = 0 /\ Len(output) = 0
            /\ Len(delivered) \in Nat
        BY <3>4, <1>1 DEF LastSent, EventInv, EventTypeOK
      <4>2. Len(delivered) > 0
        BY <4>1, <3>2 DEF Forwarded
      <4>3. delivered # <<>>
        BY <4>2
      <4> QED
        BY <4>1, <4>3, <3>1, <3>2
    <3> QED
      BY <3>3, <3>4
  <2> QED
    BY <2>1, <1>1, <1>2, <1>3 DEF EventInv, EndsTerminal
<1> QED
  BY <1>7, <1>9, <1>11, <1>12, <1>13, <1>14, <1>15 DEF EventInv

\* A connection is opened after the last delivered event, or breaks with all that
\* was on its way.
LEMMA ConnectionKeeps == ASSUME EventInv, StreamRun \/ Reconnect PROVE EventInv'
<1>1. /\ output' = <<>> /\ wire' = <<>> /\ tail'.events = <<>>
      /\ UNCHANGED <<logKind, log, bindings, stream, raced, worker, delivered>>
  <2>1. NoTail.events = <<>> /\ [NoTail EXCEPT !.at = "batch", !.after = client.last].events = <<>>
        /\ [NoTail EXCEPT !.at = "batch", !.after = NoCursor].events = <<>>
    BY DEF NoTail
  <2>2. CASE StreamRun
    BY <2>1, <2>2 DEF StreamRun
  <2>3. CASE Reconnect
    BY <2>1, <2>3 DEF Reconnect
  <2> QED
    BY <2>2, <2>3
<1>2. client.last' = client.last /\ client'.at # "complete" /\ client.last \in [gen: Nat, seq: Nat]
  BY DEF StreamRun, Reconnect, EventInv, EventTypeOK
<1>3. /\ tail' \in TailStates /\ tail'.at \in {"off", "batch"}
      /\ tail'.at # "off" =>
            /\ tail'.after = IF logKind = "invoke" THEN NoCursor ELSE client.last
            /\ client'.at = "reading"
  <2>1. NoTail \in TailStates /\ NoTail.at = "off"
    BY DEF NoTail, TailStates, NoCursor
  <2>2. CASE Reconnect
    BY <2>1, <2>2 DEF Reconnect
  <2>3. CASE StreamRun
    <3> DEFINE c == IF logKind = "invoke" THEN NoCursor ELSE client.last
    <3>1. c \in [gen: Nat, seq: Nat]
      BY <1>2 DEF NoCursor
    <3>2. /\ tail' = [NoTail EXCEPT !.at = "batch", !.after = c]
          /\ client' = [client EXCEPT !.at = "reading"]
      BY <2>3 DEF StreamRun
    <3>3. client'.at = "reading"
      BY <3>2 DEF EventInv, EventTypeOK
    <3> HIDE DEF c
    <3>4. tail' \in TailStates /\ tail'.at = "batch" /\ tail'.after = c
      BY <2>1, <3>1, <3>2 DEF TailStates
    <3> QED
      BY <3>3, <3>4 DEF c
  <2> QED
    BY <2>2, <2>3
<1>4. client' \in [at: {"idle", "reading", "complete", "failed"}, last: [gen: Nat, seq: Nat],
          attempt: Nat]
  <2> DEFINE C == [at: {"idle", "reading", "complete", "failed"}, last: [gen: Nat, seq: Nat],
          attempt: Nat]
  <2>1. client \in C
    BY DEF EventInv, EventTypeOK
  <2>2. [client EXCEPT !.at = "reading"] \in C /\ [client EXCEPT !.at = "failed"] \in C
    BY <2>1
  <2>3. client.attempt + 1 \in Nat
    BY <2>1
  <2>4. [client EXCEPT !.at = "idle", !.attempt = client.attempt + 1] \in C
    BY <2>1, <2>3
  <2> QED
    BY <2>2, <2>4 DEF StreamRun, Reconnect
<1>5. EventTypeOK' /\ LogNumbered'
  BY <1>1, <1>3, <1>4 DEF EventInv, EventTypeOK, LogNumbered, Repeated, TailStates
<1>6. Taken' = InSeq(delivered) /\ Taken' \subseteq Taken
  BY <1>1 DEF Taken, InSeq
<1>7. OneGeneration' /\ StillStored'
  BY <1>1, <1>6, TakenKept
<1>8. CommentsLast' /\ Numbered'
  BY <1>1 DEF EventInv, CommentsLast, Numbered
<1>9. Cursors'
  <2>1. /\ Len(output') = 0 /\ Len(wire') = 0 /\ Len(delivered) \in Nat
        /\ DOMAIN delivered = 1 .. Len(delivered)
    BY <1>1 DEF EventInv, EventTypeOK
  <2>2. /\ client.last.seq = Len(delivered) /\ (client.last.gen = 0 <=> delivered = <<>>)
        /\ delivered # <<>> => client.last = Cursor(delivered[Len(delivered)])
    BY DEF EventInv, Cursors
  <2>3. ASSUME tail'.at # "off"
        PROVE  /\ tail'.after.seq = Forwarded' \/ Behind'
               /\ tail'.after.gen = 0 <=> tail'.after.seq = 0
               /\ \A f \in Taken' :
                     tail'.after.seq # 0 /\ (raced' => f.seq = tail'.after.seq) => tail'.after.gen = f.gen
               /\ tail'.at # "rows"
    <3>1. CASE logKind = "invoke"
      <4>1. tail'.after.seq = 0 /\ tail'.after.gen = 0
        BY <2>3, <3>1, <1>3 DEF NoCursor
      <4> QED
        BY <4>1, <3>1, <2>1, <2>3, <1>1, <1>3 DEF Behind
    <3>2. CASE logKind # "invoke"
      <4>1. tail'.after = client.last
        BY <2>3, <3>2, <1>3
      <4>2. tail'.after.seq = Forwarded'
        BY <4>1, <2>1, <2>2, <1>1 DEF Forwarded
      <4>3. tail'.after.gen = 0 <=> tail'.after.seq = 0
        BY <4>1, <2>2, EmptyLen DEF EventInv, EventTypeOK
      <4>4. \A f \in Taken' :
               tail'.after.seq # 0 /\ (raced' => f.seq = tail'.after.seq) => tail'.after.gen = f.gen
        <5> SUFFICES ASSUME NEW f \in InSeq(delivered), raced => f.seq = client.last.seq
                     PROVE  tail'.after.gen = f.gen
          BY <1>1, <1>6, <4>1
        <5>1. Len(delivered) \in DOMAIN delivered /\ delivered # <<>>
          BY <2>1 DEF InSeq
        <5>2. f \in Taken /\ delivered[Len(delivered)] \in Taken
          BY <5>1 DEF Taken, InSeq
        <5>3. delivered[Len(delivered)].gen = f.gen
          <6> DEFINE l == delivered[Len(delivered)]
          <6>1. f.gen \in Nat /\ l.gen \in Nat /\ f.seq \in Nat /\ l.seq = client.last.seq
            BY <5>1, <5>2, <2>2, TakenEvents DEF EventInv, StreamEvent, Cursor
          <6>2. /\ l.seq <= f.seq => l.gen <= f.gen
                /\ f.seq <= l.seq => f.gen <= l.gen
                /\ raced \/ l.gen = f.gen
            BY <5>2 DEF EventInv, OneGeneration
          <6> QED
            BY <6>1, <6>2
        <5> QED
          BY <5>1, <5>3, <4>1, <2>2 DEF Cursor
      <4> QED
        BY <4>2, <4>3, <4>4, <2>3, <1>3
    <3> QED
      BY <3>1, <3>2
  <2>4. tail'.at # "rows"
    BY <2>3
  <2> QED
    BY <2>2, <2>3, <2>4, <1>1, <1>2 DEF Cursors, Cursor
<1>10. Connected'
  BY <1>1, <1>3 DEF Connected
<1>11. EndsTerminal'
  BY <1>1, <1>2, <1>3 DEF EndsTerminal
<1> QED
  BY <1>5, <1>7, <1>8, <1>9, <1>10, <1>11 DEF EventInv

\* scanSSE: the event at the head of the wire is the next one to deliver.
LEMMA ScanKeeps == ASSUME EventInv, ScanSSE PROVE EventInv'
<1> DEFINE e == Head(wire)
<1>1. /\ client.at = "reading" /\ wire # <<>> /\ wire' = Tail(wire)
      /\ UNCHANGED <<logKind, log, bindings, stream, raced, worker, tail, output>>
  BY DEF ScanSSE
<1>2. /\ wire \in Seq(StreamEvent \cup Comments) /\ delivered \in Seq(StreamEvent)
      /\ client \in [at: {"idle", "reading", "complete", "failed"}, last: [gen: Nat, seq: Nat],
             attempt: Nat]
      /\ Len(delivered) \in Nat /\ DOMAIN delivered = 1 .. Len(delivered)
  BY DEF EventInv, EventTypeOK
<1>3. /\ wire' \in Seq(StreamEvent \cup Comments) /\ Len(wire') = Len(wire) - 1
      /\ Len(wire) \in Nat \ {0}
      /\ DOMAIN wire' = 1 .. Len(wire) - 1 /\ DOMAIN wire = 1 .. Len(wire)
      /\ \A i \in 1 .. Len(wire) - 1 : wire'[i] = wire[i + 1]
      /\ InSeq(wire') \subseteq InSeq(wire)
      /\ e = wire[1] /\ e \in InSeq(wire) /\ e \in StreamEvent \cup Comments
  BY <1>1, <1>2, TailOf
<1> HIDE DEF e
<1>4. CASE e \in Comments
  <2>1. Len(wire) = 1 /\ output = <<>> /\ tail.at = "off"
    BY <1>3, <1>4 DEF EventInv, CommentsLast
  <2>2. wire' = <<>>
    BY <2>1, <1>3, EmptyLen
  <2>3. /\ client'.at \in {"complete", "failed"} /\ client'.last = client.last /\ delivered' = delivered
        /\ client' \in [at: {"idle", "reading", "complete", "failed"}, last: [gen: Nat, seq: Nat],
               attempt: Nat]
        /\ client'.at = "complete" => e = CompleteComment
    <3>1. CASE e = CompleteComment
      <4>1. client' = [client EXCEPT !.at = "complete"] /\ delivered' = delivered
        BY <3>1, CommentsApart DEF ScanSSE, e
      <4> QED
        BY <4>1, <3>1, <1>2
    <3>2. CASE e = ErrorEvent("not_found")
      <4>1. client' = [client EXCEPT !.at = "failed"] /\ delivered' = delivered
        BY <3>2, CommentsApart DEF ScanSSE, e
      <4> QED
        BY <4>1, <1>2
    <3> QED
      BY <3>1, <3>2, <1>4 DEF Comments
  <2>4. EventTypeOK' /\ LogNumbered'
    BY <1>1, <1>3, <2>3 DEF EventInv, EventTypeOK, LogNumbered, Repeated
  <2>5. Taken' \subseteq Taken
    BY <1>1, <1>3, <2>3 DEF Taken, InSeq
  <2>6. OneGeneration' /\ StillStored'
    BY <1>1, <2>5, TakenKept
  <2>7. CommentsLast' /\ Numbered'
    BY <1>1, <2>1, <2>2, <2>3 DEF EventInv, CommentsLast, Numbered
  <2>8. Cursors' /\ Connected'
    BY <1>1, <2>1, <2>2, <2>3 DEF EventInv, Cursors, Connected
  <2>9. EndsTerminal'
    <3>1. e = CompleteComment => delivered # <<>> /\ Terminal(delivered[Len(delivered)])
      <4>1. 1 \in DOMAIN wire /\ wire[1] = e
        BY <1>3
      <4>2. ASSUME NEW i \in DOMAIN wire, wire[i] = CompleteComment, i = 1
            PROVE  delivered # <<>> /\ Terminal(delivered[Len(delivered)])
        BY <4>2 DEF EventInv, EndsTerminal
      <4> QED
        BY <4>1, <4>2
    <3> QED
      BY <3>1, <1>1, <2>1, <2>2, <2>3 DEF EndsTerminal, Terminal
  <2> QED
    BY <2>4, <2>6, <2>7, <2>8, <2>9 DEF EventInv
<1>5. CASE e \notin Comments
  <2>1. e \in StreamEvent /\ e.seq = Len(delivered) + 1 /\ e \in Taken
    BY <1>3, <1>5 DEF EventInv, Numbered, Taken
  <2>2. /\ Cursor(e) \in [gen: Nat, seq: Nat] /\ Cursor(e).seq = e.seq /\ Cursor(e).gen = e.gen
        /\ e.gen \in Nat \ {0}
    BY <2>1 DEF Cursor, StreamEvent
  <2>3. Cursor(e) # client.last
    BY <2>1, <2>2, <1>2 DEF EventInv, Cursors
  <2>4. client' = [client EXCEPT !.last = Cursor(e)] /\ delivered' = Append(delivered, e)
    <3>1. e # CompleteComment /\ e # ErrorEvent("not_found")
      BY <1>5 DEF Comments
    <3> QED
      BY <3>1, <2>3 DEF ScanSSE, e
  <2>5. /\ client' \in [at: {"idle", "reading", "complete", "failed"}, last: [gen: Nat, seq: Nat],
               attempt: Nat]
        /\ client'.at = "reading" /\ client'.last = Cursor(e)
    BY <2>2, <2>4, <1>1, <1>2
  <2>6. /\ delivered' \in Seq(StreamEvent) /\ Len(delivered') = Len(delivered) + 1
        /\ DOMAIN delivered' = 1 .. Len(delivered) + 1
        /\ \A i \in 1 .. Len(delivered) : delivered'[i] = delivered[i]
        /\ delivered'[Len(delivered) + 1] = e
        /\ InSeq(delivered') = InSeq(delivered) \cup {e} /\ delivered' # <<>>
    BY <2>1, <2>4, <1>2, AppendTo
  <2>7. EventTypeOK' /\ LogNumbered'
    BY <1>1, <1>3, <2>5, <2>6 DEF EventInv, EventTypeOK, LogNumbered, Repeated
  <2>8. Taken' \subseteq Taken
    <3>1. InSeq(output') = InSeq(output) /\ InSeq(tail'.events) = InSeq(tail.events)
      BY <1>1 DEF InSeq
    <3> QED
      BY <3>1, <1>3, <1>5, <2>6 DEF Taken
  <2>9. OneGeneration' /\ StillStored'
    BY <1>1, <2>8, TakenKept
  <2>10. CommentsLast'
    <3> SUFFICES ASSUME NEW i \in DOMAIN wire', wire'[i] \in Comments
                 PROVE  i = Len(wire') /\ output = <<>> /\ tail.at = "off"
      BY <1>1 DEF CommentsLast
    <3>1. i + 1 \in DOMAIN wire /\ wire[i + 1] = wire'[i]
      BY <1>3
    <3>2. i + 1 = Len(wire) /\ output = <<>> /\ tail.at = "off"
      BY <3>1 DEF EventInv, CommentsLast
    <3> QED
      BY <3>2, <1>3
  <2>11. Numbered'
    <3>1. \A i \in DOMAIN delivered' : delivered'[i].seq = i
      BY <2>1, <2>6, <1>2 DEF EventInv, Numbered
    <3>2. ASSUME NEW i \in DOMAIN wire', wire'[i] \notin Comments
          PROVE  wire'[i].seq = Len(delivered') + i
      <4>1. i + 1 \in DOMAIN wire /\ wire[i + 1] = wire'[i] /\ i \in Nat
        BY <1>3
      <4>2. wire[i + 1].seq = Len(delivered) + (i + 1)
        BY <3>2, <4>1 DEF EventInv, Numbered
      <4> QED
        BY <4>1, <4>2, <2>6, <1>2
    <3>3. Len(delivered') + Len(wire') = Len(delivered) + Len(wire)
      BY <1>2, <1>3, <2>6
    <3>4. \A i \in DOMAIN output' : output'[i].seq = Len(delivered') + Len(wire') + 1
      BY <3>3, <1>1 DEF EventInv, Numbered
    <3>5. \A i \in DOMAIN tail'.events : tail'.events[i].seq = tail'.after.seq + i
      BY <1>1 DEF EventInv, Numbered
    <3> QED
      BY <3>1, <3>2, <3>4, <3>5 DEF Numbered
  <2>12. Cursors'
    <3>1. /\ client'.last.seq = Len(delivered') /\ client'.last.gen # 0
          /\ client'.last = Cursor(delivered'[Len(delivered')])
      BY <2>1, <2>2, <2>5, <2>6
    <3>2. ASSUME tail'.at # "off" PROVE tail'.after.seq = Forwarded'
      <4>1. tail.after.seq = Forwarded
        BY <3>2, <1>1 DEF EventInv, Cursors, Behind
      <4>2. Forwarded' = Forwarded
        BY <1>1, <1>2, <1>3, <2>6, LastSentTaken, <3>2 DEF Forwarded
      <4> QED
        BY <4>1, <4>2, <1>1
    <3> QED
      BY <3>1, <3>2, <2>6, <2>8, <1>1 DEF EventInv, Cursors
  <2>13. Connected'
    BY <1>1, <2>5 DEF EventInv, Connected
  <2>14. EndsTerminal'
    <3>1. ASSUME tail'.at = "closed" PROVE Forwarded' > 0 /\ Terminal(LastSent')
      <4>1. tail.at = "closed" /\ Forwarded > 0 /\ Terminal(LastSent)
        BY <3>1, <1>1 DEF EventInv, EndsTerminal
      <4>2. Forwarded' = Forwarded
        BY <1>1, <1>2, <1>3, <2>6, LastSentTaken, <4>1 DEF Forwarded
      <4>3. LastSent' = LastSent
        <5>1. CASE output # <<>>
          BY <5>1, <1>1 DEF LastSent
        <5>2. CASE output = <<>> /\ wire' # <<>>
          <6>1. Len(wire') # 0
            BY <5>2, <1>3, EmptyLen
          <6>2. wire'[Len(wire')] = wire[Len(wire)]
            BY <6>1, <1>3
          <6> QED
            BY <5>2, <6>2, <1>1 DEF LastSent
        <5>3. CASE output = <<>> /\ wire' = <<>>
          <6>1. Len(wire) = 1
            BY <5>3, <1>3
          <6>2. delivered'[Len(delivered')] = wire[Len(wire)]
            BY <6>1, <1>3, <2>6
          <6> QED
            BY <5>3, <6>2, <1>1 DEF LastSent
        <5> QED
          BY <5>1, <5>2, <5>3
      <4> QED
        BY <4>1, <4>2, <4>3
    <3>2. ASSUME NEW i \in DOMAIN wire', wire'[i] = CompleteComment
          PROVE  \/ i > 1 /\ Terminal(wire'[i - 1])
                 \/ i = 1 /\ Terminal(delivered'[Len(delivered')])
      <4>1. i + 1 \in DOMAIN wire /\ wire[i + 1] = wire'[i] /\ i \in Nat \ {0} /\ i <= Len(wire) - 1
        BY <1>3
      <4>2. Terminal(wire[i])
        <5>1. ASSUME NEW j \in DOMAIN wire, wire[j] = CompleteComment, j # 1 PROVE Terminal(wire[j - 1])
          BY <5>1 DEF EventInv, EndsTerminal
        <5>2. Terminal(wire[(i + 1) - 1])
          BY <5>1, <4>1, <3>2
        <5>3. (i + 1) - 1 = i
          BY <4>1
        <5> QED
          BY <5>2, <5>3
      <4>3. CASE i = 1
        BY <4>2, <4>3, <1>3, <2>6
      <4>4. CASE i # 1
        <5>1. i - 1 \in 1 .. Len(wire) - 1 /\ wire'[i - 1] = wire[i] /\ i > 1
          BY <4>1, <4>4, <1>3
        <5> QED
          BY <5>1, <4>2
      <4> QED
        BY <4>3, <4>4
    <3> QED
      BY <3>1, <3>2, <2>5, <2>6 DEF EndsTerminal, Terminal
  <2> QED
    BY <2>7, <2>9, <2>10, <2>11, <2>12, <2>13, <2>14 DEF EventInv
<1> QED
  BY <1>4, <1>5

-----------------------------------------------------------------------------
\* Every step keeps the invariant.
LEMMA EventStep == EventInv /\ [EventNext]_eventVars => EventInv'
<1> SUFFICES ASSUME EventInv, [EventNext]_eventVars PROVE EventInv'
  OBVIOUS
<1>1. CASE Produce
  BY <1>1, EventAppendKeeps DEF Produce
<1>2. CASE Prune
  BY <1>2, PruneKeeps
<1>3. CASE Serve
  BY <1>3, TailKeeps, SendKeeps, ServeStreamKeeps, ServeEventKeeps, ServeEndKeeps DEF Serve
<1>4. CASE Follow
  BY <1>4, ConnectionKeeps, ScanKeeps DEF Follow
<1>5. CASE Reconnect
  BY <1>5, ConnectionKeeps
<1>6. CASE UNCHANGED eventVars
  <2>1. EventTypeOK' /\ LogNumbered'
    BY <1>6 DEF eventVars, EventInv, EventTypeOK, LogNumbered, Repeated
  <2>2. /\ Taken' = Taken
        /\ OneGeneration' /\ CommentsLast' /\ Numbered' /\ Cursors' /\ Connected' /\ EndsTerminal'
    <3>1. /\ raced \in BOOLEAN /\ raced' = raced /\ stream' = stream
          /\ tail.at = "rows" => raced \/ tail.after.seq = 0 \/ tail.after.gen = stream
      BY <1>6 DEF EventInv, EventTypeOK, Cursors, eventVars
    <3> QED
      BY <1>6, <3>1, ResponseKept DEF eventVars
  <2>3. StillStored'
    BY <1>6, <2>2, TakenKept DEF eventVars
  <2> QED
    BY <2>1, <2>2, <2>3 DEF EventInv
<1> QED
  BY <1>1, <1>2, <1>3, <1>4, <1>5, <1>6 DEF EventNext

\* However many workers append and repeat appends, however often the connection
\* breaks and the stream is pruned, for any limit of a batch, the caller of
\* StreamRunWithOptions gets the events in the order of their numbers, from the first
\* one on and without a gap, each key once in a generation of the stream, and a
\* stream that completes has delivered the terminal event.  Generations mix only when
\* the stream was pruned between the two queries of a List.
THEOREM DeliveryIsExact == EventSpec => []DeliveredExactly
<1>1. EventInv => DeliveredExactly
  <2> SUFFICES ASSUME EventInv PROVE DeliveredExactly
    OBVIOUS
  <2>1. \A i \in DOMAIN delivered : delivered[i].seq = i /\ delivered[i] \in Taken
    BY DEF EventInv, Numbered, Taken, InSeq
  <2>2. DOMAIN delivered = 1 .. Len(delivered) /\ Len(delivered) \in Nat
    BY DEF EventInv, EventTypeOK
  <2>3. \A i, j \in DOMAIN delivered :
           /\ i <= j => delivered[i].gen <= delivered[j].gen
           /\ delivered[i].gen = delivered[j].gen /\ delivered[i].key = delivered[j].key => i = j
           /\ raced \/ delivered[i].gen = delivered[j].gen
    BY <2>1 DEF EventInv, OneGeneration
  <2>4. \A i, j \in DOMAIN delivered : i < j => i <= j
    BY <2>2
  <2> QED
    BY <2>1, <2>3, <2>4 DEF DeliveredExactly, EventInv, EndsTerminal
<1> QED
  BY <1>1, EventStart, EventStep, PTL DEF EventSpec

-----------------------------------------------------------------------------
(***************************************************************************)
(* Streams: what a consumer reads of a run or of a batch.                  *)
(***************************************************************************)
\* What goes over the channel: an emitted event or an item's result, and the end.
Message == [from: Producers, nr: Nat \ {0},
            how: {"write", "remember", "dedupe", "block", "item"}, id: Nat]
Streamed == Message \cup {TerminalEvent("done"), TerminalEvent("interrupt"), TerminalEvent("error")}

StreamTypeOK ==
    /\ streamKind \in StreamKinds
    /\ node \in [Producers -> Nat]
    /\ held \in [Producers -> Message \cup {Nothing}]
    /\ fed \in 0 .. Items
    /\ owner \in {"running", "waiting", "done", "interrupt", "error", "closing", "closed", "panicked"}
    /\ got \in Seq(Streamed) /\ buf \in Seq(Streamed)
    /\ canceled \in BOOLEAN /\ left \in BOOLEAN
    /\ ChannelSize = 0 => buf = <<>>

\* A producer holds the event of its emission or the result of its item.
HeldOK(p) ==
    held[p] # Nothing =>
        /\ held[p].from = p /\ held[p].nr = node[p]
        /\ IF streamKind = "batch" THEN node[p] \in 1 .. Items
           ELSE /\ node[p] \in 1 .. Past(p) - 1
                /\ held[p].how = How(p, node[p]) /\ held[p].id = Emissions[p][node[p]].id
ProducerOK(p) ==
    /\ HeldOK(p)
    /\ streamKind # "batch" => /\ node[p] \in 1 .. Past(p)
                               /\ Abandoned \/ owner = "running" \/ node[p] = Past(p)
    /\ streamKind = "batch" => /\ node[p] \in 0 .. fed \cup {Gone}
                               /\ owner = "closed" => node[p] = Gone

\* The sent events are earlier ones of their producers, and the end is the last.
SentOK(e, i) ==
    /\ e.from = 0 => owner \in {"closing", "closed", "panicked"} /\ (Abandoned \/ i = Len(Sent))
    /\ e.from # 0 /\ streamKind # "batch" => e.nr < node[e.from]
    /\ e.from # 0 /\ streamKind = "batch" =>
           e.nr \in 1 .. fed /\ \A p \in Producers : node[p] # e.nr
    /\ e.from = 0 => streamKind # "batch"
    /\ streamKind = "graph" /\ e.how = "dedupe" =>
           /\ e.id \in seen
           /\ \A p \in Producers : held[p].how = "dedupe" => held[p].id # e.id

\* Two sent events differ, and those of one producer are in order.
InOrder(d, e) ==
    /\ Abandoned \/ d.from # 0
    /\ d # e
    /\ streamKind # "batch" /\ d.from = e.from => d.nr < e.nr
    /\ streamKind = "batch" => d.nr # e.nr
    /\ streamKind = "graph" => ~(d.how = "dedupe" /\ e.how = "dedupe" /\ d.id = e.id)

\* No two workers have the same item, and no two producers send the same message.
Apart(p, q) ==
    /\ streamKind = "batch" /\ node[p] \in 1 .. Items => node[p] # node[q]
    /\ streamKind = "graph" /\ held[p].how = "dedupe" /\ held[q].how = "dedupe"
          => held[p].id # held[q].id

\* Without a cancellation nothing is missed.
Carried(x) ==
    \/ x \in Known
    \/ \E i \in DOMAIN Sent : Sent[i].id = x /\ Sent[i].how # "block"
    \/ \E p \in Producers : held[p] # Nothing /\ held[p].id = x /\ held[p].how # "block"
Accounted(p, i) ==
    Selected(p, i) /\ (streamKind = "graph" => How(p, i) # "remember") =>
        \/ \E k \in DOMAIN Sent : Sent[k].from = p /\ Sent[k].nr = i
        \/ streamKind = "graph" /\ How(p, i) = "dedupe" /\ Emissions[p][i].id \in seen
Complete ==
    /\ streamKind = "graph" => \A x \in seen : Carried(x)
    /\ streamKind # "batch" =>
           /\ \A p \in Producers \ failed : \A i \in 1 .. node[p] - 1 : Accounted(p, i)
           /\ owner \in {"done", "interrupt", "error"} => outcome = owner
           /\ owner \in {"closing", "closed"} /\ (outcome # "done" \/ "done" \in modes) =>
                  Sent # <<>> /\ Sent[Len(Sent)].from = 0
    /\ streamKind = "batch" =>
           /\ \A k \in 1 .. fed : (\E p \in Producers : node[p] = k)
                \/ \E i \in DOMAIN Sent : Sent[i].nr = k
           /\ owner # "running" => fed = Items

OwnerOK ==
    /\ streamKind = "batch" => owner \in {"running", "waiting", "closed"}
    /\ streamKind # "batch" => owner # "waiting"
    /\ owner = "panicked" => Abandoned
    /\ Abandoned => owner # "running" /\ streamKind = "graph"
ProducersOK ==
    \A p \in Producers :
        /\ ProducerOK(p)
        /\ streamKind = "graph" /\ held[p].how = "dedupe" => held[p].id \in seen
ProducersApart == \A p, q \in Producers : p # q => Apart(p, q)
SentSound == \A i \in DOMAIN Sent : SentOK(Sent[i], i)
SentInOrder == \A i, j \in DOMAIN Sent : i < j => InOrder(Sent[i], Sent[j])

StreamInv ==
    /\ StreamTypeOK
    /\ OwnerOK
    /\ ProducersOK
    /\ ProducersApart
    /\ SentSound
    /\ SentInOrder
    /\ ~canceled /\ ~Abandoned => Complete

\* Emissions are emissions, with positions from 1.
LEMMA Emitted ==
    ASSUME NEW p \in Producers
    PROVE  /\ Past(p) \in Nat \ {0}
           /\ \A i \in 1 .. Past(p) - 1 :
                  /\ Emissions[p][i] \in Emission /\ i \in DOMAIN Emissions[p]
                  /\ How(p, i) \in {"write", "remember", "dedupe", "block"}
                  /\ Emissions[p][i].id \in Nat
                  /\ How(p, i) # "block" => Emissions[p][i].mode = "messages"
<1>1. Emissions[p] \in Seq(Emission)
  BY StreamAssumption
<1>2. Len(Emissions[p]) \in Nat /\ DOMAIN Emissions[p] = 1 .. Len(Emissions[p])
  BY <1>1
<1>3. \A i \in DOMAIN Emissions[p] : Emissions[p][i] \in Emission
  BY <1>1
<1> QED BY <1>2, <1>3 DEF Past, Emission, How

\* No message is the end or nothing.
LEMMA MessageFacts ==
    /\ 0 \notin Producers
    /\ Nothing.from = 0 /\ Nothing.how = "none" /\ Nothing \notin Message
    /\ \A h : TerminalEvent(h).from = 0 /\ TerminalEvent(h).how = h /\ TerminalEvent(h).nr = 0
    /\ \A m \in Message : /\ m.from \in Producers /\ m.from # 0 /\ m.nr \in Nat \ {0} /\ m.id \in Nat
                          /\ m.how \in {"write", "remember", "dedupe", "block", "item"}
                          /\ m \in Streamed
    /\ \A e \in Streamed : e.from # 0 => e \in Message
    /\ \A e \in Streamed : e.from = 0 => e.how \in {"done", "interrupt", "error"}
BY StreamAssumption DEF Nothing, TerminalEvent, Message, Streamed

\* What was sent stays, in its order.
LEMMA SentTyped == StreamTypeOK => Sent \in Seq(Streamed) /\ Len(Sent) \in Nat
  /\ DOMAIN Sent = 1 .. Len(Sent)
BY DEF StreamTypeOK, Sent

\* A step that leaves the channel and the consumer alone sends nothing.
LEMMA SentSame == ASSUME got' = got, buf' = buf PROVE Sent' = Sent
BY DEF Sent

\* What is put into the channel, or handed to the consumer, is the last event sent.
LEMMA PutSends ==
    ASSUME StreamTypeOK, NEW e \in Streamed, Put(e), UNCHANGED <<streamKind, left>>
    PROVE  /\ Sent' = Append(Sent, e)
           /\ got' \in Seq(Streamed) /\ buf' \in Seq(Streamed)
           /\ (ChannelSize = 0 => buf = <<>>)'
<1>1. ChannelSize' = ChannelSize
  BY DEF ChannelSize
<1>2. got \in Seq(Streamed) /\ buf \in Seq(Streamed)
  BY DEF StreamTypeOK
<1>3. CASE ChannelSize = 0
  <2>1. buf = <<>> /\ got' = Append(got, e) /\ buf' = buf
    BY <1>3 DEF Put, StreamTypeOK
  <2> QED BY <1>1, <1>2, <2>1 DEF Sent
<1>4. CASE ChannelSize # 0
  <2>1. got' = got /\ buf' = Append(buf, e)
    BY <1>4 DEF Put
  <2> QED BY <1>1, <1>2, <1>4, <2>1 DEF Sent
<1> QED BY <1>3, <1>4

\* The positions of a sequence with one more event.
LEMMA OneMore ==
    ASSUME NEW s \in Seq(Streamed), NEW e \in Streamed, NEW t, t = Append(s, e)
    PROVE  /\ Len(t) = Len(s) + 1 /\ Len(s) \in Nat /\ DOMAIN s = 1 .. Len(s)
           /\ DOMAIN t = DOMAIN s \cup {Len(s) + 1} /\ Len(s) + 1 \notin DOMAIN s
           /\ \A i \in DOMAIN s : t[i] = s[i] /\ s[i] \in Streamed /\ i < Len(s) + 1 /\ i \in Nat
           /\ t[Len(s) + 1] = e
OBVIOUS

\* The initial state.
LEMMA StreamStart == StreamInit => StreamInv
<1> SUFFICES ASSUME StreamInit PROVE StreamInv
  OBVIOUS
<1>1. Sent = <<>> /\ DOMAIN Sent = {}
  BY DEF StreamInit, Sent
<1>2. StreamTypeOK
  <2>1. node \in [Producers -> Nat] /\ held \in [Producers -> Message \cup {Nothing}]
    BY DEF StreamInit
  <2>2. got \in Seq(Streamed) /\ buf \in Seq(Streamed) /\ fed \in 0 .. Items
    BY StreamAssumption DEF StreamInit
  <2> QED BY <2>1, <2>2 DEF StreamInit, StreamTypeOK
<1>3. OwnerOK
  BY DEF StreamInit, OwnerOK, Abandoned
<1>4. ASSUME NEW p \in Producers
      PROVE  /\ ProducerOK(p) /\ held[p].how # "dedupe" /\ held[p] = Nothing
             /\ node[p] = IF streamKind = "batch" THEN 0 ELSE 1
  BY MessageFacts, Emitted, StreamAssumption DEF StreamInit, ProducerOK, HeldOK, Abandoned
<1>5. ProducersOK /\ ProducersApart
  BY <1>4 DEF ProducersOK, ProducersApart, Apart
<1>6. SentSound /\ SentInOrder
  BY <1>1 DEF SentSound, SentInOrder
<1>7. Complete
  BY <1>4, StreamAssumption DEF Complete, StreamInit
<1> QED BY <1>2, <1>3, <1>5, <1>6, <1>7 DEF StreamInv

\* What an emitting producer is about to emit.
LEMMA EmittingFacts ==
    ASSUME StreamInv, NEW p \in Producers, Emitting(p)
    PROVE  /\ streamKind # "batch" /\ (Abandoned \/ owner = "running") /\ held[p] = Nothing
           /\ node[p] \in 1 .. Past(p) - 1 /\ Past(p) \in Nat \ {0}
           /\ Event(p) \in Message /\ Event(p) # Nothing
           /\ Event(p).from = p /\ Event(p).nr = node[p]
           /\ Event(p).how = How(p, node[p]) /\ Event(p).id = Emissions[p][node[p]].id
<1>1. /\ streamKind # "batch" /\ held[p] = Nothing /\ node[p] < Past(p)
      /\ ProducerOK(p) /\ node[p] \in Nat
  BY DEF StreamInv, StreamTypeOK, ProducersOK, Emitting
<1>2. Past(p) \in Nat \ {0}
  BY Emitted
<1>3. node[p] \in 1 .. Past(p) - 1 /\ (Abandoned \/ owner = "running")
  BY <1>1, <1>2 DEF ProducerOK, Abandoned
<1>4. /\ How(p, node[p]) \in {"write", "remember", "dedupe", "block"}
      /\ Emissions[p][node[p]].id \in Nat
  BY <1>3, Emitted
<1>5. Event(p) = [from |-> p, nr |-> node[p], how |-> How(p, node[p]), id |-> Emissions[p][node[p]].id]
  BY DEF Event, How
<1>6. Event(p) \in Message
  BY <1>1, <1>3, <1>4, <1>5 DEF Message
<1> QED BY <1>1, <1>2, <1>3, <1>5, <1>6, MessageFacts

\* An emission that is not sent: its mode is not selected, or its identity is known.
LEMMA SkipKeeps ==
    ASSUME StreamInv, NEW p \in Producers, Emitting(p),
           node' = [node EXCEPT ![p] = @ + 1],
           UNCHANGED <<streamKind, modes, outcome, held, failed, fed, owner, buf, got, canceled, left>>,
           seen \subseteq seen',
           streamKind = "graph" => \A x \in seen' \ seen : x \in Known,
           Selected(p, node[p]) =>
               /\ streamKind = "graph" /\ How(p, node[p]) \in {"remember", "dedupe"}
               /\ Emissions[p][node[p]].id \in seen'
    PROVE  StreamInv'
<1>1. /\ streamKind # "batch" /\ (Abandoned \/ owner = "running") /\ held[p] = Nothing
      /\ node[p] \in 1 .. Past(p) - 1 /\ Past(p) \in Nat \ {0}
  BY EmittingFacts
<1>2. /\ Sent' = Sent /\ Sent \in Seq(Streamed) /\ DOMAIN Sent = 1 .. Len(Sent)
      /\ \A i \in DOMAIN Sent : Sent[i] \in Streamed
  BY SentSame, SentTyped DEF StreamInv
<1>3. node \in [Producers -> Nat] /\ ChannelSize' = ChannelSize
  BY DEF StreamInv, StreamTypeOK, ChannelSize
<1>4. StreamTypeOK'
  BY <1>3 DEF StreamInv, StreamTypeOK
<1>5. OwnerOK'
  BY DEF StreamInv, OwnerOK, Abandoned
<1>6. \A q \in Producers : node'[q] = IF q = p THEN node[p] + 1 ELSE node[q]
  BY <1>3
<1>7. ASSUME NEW q \in Producers PROVE HeldOK(q)' /\ ProducerOK(q)'
  <2>1. ProducerOK(q) /\ HeldOK(q)
    BY DEF StreamInv, ProducersOK, ProducerOK, Abandoned
  <2>2. HeldOK(q)'
    BY <1>1, <1>6, <2>1 DEF HeldOK
  <2> QED BY <1>1, <1>6, <2>1, <2>2 DEF ProducerOK, Abandoned
<1>8. ProducersOK'
  BY <1>7 DEF StreamInv, ProducersOK
<1>9. ProducersApart'
  BY <1>1 DEF StreamInv, ProducersApart, Apart
<1>10. SentSound'
  <2> SUFFICES ASSUME NEW i \in DOMAIN Sent PROVE SentOK(Sent[i], i)'
    BY <1>2 DEF SentSound
  <2>1. SentOK(Sent[i], i) /\ Sent[i] \in Streamed
    BY <1>2 DEF StreamInv, SentSound
  <2>2. Sent[i].from # 0 => Sent[i].from \in Producers /\ Sent[i].nr \in Nat
    BY <2>1, MessageFacts
  <2> QED BY <1>1, <1>2, <1>3, <1>6, <2>1, <2>2 DEF SentOK, Abandoned
<1>11. SentInOrder'
  BY <1>2 DEF StreamInv, SentInOrder, InOrder, Abandoned
<1>12. ASSUME ~canceled', ~Abandoned' PROVE Complete'
  <2>1. Complete
    BY <1>12 DEF StreamInv, Abandoned
  <2>2. \A x : Carried(x) => Carried(x)'
    BY <1>2 DEF Carried, Known
  <2>3. streamKind = "graph" => \A x \in seen' : Carried(x)'
    BY <2>1, <2>2 DEF Complete, Carried, Known
  <2>4. ASSUME NEW q \in Producers \ failed, NEW i \in 1 .. node'[q] - 1
        PROVE  Accounted(q, i)'
    <3>1. CASE q = p /\ i = node[p]
      BY <3>1 DEF Accounted, Selected, How
    <3>2. CASE ~(q = p /\ i = node[p])
      <4>1. i \in 1 .. node[q] - 1
        BY <1>1, <1>3, <1>6, <3>2
      <4>2. Accounted(q, i)
        BY <1>1, <2>1, <4>1 DEF Complete
      <4> QED BY <1>2, <4>2 DEF Accounted, Selected, How
    <3> QED BY <3>1, <3>2
  <2> QED BY <1>1, <1>2, <2>1, <2>3, <2>4 DEF Complete
<1> QED BY <1>4, <1>5, <1>8, <1>9, <1>10, <1>11, <1>12 DEF StreamInv

\* An emission that is to be sent: its identity was not known, if it matters.
LEMMA SendStarts ==
    ASSUME StreamInv, NEW p \in Producers, Emitting(p),
           held' = [held EXCEPT ![p] = Event(p)],
           UNCHANGED <<streamKind, modes, outcome, node, failed, fed, owner, buf, got, canceled, left>>,
           seen \subseteq seen',
           streamKind = "graph" =>
               /\ \A x \in seen' \ seen : x = Emissions[p][node[p]].id /\ How(p, node[p]) # "block"
               /\ How(p, node[p]) = "dedupe" => Emissions[p][node[p]].id \in seen' \ seen
    PROVE  StreamInv'
<1>1. /\ streamKind # "batch" /\ (Abandoned \/ owner = "running") /\ held[p] = Nothing
      /\ node[p] \in 1 .. Past(p) - 1 /\ Past(p) \in Nat \ {0}
      /\ Event(p) \in Message /\ Event(p) # Nothing
      /\ Event(p).from = p /\ Event(p).nr = node[p]
      /\ Event(p).how = How(p, node[p]) /\ Event(p).id = Emissions[p][node[p]].id
  BY EmittingFacts
<1>2. /\ Sent' = Sent /\ Sent \in Seq(Streamed) /\ DOMAIN Sent = 1 .. Len(Sent)
      /\ \A i \in DOMAIN Sent : Sent[i] \in Streamed
  BY SentSame, SentTyped DEF StreamInv
<1>3. held \in [Producers -> Message \cup {Nothing}] /\ ChannelSize' = ChannelSize
  BY DEF StreamInv, StreamTypeOK, ChannelSize
<1>4. StreamTypeOK'
  BY <1>1, <1>3 DEF StreamInv, StreamTypeOK
<1>5. OwnerOK'
  BY DEF StreamInv, OwnerOK, Abandoned
<1>6. \A q \in Producers : held'[q] = IF q = p THEN Event(p) ELSE held[q]
  BY <1>3
<1>7. ASSUME NEW q \in Producers PROVE ProducerOK(q)'
  <2>1. ProducerOK(q) /\ HeldOK(q)
    BY DEF StreamInv, ProducersOK, ProducerOK, Abandoned
  <2>2. HeldOK(q)'
    BY <1>1, <1>6, <2>1 DEF HeldOK, How
  <2> QED BY <1>1, <2>1, <2>2 DEF ProducerOK, Abandoned
<1>8. ProducersOK'
  <2>1. ASSUME NEW q \in Producers, streamKind = "graph", held'[q].how = "dedupe"
        PROVE  held'[q].id \in seen'
    BY <1>1, <1>6, <2>1 DEF StreamInv, ProducersOK
  <2> QED BY <1>7, <2>1 DEF ProducersOK
<1>9. ASSUME NEW q \in Producers, streamKind = "graph", held[q].how = "dedupe",
             How(p, node[p]) = "dedupe"
      PROVE  held[q].id # Emissions[p][node[p]].id
  BY <1>9 DEF StreamInv, ProducersOK
<1>10. ProducersApart'
  <2> SUFFICES ASSUME NEW q \in Producers, NEW r \in Producers, q # r PROVE Apart(q, r)'
    BY DEF ProducersApart
  <2>1. Apart(q, r)
    BY DEF StreamInv, ProducersApart
  <2> QED BY <1>1, <1>6, <1>9, <2>1 DEF Apart
<1>11. SentSound'
  <2> SUFFICES ASSUME NEW i \in DOMAIN Sent PROVE SentOK(Sent[i], i)'
    BY <1>2 DEF SentSound
  <2>1. SentOK(Sent[i], i) /\ Sent[i] \in Streamed
    BY <1>2 DEF StreamInv, SentSound
  <2>2. ASSUME streamKind = "graph", Sent[i].how = "dedupe"
        PROVE  /\ Sent[i].id \in seen'
               /\ \A q \in Producers : held'[q].how = "dedupe" => held'[q].id # Sent[i].id
    BY <1>1, <1>6, <2>1, <2>2 DEF SentOK, Abandoned
  <2> QED BY <1>2, <2>1, <2>2 DEF SentOK, Abandoned
<1>12. SentInOrder'
  BY <1>2 DEF StreamInv, SentInOrder, InOrder, Abandoned
<1>13. ASSUME ~canceled', ~Abandoned' PROVE Complete'
  <2>1. Complete
    BY <1>13 DEF StreamInv, Abandoned
  <2>2. ASSUME NEW x, Carried(x) PROVE Carried(x)'
    <3>1. CASE x \in Known
      BY <3>1 DEF Carried, Known
    <3>2. CASE \E i \in DOMAIN Sent : Sent[i].id = x /\ Sent[i].how # "block"
      BY <1>2, <3>2 DEF Carried
    <3>3. CASE \E q \in Producers : held[q] # Nothing /\ held[q].id = x /\ held[q].how # "block"
      BY <1>1, <1>6, <3>3 DEF Carried
    <3> QED BY <2>2, <3>1, <3>2, <3>3 DEF Carried
  <2>3. ASSUME streamKind = "graph", NEW x \in seen' PROVE Carried(x)'
    <3>1. CASE x \in seen
      BY <2>1, <2>2, <2>3, <3>1 DEF Complete
    <3>2. CASE x \notin seen
      <4>1. held'[p] # Nothing /\ held'[p].id = x /\ held'[p].how # "block"
        BY <1>1, <1>6, <2>3, <3>2
      <4> QED BY <4>1 DEF Carried
    <3> QED BY <3>1, <3>2
  <2>4. ASSUME NEW q \in Producers \ failed, NEW i \in 1 .. node[q] - 1
        PROVE  Accounted(q, i)'
    <3>1. Accounted(q, i)
      BY <1>1, <2>1 DEF Complete
    <3> QED BY <1>2, <3>1 DEF Accounted, Selected, How
  <2> QED BY <1>1, <1>2, <2>1, <2>3, <2>4 DEF Complete
<1> QED BY <1>4, <1>5, <1>8, <1>10, <1>11, <1>12, <1>13 DEF StreamInv

\* emit: the lookup and the record of a message's identity.
LEMMA EmitKeeps == ASSUME StreamInv, NEW p \in Producers, Emit(p) PROVE StreamInv'
<1>1. /\ Emitting(p)
      /\ UNCHANGED <<streamKind, modes, outcome, failed, fed, owner, buf, got, canceled, left>>
  BY DEF Emit
<1>2. /\ node[p] \in 1 .. Past(p) - 1 /\ Event(p).how = How(p, node[p])
      /\ Event(p).id = Emissions[p][node[p]].id
  BY <1>1, EmittingFacts
<1>3. /\ Emissions[p][node[p]] \in Emission /\ node[p] \in DOMAIN Emissions[p]
      /\ How(p, node[p]) # "block" => Emissions[p][node[p]].mode = "messages"
  BY <1>2, Emitted
<1>4. How(p, node[p]) = "remember" => Emissions[p][node[p]].id \in Known
  BY <1>3 DEF Known, How, ToSet
<1>5. CASE ~Selected(p, node[p])
  <2>1. node' = [node EXCEPT ![p] = @ + 1] /\ held' = held /\ seen' = seen
    BY <1>5 DEF Emit, Selected
  <2> QED BY <1>1, <1>5, <2>1, SkipKeeps
<1>6. CASE Selected(p, node[p]) /\ ~(streamKind = "graph" /\ How(p, node[p]) # "block")
  <2>1. held' = [held EXCEPT ![p] = Event(p)] /\ node' = node /\ seen' = seen
    BY <1>2, <1>6 DEF Emit, Selected
  <2> QED BY <1>1, <1>6, <2>1, SendStarts
<1>7. CASE Selected(p, node[p]) /\ streamKind = "graph" /\ How(p, node[p]) # "block"
  <2>1. seen' = seen \cup {Emissions[p][node[p]].id}
    BY <1>2, <1>3, <1>7 DEF Emit, Selected, Record
  <2>2. CASE How(p, node[p]) = "remember" \/ (How(p, node[p]) = "dedupe"
          /\ Emissions[p][node[p]].id \in seen)
    <3>1. node' = [node EXCEPT ![p] = @ + 1] /\ held' = held
      BY <1>2, <1>3, <1>7, <2>2 DEF Emit, Selected
    <3> QED BY <1>1, <1>4, <2>1, <2>2, <1>7, <3>1, SkipKeeps
  <2>3. CASE ~(How(p, node[p]) = "remember" \/ (How(p, node[p]) = "dedupe"
          /\ Emissions[p][node[p]].id \in seen))
    <3>1. held' = [held EXCEPT ![p] = Event(p)] /\ node' = node
      BY <1>2, <1>3, <1>7, <2>3 DEF Emit, Selected
    <3> QED BY <1>1, <1>7, <2>1, <2>3, <3>1, SendStarts
  <2> QED BY <2>2, <2>3
<1> QED BY <1>5, <1>6, <1>7

\* A producer ends: its node fails, or it gives up the event that it holds once the
\* context is cancelled.
LEMMA EndsKeeps ==
    ASSUME StreamInv, NEW p \in Producers, streamKind # "batch", node[p] < Past(p),
           node' = [node EXCEPT ![p] = Past(p)],
           held' = [held EXCEPT ![p] = Nothing],
           failed' = failed \cup {p},
           held[p] = Nothing \/ canceled,
           UNCHANGED <<streamKind, modes, outcome, seen, fed, owner, buf, got, canceled, left>>
    PROVE  StreamInv'
<1>1. /\ Past(p) \in Nat \ {0} /\ node[p] \in Nat /\ ProducerOK(p)
      /\ Abandoned \/ owner = "running"
  BY Emitted DEF StreamInv, StreamTypeOK, ProducersOK, ProducerOK, Abandoned
<1>2. /\ Sent' = Sent /\ Sent \in Seq(Streamed) /\ DOMAIN Sent = 1 .. Len(Sent)
      /\ \A i \in DOMAIN Sent : Sent[i] \in Streamed
  BY SentSame, SentTyped DEF StreamInv
<1>3. /\ node \in [Producers -> Nat] /\ ChannelSize' = ChannelSize
      /\ held \in [Producers -> Message \cup {Nothing}]
  BY DEF StreamInv, StreamTypeOK, ChannelSize
<1>4. StreamTypeOK'
  BY <1>1, <1>3 DEF StreamInv, StreamTypeOK
<1>5. OwnerOK'
  BY DEF StreamInv, OwnerOK, Abandoned
<1>6. \A q \in Producers : /\ node'[q] = IF q = p THEN Past(p) ELSE node[q]
                           /\ held'[q] = IF q = p THEN Nothing ELSE held[q]
  BY <1>3
<1>7. ASSUME NEW q \in Producers PROVE ProducerOK(q)'
  <2>1. ProducerOK(q) /\ HeldOK(q)
    BY DEF StreamInv, ProducersOK, ProducerOK, Abandoned
  <2>2. HeldOK(q)'
    BY <1>1, <1>6, <2>1 DEF HeldOK
  <2> QED BY <1>1, <1>6, <2>1, <2>2 DEF ProducerOK, Abandoned
<1>8. ProducersOK'
  BY <1>6, <1>7, MessageFacts DEF StreamInv, ProducersOK
<1>9. ProducersApart'
  BY <1>6, MessageFacts DEF StreamInv, ProducersApart, Apart
<1>10. SentSound'
  <2> SUFFICES ASSUME NEW i \in DOMAIN Sent PROVE SentOK(Sent[i], i)'
    BY <1>2 DEF SentSound
  <2>1. SentOK(Sent[i], i) /\ Sent[i] \in Streamed
    BY <1>2 DEF StreamInv, SentSound
  <2>2. Sent[i].from # 0 => Sent[i].from \in Producers /\ Sent[i].nr \in Nat
    BY <2>1, MessageFacts
  <2>3. Sent[i].from # 0 => Sent[i].nr < node'[Sent[i].from]
    BY <1>1, <1>3, <1>6, <2>1, <2>2 DEF SentOK, Abandoned
  <2>4. ASSUME NEW q \in Producers, held'[q].how = "dedupe", streamKind = "graph", Sent[i].how = "dedupe"
        PROVE  held'[q].id # Sent[i].id
    BY <1>6, <2>1, <2>4, MessageFacts DEF SentOK, Abandoned
  <2> QED BY <1>1, <1>2, <2>1, <2>3, <2>4 DEF SentOK, Abandoned
<1>11. SentInOrder'
  BY <1>2 DEF StreamInv, SentInOrder, InOrder, Abandoned
<1>12. ASSUME ~canceled', ~Abandoned' PROVE Complete'
  <2>1. Complete /\ held[p] = Nothing
    BY <1>12 DEF StreamInv, Abandoned
  <2>2. held' = held
    BY <1>3, <2>1
  <2>3. \A x : Carried(x) => Carried(x)'
    BY <1>2, <2>2 DEF Carried, Known
  <2>4. ASSUME NEW q \in Producers \ failed', NEW i \in 1 .. node'[q] - 1
        PROVE  Accounted(q, i)'
    <3>1. q \in Producers \ failed /\ i \in 1 .. node[q] - 1
      BY <1>6
    <3>2. Accounted(q, i)
      BY <2>1, <3>1 DEF Complete
    <3> QED BY <1>2, <3>2 DEF Accounted, Selected, How
  <2> QED BY <1>1, <1>2, <2>1, <2>3, <2>4 DEF Complete
<1> QED BY <1>4, <1>5, <1>8, <1>9, <1>10, <1>11, <1>12 DEF StreamInv

\* The node of a producer fails.
LEMMA FailKeeps == ASSUME StreamInv, NEW p \in Producers, Fail(p) PROVE StreamInv'
<1>1. held \in [Producers -> Message \cup {Nothing}]
  BY DEF StreamInv, StreamTypeOK
<1>2. held[p] = Nothing /\ streamKind # "batch" /\ node[p] < Past(p)
  BY DEF Fail, Emitting
<1>3. held' = [held EXCEPT ![p] = Nothing]
  BY <1>1, <1>2 DEF Fail
<1> QED BY <1>2, <1>3, EndsKeeps DEF Fail

\* The worker of a batch moves on: it gets an item, has its result, gives it up or ends.
LEMMA WorkerKeeps ==
    ASSUME StreamInv, NEW p \in Producers, streamKind = "batch", owner # "closed",
           NEW n \in Nat, NEW h \in Message \cup {Nothing},
           node' = [node EXCEPT ![p] = n],
           held' = [held EXCEPT ![p] = h],
           fed' \in {fed, fed + 1}, fed' <= Items,
           n \in {node[p], Gone} \/ (n = fed + 1 /\ fed' = n),
           fed' = fed \/ (n = fed + 1 /\ owner = "running"),
           h # Nothing => n = node[p] /\ n \in 1 .. Items /\ h.from = p /\ h.nr = n,
           canceled \/ node[p] = 0 \/ n = node[p],
           UNCHANGED <<streamKind, modes, outcome, seen, owner, buf, got, canceled, left>>
    PROVE  StreamInv'
<1>1. /\ node \in [Producers -> Nat] /\ ChannelSize' = ChannelSize
      /\ held \in [Producers -> Message \cup {Nothing}] /\ fed \in 0 .. Items /\ Items \in Nat
      /\ Gone = Items + 1
  BY StreamAssumption DEF StreamInv, StreamTypeOK, ChannelSize, Gone
<1>2. /\ Sent' = Sent /\ Sent \in Seq(Streamed) /\ DOMAIN Sent = 1 .. Len(Sent)
      /\ \A i \in DOMAIN Sent : Sent[i] \in Streamed
  BY SentSame, SentTyped DEF StreamInv
<1>3. StreamTypeOK'
  BY <1>1 DEF StreamInv, StreamTypeOK
<1>4. OwnerOK'
  BY DEF StreamInv, OwnerOK, Abandoned
<1>5. \A q \in Producers : /\ node'[q] = IF q = p THEN n ELSE node[q]
                           /\ held'[q] = IF q = p THEN h ELSE held[q]
  BY <1>1
<1>6. \A q \in Producers : node[q] \in 0 .. fed \cup {Gone}
  BY DEF StreamInv, ProducersOK, ProducerOK, Abandoned
<1>7. ASSUME NEW q \in Producers PROVE ProducerOK(q)'
  <2>1. ProducerOK(q) /\ HeldOK(q)
    BY DEF StreamInv, ProducersOK, ProducerOK, Abandoned
  <2>2. HeldOK(q)'
    BY <1>5, <2>1 DEF HeldOK
  <2>3. node'[q] \in 0 .. fed' \cup {Gone}
    BY <1>1, <1>5, <1>6
  <2> QED BY <1>1, <2>2, <2>3 DEF ProducerOK, Gone, Abandoned
<1>8. ProducersOK'
  BY <1>7 DEF ProducersOK
<1>9. ProducersApart'
  <2> SUFFICES ASSUME NEW q \in Producers, NEW r \in Producers, q # r, node'[q] \in 1 .. Items
               PROVE  node'[q] # node'[r]
    BY DEF ProducersApart, Apart
  <2>1. /\ node[q] \in 1 .. Items => node[q] # node[r]
        /\ node[r] \in 1 .. Items => node[r] # node[q]
    BY DEF StreamInv, ProducersApart, Apart
  <2> QED BY <1>1, <1>5, <1>6, <2>1
<1>10. SentSound'
  <2> SUFFICES ASSUME NEW i \in DOMAIN Sent PROVE SentOK(Sent[i], i)'
    BY <1>2 DEF SentSound
  <2>1. SentOK(Sent[i], i) /\ Sent[i] \in Streamed
    BY <1>2 DEF StreamInv, SentSound
  <2>2. Sent[i].from # 0 /\ Sent[i].nr \in 1 .. fed /\ \A q \in Producers : node[q] # Sent[i].nr
    BY <2>1 DEF SentOK, Abandoned
  <2>3. Sent[i].nr \in 1 .. fed' /\ \A q \in Producers : node'[q] # Sent[i].nr
    BY <1>1, <1>5, <2>2
  <2> QED BY <1>2, <2>2, <2>3 DEF SentOK, Abandoned
<1>11. SentInOrder'
  BY <1>2 DEF StreamInv, SentInOrder, InOrder, Abandoned
<1>12. ASSUME ~canceled', ~Abandoned' PROVE Complete'
  <2>1. Complete
    BY <1>12 DEF StreamInv, Abandoned
  <2>2. ASSUME NEW k \in 1 .. fed'
        PROVE  (\E q \in Producers : node'[q] = k) \/ \E i \in DOMAIN Sent : Sent[i].nr = k
    <3>1. CASE k = fed + 1 /\ fed' = fed + 1
      <4>1. node'[p] = k
        BY <1>1, <1>5, <3>1
      <4> QED BY <4>1
    <3>2. CASE ~(k = fed + 1 /\ fed' = fed + 1)
      <4>1. k \in 1 .. fed
        BY <1>1, <3>2
      <4>2. (\E q \in Producers : node[q] = k) \/ \E i \in DOMAIN Sent : Sent[i].nr = k
        BY <2>1, <4>1 DEF Complete
      <4>3. ASSUME NEW q \in Producers, node[q] = k PROVE node'[q] = k
        BY <1>1, <1>5, <1>12, <4>1, <4>3
      <4> QED BY <4>2, <4>3
    <3> QED BY <3>1, <3>2
  <2> QED BY <1>2, <2>1, <2>2 DEF Complete
<1> QED BY <1>3, <1>4, <1>8, <1>9, <1>10, <1>11, <1>12 DEF StreamInv

\* GiveUp: emit returns the context's error, or the worker of a batch returns.
LEMMA GiveUpKeeps == ASSUME StreamInv, NEW p \in Producers, GiveUp(p) PROVE StreamInv'
<1>1. HeldOK(p) /\ held[p] # Nothing /\ canceled /\ ProducerOK(p)
  BY DEF StreamInv, ProducersOK, ProducerOK, GiveUp, Abandoned
<1>2. CASE streamKind # "batch"
  <2>1. node[p] < Past(p) /\ Past(p) \in Nat
    BY <1>1, <1>2, Emitted DEF HeldOK
  <2>2. node' = [node EXCEPT ![p] = Past(p)]
    BY <1>2 DEF GiveUp
  <2> QED BY <1>1, <1>2, <2>1, <2>2, EndsKeeps DEF GiveUp
<1>3. CASE streamKind = "batch"
  <2>1. node[p] \in 1 .. Items /\ owner # "closed" /\ Gone \in Nat /\ fed \in 0 .. Items /\ Items \in Nat
    BY <1>1, <1>3, StreamAssumption DEF HeldOK, ProducerOK, Gone, StreamInv, StreamTypeOK, Abandoned
  <2>2. node' = [node EXCEPT ![p] = Gone] /\ held' = [held EXCEPT ![p] = Nothing]
    BY <1>3 DEF GiveUp, Gone
  <2>3. /\ fed' = fed
        /\ UNCHANGED <<streamKind, modes, outcome, seen, owner, buf, got, canceled, left>>
    BY DEF GiveUp
  <2>4. /\ Nothing \in Message \cup {Nothing} /\ fed' \in {fed, fed + 1} /\ fed' <= Items
        /\ Gone \in {node[p], Gone}
    BY <2>1, <2>3
  <2> QED BY ONLY StreamInv, p \in Producers, <1>1, <1>3, <2>1, <2>2, <2>3, <2>4, WorkerKeeps
<1> QED BY <1>2, <1>3

\* A batch: an item is handed out, an item ends, a worker returns.
LEMMA FeedKeeps == ASSUME StreamInv, NEW p \in Producers, Feed(p) PROVE StreamInv'
<1>1. /\ streamKind = "batch" /\ owner = "running" /\ fed \in Nat /\ fed + 1 <= Items /\ node[p] = 0
      /\ Items \in Nat /\ held \in [Producers -> Message \cup {Nothing}]
  BY StreamAssumption DEF Feed, StreamInv, StreamTypeOK
<1>2. held[p] = Nothing
  BY <1>1 DEF StreamInv, ProducersOK, ProducerOK, HeldOK, Abandoned
<1>3. /\ node' = [node EXCEPT ![p] = fed + 1] /\ held' = [held EXCEPT ![p] = Nothing] /\ fed' = fed + 1
      /\ UNCHANGED <<streamKind, modes, outcome, seen, owner, buf, got, canceled, left>>
  BY <1>1, <1>2 DEF Feed
<1>4. /\ Nothing \in Message \cup {Nothing} /\ fed' \in {fed, fed + 1} /\ fed' <= Items
      /\ fed + 1 \in Nat
  BY <1>1, <1>3
<1> QED BY ONLY StreamInv, p \in Producers, <1>1, <1>3, <1>4, WorkerKeeps

\* A worker of a batch has its result and is about to send it.
LEMMA InvokeItemKeeps == ASSUME StreamInv, NEW p \in Producers, InvokeItem(p) PROVE StreamInv'
<1> DEFINE h == [from |-> p, nr |-> node[p], how |-> "item", id |-> node[p]]
<1>1. /\ streamKind = "batch" /\ node[p] \in 1 .. Items /\ held[p] = Nothing /\ fed \in 0 .. Items
      /\ Items \in Nat /\ node \in [Producers -> Nat]
  BY StreamAssumption DEF InvokeItem, StreamInv, StreamTypeOK
<1>2. h \in Message
  BY <1>1 DEF Message
<1>3. owner # "closed"
  BY <1>1 DEF StreamInv, ProducersOK, ProducerOK, Gone, Abandoned
<1>4. /\ node' = [node EXCEPT ![p] = node[p]] /\ held' = [held EXCEPT ![p] = h] /\ fed' = fed
      /\ UNCHANGED <<streamKind, modes, outcome, seen, owner, buf, got, canceled, left>>
  BY <1>1 DEF InvokeItem
<1>5. h.from = p /\ h.nr = node[p]
  OBVIOUS
<1>6. h \in Message \cup {Nothing} /\ fed' \in {fed, fed + 1} /\ fed' <= Items /\ node[p] \in Nat
  BY <1>1, <1>2, <1>4
<1> HIDE DEF h
<1> QED BY ONLY StreamInv, p \in Producers, <1>1, <1>3, <1>4, <1>5, <1>6, WorkerKeeps

\* A worker without an item returns when the jobs are closed.
LEMMA WorkerReturnsKeeps == ASSUME StreamInv, NEW p \in Producers, WorkerReturns(p) PROVE StreamInv'
<1>1. /\ streamKind = "batch" /\ owner = "waiting" /\ node[p] = 0 /\ fed \in 0 .. Items
      /\ Items \in Nat /\ Gone \in Nat /\ held \in [Producers -> Message \cup {Nothing}]
  BY StreamAssumption DEF WorkerReturns, StreamInv, StreamTypeOK, Gone
<1>2. held[p] = Nothing
  BY <1>1 DEF StreamInv, ProducersOK, ProducerOK, HeldOK, Abandoned
<1>3. /\ node' = [node EXCEPT ![p] = Gone] /\ held' = [held EXCEPT ![p] = Nothing] /\ fed' = fed
      /\ UNCHANGED <<streamKind, modes, outcome, seen, owner, buf, got, canceled, left>>
  BY <1>1, <1>2 DEF WorkerReturns
<1>4. /\ Nothing \in Message \cup {Nothing} /\ fed' \in {fed, fed + 1} /\ fed' <= Items
      /\ Gone \in {node[p], Gone}
  BY <1>1, <1>3
<1> QED BY ONLY StreamInv, p \in Producers, <1>1, <1>3, <1>4, WorkerKeeps

\* The send of an event: it follows what its producer sent before it.
LEMMA DeliverKeeps ==
    ASSUME StreamInv, NEW p \in Producers, Deliver(p), owner # "panicked" PROVE StreamInv'
<1>0. PICK e : e = held[p]
  OBVIOUS
<1>1. /\ node \in [Producers -> Nat] /\ ChannelSize' = ChannelSize
      /\ held \in [Producers -> Message \cup {Nothing}] /\ fed \in 0 .. Items /\ Items \in Nat
      /\ e # Nothing /\ Put(e) /\ ProducerOK(p) /\ HeldOK(p) /\ owner # "closed" /\ owner # "panicked"
      /\ UNCHANGED <<streamKind, modes, outcome, failed, seen, fed, owner, canceled, left>>
  BY <1>0, StreamAssumption DEF StreamInv, StreamTypeOK, ChannelSize, Deliver, ProducersOK, ProducerOK, Abandoned
<1>2. /\ e \in Message /\ e \in Streamed /\ e.from = p /\ e.nr = node[p] /\ p # 0
      /\ node[p] \in Nat \ {0}
      /\ streamKind = "batch" => node[p] \in 1 .. Items
      /\ streamKind # "batch" => /\ node[p] \in 1 .. Past(p) - 1 /\ Past(p) \in Nat
                                 /\ e.how = How(p, node[p]) /\ e.id = Emissions[p][node[p]].id
  BY <1>0, <1>1, MessageFacts, Emitted DEF HeldOK
<1>3. owner \notin {"closed", "panicked"} /\ (streamKind # "batch" => Abandoned \/ owner = "running")
  BY <1>1, <1>2 DEF ProducerOK, Gone
<1>4. Sent \in Seq(Streamed)
  BY SentTyped DEF StreamInv
<1>5. /\ Sent' = Append(Sent, e) /\ got' \in Seq(Streamed) /\ buf' \in Seq(Streamed)
      /\ (ChannelSize = 0 => buf = <<>>)'
  BY <1>1, <1>2, PutSends DEF StreamInv
<1>n. PICK n : n = Len(Sent) + 1
  OBVIOUS
<1>6. /\ Len(Sent') = n /\ n \in Nat /\ DOMAIN Sent = 1 .. Len(Sent) /\ Len(Sent) \in Nat
      /\ DOMAIN Sent' = DOMAIN Sent \cup {n} /\ n \notin DOMAIN Sent
      /\ \A i \in DOMAIN Sent : Sent'[i] = Sent[i] /\ Sent[i] \in Streamed /\ i < n /\ i \in Nat
      /\ Sent'[n] = e
  BY <1>n, <1>2, <1>4, <1>5, OneMore
<1>7. /\ held' = [held EXCEPT ![p] = Nothing]
      /\ node' = [node EXCEPT ![p] = IF streamKind = "batch" THEN 0 ELSE node[p] + 1]
  BY DEF Deliver
<1>8. \A q \in Producers : /\ held'[q] = IF q = p THEN Nothing ELSE held[q]
                           /\ node'[q] = IF q # p THEN node[q] ELSE IF streamKind = "batch" THEN 0
                                  ELSE node[p] + 1
  BY <1>1, <1>7
<1>9. StreamTypeOK'
  <2>1. node' \in [Producers -> Nat] /\ held' \in [Producers -> Message \cup {Nothing}]
    BY <1>1, <1>7
  <2> QED BY <1>1, <1>5, <2>1 DEF StreamInv, StreamTypeOK
<1>10. OwnerOK'
  BY <1>1 DEF StreamInv, OwnerOK, Abandoned
<1>11. ASSUME NEW q \in Producers PROVE ProducerOK(q)'
  <2>1. ProducerOK(q) /\ HeldOK(q)
    BY DEF StreamInv, ProducersOK, ProducerOK, Abandoned
  <2>2. HeldOK(q)'
    BY <1>1, <1>8, <2>1 DEF HeldOK
  <2> QED BY <1>1, <1>2, <1>3, <1>8, <2>1, <2>2 DEF ProducerOK, Gone, Abandoned
<1>12. ProducersOK'
  BY <1>1, <1>8, <1>11, MessageFacts DEF StreamInv, ProducersOK
<1>13. ProducersApart'
  <2> SUFFICES ASSUME NEW q \in Producers, NEW r \in Producers, q # r PROVE Apart(q, r)'
    BY DEF ProducersApart
  <2>1. Apart(q, r)
    BY DEF StreamInv, ProducersApart
  <2>2. streamKind = "batch" /\ node'[q] \in 1 .. Items => node'[q] # node'[r]
    BY <1>1, <1>8, <2>1 DEF Apart
  <2>3. streamKind = "graph" /\ held'[q].how = "dedupe" /\ held'[r].how = "dedupe"
           => held'[q].id # held'[r].id
    BY <1>8, <2>1, MessageFacts DEF Apart
  <2> QED BY <1>1, <2>2, <2>3 DEF Apart
<1>14. ASSUME NEW i \in DOMAIN Sent
       PROVE  /\ SentOK(Sent[i], i) /\ Sent[i] \in Streamed
              /\ Sent[i].from # 0 => Sent[i].from \in Producers /\ Sent[i].nr \in Nat
              /\ Abandoned \/ Sent[i].from # 0
              /\ Sent[i].from = 0 => Sent[i].how # "dedupe" /\ streamKind # "batch"
  <2>1. SentOK(Sent[i], i) /\ Sent[i] \in Streamed
    BY <1>6 DEF StreamInv, SentSound
  <2>2. (Abandoned \/ Sent[i].from # 0) /\ (Sent[i].from = 0 => streamKind # "batch")
    BY <1>3, <2>1 DEF SentOK
  <2> QED BY <2>1, <2>2, MessageFacts
<1>15. SentSound'
  <2>1. ASSUME NEW i \in DOMAIN Sent PROVE SentOK(Sent[i], i)'
    <3>1. /\ Sent[i].from # 0 => Sent[i].nr \in Nat /\ Sent[i].from \in Producers
          /\ Sent[i].from = 0 =>
                /\ owner \in {"closing", "closed", "panicked"} /\ Abandoned /\ streamKind # "batch"
      BY <1>14 DEF SentOK
    <3>2. streamKind # "batch" /\ Sent[i].from # 0 => Sent[i].nr < node'[Sent[i].from]
      BY <1>1, <1>8, <1>14, <3>1 DEF SentOK, Abandoned
    <3>3. streamKind = "batch" => Sent[i].nr \in 1 .. fed /\ \A q \in Producers : node'[q] # Sent[i].nr
      BY <1>1, <1>8, <1>14, <3>1 DEF SentOK, Abandoned
    <3>4. streamKind = "graph" /\ Sent[i].how = "dedupe" =>
             /\ Sent[i].id \in seen
             /\ \A q \in Producers : held'[q].how = "dedupe" => held'[q].id # Sent[i].id
      BY <1>8, <1>14, MessageFacts DEF SentOK, Abandoned
    <3>5. Sent'[i] = Sent[i]
      BY <1>6
    <3> QED BY <1>1, <3>1, <3>2, <3>3, <3>4, <3>5 DEF SentOK, Abandoned
  <2>2. SentOK(Sent[n], n)'
    <3>1. streamKind # "batch" => e.nr < node'[e.from]
      BY <1>2, <1>8
    <3>2. streamKind = "batch" => e.nr \in 1 .. fed /\ \A q \in Producers : node'[q] # e.nr
      <4> SUFFICES ASSUME streamKind = "batch", NEW q \in Producers
                   PROVE  e.nr \in 1 .. fed /\ node'[q] # e.nr
        BY <1>1, <1>2
      <4>1. node[p] \in 0 .. fed \cup {Items + 1}
        BY <1>1 DEF ProducerOK, Gone, Abandoned
      <4>2. q # p => node[p] # node[q]
        BY <1>2 DEF StreamInv, ProducersApart, Apart
      <4> QED BY <1>1, <1>2, <1>8, <4>1, <4>2
    <3>3. streamKind = "graph" /\ e.how = "dedupe" =>
             /\ e.id \in seen
             /\ \A q \in Producers : held'[q].how = "dedupe" => held'[q].id # e.id
      <4>1. streamKind = "graph" /\ e.how = "dedupe" => e.id \in seen
        BY <1>0 DEF StreamInv, ProducersOK
      <4>2. ASSUME streamKind = "graph", e.how = "dedupe", NEW q \in Producers, held'[q].how = "dedupe"
            PROVE  held'[q].id # e.id
        <5>1. q # p /\ held'[q] = held[q]
          BY <1>8, <4>2, MessageFacts
        <5>2. Apart(p, q)
          BY <5>1 DEF StreamInv, ProducersApart
        <5> QED BY <1>0, <4>2, <5>1, <5>2 DEF Apart
      <4> QED BY <4>1, <4>2
    <3> QED BY <1>1, <1>2, <1>6, <3>1, <3>2, <3>3 DEF SentOK, Abandoned
  <2> QED BY <1>6, <2>1, <2>2 DEF SentSound
<1>16. SentInOrder'
  <2>1. ASSUME NEW i \in DOMAIN Sent PROVE InOrder(Sent[i], e)'
    <3>1. /\ Sent[i].from # 0 => Sent[i].nr \in Nat
          /\ Sent[i].from = 0 => Abandoned /\ streamKind # "batch"
      BY <1>14
    <3>2. streamKind # "batch" /\ Sent[i].from = p => Sent[i].nr < node[p]
      BY <1>2, <1>14 DEF SentOK
    <3>3. streamKind = "batch" => Sent[i].nr # node[p]
      BY <1>14, <3>1 DEF SentOK
    <3>4. Sent[i] # e
      BY <1>2, <3>1, <3>2, <3>3
    <3>5. streamKind = "graph" => ~(Sent[i].how = "dedupe" /\ e.how = "dedupe" /\ Sent[i].id = e.id)
      BY <1>0, <1>14 DEF SentOK, Abandoned
    <3>6. Sent'[i] = Sent[i]
      BY <1>6
    <3> QED BY <1>1, <1>2, <3>1, <3>2, <3>3, <3>4, <3>5, <3>6 DEF InOrder, Abandoned
  <2>2. ASSUME NEW i \in DOMAIN Sent, NEW j \in DOMAIN Sent, i < j PROVE InOrder(Sent[i], Sent[j])'
    <3>1. InOrder(Sent[i], Sent[j])
      BY <2>2 DEF StreamInv, SentInOrder
    <3> QED BY <1>1, <1>6, <3>1 DEF InOrder, Abandoned
  <2> SUFFICES ASSUME NEW i \in DOMAIN Sent', NEW j \in DOMAIN Sent', i < j
               PROVE  InOrder(Sent[i], Sent[j])'
    BY DEF SentInOrder
  <2>3. i \in DOMAIN Sent
    BY <1>6
  <2>4. CASE j \in DOMAIN Sent
    BY <2>2, <2>3, <2>4
  <2>5. CASE j = n
    <3>1. Sent'[j] = e
      BY <1>6, <2>5
    <3> QED BY <2>1, <2>3, <3>1
  <2> QED BY <1>6, <2>4, <2>5
<1>17. ASSUME ~canceled', ~Abandoned' PROVE Complete'
  <2>1. Complete
    BY <1>1, <1>17 DEF StreamInv, Abandoned
  <2>2. ASSUME NEW x, Carried(x) PROVE Carried(x)'
    <3>1. CASE x \in Known
      BY <3>1 DEF Carried, Known
    <3>2. CASE \E i \in DOMAIN Sent : Sent[i].id = x /\ Sent[i].how # "block"
      BY <1>6, <3>2 DEF Carried
    <3>3. CASE \E q \in Producers : held[q] # Nothing /\ held[q].id = x /\ held[q].how # "block"
      <4>1. PICK q \in Producers : held[q] # Nothing /\ held[q].id = x /\ held[q].how # "block"
        BY <3>3
      <4>2. CASE q = p
        <5>1. n \in DOMAIN Sent' /\ Sent'[n].id = x /\ Sent'[n].how # "block"
          BY <1>0, <1>6, <4>1, <4>2
        <5> QED BY <5>1 DEF Carried
      <4>3. CASE q # p
        BY <1>8, <4>1, <4>3 DEF Carried
      <4> QED BY <4>2, <4>3
    <3> QED BY <2>2, <3>1, <3>2, <3>3 DEF Carried
  <2>3. ASSUME streamKind # "batch", NEW q \in Producers \ failed, NEW i \in 1 .. node'[q] - 1
        PROVE  Accounted(q, i)'
    <3>1. CASE q = p /\ i = node[p]
      <4>1. n \in DOMAIN Sent' /\ Sent'[n].from = q /\ Sent'[n].nr = i
        BY <1>2, <1>6, <3>1
      <4> QED BY <4>1 DEF Accounted
    <3>2. CASE ~(q = p /\ i = node[p])
      <4>1. i \in 1 .. node[q] - 1
        BY <1>1, <1>2, <1>8, <2>3, <3>2
      <4>2. Accounted(q, i)
        BY <2>1, <2>3, <4>1 DEF Complete
      <4> QED BY <1>1, <1>6, <4>2 DEF Accounted, Selected, How
    <3> QED BY <3>1, <3>2
  <2>4. ASSUME streamKind = "batch", NEW k \in 1 .. fed
        PROVE  (\E q \in Producers : node'[q] = k) \/ \E i \in DOMAIN Sent' : Sent'[i].nr = k
    <3>1. (\E q \in Producers : node[q] = k) \/ \E i \in DOMAIN Sent : Sent[i].nr = k
      BY <2>1, <2>4 DEF Complete
    <3>2. CASE \E i \in DOMAIN Sent : Sent[i].nr = k
      BY <1>6, <3>2
    <3>3. ASSUME NEW q \in Producers, node[q] = k
          PROVE  (\E r \in Producers : node'[r] = k) \/ \E i \in DOMAIN Sent' : Sent'[i].nr = k
      <4>1. CASE q = p
        <5>1. n \in DOMAIN Sent' /\ Sent'[n].nr = k
          BY <1>2, <1>6, <3>3, <4>1
        <5> QED BY <5>1
      <4>2. CASE q # p
        BY <1>8, <3>3, <4>2
      <4> QED BY <4>1, <4>2
    <3> QED BY <3>1, <3>2, <3>3
  <2>5. streamKind = "graph" => \A x \in seen' : Carried(x)'
    BY <1>1, <2>1, <2>2 DEF Complete
  <2>6. streamKind # "batch" => owner' = "running"
    BY <1>1, <1>3, <1>17 DEF Abandoned
  <2> QED BY <1>1, <1>3, <2>1, <2>3, <2>4, <2>5, <2>6 DEF Complete
<1> QED BY <1>9, <1>10, <1>12, <1>13, <1>15, <1>16, <1>17 DEF StreamInv

\* The owner of the channel moves on without sending: the run returns, a terminal event
\* is skipped, the jobs of a batch are closed, or the channel is.
LEMMA OwnerKeeps ==
    ASSUME StreamInv,
           NEW o \in {"running", "waiting", "done", "interrupt", "error", "closing", "closed"},
           owner' = o,
           UNCHANGED <<streamKind, modes, node, held, failed, seen, fed, buf, got, canceled, left>>,
           streamKind = "batch" =>
               /\ o \in {"waiting", "closed"} /\ (canceled \/ fed = Items)
               /\ o = "closed" => \A p \in Producers : node[p] = Gone,
           streamKind # "batch" =>
               /\ o \notin {"running", "waiting"}
               /\ outcome' = outcome \/ (outcome' = o /\ owner = "running")
               /\ Abandoned \/ \A p \in Producers : node[p] = Past(p)
               /\ o \in {"done", "interrupt", "error"} =>
                     /\ Abandoned \/ canceled \/ outcome' = o
                     /\ owner \notin {"closing", "closed"}
               /\ o \in {"closing", "closed"} =>
                     \/ Abandoned \/ canceled \/ (outcome' = "done" /\ "done" \notin modes)
                     \/ owner = "closing" /\ outcome' = outcome,
           streamKind = "batch" => outcome' = outcome,
           owner \notin {"closed", "panicked"}
    PROVE  StreamInv'
<1>1. /\ Sent' = Sent /\ ChannelSize' = ChannelSize /\ DOMAIN Sent = 1 .. Len(Sent)
  BY SentSame, SentTyped DEF ChannelSize, StreamInv
<1>a. Abandoned' <=> Abandoned
  BY DEF StreamInv, OwnerOK, Abandoned
<1>2. StreamTypeOK'
  BY <1>1 DEF StreamInv, StreamTypeOK
<1>3. OwnerOK'
  BY DEF StreamInv, OwnerOK, Abandoned
<1>4. ASSUME NEW q \in Producers PROVE ProducerOK(q)'
  <2>1. ProducerOK(q) /\ HeldOK(q)
    BY DEF StreamInv, ProducersOK, ProducerOK, Abandoned
  <2>2. HeldOK(q)'
    BY <2>1 DEF HeldOK
  <2> QED BY <1>a, <2>1, <2>2 DEF ProducerOK, Gone
<1>5. ProducersOK'
  BY <1>4 DEF StreamInv, ProducersOK
<1>6. ProducersApart'
  BY DEF StreamInv, ProducersApart, Apart
<1>7. SentSound'
  <2> SUFFICES ASSUME NEW i \in DOMAIN Sent PROVE SentOK(Sent[i], i)'
    BY <1>1 DEF SentSound
  <2>1. SentOK(Sent[i], i)
    BY DEF StreamInv, SentSound
  <2> QED BY <1>1, <1>a, <2>1 DEF SentOK
<1>8. SentInOrder'
  BY <1>1, <1>a DEF StreamInv, SentInOrder, InOrder
<1>9. ASSUME ~canceled', ~Abandoned' PROVE Complete'
  <2>1. Complete
    BY <1>9, <1>a DEF StreamInv
  <2>2. \A x : Carried(x) => Carried(x)'
    BY <1>1 DEF Carried, Known
  <2>3. \A q, i : Accounted(q, i) => Accounted(q, i)'
    BY <1>1 DEF Accounted, Selected, How
  <2> QED BY <1>1, <1>9, <1>a, <2>1, <2>2, <2>3 DEF Complete
<1> QED BY <1>2, <1>3, <1>5, <1>6, <1>7, <1>8, <1>9 DEF StreamInv

\* The run returns, or ends without a terminal event.
LEMMA ReturnKeeps == ASSUME StreamInv, Return PROVE StreamInv'
<1>1. /\ streamKind # "batch" /\ owner = "running" /\ \A p \in Producers : node[p] = Past(p)
      /\ owner' \in {"done", "interrupt", "error"} /\ outcome' = owner'
  BY DEF Return
<1> QED BY <1>1, OwnerKeeps DEF Return

\* A terminal event is sent or skipped when no producer has anything left, unless the
\* step was abandoned.
LEMMA EndingFacts ==
    ASSUME StreamInv, streamKind # "batch", owner \notin {"running", "waiting"}
    PROVE  Abandoned \/ \A p \in Producers : node[p] = Past(p)
BY DEF StreamInv, ProducersOK, ProducerOK

\* The terminal event is not sent: its mode is not selected, or the context is cancelled.
LEMMA SkipTerminalKeeps == ASSUME StreamInv, SkipTerminal PROVE StreamInv'
<1>1. /\ streamKind # "batch" /\ owner \in {"done", "interrupt", "error"}
      /\ owner' \in {"error", "closing"}
      /\ ~canceled => owner' = "closing" /\ owner = "done" /\ "done" \notin modes
      /\ UNCHANGED <<streamKind, modes, outcome, node, held, failed, seen, fed, buf, got, canceled,
                     left>>
  BY DEF SkipTerminal, Ending
<1>2. Abandoned \/ \A p \in Producers : node[p] = Past(p)
  BY <1>1, EndingFacts
<1>3. ~canceled /\ ~Abandoned => outcome' = "done"
  BY <1>1 DEF StreamInv, Complete
<1>4. canceled \in BOOLEAN
  BY DEF StreamInv, StreamTypeOK
<1> QED BY <1>1, <1>2, <1>3, <1>4, OwnerKeeps

\* The channel of a stream is closed.
LEMMA CloseEventsKeeps == ASSUME StreamInv, CloseEvents PROVE StreamInv'
<1>1. /\ owner = "closing" /\ owner' = "closed"
      /\ UNCHANGED <<streamKind, modes, outcome, node, held, failed, seen, fed, buf, got, canceled, left>>
  BY DEF CloseEvents
<1>2. streamKind # "batch"
  BY <1>1 DEF StreamInv, OwnerOK
<1>3. Abandoned \/ \A p \in Producers : node[p] = Past(p)
  BY <1>1, <1>2, EndingFacts
<1> QED BY <1>1, <1>2, <1>3, OwnerKeeps

\* Only a producer of an abandoned step finds the channel closed.
LEMMA SendOnClosedKeeps == ASSUME StreamInv, NEW p \in Producers, SendOnClosed(p) PROVE StreamInv'
<1>1. /\ held[p] # Nothing /\ owner = "closed" /\ owner' = "panicked" /\ ProducerOK(p) /\ HeldOK(p)
      /\ UNCHANGED <<streamKind, modes, outcome, node, held, failed, seen, fed, buf, got, canceled, left>>
  BY DEF SendOnClosed, StreamInv, ProducersOK, ProducerOK
<1>2. Past(p) \in Nat /\ Items \in Nat
  BY Emitted, StreamAssumption
<1>3. streamKind # "batch" /\ Abandoned
  BY <1>1, <1>2 DEF ProducerOK, HeldOK, Gone
<1>4. /\ Sent' = Sent /\ ChannelSize' = ChannelSize /\ Abandoned'
  BY <1>1, <1>3, SentSame DEF ChannelSize, Abandoned
<1>5. StreamTypeOK' /\ OwnerOK'
  BY <1>1, <1>3, <1>4 DEF StreamInv, StreamTypeOK, OwnerOK
<1>6. ProducersOK'
  BY <1>1, <1>3, <1>4 DEF StreamInv, ProducersOK, ProducerOK, HeldOK
<1>7. ProducersApart'
  BY <1>1 DEF StreamInv, ProducersApart, Apart
<1>8. SentSound'
  BY <1>1, <1>3, <1>4 DEF StreamInv, SentSound, SentOK
<1>9. SentInOrder'
  BY <1>1, <1>4 DEF StreamInv, SentInOrder, InOrder
<1> QED BY <1>4, <1>5, <1>6, <1>7, <1>8, <1>9 DEF StreamInv

\* executeStep returns early: the producers that were not launched end.
LEMMA ReturnEarlyKeeps == ASSUME StreamInv, ReturnEarly PROVE StreamInv'
<1>1. /\ streamKind = "graph" /\ owner = "running" /\ owner' = "error" /\ outcome' = "abandoned"
      /\ UNCHANGED <<streamKind, modes, held, seen, fed, buf, got, canceled, left>>
  BY DEF ReturnEarly
<1>2. PICK U \in SUBSET {p \in Producers : node[p] = 1 /\ held[p] = Nothing} :
         node' = [p \in Producers |-> IF p \in U THEN Past(p) ELSE node[p]]
  BY DEF ReturnEarly
<1>3. /\ Sent' = Sent /\ ChannelSize' = ChannelSize /\ Abandoned'
      /\ \A i \in DOMAIN Sent : Sent[i] \in Streamed
  BY <1>1, SentSame, SentTyped DEF ChannelSize, Abandoned, StreamInv
<1>4. ASSUME NEW p \in Producers
      PROVE  /\ Past(p) \in Nat \ {0} /\ node[p] \in Nat /\ node[p] <= node'[p] /\ node'[p] \in 1 .. Past(p)
             /\ node'[p] \in Nat /\ (held[p] # Nothing => node'[p] = node[p])
  <2>1. Past(p) \in Nat \ {0} /\ node[p] \in 1 .. Past(p)
    BY <1>1, Emitted DEF StreamInv, ProducersOK, ProducerOK
  <2>2. CASE p \in U
    BY <1>2, <2>1, <2>2
  <2>3. CASE p \notin U
    BY <1>2, <2>1, <2>3
  <2> QED BY <2>2, <2>3
<1>5. StreamTypeOK' /\ OwnerOK'
  <2>1. node' \in [Producers -> Nat]
    BY <1>2, <1>4
  <2> QED BY <1>1, <1>3, <2>1 DEF StreamInv, StreamTypeOK, OwnerOK
<1>6. ProducersOK'
  <2> SUFFICES ASSUME NEW p \in Producers
               PROVE  ProducerOK(p)' /\ (held[p].how = "dedupe" => held[p].id \in seen)
    BY <1>1 DEF ProducersOK
  <2>1. HeldOK(p) /\ (held[p].how = "dedupe" => held[p].id \in seen)
    BY <1>1 DEF StreamInv, ProducersOK, ProducerOK
  <2>2. HeldOK(p)'
    BY <1>1, <1>4, <2>1 DEF HeldOK, How
  <2> QED BY <1>1, <1>3, <1>4, <2>1, <2>2 DEF ProducerOK
<1>7. ProducersApart'
  BY <1>1 DEF StreamInv, ProducersApart, Apart
<1>8. SentSound'
  <2> SUFFICES ASSUME NEW i \in DOMAIN Sent PROVE SentOK(Sent[i], i)'
    BY <1>3 DEF SentSound
  <2>1. SentOK(Sent[i], i) /\ Sent[i] \in Streamed
    BY <1>3 DEF StreamInv, SentSound
  <2>2. Sent[i].from # 0 /\ Sent[i].from \in Producers /\ Sent[i].nr \in Nat
    BY <1>1, <2>1, MessageFacts DEF SentOK
  <2>3. Sent[i].nr < node'[Sent[i].from]
    BY <1>1, <1>4, <2>1, <2>2 DEF SentOK
  <2> QED BY <1>1, <1>3, <2>1, <2>2, <2>3 DEF SentOK
<1>9. SentInOrder'
  BY <1>1, <1>3 DEF StreamInv, SentInOrder, InOrder
<1> QED BY <1>3, <1>5, <1>6, <1>7, <1>8, <1>9 DEF StreamInv

\* A batch is closed once its items are handed out and its workers have returned.
LEMMA CloseJobsKeeps == ASSUME StreamInv, CloseJobs PROVE StreamInv'
BY OwnerKeeps DEF CloseJobs

\* The channel of a batch is closed when its workers have returned.
LEMMA CloseCompletedKeeps == ASSUME StreamInv, CloseCompleted PROVE StreamInv'
<1>1. canceled \/ fed = Items
  <2>1. streamKind = "batch" /\ owner = "waiting" /\ ~Abandoned
    BY DEF CloseCompleted, StreamInv, OwnerOK
  <2> QED BY <2>1 DEF StreamInv, StreamTypeOK, Complete
<1> QED BY <1>1, OwnerKeeps DEF CloseCompleted

\* The terminal event is sent when no producer has anything left to send.
LEMMA SendTerminalKeeps == ASSUME StreamInv, SendTerminal PROVE StreamInv'
<1>0. PICK e, n : e = TerminalEvent(owner) /\ n = Len(Sent) + 1
  OBVIOUS
<1>1. /\ streamKind # "batch" /\ owner \in {"done", "interrupt", "error"} /\ owner' = "closing" /\ Put(e)
      /\ UNCHANGED <<streamKind, modes, outcome, node, held, failed, seen, fed, canceled, left>>
      /\ ChannelSize' = ChannelSize
  BY <1>0 DEF SendTerminal, Ending, ChannelSize
<1>2. e \in Streamed /\ e.from = 0 /\ e.how # "dedupe"
  BY <1>0, <1>1 DEF Streamed, TerminalEvent
<1>3. Sent \in Seq(Streamed)
  BY SentTyped DEF StreamInv
<1>4. /\ Sent' = Append(Sent, e) /\ got' \in Seq(Streamed) /\ buf' \in Seq(Streamed)
      /\ (ChannelSize = 0 => buf = <<>>)'
  BY <1>1, <1>2, PutSends DEF StreamInv
<1>5. /\ Len(Sent') = n /\ n \in Nat /\ DOMAIN Sent = 1 .. Len(Sent) /\ Len(Sent) \in Nat
      /\ DOMAIN Sent' = DOMAIN Sent \cup {n} /\ n \notin DOMAIN Sent
      /\ \A i \in DOMAIN Sent : Sent'[i] = Sent[i] /\ Sent[i] \in Streamed /\ i < n /\ i \in Nat
      /\ Sent'[n] = e
  BY <1>0, <1>2, <1>3, <1>4, OneMore
<1>6. Abandoned \/ \A p \in Producers : node[p] = Past(p)
  BY <1>1, EndingFacts
<1>7. StreamTypeOK'
  BY <1>1, <1>4 DEF StreamInv, StreamTypeOK
<1>8. OwnerOK'
  BY <1>1 DEF StreamInv, OwnerOK, Abandoned
<1>9. ASSUME NEW q \in Producers PROVE ProducerOK(q)'
  <2>1. ProducerOK(q) /\ HeldOK(q)
    BY DEF StreamInv, ProducersOK, ProducerOK, Abandoned
  <2>2. HeldOK(q)'
    BY <1>1, <2>1 DEF HeldOK
  <2> QED BY <1>1, <1>6, <2>1, <2>2 DEF ProducerOK, Abandoned
<1>10. ProducersOK'
  BY <1>1, <1>9 DEF StreamInv, ProducersOK
<1>11. ProducersApart'
  BY <1>1 DEF StreamInv, ProducersApart, Apart
<1>12. ASSUME NEW i \in DOMAIN Sent PROVE SentOK(Sent[i], i) /\ Sent[i].from # 0
  BY <1>1 DEF StreamInv, SentSound, SentOK, Abandoned
<1>13. SentSound'
  <2>1. ASSUME NEW i \in DOMAIN Sent PROVE SentOK(Sent[i], i)'
    BY <1>1, <1>5, <1>12 DEF SentOK, Abandoned
  <2>2. SentOK(Sent[n], n)'
    BY <1>1, <1>2, <1>5 DEF SentOK, Abandoned
  <2> QED BY <1>5, <2>1, <2>2 DEF SentSound
<1>14. SentInOrder'
  <2>1. ASSUME NEW i \in DOMAIN Sent PROVE InOrder(Sent[i], e)'
    <3>1. Sent'[i] = Sent[i]
      BY <1>5
    <3> QED BY <1>1, <1>2, <1>12, <3>1 DEF InOrder, Abandoned
  <2>2. ASSUME NEW i \in DOMAIN Sent, NEW j \in DOMAIN Sent, i < j PROVE InOrder(Sent[i], Sent[j])'
    <3>1. InOrder(Sent[i], Sent[j])
      BY <2>2 DEF StreamInv, SentInOrder
    <3> QED BY <1>1, <1>5, <3>1 DEF InOrder, Abandoned
  <2> SUFFICES ASSUME NEW i \in DOMAIN Sent', NEW j \in DOMAIN Sent', i < j
               PROVE  InOrder(Sent[i], Sent[j])'
    BY DEF SentInOrder
  <2>3. i \in DOMAIN Sent
    BY <1>5
  <2>4. CASE j \in DOMAIN Sent
    BY <2>2, <2>3, <2>4
  <2>5. CASE j = n
    <3>1. Sent'[j] = e
      BY <1>5, <2>5
    <3> QED BY <2>1, <2>3, <3>1
  <2> QED BY <1>5, <2>4, <2>5
<1>15. ASSUME ~canceled', ~Abandoned' PROVE Complete'
  <2>1. Complete
    BY <1>1, <1>15 DEF StreamInv, Abandoned
  <2>2. \A x : Carried(x) => Carried(x)'
    BY <1>1, <1>5 DEF Carried, Known
  <2>3. \A q, i : Accounted(q, i) => Accounted(q, i)'
    BY <1>1, <1>5 DEF Accounted, Selected, How
  <2>4. Sent' # <<>> /\ Sent'[Len(Sent')].from = 0
    BY <1>2, <1>3, <1>4, <1>5
  <2> QED BY <1>1, <2>1, <2>2, <2>3, <2>4 DEF Complete
<1> QED BY <1>7, <1>8, <1>10, <1>11, <1>13, <1>14, <1>15 DEF StreamInv

\* The consumer: what it receives was sent in that order; it may leave or cancel.
LEMMA ConsumerKeeps == ASSUME StreamInv, ReceiveEvent \/ Leave \/ CancelStream \/ UNCHANGED flow
                       PROVE  StreamInv'
<1>1. /\ got \in Seq(Streamed) /\ buf \in Seq(Streamed) /\ canceled \in BOOLEAN /\ left \in BOOLEAN
      /\ ChannelSize = 0 => buf = <<>>
  BY DEF StreamInv, StreamTypeOK
<1>2. /\ UNCHANGED <<streamKind, modes, outcome, node, held, failed, seen, fed, owner>>
      /\ canceled' \in BOOLEAN /\ left' \in BOOLEAN /\ (~canceled' => ~canceled)
  BY <1>1 DEF ReceiveEvent, Leave, CancelStream, flow
<1>3. Sent' = Sent /\ got' \in Seq(Streamed) /\ buf' \in Seq(Streamed) /\ (buf = <<>> => buf' = <<>>)
  <2>1. CASE ReceiveEvent
    <3>1. /\ buf # <<>> /\ got' = Append(got, Head(buf)) /\ buf' = Tail(buf)
      BY <2>1 DEF ReceiveEvent
    <3>2. Head(buf) \in Streamed /\ Tail(buf) \in Seq(Streamed) /\ buf = <<Head(buf)>> \o Tail(buf)
      BY <1>1, <3>1
    <3>3. got' = got \o <<Head(buf)>>
      BY <1>1, <3>1, <3>2
    <3> QED BY <1>1, <3>1, <3>2, <3>3 DEF Sent
  <2>2. CASE ~ReceiveEvent
    <3>1. got' = got /\ buf' = buf
      BY <2>2 DEF Leave, CancelStream, flow
    <3> QED BY <1>1, <3>1 DEF Sent
  <2> QED BY <2>1, <2>2
<1>4. ChannelSize' = ChannelSize
  BY <1>2 DEF ChannelSize
<1>5. StreamTypeOK'
  BY <1>1, <1>2, <1>3, <1>4 DEF StreamInv, StreamTypeOK
<1>6. OwnerOK'
  BY <1>2 DEF StreamInv, OwnerOK, Abandoned
<1>7. ProducersOK'
  BY <1>2 DEF StreamInv, ProducersOK, ProducerOK, HeldOK, Abandoned
<1>8. ProducersApart'
  BY <1>2 DEF StreamInv, ProducersApart, Apart
<1>9. SentSound'
  BY <1>2, <1>3 DEF StreamInv, SentSound, SentOK, Abandoned
<1>10. SentInOrder'
  BY <1>2, <1>3 DEF StreamInv, SentInOrder, InOrder, Abandoned
<1>11. ASSUME ~canceled', ~Abandoned' PROVE Complete'
  <2>1. Complete
    BY <1>2, <1>11 DEF StreamInv, Abandoned
  <2>2. \A x : Carried(x) => Carried(x)'
    BY <1>2, <1>3 DEF Carried, Known
  <2>3. \A q, i : Accounted(q, i) => Accounted(q, i)'
    BY <1>2, <1>3 DEF Accounted, Selected, How
  <2> QED BY <1>2, <1>3, <2>1, <2>2, <2>3 DEF Complete
<1> QED BY <1>5, <1>6, <1>7, <1>8, <1>9, <1>10, <1>11 DEF StreamInv

\* Every step keeps the invariant.
LEMMA StreamStep == StreamInv /\ [StreamNext]_flow => StreamInv'
<1> SUFFICES ASSUME StreamInv, [StreamNext]_flow PROVE StreamInv'
  OBVIOUS
<1>1. ASSUME NEW p \in Producers, Work(p) PROVE StreamInv'
  BY <1>1, SendOnClosedKeeps, EmitKeeps, FailKeeps, DeliverKeeps, GiveUpKeeps, FeedKeeps, InvokeItemKeeps,
     WorkerReturnsKeeps DEF Work
<1>2. CASE Own
  BY <1>2, ReturnKeeps, ReturnEarlyKeeps, SendTerminalKeeps, SkipTerminalKeeps, CloseEventsKeeps,
     CloseJobsKeeps, CloseCompletedKeeps DEF Own
<1>3. CASE ReceiveEvent \/ Leave \/ CancelStream \/ UNCHANGED flow
  BY <1>3, ConsumerKeeps
<1> QED BY <1>1, <1>2, <1>3 DEF StreamNext

\* The consumer of a stream or a batch reads what was produced, in order and without
\* repetition, and unless the context was cancelled or a step returned before its tasks
\* all of it, for any producers, any buffer and any selection of modes; only after such
\* a return can a producer send on the closed channel (streamWithOptions, executeStep,
\* streamRun, executeBatchAsCompleted).
THEOREM StreamsAreFaithful == StreamSpec => []StreamFaithful
<1>1. StreamInv => StreamFaithful
  <2> SUFFICES ASSUME StreamInv PROVE StreamFaithful
    OBVIOUS
  <2>1. Sent \in Seq(Streamed) /\ Len(Sent) \in Nat /\ DOMAIN Sent = 1 .. Len(Sent)
    BY SentTyped DEF StreamInv
  <2>2. SentEvents = {Sent[i] : i \in DOMAIN Sent}
    BY DEF SentEvents, ToSet
  <2>3. ASSUME NEW i \in DOMAIN Sent, NEW j \in DOMAIN Sent, i < j PROVE InOrder(Sent[i], Sent[j])
    BY <2>3 DEF StreamInv, SentInOrder
  <2>4. ASSUME owner = "closed", ~Abandoned, NEW p \in Producers
        PROVE  /\ held[p] = Nothing
               /\ streamKind = "batch" => node[p] = Gone
               /\ streamKind # "batch" => node[p] = Past(p)
    <3>1. ProducerOK(p) /\ HeldOK(p) /\ Past(p) \in Nat
      BY Emitted DEF StreamInv, ProducersOK, ProducerOK, Abandoned
    <3> QED BY <2>4, <3>1, StreamAssumption DEF ProducerOK, HeldOK, Gone, Abandoned
  <2>5. ASSUME owner = "closed", ~canceled, ~Abandoned, streamKind = "batch"
        PROVE  {e.nr : e \in SentEvents} = 1 .. Items
    <3>1. /\ fed = Items
          /\ \A k \in 1 .. fed : (\E p \in Producers : node[p] = k)
               \/ \E i \in DOMAIN Sent : Sent[i].nr = k
      BY <2>5 DEF StreamInv, Complete
    <3>2. ASSUME NEW k \in 1 .. Items PROVE \E i \in DOMAIN Sent : Sent[i].nr = k
      <4>1. \A p \in Producers : node[p] # k
        BY <2>4, <2>5, StreamAssumption DEF Gone
      <4> QED BY <3>1, <4>1
    <3>3. ASSUME NEW i \in DOMAIN Sent PROVE Sent[i].nr \in 1 .. Items
      BY <2>5, <3>1 DEF StreamInv, SentSound, SentOK, Abandoned
    <3> QED BY <2>2, <3>2, <3>3
  <2>6. ASSUME owner = "closed", ~canceled, ~Abandoned, streamKind # "batch",
               NEW p \in Producers \ failed, NEW i \in 1 .. Past(p) - 1,
               Selected(p, i) /\ (streamKind = "graph" => How(p, i) # "remember")
        PROVE  \/ \E e \in SentEvents : e.from = p /\ e.nr = i
               \/ /\ streamKind = "graph" /\ How(p, i) = "dedupe"
                  /\ \/ Emissions[p][i].id \in Known
                     \/ \E e \in SentEvents : e.id = Emissions[p][i].id /\ e.how # "block"
    <3>1. Complete /\ Accounted(p, i)
      BY <2>4, <2>6 DEF StreamInv, Complete
    <3>2. CASE \E k \in DOMAIN Sent : Sent[k].from = p /\ Sent[k].nr = i
      BY <2>2, <3>2
    <3>3. CASE streamKind = "graph" /\ How(p, i) = "dedupe" /\ Emissions[p][i].id \in seen
      <4>1. Carried(Emissions[p][i].id)
        BY <3>1, <3>3 DEF Complete
      <4> QED BY <2>2, <2>4, <2>6, <3>3, <4>1 DEF Carried
    <3> QED BY <2>6, <3>1, <3>2, <3>3 DEF Accounted
  <2>7. ASSUME owner = "closed", ~canceled, ~Abandoned, streamKind # "batch", outcome # "done" \/ "done" \in modes
        PROVE  Sent # <<>> /\ Last(Sent).from = 0
    BY <2>7 DEF StreamInv, Complete, Last
  <2>8. \A i, j \in DOMAIN Sent : i < j =>
          /\ Sent[i] # Sent[j]
          /\ streamKind # "batch" /\ Sent[i].from = Sent[j].from => Sent[i].nr < Sent[j].nr
          /\ Abandoned \/ Sent[i].from # 0
          /\ streamKind = "graph" => ~(Sent[i].how = "dedupe" /\ Sent[j].how = "dedupe"
               /\ Sent[i].id = Sent[j].id)
    BY <2>3 DEF InOrder, Abandoned
  <2>9. owner = "panicked" => Abandoned
    BY DEF StreamInv, OwnerOK
  <2> QED BY <2>4, <2>5, <2>6, <2>7, <2>8, <2>9 DEF StreamFaithful
<1> QED BY <1>1, StreamStart, StreamStep, PTL DEF StreamSpec
=============================================================================
