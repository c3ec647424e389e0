--------------------------- MODULE GraphRunProofs ----------------------------
(***************************************************************************)
(* Proofs about GraphRun, for every graph, every number of checkpoints and *)
(* every sequence of faults; and about GraphBuilder, for every set of      *)
(* builder calls and every options of Compile.                             *)
(***************************************************************************)
EXTENDS GraphRun, GraphBuilder, SequenceTheorems, FiniteSetTheorems, WellFoundedInduction, TLAPS

(***************************************************************************)
(* The invariant: what a run that is not a replay believes about its       *)
(* current checkpoint (snap, results) agrees with the pending writes.      *)
(***************************************************************************)
TaskSync(n) ==
    /\ pc[n] = "ready" =>
          /\ snap.result[n] = store[cur].result[n]
          /\ n \in store[cur].failed => n \in snap.failed
    /\ pc[n] \in Asker => store[cur].result[n] = NoResult
    /\ pc[n] = "body" => n \notin store[cur].failed
    /\ pc[n] = "done" => Accounted(n, results[n], store[cur])

Sync ==
    /\ phase = "gate" /\ ~replay =>
          snap.result = store[cur].result /\ snap.failed = store[cur].failed
    /\ phase = "step" /\ ~replay => \A n \in Tasks(cur) : TaskSync(n)
    /\ phase = "commit" /\ ~replay =>
          \A n \in Tasks(cur) : Accounted(n, results[n], store[cur])

Parents == \A c \in DOMAIN cps : cps[c].source = "loop" => cps[c].parent \in DOMAIN cps

InGraph == phase \in {"step", "commit"} => cps[cur].layer \in DOMAIN Layers

IInv == TypeOK /\ InGraph /\ Parents /\ Sync /\ CommittedAsRecorded

-----------------------------------------------------------------------------
\* The pending writes of a checkpoint stay well formed when one entry changes.
LEMMA NoWritesType == IsWrites(NoWrites) /\ NoWrites.result = [n \in Nodes |-> NoResult]
                      /\ NoWrites.failed = {} /\ ~NoWrites.consumed
  <1>1. IsControl(NoControl)
    <2>1. NoAnswers \in [{} -> Prompt \cup {Null}] /\ DOMAIN NoAnswers = {}  BY DEF NoAnswers
    <2>2. <<>> \in Seq(Prompt)  BY EmptySeq
    <2> QED  BY <2>1, <2>2 DEF IsControl, NoControl
  <1> QED  BY <1>1 DEF IsWrites, NoWrites

\* A result added to pending writes (index 0) keeps them well formed.
LEMMA ResultWrite ==
  ASSUME NEW w, IsWrites(w), NEW n \in Nodes, NEW r \in Result
  PROVE  LET v == [w EXCEPT !.result[n] = r]
         IN  /\ IsWrites(v)
             /\ v.result = [w.result EXCEPT ![n] = r]
             /\ v.failed = w.failed
             /\ v.control = w.control /\ v.gate = w.gate /\ v.consumed = w.consumed
  BY DEF IsWrites

\* So does a failure marker (index -4).
LEMMA FailedWrite ==
  ASSUME NEW w, IsWrites(w), NEW n \in Nodes
  PROVE  LET v == [w EXCEPT !.failed = @ \cup {n}]
         IN  /\ IsWrites(v) /\ v.result = w.result /\ v.failed = w.failed \cup {n}
             /\ v.control = w.control /\ v.gate = w.gate /\ v.consumed = w.consumed
  BY DEF IsWrites

\* So does the control of one task (index -1).
LEMMA ControlWrite ==
  ASSUME NEW w, IsWrites(w), NEW n \in Nodes, NEW x, IsControl(x)
  PROVE  LET v == [w EXCEPT !.control[n] = x]
         IN  /\ IsWrites(v) /\ v.result = w.result /\ v.failed = w.failed
             /\ v.control[n] = x /\ \A m \in Nodes : m # n => v.control[m] = w.control[m]
             /\ v.gate = w.gate /\ v.consumed = w.consumed
  <1> DEFINE v == [w EXCEPT !.control[n] = x]
  <1>1. v = [result |-> w.result, failed |-> w.failed, gate |-> w.gate,
             control |-> [w.control EXCEPT ![n] = x], consumed |-> w.consumed]
    BY DEF IsWrites
  <1>2. \A m \in Nodes : IsControl(v.control[m])
    BY <1>1 DEF IsWrites
  <1>3. v.control = [m \in Nodes |-> v.control[m]]
    BY <1>1 DEF IsWrites
  <1> QED  BY <1>1, <1>2, <1>3 DEF IsWrites

\* So does the static interrupt gate (index -3), which touches nothing else.
LEMMA GateWrite ==
  ASSUME NEW w, IsWrites(w), NEW g \in {"none", "before", "after"}, NEW b \in BOOLEAN
  PROVE  /\ IsWrites(WithGate(w, g, b))
         /\ WithGate(w, g, b).result = w.result
         /\ WithGate(w, g, b).failed = w.failed
         /\ WithGate(w, g, b).control = w.control
         /\ WithGate(w, g, b).gate = g /\ WithGate(w, g, b).consumed = b
  BY DEF IsWrites, WithGate

\* So do the controls of all tasks at once, as a resume or a fork stores them.
LEMMA ControlsWrite ==
  ASSUME NEW w, IsWrites(w), NEW f, f = [n \in Nodes |-> f[n]],
         \A n \in Nodes : IsControl(f[n])
  PROVE  LET v == [w EXCEPT !.control = f]
         IN  /\ IsWrites(v) /\ v.result = w.result /\ v.failed = w.failed
             /\ v.control = f /\ v.gate = w.gate /\ v.consumed = w.consumed
  BY DEF IsWrites

\* What a replay in place restores is well formed (initializeRun).
LEMMA ReplaySnap ==
  ASSUME NEW w, IsWrites(w)
  PROVE  IsWrites([NoWrites EXCEPT !.failed = w.failed])
  BY NoWritesType DEF IsWrites

\* The controls an interrupt, a resume and a fork store are well formed.
LEMMA SignalControlType ==
  ASSUME NEW w, IsControl(w), NEW k \in Nat, NEW who \in Asker
  PROVE  LET top == IF k < Len(w.asked) THEN Len(w.asked) ELSE k + 1
         IN  IsControl([w EXCEPT !.asked =
                [i \in 1 .. top |-> IF i <= k + 1 THEN <<who, i>> ELSE w.asked[i]]])
  <1> DEFINE top == IF k < Len(w.asked) THEN Len(w.asked) ELSE k + 1
             asked == [i \in 1 .. top |-> IF i <= k + 1 THEN <<who, i>> ELSE w.asked[i]]
  <1>1. Len(w.asked) \in Nat /\ DOMAIN w.asked = 1 .. Len(w.asked)
    BY LenProperties DEF IsControl
  <1>2. top \in Nat /\ Len(w.asked) <= top
    BY <1>1
  <1>3. \A i \in 1 .. top : asked[i] \in Prompt
    <2> SUFFICES ASSUME NEW i \in 1 .. top PROVE asked[i] \in Prompt  OBVIOUS
    <2>1. CASE i <= k + 1  BY <2>1, <1>2 DEF Prompt
    <2>2. CASE ~(i <= k + 1)
      <3>1. i \in DOMAIN w.asked  BY <2>2, <1>1
      <3>2. w.asked[i] \in Prompt  BY <3>1, <1>1, ElementOfSeq DEF IsControl
      <3> QED  BY <3>2, <2>2
    <2> QED  BY <2>1, <2>2
  <1> HIDE DEF top
  <1>4. asked \in Seq(Prompt) /\ DOMAIN asked = 1 .. top
    BY <1>2, <1>3, SeqDef
  <1> HIDE DEF asked
  <1>5. DOMAIN w.answers \subseteq 1 .. top
    BY <1>1, <1>2 DEF IsControl
  <1>6. [w EXCEPT !.asked = asked] = [asked |-> asked, answers |-> w.answers]
    BY DEF IsControl
  <1> QED
    BY <1>4, <1>5, <1>6 DEF IsControl, top, asked

\* setResume keeps a control well formed.
LEMMA AnsweredType ==
  ASSUME NEW w, IsControl(w), NEW P, P \subseteq DOMAIN w.asked
  PROVE  IsControl(Answered(w, P))
  BY DEF IsControl, Answered

\* So does forkInterrupt, which drops the answers.
LEMMA ClearedType ==
  ASSUME NEW w, IsControl(w)
  PROVE  IsControl([w EXCEPT !.answers = NoAnswers])
  BY DEF IsControl, NoAnswers

-----------------------------------------------------------------------------
\* The tasks of a checkpoint are nodes of the graph.
LEMMA TasksAreNodes ==
  ASSUME NEW c
  PROVE  Tasks(c) \subseteq Nodes
  <1>1. \A i \in DOMAIN Layers : Layers[i] \subseteq Nodes
    BY RunAssumption, ElementOfSeq, LenProperties
  <1> QED  BY <1>1 DEF Tasks

\* What a new checkpoint, and a change of one checkpoint's pending writes,
\* leave intact.  A stored result is never replaced, so what earlier checkpoints
\* committed stays recorded.
LEMMA PutStep ==
  ASSUME DurableOK, Parents, CommittedAsRecorded,
         NEW cp \in Checkpoint, PutCheckpoint(cp),
         cp.source = "loop" => cp.parent \in DOMAIN cps,
         cp.source = "loop" /\ ~cp.replayed =>
             \A n \in Tasks(cp.parent) : Accounted(n, cp.results[n], store[cp.parent])
  PROVE  /\ DurableOK' /\ Parents' /\ CommittedAsRecorded'
         /\ Len(cps') = Len(cps) + 1
         /\ cps'[Len(cps) + 1] = cp
         /\ store'[Len(cps) + 1] = NoWrites
  <1>1. Len(cps) \in Nat /\ DOMAIN cps = 1 .. Len(cps)
    BY LenProperties DEF DurableOK
  <1>2. /\ cps' \in Seq(Checkpoint)
        /\ Len(cps') = Len(cps) + 1
        /\ DOMAIN cps' = 1 .. (Len(cps) + 1)
        /\ \A c \in DOMAIN cps : c \in DOMAIN cps' /\ cps'[c] = cps[c]
        /\ cps'[Len(cps) + 1] = cp
    BY <1>1, AppendProperties DEF DurableOK, PutCheckpoint
  <1>3. /\ store' = [c \in DOMAIN cps' |-> store'[c]]
        /\ store'[Len(cps) + 1] = NoWrites
        /\ \A c \in DOMAIN cps : store'[c] = store[c]
    BY <1>1, <1>2 DEF PutCheckpoint, Latest
  <1>4. \A c \in DOMAIN cps' : c \in DOMAIN cps \/ c = Len(cps) + 1
    BY <1>1, <1>2
  <1>5. DurableOK'
    <2>1. \A c \in DOMAIN cps' : IsWrites(store'[c])
      BY <1>3, <1>4, NoWritesType DEF DurableOK
    <2> QED  BY <2>1, <1>2, <1>3 DEF DurableOK
  <1>6. Parents'
    BY <1>2, <1>4 DEF Parents
  <1>8. CommittedAsRecorded'
    <2> SUFFICES ASSUME NEW c \in DOMAIN cps', cps'[c].source = "loop", ~cps'[c].replayed,
                        NEW n \in Tasks(cps[c].parent)'
                 PROVE  Accounted(n, cps'[c].results[n], store'[cps'[c].parent])
      BY DEF CommittedAsRecorded, Accounted
    <2>1. CASE c \in DOMAIN cps
      <3>1. cps'[c] = cps[c] /\ cps[c].parent \in DOMAIN cps
        BY <2>1, <1>2 DEF Parents
      <3>2. Tasks(cps[c].parent)' = Tasks(cps[c].parent)  BY <3>1, <1>2 DEF Tasks
      <3> QED  BY <3>1, <3>2, <2>1, <1>3 DEF CommittedAsRecorded
    <2>2. CASE c = Len(cps) + 1
      <3>1. cps'[c] = cp /\ cp.parent \in DOMAIN cps  BY <2>2, <1>2
      <3>2. Tasks(cps[c].parent)' = Tasks(cp.parent)  BY <3>1, <1>2 DEF Tasks
      <3> QED  BY <3>1, <3>2, <1>3
    <2> QED  BY <2>1, <2>2, <1>4
  <1> QED  BY <1>2, <1>3, <1>5, <1>6, <1>8

\* PutWrites on one checkpoint, as long as it replaces no stored result.
LEMMA WriteStep ==
  ASSUME DurableOK, Parents, CommittedAsRecorded,
         NEW c \in DOMAIN cps, NEW w, IsWrites(w),
         cps' = cps, store' = [store EXCEPT ![c] = w],
         \A n \in Nodes : store[c].result[n] # NoResult => w.result[n] = store[c].result[n]
  PROVE  /\ DurableOK' /\ Parents' /\ CommittedAsRecorded'
         /\ store'[c] = w
  <1>1. /\ store'[c] = w
        /\ \A d \in DOMAIN cps : d # c => store'[d] = store[d]
        /\ store' = [d \in DOMAIN cps |-> store'[d]]
    BY DEF DurableOK
  <1>2. DurableOK'
    BY <1>1 DEF DurableOK
  <1>3. Parents'
    BY DEF Parents
  <1>4. CommittedAsRecorded'
    <2> SUFFICES ASSUME NEW d \in DOMAIN cps, cps[d].source = "loop", ~cps[d].replayed,
                        NEW n \in Tasks(cps[d].parent)
                 PROVE  Accounted(n, cps[d].results[n], store'[cps[d].parent])
      <3>1. \A b : Tasks(b)' = Tasks(b)  BY DEF Tasks
      <3> QED  BY <3>1 DEF CommittedAsRecorded, Accounted
    <2>1. /\ Accounted(n, cps[d].results[n], store[cps[d].parent])
          /\ cps[d].parent \in DOMAIN cps
      BY DEF CommittedAsRecorded, Parents
    <2>2. n \in Nodes
      BY TasksAreNodes
    <2>3. CASE cps[d].parent = c
      BY <2>1, <2>2, <2>3, <1>1 DEF Accounted
    <2>4. CASE cps[d].parent # c
      BY <2>1, <2>4, <1>1
    <2> QED  BY <2>3, <2>4
  <1> QED  BY <1>1, <1>2, <1>3, <1>4

\* A step that calls no saver keeps the durable half of the invariant.
LEMMA SameDurable ==
  ASSUME DurableOK, Parents, CommittedAsRecorded, UNCHANGED durable
  PROVE  DurableOK' /\ Parents' /\ CommittedAsRecorded'
  BY DEF durable, DurableOK, Parents, CommittedAsRecorded, Tasks, Accounted

-----------------------------------------------------------------------------
\* The facts every step uses.
LEMMA CurFacts ==
  ASSUME DurableOK, RunOK
  PROVE  /\ Len(cps) \in Nat /\ DOMAIN cps = 1 .. Len(cps)
         /\ phase # "idle" => cur \in DOMAIN cps
         /\ \A c \in DOMAIN cps : IsWrites(store[c]) /\ cps[c] \in Checkpoint
  <1>1. Len(cps) \in Nat /\ DOMAIN cps = 1 .. Len(cps)
    BY LenProperties DEF DurableOK
  <1>2. \A c \in DOMAIN cps : cps[c] \in Checkpoint
    BY <1>1, ElementOfSeq DEF DurableOK
  <1>3. \A c \in DOMAIN cps : IsWrites(store[c])
    BY DEF DurableOK
  <1> QED  BY <1>1, <1>2, <1>3 DEF RunOK

\* A run that starts at a checkpoint, with the pending writes that are stored.
LEMMA BeginStep ==
  ASSUME RunOK, NEW c \in 1 .. Len(cps'), NEW w, IsWrites(w), NEW b \in BOOLEAN,
         BeginRun(c, w, b), UNCHANGED <<outcome, faults, heard>>,
         ~b => w.result = store'[c].result /\ w.failed = store'[c].failed
  PROVE  RunOK' /\ InGraph' /\ Sync'
  <1>1. RunOK'
    BY DEF RunOK, BeginRun
  <1>2. InGraph' /\ Sync'
    BY DEF InGraph, Sync, BeginRun
  <1> QED  BY <1>1, <1>2

\* Invoke starts in sync with the checkpoint it restores (restoreRun).
LEMMA InvokeStep ==
  ASSUME IInv, Invoke
  PROVE  IInv'
  <1> USE DEF IInv, TypeOK
  <1>1. TasksOK'  BY DEF Invoke, tasksOf, TasksOK
  <1>2. CASE cps = <<>>
    <2> DEFINE cp == [parent |-> 0, source |-> "input", layer |-> 1,
                      results |-> NoWrites.result, replayed |-> FALSE]
    <2>1. cp \in Checkpoint /\ cp.source # "loop"
      BY NoWritesType, RunAssumption DEF Checkpoint
    <2>2. PutCheckpoint(cp) /\ BeginRun(1, NoWrites, FALSE)
      BY <1>2 DEF Invoke
    <2> HIDE DEF cp
    <2>3. DurableOK' /\ Parents' /\ CommittedAsRecorded' /\ Len(cps') = Len(cps) + 1
          /\ store'[Len(cps) + 1] = NoWrites
      BY <2>1, <2>2, PutStep
    <2>4. 1 \in 1 .. Len(cps') /\ store'[1] = NoWrites
      <3>1. Len(cps) = 0  BY <1>2
      <3> QED  BY <3>1, <2>3
    <2>5. RunOK' /\ InGraph' /\ Sync'
      BY <2>2, <2>3, <2>4, BeginStep, NoWritesType DEF Invoke
    <2> QED  BY <1>1, <2>3, <2>5
  <1>3. CASE cps # <<>>
    <2>1. BeginRun(Latest, Restore(Latest), FALSE) /\ UNCHANGED durable
      BY <1>3 DEF Invoke
    <2>2. DurableOK' /\ Parents' /\ CommittedAsRecorded'
      BY <2>1, SameDurable
    <2>3. Latest \in DOMAIN cps
      BY <1>3, CurFacts, EmptySeq DEF Latest, DurableOK
    <2>4. RunOK' /\ InGraph' /\ Sync'
      BY <2>1, <2>3, BeginStep, CurFacts DEF Invoke, Restore, durable
    <2> QED  BY <1>1, <2>2, <2>4
  <1> QED  BY <1>2, <1>3

\* A fork checkpoint is a checkpoint.
LEMMA ForkType ==
  ASSUME DurableOK, RunOK, NEW c \in DOMAIN cps
  PROVE  ForkOf(c) \in Checkpoint /\ ForkOf(c).source # "loop"
  <1>1. cps[c] \in Checkpoint /\ c \in Nat  BY CurFacts
  <1>2. cps[c].layer \in 1 .. Len(Layers) + 1  BY <1>1 DEF Checkpoint
  <1>3. NoWrites.result \in [Nodes -> Result \cup {NoResult}]  BY NoWritesType
  <1> QED  BY <1>1, <1>2, <1>3 DEF ForkOf, Checkpoint

\* Invoke at a historical checkpoint forks, or replays in place.
LEMMA InvokeAtStep ==
  ASSUME IInv, NEW c \in DOMAIN cps, InvokeAt(c)
  PROVE  IInv'
  <1> USE DEF IInv, TypeOK
  <1>1. TasksOK'  BY DEF InvokeAt, tasksOf, TasksOK
  <1>2. CASE cps[c].source = "fork"
    <2>1. BeginRun(c, RestoreReplay(c), TRUE) /\ UNCHANGED durable
      BY <1>2 DEF InvokeAt
    <2>2. DurableOK' /\ Parents' /\ CommittedAsRecorded'
      BY <2>1, SameDurable
    <2>3. IsWrites(RestoreReplay(c))
      BY CurFacts, ReplaySnap DEF RestoreReplay, Restore
    <2>4. c \in 1 .. Len(cps')
      BY <2>1, CurFacts DEF durable
    <2>5. RunOK' /\ InGraph' /\ Sync'
      BY <2>1, <2>3, <2>4, BeginStep DEF InvokeAt
    <2> QED  BY <1>1, <2>2, <2>5
  <1>3. CASE cps[c].source # "fork"
    <2>1. PutCheckpoint(ForkOf(c)) /\ BeginRun(Latest + 1, NoWrites, FALSE)
      BY <1>3 DEF InvokeAt
    <2>2. /\ DurableOK' /\ Parents' /\ CommittedAsRecorded' /\ Len(cps') = Len(cps) + 1
          /\ store'[Len(cps) + 1] = NoWrites
      BY <2>1, PutStep, ForkType
    <2>3. Latest + 1 \in 1 .. Len(cps') /\ Latest = Len(cps)
      BY <2>2, CurFacts DEF Latest
    <2>4. RunOK' /\ InGraph' /\ Sync'
      BY <2>1, <2>2, <2>3, BeginStep, NoWritesType DEF InvokeAt
    <2> QED  BY <1>1, <2>2, <2>4
  <1> QED  BY <1>2, <1>3

\* Resume stores answers only, and restores what it stored.
LEMMA ResumeStep ==
  ASSUME IInv, NEW P, Resume(P)
  PROVE  IInv'
  <1> USE DEF IInv, TypeOK
  <1> DEFINE old == store[Latest]
             f == [n \in Nodes |-> Answered(old.control[n], {p[2] : p \in {q \in P : q[1] = n}})]
             new == [old EXCEPT !.control = f]
  <1>1. TasksOK'  BY DEF Resume, tasksOf, TasksOK
  <1>2. Latest \in DOMAIN cps /\ Latest \in 1 .. Len(cps)
    BY CurFacts DEF Latest, Resume
  <1>3. IsWrites(old)
    BY <1>2, CurFacts
  <1>4. store' = [store EXCEPT ![Latest] = new] /\ BeginRun(Latest, new, FALSE) /\ cps' = cps
    BY DEF Resume
  <1>5. \A n \in Nodes : IsControl(f[n])
    <2> SUFFICES ASSUME NEW n \in Nodes
                 PROVE  IsControl(Answered(old.control[n], {p[2] : p \in {q \in P : q[1] = n}}))
      OBVIOUS
    <2>1. IsControl(old.control[n])  BY <1>3 DEF IsWrites
    <2>2. \A p \in P : p[1] = n => p[2] \in DOMAIN old.control[n].asked
      BY DEF Resume, Pending, Open
    <2>3. {p[2] : p \in {q \in P : q[1] = n}} \subseteq DOMAIN old.control[n].asked
      BY <2>2
    <2> QED  BY <2>1, <2>3, AnsweredType
  <1>6. f = [n \in Nodes |-> f[n]]  OBVIOUS
  <1> HIDE DEF f
  <1>7. IsWrites(new) /\ new.result = old.result /\ new.failed = old.failed
    BY <1>3, <1>5, <1>6, ControlsWrite
  <1> HIDE DEF new
  <1>8. DurableOK' /\ Parents' /\ CommittedAsRecorded' /\ store'[Latest] = new
    BY <1>2, <1>4, <1>7, WriteStep
  <1>9. RunOK' /\ InGraph' /\ Sync'
    BY <1>2, <1>4, <1>7, <1>8, BeginStep DEF Resume
  <1> QED  BY <1>1, <1>8, <1>9

\* Resume past a static gate changes the gate entry only.
LEMMA ContinueStep ==
  ASSUME IInv, Continue
  PROVE  IInv'
  <1> USE DEF IInv, TypeOK
  <1> DEFINE old == store[Latest]
             new == WithGate(old, old.gate, TRUE)
  <1>1. TasksOK'  BY DEF Continue, tasksOf, TasksOK
  <1>2. Latest \in DOMAIN cps /\ Latest \in 1 .. Len(cps)
    BY CurFacts DEF Latest, Continue
  <1>3. IsWrites(old) /\ old.gate \in {"none", "before", "after"}
    BY <1>2, CurFacts DEF IsWrites
  <1>4. store' = [store EXCEPT ![Latest] = new] /\ BeginRun(Latest, new, FALSE) /\ cps' = cps
    BY DEF Continue
  <1>5. IsWrites(new) /\ new.result = old.result /\ new.failed = old.failed
    BY <1>3, GateWrite
  <1> HIDE DEF new
  <1>6. DurableOK' /\ Parents' /\ CommittedAsRecorded' /\ store'[Latest] = new
    BY <1>2, <1>4, <1>5, WriteStep
  <1>7. RunOK' /\ InGraph' /\ Sync'
    BY <1>2, <1>4, <1>5, <1>6, BeginStep DEF Continue
  <1> QED  BY <1>1, <1>6, <1>7

\* Steps after which no super-step is under way.
LEMMA LeaveStep ==
  ASSUME RunOK, phase' \in {"idle", "after", "forking"}, cur' \in 1 .. Len(cps'),
         replay' \in BOOLEAN, UNCHANGED <<snap, heard>>,
         outcome' \in {"none", "done", "interrupt", "error"}, faults' \in 0 .. MaxFaults
  PROVE  RunOK' /\ InGraph' /\ Sync'
  <1>1. RunOK'
    BY DEF RunOK
  <1>2. InGraph' /\ Sync'
    BY DEF InGraph, Sync
  <1> QED  BY <1>1, <1>2

\* forkInterrupt publishes a checkpoint without results.
LEMMA ResumeAtStep ==
  ASSUME IInv, NEW c \in DOMAIN cps, ResumeAt(c)
  PROVE  IInv'
  <1> USE DEF IInv, TypeOK
  <1>1. TasksOK'  BY DEF ResumeAt, tasksOf, TasksOK
  <1>2. DurableOK' /\ Parents' /\ CommittedAsRecorded' /\ Len(cps') = Len(cps) + 1
    BY PutStep, ForkType DEF ResumeAt
  <1>3. cur' \in 1 .. Len(cps')
    BY <1>2, CurFacts DEF ResumeAt
  <1>4. RunOK' /\ InGraph' /\ Sync'
    BY <1>3, LeaveStep DEF ResumeAt, RunOK
  <1> QED  BY <1>1, <1>2, <1>4

\* The controls copied to the fork carry no results.
LEMMA ForkControlsStep ==
  ASSUME IInv, ForkControls
  PROVE  IInv'
  <1> USE DEF IInv, TypeOK
  <1> DEFINE old == store[Latest]
             f == [n \in Nodes |-> [store[cur].control[n] EXCEPT !.answers = NoAnswers]]
             new == [old EXCEPT !.control = f]
  <1>1. TasksOK'  BY DEF ForkControls, tasksOf, TasksOK
  <1>2. cur \in DOMAIN cps /\ Latest \in DOMAIN cps /\ cur \in 1 .. Len(cps)
    BY CurFacts DEF Latest, ForkControls
  <1>3. IsWrites(old) /\ IsWrites(store[cur])
    BY <1>2, CurFacts
  <1>4. store' = [store EXCEPT ![Latest] = new] /\ cps' = cps
    BY DEF ForkControls, ForkedStore
  <1>5. \A n \in Nodes : IsControl(f[n])
    BY <1>3, ClearedType DEF IsWrites
  <1>6. f = [n \in Nodes |-> f[n]]  OBVIOUS
  <1> HIDE DEF f
  <1>7. IsWrites(new) /\ new.result = old.result /\ new.failed = old.failed
    BY <1>3, <1>5, <1>6, ControlsWrite
  <1> HIDE DEF new
  <1>8. DurableOK' /\ Parents' /\ CommittedAsRecorded'
    BY <1>2, <1>4, <1>7, WriteStep
  <1>9. RunOK' /\ InGraph' /\ Sync'
    BY <1>2, <1>4, LeaveStep DEF ForkControls, RunOK
  <1> QED  BY <1>1, <1>8, <1>9

\* A run without tasks ends and stores nothing.
LEMMA FinishStep ==
  ASSUME IInv, Finish
  PROVE  IInv'
  <1> USE DEF IInv, TypeOK
  <1>1. TasksOK'  BY DEF Finish, tasksOf, TasksOK
  <1>2. DurableOK' /\ Parents' /\ CommittedAsRecorded'
    BY SameDurable DEF Finish
  <1>3. RunOK' /\ InGraph' /\ Sync'
    BY LeaveStep, CurFacts DEF Finish, RunOK, durable
  <1> QED  BY <1>1, <1>2, <1>3

\* A crash loses memory only.
LEMMA CrashStep ==
  ASSUME IInv, Crash
  PROVE  IInv'
  <1> USE DEF IInv, TypeOK
  <1>1. TasksOK'  BY DEF Crash, tasksOf, TasksOK
  <1>2. DurableOK' /\ Parents' /\ CommittedAsRecorded'
    BY SameDurable DEF Crash
  <1>3. faults' \in 0 .. MaxFaults
    BY RunAssumption DEF Crash, Fault, RunOK
  <1>4. RunOK' /\ InGraph' /\ Sync'
    BY <1>3, LeaveStep, CurFacts DEF Crash, RunOK, durable
  <1> QED  BY <1>1, <1>2, <1>4

\* putStaticInterrupt writes the gate entry only.
LEMMA PauseStep ==
  ASSUME IInv, NEW kind \in {"before", "after"}, phase # "idle", PauseAt(kind)
  PROVE  IInv'
  <1> USE DEF IInv, TypeOK
  <1> DEFINE new == WithGate(store[cur], kind, FALSE)
  <1>1. TasksOK'  BY DEF PauseAt, tasksOf, TasksOK
  <1>2. cur \in DOMAIN cps /\ IsWrites(store[cur]) /\ cur \in 1 .. Len(cps)
    BY CurFacts
  <1>3. store' = [store EXCEPT ![cur] = new] /\ cps' = cps
    BY DEF PauseAt
  <1>4. IsWrites(new) /\ new.result = store[cur].result
    BY <1>2, GateWrite, FALSE \in BOOLEAN, kind \in {"none", "before", "after"}
  <1> HIDE DEF new
  <1>5. DurableOK' /\ Parents' /\ CommittedAsRecorded'
    BY <1>2, <1>3, <1>4, WriteStep
  <1>6. RunOK' /\ InGraph' /\ Sync'
    BY <1>2, <1>3, LeaveStep DEF PauseAt, RunOK
  <1> QED  BY <1>1, <1>5, <1>6

-----------------------------------------------------------------------------
\* A super-step starts with every task ready and the snapshot in sync.
LEMMA StartStepStep ==
  ASSUME IInv, StartStep
  PROVE  IInv'
  <1> USE DEF IInv, TypeOK
  <1>1. TasksOK'  BY NoWritesType DEF StartStep, TasksOK
  <1>2. DurableOK' /\ Parents' /\ CommittedAsRecorded'
    BY SameDurable DEF StartStep
  <1>3. RunOK'  BY DEF StartStep, RunOK, durable
  <1>4. InGraph'  BY DEF StartStep, InGraph, Tasks, durable
  <1>5. Sync'
    <2> SUFFICES ASSUME ~replay, NEW n \in Tasks(cur)'
                 PROVE  TaskSync(n)'
      BY DEF Sync, StartStep
    <2>1. n \in Nodes  BY TasksAreNodes DEF StartStep, durable, Tasks
    <2>2. snap.result = store[cur].result /\ snap.failed = store[cur].failed
      BY DEF Sync, StartStep
    <2> QED  BY <2>1, <2>2 DEF TaskSync, StartStep, durable, Asker
  <1> QED  BY <1>1, <1>2, <1>3, <1>4, <1>5

\* A step of one task inside a super-step: the other tasks keep their pc and
\* results, and their entries of the pending writes.
LEMMA OtherTasks ==
  ASSUME Sync, TasksOK, phase = "step", NEW n \in Nodes,
         UNCHANGED <<cps, phase, cur, replay, snap>>,
         \A m \in Nodes : m # n =>
             /\ pc'[m] = pc[m] /\ results'[m] = results[m]
             /\ store'[cur].result[m] = store[cur].result[m]
             /\ m \in store'[cur].failed <=> m \in store[cur].failed,
         ~replay /\ n \in Tasks(cur) => TaskSync(n)'
  PROVE  Sync'
  <1> SUFFICES ASSUME ~replay, NEW m \in Tasks(cur)
               PROVE  TaskSync(m)'
    BY DEF Sync, Tasks
  <1>1. m \in Nodes  BY TasksAreNodes
  <1>2. CASE m = n  BY <1>2
  <1>3. CASE m # n
    <2>1. TaskSync(m)  BY DEF Sync
    <2> QED  BY <2>1, <1>1, <1>3 DEF TaskSync, Accounted
  <1> QED  BY <1>2, <1>3

\* A task's step leaves the run's own state well formed.
LEMMA SameRun ==
  ASSUME RunOK, InGraph, UNCHANGED <<cps, phase, cur, replay, snap, outcome>>,
         faults' \in 0 .. MaxFaults, heard' \subseteq Nodes \X Prompt \X (Prompt \cup {Null})
  PROVE  RunOK' /\ InGraph'
  <1>1. RunOK'  BY DEF RunOK
  <1>2. InGraph'  BY DEF InGraph
  <1> QED  BY <1>1, <1>2

\* A launched task has no stored result, or takes over the one that is.
LEMMA LaunchStep ==
  ASSUME IInv, NEW n \in Nodes, Launch(n)
  PROVE  IInv'
  <1> USE DEF IInv, TypeOK
  <1>1. TasksOK'
    BY DEF Launch, TasksOK, RunOK, IsWrites
  <1>2. DurableOK' /\ Parents' /\ CommittedAsRecorded'
    BY SameDurable DEF Launch
  <1>3. RunOK' /\ InGraph'
    BY SameRun DEF Launch, RunOK, durable
  <1>4. Sync'
    <2>1. ASSUME ~replay, n \in Tasks(cur) PROVE TaskSync(n)'
      <3>1. TaskSync(n) /\ pc[n] = "ready"  BY <2>1 DEF Sync, Launch, NextToLaunch
      <3>2. CASE snap.result[n] # NoResult
        BY <3>1, <3>2 DEF TaskSync, Launch, durable, TasksOK, Asker, Accounted
      <3>3. CASE snap.result[n] = NoResult /\ n \in snap.failed
        BY <3>1, <3>3 DEF TaskSync, Launch, durable, TasksOK, Asker
      <3>4. CASE snap.result[n] = NoResult /\ n \notin snap.failed
        BY <3>1, <3>4 DEF TaskSync, Launch, durable, TasksOK, Asker
      <3> QED  BY <3>2, <3>3, <3>4
    <2>2. \A m \in Nodes : m # n =>
             /\ pc'[m] = pc[m] /\ results'[m] = results[m]
             /\ store'[cur].result[m] = store[cur].result[m]
             /\ m \in store'[cur].failed <=> m \in store[cur].failed
      BY DEF Launch, durable, TasksOK
    <2> QED  BY <2>1, <2>2, OtherTasks DEF Launch, NextToLaunch, durable
  <1> QED  BY <1>1, <1>2, <1>3, <1>4

\* An answered interrupt call stores nothing.
LEMMA HearStep ==
  ASSUME IInv, NEW n \in Nodes, Hear(n)
  PROVE  IInv'
  <1> USE DEF IInv, TypeOK
  <1>1. TasksOK'  BY DEF Hear, TasksOK
  <1>2. DurableOK' /\ Parents' /\ CommittedAsRecorded'
    BY SameDurable DEF Hear
  <1>3. heard' \subseteq Nodes \X Prompt \X (Prompt \cup {Null})
    <2>1. <<pc[n], at[n] + 1>> \in Prompt
      BY DEF Hear, Running, Prompt, TasksOK
    <2>2. snap.control[n].answers[at[n] + 1] \in Prompt \cup {Null}
      BY DEF Hear, RunOK, IsWrites, IsControl
    <2> QED  BY <2>1, <2>2 DEF Hear, RunOK
  <1>4. RunOK' /\ InGraph'
    BY <1>3, SameRun DEF Hear, RunOK, durable
  <1>5. Sync'
    BY DEF Sync, TaskSync, Hear, durable, Tasks
  <1> QED  BY <1>1, <1>2, <1>4, <1>5

\* A retried attempt stores nothing.
LEMMA RetryStep ==
  ASSUME IInv, NEW n \in Nodes, Retry(n)
  PROVE  IInv'
  <1> USE DEF IInv, TypeOK
  <1>1. TasksOK'  BY DEF Retry, TasksOK
  <1>2. DurableOK' /\ Parents' /\ CommittedAsRecorded'
    BY SameDurable DEF Retry
  <1>3. faults' \in 0 .. MaxFaults
    BY RunAssumption DEF Retry, Fault, RunOK
  <1>4. RunOK' /\ InGraph'
    BY <1>3, SameRun DEF Retry, RunOK, durable
  <1>5. Sync'
    BY DEF Sync, TaskSync, Retry, durable, Tasks
  <1> QED  BY <1>1, <1>2, <1>4, <1>5

\* The answer of a saver call leaves the task in the expected state, or failed.
LEMMA ReportedType ==
  ASSUME TasksOK, RunOK, NEW n \in Nodes, NEW ok \in {"done", "interrupted"}, Reported(n, ok)
  PROVE  /\ pc' \in [Nodes -> {"ready", "body", "handler", "done", "interrupted", "failed"}]
         /\ cancelled' \in BOOLEAN /\ faults' \in 0 .. MaxFaults
         /\ pc'[n] \in {ok, "failed"}
         /\ \A m \in Nodes : m # n => pc'[m] = pc[m]
  <1>1. CASE pc' = [pc EXCEPT ![n] = ok] /\ UNCHANGED <<cancelled, faults>>
    BY <1>1 DEF TasksOK, RunOK
  <1>2. CASE Fault /\ pc' = [pc EXCEPT ![n] = "failed"] /\ cancelled' = TRUE
    <2>1. faults' \in 0 .. MaxFaults  BY <1>2, RunAssumption DEF Fault, RunOK
    <2> QED  BY <2>1, <1>2 DEF TasksOK
  <1> QED  BY <1>1, <1>2 DEF Reported

\* A result from the cache stores nothing, and is told by where it came from.
LEMMA CacheHitStep ==
  ASSUME IInv, NEW n \in Nodes, NEW v \in Values, CacheHit(n, v)
  PROVE  IInv'
  <1> USE DEF IInv, TypeOK
  <1> DEFINE r == [value |-> v, by |-> "cache"]
  <1>1. r \in Result /\ r # NoResult /\ r.by = "cache"
    BY NoResultAssumption DEF Result
  <1>2. /\ results' = [results EXCEPT ![n] = r] /\ Reported(n, "done")
        /\ UNCHANGED <<cps, store, phase, cur, replay, snap, at, outcome, heard>>
        /\ phase = "step" /\ n \in Cached
    BY DEF CacheHit, NextToLaunch, durable
  <1> HIDE DEF r
  <1>3. TasksOK'
    BY <1>1, <1>2, ReportedType DEF TasksOK
  <1>4. DurableOK' /\ Parents' /\ CommittedAsRecorded'
    BY <1>2, SameDurable DEF durable
  <1>5. RunOK' /\ InGraph'
    BY <1>2, ReportedType, SameRun DEF RunOK
  <1>6. Sync'
    <2>1. results'[n] = r  BY <1>2 DEF TasksOK
    <2>2. TaskSync(n)'
      BY <2>1, <1>1, <1>2, ReportedType DEF TaskSync, Asker, Accounted
    <2> QED  BY <2>2, <1>2, ReportedType, OtherTasks DEF TasksOK
  <1> QED  BY <1>3, <1>4, <1>5, <1>6

\* A raised interrupt stores a control, whatever the saver reports.
LEMMA InterruptStep ==
  ASSUME IInv, NEW n \in Nodes, Interrupt(n)
  PROVE  IInv'
  <1> USE DEF IInv, TypeOK
  <1> DEFINE new == [store[cur] EXCEPT !.control[n] = SignalControl(n)]
  <1>0. cur \in DOMAIN cps /\ IsWrites(store[cur])
    BY CurFacts DEF Interrupt
  <1>1. IsControl(SignalControl(n))
    <2>1. IsControl(snap.control[n]) /\ at[n] \in Nat /\ pc[n] \in Asker
      BY DEF Interrupt, Running, RunOK, IsWrites, TasksOK
    <2> QED  BY <2>1, SignalControlType DEF SignalControl
  <1>2. IsWrites(new) /\ new.result = store[cur].result /\ new.failed = store[cur].failed
    BY <1>0, <1>1, ControlWrite
  <1>3. store' = [store EXCEPT ![cur] = new] /\ cps' = cps
    BY DEF Interrupt
  <1> HIDE DEF new
  <1>4. DurableOK' /\ Parents' /\ CommittedAsRecorded' /\ store'[cur] = new
    BY <1>0, <1>2, <1>3, WriteStep
  <1>5. Reported(n, "interrupted")  BY DEF Interrupt
  <1>6. TasksOK'
    BY <1>5, ReportedType DEF TasksOK, Interrupt
  <1>7. RunOK' /\ InGraph'
    BY <1>5, ReportedType, SameRun DEF Interrupt, RunOK
  <1>8. Sync'
    <2>1. TaskSync(n)'
      BY <1>5, ReportedType DEF TaskSync, Asker
    <2> QED  BY <2>1, <1>2, <1>4, <1>5, ReportedType, OtherTasks DEF Interrupt
  <1> QED  BY <1>4, <1>6, <1>7, <1>8

\* A returning task stores the result it reports: there was none before.
LEMMA ReturnStep ==
  ASSUME IInv, NEW n \in Nodes, NEW v \in Values, Return(n, v)
  PROVE  IInv'
  <1> USE DEF IInv, TypeOK
  <1> DEFINE r == [value |-> v, by |-> pc[n]]
             new == IF store[cur].result[n] = NoResult
                    THEN [store[cur] EXCEPT !.result[n] = r] ELSE store[cur]
  <1>0. cur \in DOMAIN cps /\ IsWrites(store[cur])
    BY CurFacts DEF Return
  <1>1. r \in Result /\ r # NoResult
    BY NoResultAssumption DEF Return, Running, Result
  <1>2. /\ IsWrites(new)
        /\ \A m \in Nodes : new.result[m] =
              IF m = n /\ store[cur].result[n] = NoResult THEN r ELSE store[cur].result[m]
        /\ new.failed = store[cur].failed
    BY <1>0, <1>1, ResultWrite DEF IsWrites
  <1>3. store' = [store EXCEPT ![cur] = new] /\ cps' = cps
    BY <1>0 DEF Return, DurableOK
  <1>4. results' = [results EXCEPT ![n] = r]
    BY DEF Return
  <1> HIDE DEF new, r
  <1>5. DurableOK' /\ Parents' /\ CommittedAsRecorded' /\ store'[cur] = new
    <2>1. \A m \in Nodes : store[cur].result[m] # NoResult => new.result[m] = store[cur].result[m]
      BY <1>2
    <2> QED  BY <2>1, <1>0, <1>2, <1>3, WriteStep
  <1>6. Reported(n, "done")  BY DEF Return
  <1>7. TasksOK'
    BY <1>1, <1>4, <1>6, ReportedType DEF TasksOK, Return
  <1>8. RunOK' /\ InGraph'
    BY <1>6, ReportedType, SameRun DEF Return, RunOK
  <1>9. Sync'
    <2>1. ASSUME ~replay, n \in Tasks(cur) PROVE TaskSync(n)'
      <3>1. store[cur].result[n] = NoResult
        BY <2>1 DEF Sync, TaskSync, Return, Running
      <3>2. store'[cur].result[n] = r /\ results'[n] = r
        BY <3>1, <1>2, <1>4, <1>5 DEF TasksOK
      <3> QED
        BY <3>2, <1>1, <1>6, ReportedType DEF TaskSync, Return, Asker, Accounted
    <2> QED
      BY <2>1, <1>2, <1>4, <1>5, <1>6, ReportedType, OtherTasks DEF Return, TasksOK
  <1> QED  BY <1>5, <1>7, <1>8, <1>9

\* A stored failure marker moves the task to its handler in the same step.
LEMMA FailToHandlerStep ==
  ASSUME IInv, NEW n \in Nodes, FailToHandler(n)
  PROVE  IInv'
  <1> USE DEF IInv, TypeOK
  <1> DEFINE new == [store[cur] EXCEPT !.failed = @ \cup {n}]
  <1>0. cur \in DOMAIN cps /\ IsWrites(store[cur])
    BY CurFacts DEF FailToHandler
  <1>1. IsWrites(new) /\ new.result = store[cur].result /\ new.failed = store[cur].failed \cup {n}
    BY <1>0, FailedWrite
  <1>2. store' = [store EXCEPT ![cur] = new] /\ cps' = cps
    BY DEF FailToHandler
  <1> HIDE DEF new
  <1>3. DurableOK' /\ Parents' /\ CommittedAsRecorded' /\ store'[cur] = new
    BY <1>0, <1>1, <1>2, WriteStep
  <1>4. TasksOK'
    BY DEF TasksOK, FailToHandler
  <1>5. faults' \in 0 .. MaxFaults
    BY RunAssumption DEF FailToHandler, Fault, RunOK
  <1>6. RunOK' /\ InGraph'
    BY <1>5, SameRun DEF FailToHandler, RunOK
  <1>7. Sync'
    <2>1. ASSUME ~replay, n \in Tasks(cur) PROVE TaskSync(n)'
      BY <2>1, <1>1, <1>3 DEF Sync, TaskSync, FailToHandler, TasksOK, Asker
    <2> QED  BY <2>1, <1>1, <1>3, OtherTasks DEF FailToHandler, TasksOK
  <1> QED  BY <1>3, <1>4, <1>6, <1>7

\* A failed task is no longer in step with anything.
LEMMA FailStep ==
  ASSUME IInv, NEW n \in Nodes, Fail(n)
  PROVE  IInv'
  <1> USE DEF IInv, TypeOK
  <1> DEFINE new == [store[cur] EXCEPT !.failed = @ \cup {n}]
  <1>0. cur \in DOMAIN cps /\ IsWrites(store[cur])
    BY CurFacts DEF Fail
  <1>1. IsWrites(new) /\ new.result = store[cur].result /\ new.failed = store[cur].failed \cup {n}
    BY <1>0, FailedWrite
  <1>2. cps' = cps /\ (store' = store \/ store' = [store EXCEPT ![cur] = new])
    BY DEF Fail
  <1> HIDE DEF new
  <1>3. /\ DurableOK' /\ Parents' /\ CommittedAsRecorded'
        /\ store'[cur] = store[cur] \/ store'[cur] = new
    <2>1. CASE store' = store  BY <2>1, <1>2, SameDurable DEF durable
    <2>2. CASE store' = [store EXCEPT ![cur] = new]
      BY <2>2, <1>0, <1>1, <1>2, WriteStep
    <2> QED  BY <2>1, <2>2, <1>2
  <1>4. TasksOK'
    BY DEF TasksOK, Fail
  <1>5. faults' \in 0 .. MaxFaults
    BY RunAssumption, SMTT(30) DEF Fail, Fault, RunOK
  <1>6. RunOK' /\ InGraph'
    BY <1>5, SameRun DEF Fail, RunOK
  <1>7. Sync'
    <2>1. TaskSync(n)'
      BY DEF TaskSync, Fail, TasksOK, Asker
    <2> QED  BY <2>1, <1>1, <1>3, OtherTasks DEF Fail, TasksOK
  <1> QED  BY <1>3, <1>4, <1>6, <1>7

-----------------------------------------------------------------------------
\* group.Wait commits only when every task of the super-step is done.
LEMMA WaitStep ==
  ASSUME IInv, Wait
  PROVE  IInv'
  <1> USE DEF IInv, TypeOK
  <1>1. TasksOK'  BY DEF Wait, tasksOf, TasksOK
  <1>2. DurableOK' /\ Parents' /\ CommittedAsRecorded'
    BY SameDurable DEF Wait
  <1>3. RunOK'  BY DEF Wait, RunOK, durable
  <1>4. InGraph'  BY DEF Wait, InGraph, durable
  <1>5. Sync'
    <2> SUFFICES ASSUME phase' = "commit", ~replay, NEW n \in Tasks(cur)'
                 PROVE  Accounted(n, results[n], store[cur])
      BY DEF Sync, Wait, durable, tasksOf
    <2>1. n \in Tasks(cur)  BY DEF Wait, durable, Tasks
    <2>2. pc[n] = "done"  BY <2>1 DEF Wait
    <2> QED  BY <2>1, <2>2 DEF Wait, Sync, TaskSync
  <1> QED  BY <1>1, <1>2, <1>3, <1>4, <1>5

\* The boundary folds exactly what the parent records; the run moves to it.
LEMMA CommitStep ==
  ASSUME IInv, Commit
  PROVE  IInv'
  <1> USE DEF IInv, TypeOK
  <1> DEFINE cp == [parent |-> cur, source |-> "loop", layer |-> cps[cur].layer + 1,
                    results |-> results, replayed |-> replay]
  <1>1. TasksOK'  BY DEF Commit, tasksOf, TasksOK
  <1>2. cur \in DOMAIN cps /\ cur \in Nat
    BY CurFacts DEF Commit
  <1>3. cps[cur].layer + 1 \in 1 .. Len(Layers) + 1
    BY RunAssumption, LenProperties DEF InGraph, Commit
  <1>4. cp \in Checkpoint /\ cp.parent = cur /\ cp.results = results /\ cp.replayed = replay
    BY <1>2, <1>3 DEF Checkpoint, TasksOK, RunOK
  <1>5. PutCheckpoint(cp)  BY DEF Commit
  <1> HIDE DEF cp
  <1>6. ~replay => \A n \in Tasks(cur) : Accounted(n, results[n], store[cur])
    BY DEF Sync, Commit
  <1>7. /\ DurableOK' /\ Parents' /\ CommittedAsRecorded' /\ Len(cps') = Len(cps) + 1
        /\ store'[Len(cps) + 1] = NoWrites
    BY <1>2, <1>4, <1>5, <1>6, PutStep
  <1>8. cur' \in 1 .. Len(cps') /\ cur' = Len(cps) + 1
    BY <1>7, CurFacts DEF Commit, Latest
  <1>9. RunOK'
    <2>1. phase' \in {"gate", "after"}  BY DEF Commit
    <2>2. cur' \in 0 .. Len(cps') /\ cur' # 0  BY <1>8
    <2>3. IsWrites(snap')  BY NoWritesType DEF Commit
    <2>4. IsWrites(snap)'  BY <2>3 DEF IsWrites
    <2>5. replay' \in BOOLEAN  BY DEF Commit
    <2> QED  BY <2>1, <2>2, <2>4, <2>5, Zenon DEF Commit, RunOK
  <1>10. InGraph' /\ Sync'
    BY <1>7, <1>8 DEF Commit, InGraph, Sync
  <1> QED  BY <1>1, <1>7, <1>9, <1>10

\* The empty thread satisfies the invariant.
LEMMA InitIInv == Init => IInv
  <1> SUFFICES ASSUME Init PROVE IInv  OBVIOUS
  <1>1. cps = <<>> /\ DOMAIN cps = {} /\ Len(cps) = 0 /\ cps \in Seq(Checkpoint)
    BY EmptySeq DEF Init
  <1>2. DurableOK  BY <1>1 DEF Init, DurableOK
  <1>3. RunOK
    <2>1. cur \in 0 .. Len(cps) /\ faults \in 0 .. MaxFaults
      BY <1>1, RunAssumption DEF Init
    <2>2. IsWrites(snap)  BY NoWritesType DEF Init
    <2>3. phase = "idle" /\ outcome = "none" /\ replay = FALSE /\ heard = {}
      BY DEF Init
    <2> QED  BY <2>1, <2>2, <2>3 DEF RunOK
  <1>4. TasksOK  BY DEF Init, TasksOK
  <1>5. InGraph /\ Sync /\ Parents /\ CommittedAsRecorded
    BY <1>1 DEF Init, InGraph, Sync, Parents, CommittedAsRecorded
  <1> QED  BY <1>2, <1>3, <1>4, <1>5 DEF IInv, TypeOK

\* Every step of every client, task and fault keeps it.
LEMMA NextIInv == IInv /\ [Next]_vars => IInv'
  <1> SUFFICES ASSUME IInv, [Next]_vars PROVE IInv'  OBVIOUS
  <1>1. CASE UNCHANGED vars
    <2>1. UNCHANGED <<durable, tasksOf, phase, cur, replay, snap, outcome, faults, heard>>
      BY <1>1 DEF vars, durable, tasksOf
    <2> QED
      BY <2>1, ZenonT(60) DEF IInv, TypeOK, DurableOK, RunOK, TasksOK, InGraph, Parents, Sync,
                  TaskSync, CommittedAsRecorded, Accounted, Tasks, durable, tasksOf
  <1>2. CASE Invoke  BY <1>2, InvokeStep
  <1>3. CASE \E c \in DOMAIN cps : InvokeAt(c) \/ ResumeAt(c)
    BY <1>3, InvokeAtStep, ResumeAtStep
  <1>4. CASE Latest > 0 /\ \E P \in SUBSET Pending(Latest) : Resume(P)
    BY <1>4, ResumeStep
  <1>5. CASE Continue  BY <1>5, ContinueStep
  <1>6. CASE Crash  BY <1>6, CrashStep
  <1>7. CASE RunStep
    <2>1. CASE Finish  BY <2>1, FinishStep
    <2>2. CASE PauseBefore  BY <2>2, PauseStep DEF PauseBefore
    <2>3. CASE StartStep  BY <2>3, StartStepStep
    <2>4. CASE \E n \in Nodes : TaskStep(n)
      <3>1. PICK n \in Nodes : TaskStep(n)  BY <2>4
      <3> QED
        BY <3>1, LaunchStep, HearStep, InterruptStep, RetryStep, FailToHandlerStep,
           FailStep, CacheHitStep, ReturnStep DEF TaskStep
    <2>5. CASE Wait  BY <2>5, WaitStep
    <2>6. CASE Commit  BY <2>6, CommitStep
    <2>7. CASE PauseAfter  BY <2>7, PauseStep DEF PauseAfter
    <2>8. CASE ForkControls  BY <2>8, ForkControlsStep
    <2> QED  BY <1>7, <2>1, <2>2, <2>3, <2>4, <2>5, <2>6, <2>7, <2>8 DEF RunStep
  <1> QED  BY <1>1, <1>2, <1>3, <1>4, <1>5, <1>6, <1>7 DEF Next

\* Every state of every thread satisfies the invariant.
LEMMA Invariance == Spec => []IInv
  BY InitIInv, NextIInv, PTL DEF Spec

\* The state of a thread has its type: pending writes, controls, checkpoints.
THEOREM RunTypeCorrect == Spec => []TypeOK
  <1>1. IInv => TypeOK  BY DEF IInv
  <1> QED  BY <1>1, Invariance, PTL

\* Recovery never repeats recorded work, for every graph and every sequence of
\* failures, crashes, resumes and forks (executeStep, restoreRun).
THEOREM RecoveryIsExact == Spec => []WorkNotRepeated
  <1>1. IInv => WorkNotRepeated
    BY DEF IInv, Sync, TaskSync, WorkNotRepeated, Running
  <1> QED  BY <1>1, Invariance, PTL

\* Every committed checkpoint folds exactly the results its parent records, and
\* besides them only results of the cache, for nodes that have a cache policy
\* (executeStep, commitCheckpoint).
THEOREM HistoryIsRecorded == Spec => []CommittedAsRecorded
  <1>1. IInv => CommittedAsRecorded  BY DEF IInv
  <1> QED  BY <1>1, Invariance, PTL
-----------------------------------------------------------------------------
(***************************************************************************)
(* Gates, prompts and history.  A run that is not a replay works at the    *)
(* latest checkpoint (a fork in the making is the latest and still empty), *)
(* has no gate consumed that the store does not, and knows the answers the *)
(* store has; an interrupted task has an open prompt there.                *)
(***************************************************************************)
RunAt ==
    /\ phase \notin {"idle", "forking"} /\ ~replay => cur = Latest
    /\ phase = "forking" =>
          /\ ~replay
          /\ cur # Latest
          /\ store[Latest] = NoWrites
          /\ cps[Latest].layer = cps[cur].layer
          /\ \E n \in Tasks(cur) : store[cur].control[n] # NoControl

GateSync ==
    phase = "gate" /\ StaticBeforeConsumed =>
        store[cur].gate = "before" /\ store[cur].consumed

AnswerSync ==
    phase \in {"gate", "step"} /\ ~replay =>
        \A n \in Nodes : store[cur].control[n].answers = snap.control[n].answers

AskedOpen ==
    phase = "step" =>
        \A n \in Tasks(cur) : pc[n] = "interrupted" => Open(store[cur].control[n]) # {}

HInv == RunAt /\ GateSync /\ GateRespected /\ AnswerSync /\ AskedOpen /\ InterruptsResumable

\* What a step may do to the pending writes that are stored: history changes
\* only where a run re-executes it, and answers stay.
AnswersStay(c) ==
    \A n \in Nodes : \A i \in DOMAIN store[c].control[n].answers :
        /\ i \in DOMAIN store'[c].control[n].answers
        /\ store'[c].control[n].answers[i] = store[c].control[n].answers[i]
Kept ==
    \A c \in DOMAIN cps : ~(replay /\ c = cur) =>
        (c # Latest => store'[c] = store[c]) /\ AnswersStay(c)

\* A step that stores nothing, or a new checkpoint, keeps history.
LEMMA NothingLost ==
  ASSUME DurableOK, store' = store \/ \E cp : PutCheckpoint(cp)
  PROVE  Kept
  <1>1. \A c \in DOMAIN cps : store'[c] = store[c]
    <2>1. CASE store' = store  BY <2>1
    <2>2. CASE \E cp : PutCheckpoint(cp)
      BY <2>2, LenProperties DEF PutCheckpoint, Latest, DurableOK
    <2> QED  BY <2>1, <2>2
  <1> QED  BY <1>1 DEF Kept, AnswersStay

\* Nor does PutWrites on the latest checkpoint, or on the one that is replayed,
\* when the answers stay.
LEMMA WriteKeeps ==
  ASSUME DurableOK, NEW c \in DOMAIN cps, NEW w, store' = [store EXCEPT ![c] = w],
         c = Latest \/ (replay /\ c = cur),
         ~replay \/ c # cur =>
             \A n \in Nodes : \A i \in DOMAIN store[c].control[n].answers :
                 /\ i \in DOMAIN w.control[n].answers
                 /\ w.control[n].answers[i] = store[c].control[n].answers[i]
  PROVE  Kept
  <1>1. store'[c] = w /\ \A d \in DOMAIN cps : d # c => store'[d] = store[d]
    BY DEF DurableOK
  <1> SUFFICES ASSUME NEW d \in DOMAIN cps, ~(replay /\ d = cur)
               PROVE  (d # Latest => store'[d] = store[d]) /\ AnswersStay(d)
    BY DEF Kept
  <1>2. CASE d = c  BY <1>1, <1>2 DEF AnswersStay
  <1>3. CASE d # c  BY <1>1, <1>3 DEF AnswersStay
  <1> QED  BY <1>2, <1>3

\* A run that starts at the latest checkpoint knows what is stored there; one
\* that replays starts with no gate consumed.
LEMMA BeginHInv ==
  ASSUME NEW c, NEW w, NEW b \in BOOLEAN, BeginRun(c, w, b),
         b \/ c = Len(cps'),
         ~b => \A n \in Nodes : w.control[n].answers = store'[c].control[n].answers,
         w.gate = "before" /\ w.consumed => store'[c].gate = "before" /\ store'[c].consumed
  PROVE  HInv'
  <1> USE DEF BeginRun
  <1>1. RunAt'  BY DEF RunAt, Latest
  <1>2. GateSync'  BY DEF GateSync, StaticBeforeConsumed
  <1>3. GateRespected' /\ AskedOpen' /\ InterruptsResumable'
    BY DEF GateRespected, AskedOpen, InterruptsResumable
  <1>4. AnswerSync'  BY DEF AnswerSync
  <1> QED  BY <1>1, <1>2, <1>3, <1>4 DEF HInv

\* A run that starts at the checkpoint it has just put.
LEMMA BeginNew ==
  ASSUME IInv, NEW cp, PutCheckpoint(cp), BeginRun(Latest + 1, NoWrites, FALSE)
  PROVE  HInv'
  <1>1. Len(cps) \in Nat /\ Len(cps') = Len(cps) + 1 /\ store'[Len(cps) + 1] = NoWrites
    <2>1. cps \in Seq(Checkpoint) /\ Len(cps) \in Nat
      BY LenProperties DEF IInv, TypeOK, DurableOK
    <2>2. Len(cps') = Len(cps) + 1
      <3>1. cps \in Seq(Range(cps) \cup {cp})
        BY <2>1, SeqDef, RangeEquality
      <3> QED  BY <3>1, AppendProperties DEF PutCheckpoint
    <2> QED  BY <2>1, <2>2 DEF PutCheckpoint, Latest
  <1>2. ~NoWrites.consumed  BY NoWritesType
  <1> QED  BY <1>1, <1>2, BeginHInv DEF Latest

\* Invoke.
LEMMA InvokeHInv ==
  ASSUME IInv, HInv, Invoke
  PROVE  HInv' /\ Kept
  <1> USE DEF IInv, TypeOK
  <1>1. CASE cps = <<>>
    <2>1. PICK cp : PutCheckpoint(cp) /\ BeginRun(1, NoWrites, FALSE)
      BY <1>1 DEF Invoke
    <2>2. Latest + 1 = 1  BY <1>1 DEF Latest
    <2> QED  BY <2>1, <2>2, BeginNew, NothingLost
  <1>2. CASE cps # <<>>
    <2>1. BeginRun(Latest, store[Latest], FALSE) /\ store' = store /\ cps' = cps
      BY <1>2 DEF Invoke, Restore, durable
    <2> QED  BY <2>1, BeginHInv, NothingLost DEF Latest
  <1> QED  BY <1>1, <1>2

\* Invoke at a historical checkpoint.
LEMMA InvokeAtHInv ==
  ASSUME IInv, HInv, NEW c \in DOMAIN cps, InvokeAt(c)
  PROVE  HInv' /\ Kept
  <1> USE DEF IInv, TypeOK
  <1>1. CASE BeginRun(c, RestoreReplay(c), TRUE) /\ UNCHANGED durable
    <2>1. ~RestoreReplay(c).consumed
      BY NoWritesType DEF RestoreReplay, IsWrites
    <2> QED  BY <2>1, <1>1, BeginHInv, NothingLost DEF durable
  <1>2. CASE PutCheckpoint(ForkOf(c)) /\ BeginRun(Latest + 1, NoWrites, FALSE)
    BY <1>2, BeginNew, NothingLost
  <1> QED  BY <1>1, <1>2 DEF InvokeAt

\* Answers are added to open prompts only: those that are stored stay.
LEMMA ResumeHInv ==
  ASSUME IInv, HInv, NEW P, Resume(P)
  PROVE  HInv' /\ Kept
  <1> USE DEF IInv, TypeOK
  <1> DEFINE old == store[Latest]
             at_(n) == {p[2] : p \in {q \in P : q[1] = n}}
             f == [n \in Nodes |-> Answered(old.control[n], at_(n))]
             new == [old EXCEPT !.control = f]
  <1>1. Latest \in DOMAIN cps
    BY CurFacts DEF Latest, Resume
  <1>2. IsWrites(old)
    BY <1>1, CurFacts
  <1>3. store' = [store EXCEPT ![Latest] = new] /\ BeginRun(Latest, new, FALSE) /\ cps' = cps
    BY DEF Resume
  <1>4. new.control = f /\ new.gate = old.gate /\ new.consumed = old.consumed
    BY <1>2 DEF IsWrites
  <1>5. store'[Latest] = new
    BY <1>1, <1>3 DEF DurableOK
  <1>6. \A n \in Nodes : \A i \in DOMAIN old.control[n].answers :
           i \in DOMAIN f[n].answers /\ f[n].answers[i] = old.control[n].answers[i]
    <2> SUFFICES ASSUME NEW n \in Nodes, NEW i \in DOMAIN old.control[n].answers
                 PROVE  i \in DOMAIN f[n].answers /\ f[n].answers[i] = old.control[n].answers[i]
      OBVIOUS
    <2>1. \A p \in P : p[1] = n => p[2] \in Open(old.control[n])
      BY DEF Resume, Pending
    <2>2. i \notin at_(n)
      BY <2>1 DEF Open
    <2>3. IsControl(old.control[n])
      BY <1>2 DEF IsWrites
    <2> QED  BY <2>2, <2>3 DEF Answered, IsControl
  <1> HIDE DEF f, new, old
  <1>7. Kept
    BY <1>1, <1>3, <1>4, <1>6, WriteKeeps DEF old
  <1>8. HInv'
    BY <1>3, <1>4, <1>5, BeginHInv DEF Latest
  <1> QED  BY <1>7, <1>8

\* The consumed gate is stored before the run that passes it starts.
LEMMA ContinueHInv ==
  ASSUME IInv, HInv, Continue
  PROVE  HInv' /\ Kept
  <1> USE DEF IInv, TypeOK
  <1> DEFINE new == WithGate(store[Latest], store[Latest].gate, TRUE)
  <1>1. Latest \in DOMAIN cps
    BY CurFacts DEF Latest, Continue
  <1>2. store' = [store EXCEPT ![Latest] = new] /\ BeginRun(Latest, new, FALSE) /\ cps' = cps
    BY DEF Continue
  <1>3. store'[Latest] = new
    BY <1>1, <1>2 DEF DurableOK
  <1>4. new.control = store[Latest].control
    BY DEF WithGate
  <1> HIDE DEF new
  <1>5. Kept
    BY <1>1, <1>2, <1>4, WriteKeeps
  <1>6. HInv'
    BY <1>2, <1>3, BeginHInv DEF Latest
  <1> QED  BY <1>5, <1>6

\* A control that asked something has an open prompt once its answers are gone.
LEMMA ClearedOpen ==
  ASSUME NEW w, IsControl(w), w # NoControl
  PROVE  Open([w EXCEPT !.answers = NoAnswers]) # {}
  <1>1. w.asked # <<>>
    <2> SUFFICES ASSUME w.asked = <<>> PROVE FALSE  OBVIOUS
    <2>1. DOMAIN w.answers = {}  BY DEF IsControl
    <2>2. w.answers = NoAnswers  BY <2>1 DEF IsControl, NoAnswers
    <2> QED  BY <2>2 DEF IsControl, NoControl
  <1>2. DOMAIN w.asked # {}
    <2>1. w.asked \in Seq(Prompt)  BY DEF IsControl
    <2>2. Len(w.asked) \in Nat /\ DOMAIN w.asked = 1 .. Len(w.asked) /\ Len(w.asked) # 0
      BY <1>1, <2>1, EmptySeq, LenProperties
    <2>3. 1 \in DOMAIN w.asked  BY <2>2
    <2> QED  BY <2>3
  <1>3. DOMAIN NoAnswers = {}  BY DEF NoAnswers
  <1> QED  BY <1>2, <1>3 DEF Open, IsControl

\* forkInterrupt, first half: the fork is the latest checkpoint, and empty.
LEMMA ResumeAtHInv ==
  ASSUME IInv, HInv, NEW c \in DOMAIN cps, ResumeAt(c)
  PROVE  HInv' /\ Kept
  <1> USE DEF IInv, TypeOK
  <1>1. /\ Len(cps) \in Nat /\ DOMAIN cps = 1 .. Len(cps)
        /\ Len(cps') = Len(cps) + 1 /\ store'[Len(cps) + 1] = NoWrites
        /\ cps'[Len(cps) + 1] = ForkOf(c)
    BY PutStep, ForkType, CurFacts DEF ResumeAt
  <1>2. cps'[c] = cps[c] /\ store'[c] = store[c]
    <2>1. cps' = Append(cps, ForkOf(c)) /\ ForkOf(c) \in Checkpoint /\ cps \in Seq(Checkpoint)
      BY ForkType DEF ResumeAt, PutCheckpoint, DurableOK
    <2>2. cps'[c] = cps[c]  BY <2>1, <1>1, AppendProperties
    <2> QED  BY <2>2, <1>1 DEF ResumeAt, PutCheckpoint, Latest
  <1>3. Latest' = Len(cps) + 1  BY <1>1 DEF Latest
  <1>4. RunAt'
    <2>1. PICK n \in Tasks(c) : store[c].control[n] # NoControl  BY DEF ResumeAt
    <2>2. n \in Tasks(cur)' /\ store'[cur'].control[n] # NoControl
      BY <2>1, <1>2 DEF ResumeAt, Tasks
    <2>3. cps'[Latest'].layer = cps'[cur'].layer
      BY <1>1, <1>2, <1>3 DEF ResumeAt, ForkOf
    <2> QED  BY <2>2, <2>3, <1>1, <1>3 DEF RunAt, ResumeAt
  <1>5. GateSync' /\ GateRespected' /\ AnswerSync' /\ AskedOpen' /\ InterruptsResumable'
    BY DEF ResumeAt, GateSync, GateRespected, AnswerSync, AskedOpen, InterruptsResumable
  <1>6. Kept  BY NothingLost DEF ResumeAt
  <1> QED  BY <1>4, <1>5, <1>6 DEF HInv

\* Second half: every prompt of the fork is open, and the original keeps its own.
LEMMA ForkControlsHInv ==
  ASSUME IInv, HInv, ForkControls
  PROVE  HInv' /\ Kept
  <1> USE DEF IInv, TypeOK
  <1> DEFINE f == [n \in Nodes |-> [store[cur].control[n] EXCEPT !.answers = NoAnswers]]
             new == [store[Latest] EXCEPT !.control = f]
  <1>1. cur \in DOMAIN cps /\ Latest \in DOMAIN cps
    BY CurFacts DEF Latest, ForkControls
  <1>2. IsWrites(store[Latest]) /\ IsWrites(store[cur])
    BY <1>1, CurFacts
  <1>3. store' = [store EXCEPT ![Latest] = new] /\ cps' = cps
    BY DEF ForkControls, ForkedStore
  <1>4. new.control = f  BY <1>2 DEF IsWrites
  <1>5. store'[Latest] = new  BY <1>1, <1>3 DEF DurableOK
  <1>6. ~replay /\ store[Latest] = NoWrites /\ cps[Latest].layer = cps[cur].layer
    BY DEF HInv, RunAt, ForkControls
  <1>7. PICK n \in Tasks(cur) : store[cur].control[n] # NoControl
    BY DEF HInv, RunAt, ForkControls
  <1>8. n \in Nodes /\ n \in Tasks(Latest)'
    BY <1>3, <1>6, <1>7, TasksAreNodes DEF Tasks, Latest
  <1>9. Open(f[n]) # {}
    BY <1>2, <1>7, <1>8, ClearedOpen DEF IsWrites
  <1>10. \A m \in Nodes : DOMAIN store[Latest].control[m].answers = {}
    BY <1>6 DEF NoWrites, NoControl, NoAnswers
  <1> HIDE DEF f, new
  <1>11. Kept
    BY <1>1, <1>3, <1>10, WriteKeeps
  <1>12. InterruptsResumable'
    <2>1. Pending(Latest)' # {}
      <3>1. PICK i : i \in Open(f[n])  BY <1>9
      <3>2. Latest' = Latest  BY <1>3 DEF Latest
      <3>3. i \in Open(store[Latest].control[n])'
        BY <3>1, <3>2, <1>4, <1>5 DEF Open
      <3>4. <<n, i>> \in Pending(Latest)'  BY <3>3, <1>8 DEF Pending
      <3> QED  BY <3>4
    <2> QED  BY <2>1, <1>6 DEF InterruptsResumable, ForkControls
  <1>13. RunAt' /\ GateSync' /\ GateRespected' /\ AnswerSync' /\ AskedOpen'
    BY DEF ForkControls, RunAt, GateSync, GateRespected, AnswerSync, AskedOpen
  <1> QED  BY <1>11, <1>12, <1>13 DEF HInv
\* A run that ends without an interrupt, or crashes.
LEMMA EndHInv ==
  ASSUME IInv, HInv, phase' = "idle", outcome' # "interrupt", UNCHANGED durable
  PROVE  HInv' /\ Kept
  <1>1. RunAt' /\ GateSync' /\ GateRespected' /\ AnswerSync' /\ AskedOpen' /\ InterruptsResumable'
    BY DEF RunAt, GateSync, GateRespected, AnswerSync, AskedOpen, InterruptsResumable
  <1>2. Kept  BY NothingLost DEF durable, IInv, TypeOK
  <1> QED  BY <1>1, <1>2 DEF HInv

\* A pause leaves its gate at the checkpoint where the run stopped.
LEMMA PauseHInv ==
  ASSUME IInv, HInv, NEW kind \in {"before", "after"}, phase \in {"gate", "after"}, PauseAt(kind)
  PROVE  HInv' /\ Kept
  <1> USE DEF IInv, TypeOK
  <1> DEFINE new == WithGate(store[cur], kind, FALSE)
  <1>1. cur \in DOMAIN cps
    BY CurFacts
  <1>2. store' = [store EXCEPT ![cur] = new] /\ cps' = cps
    BY DEF PauseAt
  <1>3. new.gate = kind /\ new.control = store[cur].control
    BY DEF WithGate
  <1>4. store'[cur] = new
    BY <1>1, <1>2 DEF DurableOK
  <1>5. replay \/ cur = Latest
    BY DEF HInv, RunAt
  <1> HIDE DEF new
  <1>6. Kept
    BY <1>1, <1>2, <1>3, <1>5, WriteKeeps
  <1>7. InterruptsResumable'
    BY <1>2, <1>3, <1>4, <1>5 DEF InterruptsResumable, PauseAt, Latest
  <1>8. RunAt' /\ GateSync' /\ GateRespected' /\ AnswerSync' /\ AskedOpen'
    BY DEF PauseAt, RunAt, GateSync, GateRespected, AnswerSync, AskedOpen
  <1> QED  BY <1>6, <1>7, <1>8 DEF HInv

\* A super-step behind a gate starts only when the gate is stored as consumed.
LEMMA StartHInv ==
  ASSUME IInv, HInv, StartStep
  PROVE  HInv' /\ Kept
  <1> USE DEF IInv, TypeOK, HInv
  <1>1. Tasks(cur)' = Tasks(cur) /\ Latest' = Latest
    BY DEF StartStep, durable, Tasks, Latest
  <1>2. RunAt'  BY <1>1 DEF RunAt, StartStep
  <1>3. GateRespected'
    BY <1>1 DEF GateRespected, GateSync, StartStep, AtGate, durable
  <1>4. AnswerSync'  BY DEF AnswerSync, StartStep, durable
  <1>5. AskedOpen'
    BY <1>1, TasksAreNodes DEF AskedOpen, StartStep
  <1>6. GateSync' /\ InterruptsResumable'
    BY DEF GateSync, InterruptsResumable, StartStep
  <1>7. Kept  BY NothingLost DEF StartStep, durable
  <1> QED  BY <1>2, <1>3, <1>4, <1>5, <1>6, <1>7

\* A step inside a super-step that leaves the gate and, outside replays, the
\* answers alone, and interrupts no task without an open prompt.
LEMMA TaskHInv ==
  ASSUME IInv, HInv, phase = "step", UNCHANGED <<cps, phase, cur, replay, snap>>,
         store'[cur].gate = store[cur].gate, store'[cur].consumed = store[cur].consumed,
         ~replay => \A m \in Nodes :
             store'[cur].control[m].answers = store[cur].control[m].answers,
         \A m \in Nodes : pc'[m] = "interrupted" =>
             \/ pc[m] = "interrupted" /\ store'[cur].control[m] = store[cur].control[m]
             \/ Open(store'[cur].control[m]) # {}
  PROVE  HInv'
  <1> USE DEF HInv
  <1>1. Tasks(cur)' = Tasks(cur) /\ Latest' = Latest
    BY DEF Tasks, Latest
  <1>2. RunAt'  BY <1>1 DEF RunAt
  <1>3. GateSync' /\ InterruptsResumable'  BY DEF GateSync, InterruptsResumable
  <1>4. GateRespected'  BY <1>1 DEF GateRespected
  <1>5. AnswerSync'  BY DEF AnswerSync
  <1>6. AskedOpen'
    <2> SUFFICES ASSUME NEW m \in Tasks(cur), pc'[m] = "interrupted"
                 PROVE  Open(store'[cur].control[m]) # {}
      BY <1>1 DEF AskedOpen, Open
    <2>1. m \in Nodes  BY TasksAreNodes
    <2>2. CASE pc[m] = "interrupted" /\ store'[cur].control[m] = store[cur].control[m]
      BY <2>2 DEF AskedOpen, Open
    <2>3. CASE Open(store'[cur].control[m]) # {}  BY <2>3
    <2> QED  BY <2>1, <2>2, <2>3
  <1> QED  BY <1>2, <1>3, <1>4, <1>5, <1>6

\* Task steps without a saver call.
LEMMA QuietHInv ==
  ASSUME IInv, HInv, NEW n \in Nodes,
         Launch(n) \/ Hear(n) \/ Retry(n) \/ \E v \in Values : CacheHit(n, v)
  PROVE  HInv' /\ Kept
  <1>1. /\ phase = "step" /\ UNCHANGED <<cps, phase, cur, replay, snap>> /\ store' = store
        /\ \A m \in Nodes : pc'[m] = "interrupted" => pc[m] = "interrupted"
    <2>1. CASE \E v \in Values : CacheHit(n, v)
      <3>1. Reported(n, "done") /\ UNCHANGED <<durable, phase, cur, replay, snap>> /\ phase = "step"
        BY <2>1 DEF CacheHit, NextToLaunch
      <3> QED  BY <3>1, ReportedType DEF durable, IInv, TypeOK
    <2>2. CASE Launch(n) \/ Hear(n) \/ Retry(n)
      BY <2>2 DEF Launch, NextToLaunch, Hear, Retry, durable, IInv, TypeOK, TasksOK
    <2> QED  BY <2>1, <2>2
  <1>2. HInv'  BY <1>1, TaskHInv, Zenon
  <1>3. Kept  BY <1>1, NothingLost DEF IInv, TypeOK
  <1> QED  BY <1>2, <1>3

\* A raised interrupt keeps the answers the run restored and leaves its own
\* prompt open.
LEMMA InterruptHInv ==
  ASSUME IInv, HInv, NEW n \in Nodes, Interrupt(n)
  PROVE  HInv' /\ Kept
  <1> USE DEF IInv, TypeOK
  <1> DEFINE x == SignalControl(n)
             new == [store[cur] EXCEPT !.control[n] = x]
  <1>1. cur \in DOMAIN cps /\ IsWrites(store[cur]) /\ phase = "step"
    BY CurFacts DEF Interrupt
  <1>2. IsControl(snap.control[n]) /\ at[n] \in Nat /\ pc[n] \in Asker
    BY DEF Interrupt, Running, RunOK, IsWrites, TasksOK
  <1>3. IsControl(x) /\ x.answers = snap.control[n].answers
    <2>1. IsControl(x)  BY <1>2, SignalControlType DEF SignalControl
    <2> QED  BY <2>1, <1>2 DEF SignalControl, IsControl
  <1>4. Open(x) # {}
    <2> DEFINE asked == snap.control[n].asked
               top == IF at[n] < Len(asked) THEN Len(asked) ELSE at[n] + 1
    <2>1. Len(asked) \in Nat  BY <1>2, LenProperties DEF IsControl
    <2>2. DOMAIN x.asked = 1 .. top  BY <1>2 DEF SignalControl, IsControl
    <2>3. at[n] + 1 \in 1 .. top  BY <2>1, <1>2
    <2>4. at[n] + 1 \in Open(x)  BY <2>2, <2>3, <1>3 DEF Open, Interrupt
    <2> QED  BY <2>4
  <1>5. store' = [store EXCEPT ![cur] = new] /\ UNCHANGED <<cps, phase, cur, replay, snap>>
    BY DEF Interrupt
  <1>6. Reported(n, "interrupted")  BY DEF Interrupt
  <1> HIDE DEF x
  <1>7. /\ new.control[n] = x /\ \A m \in Nodes : m # n => new.control[m] = store[cur].control[m]
        /\ new.gate = store[cur].gate /\ new.consumed = store[cur].consumed
    <2>1. new.control[n] = x /\ new.gate = store[cur].gate /\ new.consumed = store[cur].consumed
      BY <1>1 DEF IsWrites
    <2>2. ASSUME NEW m \in Nodes, m # n PROVE new.control[m] = store[cur].control[m]
      BY <2>2, <1>1, <1>3, ControlWrite
    <2> QED  BY <2>1, <2>2
  <1>8. store'[cur] = new
    BY <1>1, <1>5 DEF DurableOK
  <1>9. ~replay => cur = Latest /\ \A m \in Nodes :
            new.control[m].answers = store[cur].control[m].answers
    BY <1>1, <1>3, <1>7 DEF HInv, RunAt, AnswerSync
  <1> HIDE DEF new
  <1>10. \A m \in Nodes : m # n => pc'[m] = pc[m]
    BY <1>6, ReportedType
  <1>11. \A m \in Nodes : pc'[m] = "interrupted" =>
             \/ pc[m] = "interrupted" /\ store'[cur].control[m] = store[cur].control[m]
             \/ Open(store'[cur].control[m]) # {}
    BY <1>4, <1>7, <1>8, <1>10
  <1>12. HInv'  BY <1>1, <1>5, <1>7, <1>8, <1>9, <1>11, TaskHInv
  <1>13. Kept  BY <1>1, <1>5, <1>9, WriteKeeps
  <1> QED  BY <1>12, <1>13

\* PutWrites of a running task that leaves the controls and the gate alone.
LEMMA EntryHInv ==
  ASSUME IInv, HInv, phase = "step", UNCHANGED <<cps, phase, cur, replay, snap>>,
         NEW w, store' = [store EXCEPT ![cur] = w],
         w.control = store[cur].control, w.gate = store[cur].gate,
         w.consumed = store[cur].consumed,
         \A m \in Nodes : pc'[m] = "interrupted" => pc[m] = "interrupted"
  PROVE  HInv' /\ Kept
  <1> USE DEF IInv, TypeOK
  <1>1. cur \in DOMAIN cps  BY CurFacts
  <1>2. store'[cur] = w  BY <1>1 DEF DurableOK
  <1>3. HInv'  BY <1>2, TaskHInv
  <1>4. replay \/ cur = Latest  BY DEF HInv, RunAt
  <1>5. Kept  BY <1>1, <1>4, WriteKeeps
  <1> QED  BY <1>3, <1>5

\* A result, or a failure marker.
LEMMA ReturnHInv ==
  ASSUME IInv, HInv, NEW n \in Nodes, NEW v \in Values, Return(n, v)
  PROVE  HInv' /\ Kept
  <1> USE DEF IInv, TypeOK
  <1> DEFINE r == [value |-> v, by |-> pc[n]]
             new == IF store[cur].result[n] = NoResult
                    THEN [store[cur] EXCEPT !.result[n] = r] ELSE store[cur]
  <1>1. cur \in DOMAIN cps /\ IsWrites(store[cur])
    BY CurFacts DEF Return
  <1>2. r \in Result  BY DEF Return, Running, Result
  <1>3. new.control = store[cur].control /\ new.gate = store[cur].gate
        /\ new.consumed = store[cur].consumed
    BY <1>1, <1>2, ResultWrite
  <1>4. store' = [store EXCEPT ![cur] = new]
    BY <1>1 DEF Return, DurableOK
  <1> HIDE DEF new
  <1>5. /\ phase = "step" /\ UNCHANGED <<cps, phase, cur, replay, snap>>
        /\ Reported(n, "done")
    BY DEF Return
  <1>6. \A m \in Nodes : pc'[m] = "interrupted" => pc[m] = "interrupted"
    BY <1>5, ReportedType
  <1> QED  BY <1>3, <1>4, <1>5, <1>6, EntryHInv

\* A failed task is recorded at the current checkpoint only (executeStep).
LEMMA FailHInv ==
  ASSUME IInv, HInv, NEW n \in Nodes, FailToHandler(n) \/ Fail(n)
  PROVE  HInv' /\ Kept
  <1> USE DEF IInv, TypeOK
  <1> DEFINE new == [store[cur] EXCEPT !.failed = @ \cup {n}]
  <1>1. cur \in DOMAIN cps /\ IsWrites(store[cur])
    BY CurFacts DEF FailToHandler, Fail
  <1>2. new.control = store[cur].control /\ new.gate = store[cur].gate
        /\ new.consumed = store[cur].consumed
    BY <1>1, FailedWrite
  <1>3. store' = store \/ store' = [store EXCEPT ![cur] = new]
    BY DEF FailToHandler, Fail
  <1> HIDE DEF new
  <1>4. /\ phase = "step" /\ UNCHANGED <<cps, phase, cur, replay, snap>>
        /\ \A m \in Nodes : pc'[m] = "interrupted" => pc[m] = "interrupted"
    BY DEF FailToHandler, Fail, TasksOK
  <1>5. CASE store' = store
    <2>1. HInv'  BY <1>4, <1>5, TaskHInv, Zenon
    <2>2. Kept  BY <1>5, NothingLost
    <2> QED  BY <2>1, <2>2
  <1>6. CASE store' = [store EXCEPT ![cur] = new]
    BY <1>2, <1>4, <1>6, EntryHInv
  <1> QED  BY <1>3, <1>5, <1>6

\* group.Wait reports an interrupt only when the checkpoint has an open prompt.
LEMMA WaitHInv ==
  ASSUME IInv, HInv, Wait
  PROVE  HInv' /\ Kept
  <1> USE DEF HInv
  <1>1. UNCHANGED <<cps, store, cur, replay, snap, pc>> /\ phase = "step"
    BY DEF Wait, durable, tasksOf
  <1>2. phase' \in {"idle", "commit"}  BY DEF Wait
  <1>3. RunAt'  BY <1>1, <1>2 DEF RunAt, Latest
  <1>4. GateSync' /\ GateRespected' /\ AnswerSync' /\ AskedOpen'
    BY <1>2 DEF GateSync, GateRespected, AnswerSync, AskedOpen
  <1>5. InterruptsResumable'
    <2> SUFFICES ASSUME phase' = "idle", outcome' = "interrupt"
                 PROVE  LET c == IF replay THEN cur ELSE Latest
                        IN  Pending(c)' # {}
      BY <1>1 DEF InterruptsResumable, Latest
    <2>1. PICK n \in Tasks(cur) : pc[n] = "interrupted"  BY DEF Wait
    <2>2. PICK i : i \in Open(store[cur].control[n])  BY <1>1, <2>1 DEF AskedOpen
    <2>3. <<n, i>> \in Pending(cur)  BY <2>2 DEF Pending
    <2>4. replay \/ cur = Latest  BY <1>1 DEF RunAt
    <2>5. Pending(cur)' = Pending(cur) /\ Pending(Latest)' = Pending(Latest)
      BY <1>1 DEF Pending, Tasks, Open, Latest
    <2> QED  BY <2>3, <2>4, <2>5, <1>1 DEF Latest
  <1>6. Kept  BY <1>1, NothingLost DEF IInv, TypeOK
  <1> QED  BY <1>3, <1>4, <1>5, <1>6

\* The boundary becomes the latest checkpoint and the run's own.
LEMMA CommitHInv ==
  ASSUME IInv, HInv, Commit
  PROVE  HInv' /\ Kept
  <1> USE DEF IInv, TypeOK
  <1>1. PICK cp : PutCheckpoint(cp)  BY DEF Commit
  <1>2. phase' \in {"gate", "after"} /\ cur' = Latest + 1 /\ snap' = NoWrites /\ replay' = FALSE
    BY DEF Commit
  <1>3. Len(cps) \in Nat /\ Len(cps') = Len(cps) + 1 /\ store'[Len(cps) + 1] = NoWrites
    <2>1. cps \in Seq(Checkpoint) /\ Len(cps) \in Nat  BY LenProperties DEF DurableOK
    <2>2. cps \in Seq(Range(cps) \cup {cp})  BY <2>1, SeqDef, RangeEquality
    <2>3. Len(cps') = Len(cps) + 1  BY <2>2, <1>1, AppendProperties DEF PutCheckpoint
    <2> QED  BY <2>1, <2>3, <1>1 DEF PutCheckpoint, Latest
  <1>4. ~NoWrites.consumed  BY NoWritesType
  <1>5. RunAt'  BY <1>2, <1>3 DEF RunAt, Latest
  <1>6. GateSync'  BY <1>2, <1>4 DEF GateSync, StaticBeforeConsumed
  <1>7. AnswerSync'  BY <1>2, <1>3 DEF AnswerSync, Latest
  <1>8. GateRespected' /\ AskedOpen' /\ InterruptsResumable'
    BY <1>2 DEF GateRespected, AskedOpen, InterruptsResumable
  <1>9. Kept  BY <1>1, NothingLost
  <1> QED  BY <1>5, <1>6, <1>7, <1>8, <1>9 DEF HInv

\* Every step keeps the invariant and what is stored.
LEMMA NextHInv == IInv /\ HInv /\ [Next]_vars => HInv' /\ Kept
  <1> SUFFICES ASSUME IInv, HInv, [Next]_vars PROVE HInv' /\ Kept  OBVIOUS
  <1>1. CASE UNCHANGED vars
    <2>1. Kept  BY <1>1, NothingLost DEF vars, IInv, TypeOK
    <2>2. HInv'
      BY <1>1 DEF vars, HInv, RunAt, GateSync, StaticBeforeConsumed, GateRespected, AnswerSync,
                  AskedOpen, InterruptsResumable, Latest, Tasks, Pending, Open
    <2> QED  BY <2>1, <2>2
  <1>2. CASE Invoke  BY <1>2, InvokeHInv
  <1>3. CASE \E c \in DOMAIN cps : InvokeAt(c) \/ ResumeAt(c)
    BY <1>3, InvokeAtHInv, ResumeAtHInv
  <1>4. CASE Latest > 0 /\ \E P \in SUBSET Pending(Latest) : Resume(P)
    BY <1>4, ResumeHInv
  <1>5. CASE Continue  BY <1>5, ContinueHInv
  <1>6. CASE Crash  BY <1>6, EndHInv DEF Crash
  <1>7. CASE RunStep
    <2>1. CASE Finish  BY <2>1, EndHInv DEF Finish
    <2>2. CASE PauseBefore  BY <2>2, PauseHInv DEF PauseBefore
    <2>3. CASE StartStep  BY <2>3, StartHInv
    <2>4. CASE \E n \in Nodes : TaskStep(n)
      <3>1. PICK n \in Nodes : TaskStep(n)  BY <2>4
      <3> QED
        BY <3>1, QuietHInv, InterruptHInv, FailHInv, ReturnHInv DEF TaskStep
    <2>5. CASE Wait  BY <2>5, WaitHInv
    <2>6. CASE Commit  BY <2>6, CommitHInv
    <2>7. CASE PauseAfter  BY <2>7, PauseHInv DEF PauseAfter
    <2>8. CASE ForkControls  BY <2>8, ForkControlsHInv
    <2> QED  BY <1>7, <2>1, <2>2, <2>3, <2>4, <2>5, <2>6, <2>7, <2>8 DEF RunStep
  <1> QED  BY <1>1, <1>2, <1>3, <1>4, <1>5, <1>6, <1>7 DEF Next

\* A new thread.
LEMMA InitHInv == Init => HInv
  BY DEF Init, HInv, RunAt, GateSync, GateRespected, AnswerSync, AskedOpen, InterruptsResumable

\* In every state of every thread.
LEMMA HInvariance == Spec => []HInv
  BY InitHInv, NextHInv, Invariance, PTL DEF Spec

\* No task behind an interrupt-before gate runs at a checkpoint whose gate no
\* client has consumed, whatever the graph, the faults and the time travel
\* (executeStep, putStaticInterrupt, resumeInternal).
THEOREM GatesAreRespected == Spec => []GateRespected
  <1>1. HInv => GateRespected  BY DEF HInv
  <1> QED  BY <1>1, HInvariance, PTL

\* What a thread's checkpoints say of its past stays so: no step changes the
\* pending writes of an earlier checkpoint or loses an answer, except a run that
\* re-executes that very checkpoint in place (initializeRun, setResume,
\* forkInterrupt).
THEOREM HistoryIsKept == Spec => ThreadHistoryKept
  <1>1. IInv /\ HInv /\ [Next]_vars =>
          [\A c \in DOMAIN cps : c # Latest /\ ~(replay /\ c = cur) => store'[c] = store[c]]_vars
    <2>1. Kept => \A c \in DOMAIN cps : c # Latest /\ ~(replay /\ c = cur) => store'[c] = store[c]
      BY DEF Kept
    <2> QED  BY <2>1, NextHInv
  <1>2. IInv /\ HInv /\ [Next]_vars =>
          [\A c \in DOMAIN cps : ~(replay /\ c = cur) =>
              \A n \in Nodes : \A i \in DOMAIN store[c].control[n].answers :
                  /\ i \in DOMAIN store'[c].control[n].answers
                  /\ store'[c].control[n].answers[i] = store[c].control[n].answers[i]]_vars
    <2>1. Kept => \A c \in DOMAIN cps : ~(replay /\ c = cur) =>
              \A n \in Nodes : \A i \in DOMAIN store[c].control[n].answers :
                  /\ i \in DOMAIN store'[c].control[n].answers
                  /\ store'[c].control[n].answers[i] = store[c].control[n].answers[i]
      BY DEF Kept, AnswersStay
    <2> QED  BY <2>1, NextHInv
  <1> QED
    BY <1>1, <1>2, Invariance, HInvariance, PTL
    DEF Spec, ThreadHistoryKept, HistoryImmutable, AnswersKept

\* An interrupt a run returned is there to be resumed, at the latest checkpoint
\* or, after a replay in place, at the replayed one.
THEOREM InterruptsAreResumable == Spec => []InterruptsResumable
  <1>1. HInv => InterruptsResumable  BY DEF HInv
  <1> QED  BY <1>1, HInvariance, PTL

-----------------------------------------------------------------------------
(***************************************************************************)
(* Whose prompts a task's controls hold.  The body and the error handler   *)
(* of a node share the task's controls, so an answer is told from another  *)
(* by its position: every stored prompt and answer is one that an asker of *)
(* the node raises at that position, but for the nulls below an answer.    *)
(***************************************************************************)
AsksAs(n) ==
    {w \in Asker : IF w = "body" THEN Asks[n] # 0 ELSE n \in Handled /\ HandlerAsks[n] # 0}

OwnControl(n, x) ==
    /\ \A i \in DOMAIN x.asked : x.asked[i] \in AsksAs(n) \X {i}
    /\ \A i \in DOMAIN x.answers :
          /\ x.answers[i] = Null \/ x.answers[i] \in AsksAs(n) \X {i}
          /\ x.answers[i] = Null => \E j \in DOMAIN x.answers : i < j /\ x.answers[j] # Null

OwnWrites(w) == w.failed \subseteq Handled /\ \A n \in Nodes : OwnControl(n, w.control[n])

OwnStore == \A c \in DOMAIN cps : OwnWrites(store[c])

HandlersOnly == \A n \in Nodes : pc[n] = "handler" => n \in Handled

AInv == OwnStore /\ OwnWrites(snap) /\ HandlersOnly /\ AnswersReachAsker

\* Without pending writes there are no prompts.
LEMMA OwnNone == OwnWrites(NoWrites)
  BY DEF OwnWrites, NoWrites, NoControl, NoAnswers, OwnControl

\* A new checkpoint has none; PutWrites changes one checkpoint.
LEMMA OwnPut ==
  ASSUME DurableOK, OwnStore, NEW cp, PutCheckpoint(cp)
  PROVE  OwnStore'
  <1>1. cps \in Seq(Range(cps) \cup {cp}) /\ Len(cps) \in Nat /\ DOMAIN cps = 1 .. Len(cps)
    BY LenProperties, SeqDef, RangeEquality DEF DurableOK
  <1>2. DOMAIN cps' = 1 .. Len(cps) + 1
    BY <1>1, AppendProperties DEF PutCheckpoint
  <1> SUFFICES ASSUME NEW c \in 1 .. Len(cps) + 1 PROVE OwnWrites(store'[c])
    BY <1>2 DEF OwnStore, OwnWrites, OwnControl
  <1>3. CASE c > Len(cps)
    BY <1>1, <1>3, OwnNone DEF PutCheckpoint, Latest
  <1>4. CASE ~(c > Len(cps))
    <2>1. c \in DOMAIN cps  BY <1>1, <1>4
    <2>2. store'[c] = store[c]  BY <1>1, <1>4 DEF PutCheckpoint, Latest
    <2> QED  BY <2>1, <2>2 DEF OwnStore
  <1> QED  BY <1>3, <1>4

\* The store keeps this when writes that have it replace those of a checkpoint.
LEMMA OwnPutWrites ==
  ASSUME DurableOK, OwnStore, NEW c \in DOMAIN cps, NEW w, OwnWrites(w),
         cps' = cps, store' = [store EXCEPT ![c] = w]
  PROVE  OwnStore'
  <1>1. store'[c] = w /\ \A d \in DOMAIN cps : d # c => store'[d] = store[d]
    BY DEF DurableOK
  <1> SUFFICES ASSUME NEW d \in DOMAIN cps PROVE OwnWrites(store'[d])
    BY DEF OwnStore, OwnWrites, OwnControl
  <1> QED  BY <1>1 DEF OwnStore

\* Primed in one place: the snapshot after a step is the value w.
LEMMA OwnSnap ==
  ASSUME NEW w, OwnWrites(w), snap' = w
  PROVE  OwnWrites(snap)'
  BY DEF OwnWrites, OwnControl

\* The asker of a task that still has an interrupt to pass.
LEMMA AskerAsks ==
  ASSUME TasksOK, HandlersOnly, NEW n \in Nodes, n \in Running, at[n] < AsksOf(n)
  PROVE  pc[n] \in AsksAs(n)
  <1>1. Asks[n] \in Nat /\ HandlerAsks[n] \in Nat /\ at[n] \in Nat
    BY RunAssumption DEF TasksOK
  <1>2. CASE pc[n] = "body"
    <2>1. Asks[n] # 0  BY <1>1, <1>2 DEF AsksOf
    <2> QED  BY <2>1, <1>2 DEF Asker, AsksAs
  <1>3. CASE pc[n] = "handler"
    <2>1. HandlerAsks[n] # 0  BY <1>1, <1>3 DEF AsksOf
    <2> QED  BY <2>1, <1>3 DEF HandlersOnly, Asker, AsksAs
  <1> QED  BY <1>2, <1>3 DEF Running, Asker

\* A prompt is not null.
LEMMA PromptNotNull ==
  ASSUME NEW n, NEW i, NEW x \in AsksAs(n) \X {i}
  PROVE  x # Null /\ x[1] \in AsksAs(n) /\ x[2] = i
  BY DEF AsksAs, Asker, Null

\* Steps that touch neither the store nor the snapshot.
LEMMA OwnSame ==
  ASSUME OwnStore, OwnWrites(snap), UNCHANGED <<cps, store, snap>>
  PROVE  OwnStore' /\ OwnWrites(snap)'
  BY DEF OwnStore, OwnWrites, OwnControl

\* The steps of clients leave tasks alone.  What they restore is stored or new.
LEMMA InvokeOwn ==
  ASSUME IInv, AInv, Invoke
  PROVE  OwnStore' /\ OwnWrites(snap)'
  <1> USE DEF IInv, TypeOK, AInv
  <1>1. CASE cps = <<>>
    BY <1>1, OwnPut, OwnNone, OwnSnap DEF Invoke, BeginRun
  <1>2. CASE cps # <<>>
    <2>1. cps' = cps /\ store' = store /\ snap' = store[Latest]
      BY <1>2 DEF Invoke, BeginRun, Restore, durable
    <2>2. Latest \in DOMAIN cps  BY <1>2, CurFacts, EmptySeq DEF Latest, DurableOK
    <2>3. OwnStore'  BY <2>1 DEF OwnStore, OwnWrites, OwnControl
    <2>4. OwnWrites(snap)'  BY <2>1, <2>2, OwnSnap DEF OwnStore
    <2> QED  BY <2>3, <2>4
  <1> QED  BY <1>1, <1>2

\* A replay takes over what its source stored, or starts without writes (initializeRun).
LEMMA InvokeAtOwn ==
  ASSUME IInv, AInv, NEW c \in DOMAIN cps, InvokeAt(c)
  PROVE  OwnStore' /\ OwnWrites(snap)'
  <1> USE DEF IInv, TypeOK, AInv
  <1>1. CASE BeginRun(c, RestoreReplay(c), TRUE) /\ UNCHANGED durable
    <2>1. OwnStore'  BY <1>1 DEF OwnStore, OwnWrites, OwnControl, durable
    <2>2. /\ RestoreReplay(c).failed = store[c].failed
          /\ RestoreReplay(c).control = NoWrites.control
      BY DEF RestoreReplay, Restore, NoWrites
    <2>3. OwnWrites(RestoreReplay(c))
      BY <2>2, OwnNone DEF OwnStore, OwnWrites
    <2> QED  BY <2>1, <2>3, <1>1, OwnSnap DEF BeginRun
  <1>2. CASE PutCheckpoint(ForkOf(c)) /\ BeginRun(Latest + 1, NoWrites, FALSE)
    BY <1>2, OwnPut, OwnNone, OwnSnap DEF BeginRun
  <1> QED  BY <1>1, <1>2 DEF InvokeAt

\* So does a resumed fork (forkInterrupt).
LEMMA ResumeAtOwn ==
  ASSUME IInv, AInv, NEW c \in DOMAIN cps, ResumeAt(c)
  PROVE  OwnStore' /\ OwnWrites(snap)'
  <1>1. OwnStore'  BY OwnPut DEF ResumeAt, IInv, TypeOK, AInv
  <1>2. OwnWrites(snap)'  BY OwnSnap DEF ResumeAt, AInv
  <1> QED  BY <1>1, <1>2

\* An answer is given for the prompt at its position; what setResume pads is below it.
LEMMA AnsweredOwn ==
  ASSUME NEW n, NEW x, IsControl(x), OwnControl(n, x),
         NEW P, P \subseteq DOMAIN x.asked, P \cap DOMAIN x.answers = {}
  PROVE  OwnControl(n, Answered(x, P))
  <1> DEFINE y == Answered(x, P)
  <1>1. /\ y.asked = x.asked
        /\ DOMAIN y.answers =
              DOMAIN x.answers \cup {k \in DOMAIN x.asked : \E p \in P : k <= p}
        /\ \A i \in DOMAIN y.answers : y.answers[i] =
              IF i \in P THEN x.asked[i]
              ELSE IF i \in DOMAIN x.answers THEN x.answers[i] ELSE Null
    BY DEF Answered, IsControl
  <1>2. DOMAIN x.asked \subseteq Nat
    BY LenProperties DEF IsControl
  <1> HIDE DEF y
  <1>3. \A p \in P : p \in DOMAIN y.answers /\ y.answers[p] # Null
    BY <1>1, <1>2, PromptNotNull DEF OwnControl
  <1>4. ASSUME NEW i \in DOMAIN y.answers
        PROVE  /\ y.answers[i] = Null \/ y.answers[i] \in AsksAs(n) \X {i}
               /\ y.answers[i] = Null => \E j \in DOMAIN y.answers : i < j /\ y.answers[j] # Null
    <2>1. CASE i \in P
      BY <2>1, <1>1, <1>3 DEF OwnControl
    <2>2. CASE i \notin P /\ i \in DOMAIN x.answers
      <3>1. y.answers[i] = x.answers[i]  BY <2>2, <1>1
      <3>2. \A j \in DOMAIN x.answers : j \in DOMAIN y.answers /\ y.answers[j] = x.answers[j]
        BY <1>1
      <3> QED  BY <2>2, <3>1, <3>2 DEF OwnControl
    <2>3. CASE i \notin P /\ i \notin DOMAIN x.answers
      <3>1. PICK p \in P : i <= p /\ i \in DOMAIN x.asked  BY <2>3, <1>1
      <3>2. i < p  BY <3>1, <2>3, <1>2
      <3> QED  BY <3>2, <2>3, <1>1, <1>3
    <2> QED  BY <2>1, <2>2, <2>3
  <1> QED  BY <1>1, <1>4 DEF OwnControl, y

\* Resume stores such answers.
LEMMA ResumeOwn ==
  ASSUME IInv, AInv, NEW P, Resume(P)
  PROVE  OwnStore' /\ OwnWrites(snap)'
  <1> USE DEF IInv, TypeOK, AInv
  <1> DEFINE old == store[Latest]
             where(n) == {p[2] : p \in {q \in P : q[1] = n}}
             f == [n \in Nodes |-> Answered(old.control[n], where(n))]
             new == [old EXCEPT !.control = f]
  <1>1. Latest \in DOMAIN cps  BY CurFacts DEF Latest, Resume
  <1>2. IsWrites(old) /\ OwnWrites(old)  BY <1>1, CurFacts DEF OwnStore
  <1>3. store' = [store EXCEPT ![Latest] = new] /\ snap' = new /\ cps' = cps
    BY DEF Resume, BeginRun
  <1>4. new.control = f /\ new.failed = old.failed
    BY <1>2 DEF IsWrites
  <1>5. \A n \in Nodes : OwnControl(n, f[n])
    <2> SUFFICES ASSUME NEW n \in Nodes PROVE OwnControl(n, Answered(old.control[n], where(n)))
      OBVIOUS
    <2>1. IsControl(old.control[n]) /\ OwnControl(n, old.control[n])
      BY <1>2 DEF IsWrites, OwnWrites
    <2>2. \A p \in P : p[1] = n => p[2] \in DOMAIN old.control[n].asked
      BY DEF Resume, Pending, Open
    <2>3. where(n) \subseteq DOMAIN old.control[n].asked  BY <2>2
    <2>4. where(n) \cap DOMAIN old.control[n].answers = {}
      BY DEF Resume, Pending, Open
    <2> HIDE DEF where, old
    <2> QED  BY <2>1, <2>3, <2>4, AnsweredOwn
  <1> HIDE DEF f
  <1>6. OwnWrites(new)
    BY <1>2, <1>4, <1>5 DEF OwnWrites
  <1> HIDE DEF new, old
  <1> QED  BY <1>1, <1>3, <1>6, OwnPutWrites, OwnSnap

\* Consuming a static gate leaves the controls alone (Continue).
LEMMA ContinueOwn ==
  ASSUME IInv, AInv, Continue
  PROVE  OwnStore' /\ OwnWrites(snap)'
  <1> USE DEF IInv, TypeOK, AInv
  <1> DEFINE new == WithGate(store[Latest], store[Latest].gate, TRUE)
  <1>1. Latest \in DOMAIN cps  BY CurFacts DEF Latest, Continue
  <1>2. store' = [store EXCEPT ![Latest] = new] /\ snap' = new /\ cps' = cps
    BY DEF Continue, BeginRun
  <1>3. OwnWrites(new)  BY <1>1 DEF WithGate, OwnWrites, OwnStore
  <1> HIDE DEF new
  <1> QED  BY <1>1, <1>2, <1>3, OwnPutWrites, OwnSnap

\* A fork takes over the prompts, without their answers.
LEMMA ForkControlsOwn ==
  ASSUME IInv, AInv, ForkControls
  PROVE  OwnStore' /\ OwnWrites(snap)'
  <1> USE DEF IInv, TypeOK, AInv
  <1> DEFINE f == [n \in Nodes |-> [store[cur].control[n] EXCEPT !.answers = NoAnswers]]
             new == [store[Latest] EXCEPT !.control = f]
  <1>1. cur \in DOMAIN cps /\ Latest \in DOMAIN cps
    BY CurFacts DEF Latest, ForkControls
  <1>2. IsWrites(store[Latest]) /\ IsWrites(store[cur]) /\ OwnWrites(store[Latest])
        /\ OwnWrites(store[cur])
    BY <1>1, CurFacts DEF OwnStore
  <1>3. store' = [store EXCEPT ![Latest] = new] /\ snap' = snap /\ cps' = cps
    BY DEF ForkControls, ForkedStore
  <1>4. new.control = f /\ new.failed = store[Latest].failed
    BY <1>2 DEF IsWrites
  <1>5. \A n \in Nodes : OwnControl(n, f[n])
    <2> SUFFICES ASSUME NEW n \in Nodes
                 PROVE  OwnControl(n, [store[cur].control[n] EXCEPT !.answers = NoAnswers])
      OBVIOUS
    <2>1. IsControl(store[cur].control[n]) /\ OwnControl(n, store[cur].control[n])
      BY <1>2 DEF IsWrites, OwnWrites
    <2> QED  BY <2>1 DEF OwnControl, IsControl, NoAnswers
  <1> HIDE DEF f
  <1>6. OwnWrites(new)  BY <1>2, <1>4, <1>5 DEF OwnWrites
  <1> HIDE DEF new
  <1> QED  BY <1>1, <1>3, <1>6, OwnPutWrites, OwnSnap

\* A pause writes the gate entry; a boundary starts without pending writes.
LEMMA PauseOwn ==
  ASSUME IInv, AInv, NEW kind, phase # "idle", PauseAt(kind)
  PROVE  OwnStore' /\ OwnWrites(snap)'
  <1> USE DEF IInv, TypeOK, AInv
  <1> DEFINE new == WithGate(store[cur], kind, FALSE)
  <1>1. cur \in DOMAIN cps  BY CurFacts
  <1>2. store' = [store EXCEPT ![cur] = new] /\ snap' = snap /\ cps' = cps
    BY DEF PauseAt
  <1>3. OwnWrites(new)  BY <1>1 DEF WithGate, OwnWrites, OwnStore
  <1> HIDE DEF new
  <1> QED  BY <1>1, <1>2, <1>3, OwnPutWrites, OwnSnap

\* A new checkpoint has no controls (commitCheckpoint).
LEMMA CommitOwn ==
  ASSUME IInv, AInv, Commit
  PROVE  OwnStore' /\ OwnWrites(snap)'
  <1>1. PICK cp : PutCheckpoint(cp)  BY DEF Commit
  <1>2. OwnStore'  BY <1>1, OwnPut DEF IInv, TypeOK, AInv
  <1>3. OwnWrites(snap)'  BY OwnSnap, OwnNone DEF Commit
  <1> QED  BY <1>2, <1>3

\* The prompts of a raised interrupt are those of the asker, each at its place.
LEMMA InterruptOwn ==
  ASSUME IInv, AInv, NEW n \in Nodes, Interrupt(n)
  PROVE  OwnStore' /\ OwnWrites(snap)'
  <1> USE DEF IInv, TypeOK, AInv
  <1> DEFINE x == SignalControl(n)
             new == [store[cur] EXCEPT !.control[n] = x]
  <1>1. cur \in DOMAIN cps /\ IsWrites(store[cur]) /\ OwnWrites(store[cur])
    BY CurFacts DEF Interrupt, OwnStore
  <1>2. IsControl(snap.control[n]) /\ OwnControl(n, snap.control[n]) /\ at[n] \in Nat
    BY DEF RunOK, IsWrites, TasksOK, OwnWrites
  <1>3. pc[n] \in AsksAs(n)  BY AskerAsks DEF Interrupt
  <1>4. OwnControl(n, x)
    <2> DEFINE asked == snap.control[n].asked
               top == IF at[n] < Len(asked) THEN Len(asked) ELSE at[n] + 1
    <2>1. /\ x.answers = snap.control[n].answers /\ DOMAIN x.asked = 1 .. top
          /\ \A i \in 1 .. top : x.asked[i] = IF i <= at[n] + 1 THEN <<pc[n], i>> ELSE asked[i]
      BY <1>2 DEF SignalControl, IsControl
    <2>2. Len(asked) \in Nat /\ DOMAIN asked = 1 .. Len(asked)
      BY <1>2, LenProperties DEF IsControl
    <2>3. ASSUME NEW i \in 1 .. top PROVE x.asked[i] \in AsksAs(n) \X {i}
      <3>1. CASE i <= at[n] + 1
        <4>1. x.asked[i] = <<pc[n], i>>  BY <3>1, <2>1
        <4>2. <<pc[n], i>> \in AsksAs(n) \X {i}  BY <1>3
        <4> QED  BY <4>1, <4>2
      <3>2. CASE ~(i <= at[n] + 1)
        <4>1. i \in DOMAIN asked  BY <3>2, <2>2, <1>2
        <4> QED  BY <4>1, <3>2, <2>1, <1>2 DEF OwnControl
      <3> QED  BY <3>1, <3>2
    <2> QED  BY <2>1, <2>3, <1>2 DEF OwnControl
  <1>5. store' = [store EXCEPT ![cur] = new] /\ snap' = snap /\ cps' = cps
    BY DEF Interrupt
  <1> HIDE DEF x
  <1>6. /\ new.control[n] = x /\ new.failed = store[cur].failed
        /\ \A m \in Nodes : m # n => new.control[m] = store[cur].control[m]
    BY <1>1 DEF IsWrites
  <1>7. OwnWrites(new)  BY <1>1, <1>4, <1>6 DEF OwnWrites
  <1> HIDE DEF new
  <1> QED  BY <1>1, <1>5, <1>7, OwnPutWrites, OwnSnap

\* A result changes no control, a failure marker is set for a handled node.
LEMMA ReturnOwn ==
  ASSUME IInv, AInv, NEW n \in Nodes, NEW v \in Values, Return(n, v)
  PROVE  OwnStore' /\ OwnWrites(snap)'
  <1> USE DEF IInv, TypeOK, AInv
  <1> DEFINE r == [value |-> v, by |-> pc[n]]
             new == [store[cur] EXCEPT !.result[n] = r]
  <1>1. cur \in DOMAIN cps /\ IsWrites(store[cur]) /\ OwnWrites(store[cur])
    BY CurFacts DEF Return, OwnStore
  <1>2. new.control = store[cur].control /\ new.failed = store[cur].failed
    BY <1>1 DEF IsWrites
  <1>3. /\ store' = store \/ store' = [store EXCEPT ![cur] = new]
        /\ snap' = snap /\ cps' = cps
    BY DEF Return
  <1> HIDE DEF new
  <1>4. OwnWrites(new)  BY <1>1, <1>2 DEF OwnWrites
  <1> QED  BY <1>1, <1>3, <1>4, OwnPutWrites, OwnSnap, OwnSame

\* A failure leaves the controls alone (executeStep).
LEMMA FailOwn ==
  ASSUME IInv, AInv, NEW n \in Nodes, FailToHandler(n) \/ Fail(n)
  PROVE  OwnStore' /\ OwnWrites(snap)'
  <1> USE DEF IInv, TypeOK, AInv
  <1> DEFINE new == [store[cur] EXCEPT !.failed = @ \cup {n}]
  <1>1. cur \in DOMAIN cps /\ IsWrites(store[cur]) /\ OwnWrites(store[cur])
    BY CurFacts DEF FailToHandler, Fail, OwnStore
  <1>2. new.control = store[cur].control /\ new.failed = store[cur].failed \cup {n}
    BY <1>1 DEF IsWrites
  <1>3. /\ store' = store \/ (store' = [store EXCEPT ![cur] = new] /\ n \in Handled)
        /\ snap' = snap /\ cps' = cps
    BY DEF FailToHandler, Fail
  <1> HIDE DEF new
  <1>4. n \in Handled => OwnWrites(new)  BY <1>1, <1>2 DEF OwnWrites
  <1> QED  BY <1>1, <1>3, <1>4, OwnPutWrites, OwnSnap, OwnSame

\* Only a failed node with a handler runs one.
LEMMA HandlersStep ==
  ASSUME IInv, AInv, [Next]_vars
  PROVE  HandlersOnly'
  <1> USE DEF IInv, TypeOK, AInv
  <1>1. CASE pc' = pc  BY <1>1 DEF HandlersOnly
  <1>2. CASE StartStep  BY <1>2 DEF StartStep, HandlersOnly
  <1>3. ASSUME NEW n \in Nodes, Launch(n) PROVE HandlersOnly'
    BY <1>3 DEF Launch, HandlersOnly, TasksOK, OwnWrites
  <1>4. ASSUME NEW n \in Nodes, Interrupt(n) \/ \E v \in Values : CacheHit(n, v) \/ Return(n, v)
        PROVE  HandlersOnly'
    <2>1. \E ok \in {"done", "interrupted"} : Reported(n, ok)
      BY <1>4 DEF Interrupt, CacheHit, Return
    <2> QED  BY <2>1, ReportedType DEF HandlersOnly
  <1>5. ASSUME NEW n \in Nodes, FailToHandler(n) \/ Fail(n) PROVE HandlersOnly'
    BY <1>5 DEF FailToHandler, Fail, HandlersOnly, TasksOK
  <1>6. ASSUME NEW n \in Nodes, Hear(n) \/ Retry(n) PROVE pc' = pc
    BY <1>6 DEF Hear, Retry
  <1>7. CASE \/ UNCHANGED vars \/ Invoke \/ Continue \/ Crash
             \/ \E P \in SUBSET Pending(Latest) : Resume(P)
             \/ \E c \in DOMAIN cps : InvokeAt(c) \/ ResumeAt(c)
             \/ Finish \/ PauseBefore \/ PauseAfter \/ Wait \/ Commit \/ ForkControls
    BY <1>7, <1>1 DEF vars, Invoke, Continue, Crash, Resume, InvokeAt, ResumeAt, Finish, PauseBefore,
           PauseAfter, PauseAt, Wait, Commit, ForkControls, tasksOf
  <1> QED  BY <1>1, <1>2, <1>3, <1>4, <1>5, <1>6, <1>7 DEF Next, RunStep, TaskStep

\* A call is answered with an answer of its own position: its own where one of body
\* and handler asks, or null.
LEMMA HeardStep ==
  ASSUME IInv, AInv, [Next]_vars
  PROVE  AnswersReachAsker'
  <1> USE DEF IInv, TypeOK, AInv
  <1>1. CASE heard' = heard  BY <1>1 DEF AnswersReachAsker
  <1>2. ASSUME NEW n \in Nodes, Hear(n) PROVE AnswersReachAsker'
    <2> DEFINE a == snap.control[n].answers[at[n] + 1]
    <2>1. pc[n] \in AsksAs(n)  BY <1>2, AskerAsks DEF Hear
    <2>2. a = Null \/ a \in AsksAs(n) \X {at[n] + 1}
      BY <1>2 DEF Hear, OwnWrites, OwnControl
    <2>3. heard' = heard \cup {<<n, <<pc[n], at[n] + 1>>, a>>}
      BY <1>2 DEF Hear
    <2> HIDE DEF a
    <2>4. CASE a = Null
      BY <2>3, <2>4 DEF AnswersReachAsker
    <2>5. CASE a \in AsksAs(n) \X {at[n] + 1}
      <3>1. a = <<a[1], at[n] + 1>> /\ a[1] \in AsksAs(n) /\ a[2] = at[n] + 1
        BY <2>5
      <3>2. Asks[n] \in Nat /\ HandlerAsks[n] \in Nat
        BY RunAssumption
      <3>3. a[1] = pc[n] \/ SharesPositions(n)
        BY <3>1, <3>2, <2>1 DEF AsksAs, Asker, SharesPositions
      <3> QED  BY <3>1, <3>3, <2>3 DEF AnswersReachAsker
    <2> QED  BY <2>2, <2>4, <2>5
  <1>3. ASSUME NEW n \in Nodes, TaskStep(n), ~Hear(n) PROVE heard' = heard
    BY <1>3 DEF TaskStep, Launch, Interrupt, Retry, FailToHandler, Fail, CacheHit, Return
  <1>4. CASE \/ UNCHANGED vars \/ Invoke \/ Continue \/ Crash
             \/ \E P \in SUBSET Pending(Latest) : Resume(P)
             \/ \E c \in DOMAIN cps : InvokeAt(c) \/ ResumeAt(c)
             \/ StartStep \/ Finish \/ PauseBefore \/ PauseAfter \/ Wait \/ Commit \/ ForkControls
    BY <1>4, <1>1 DEF vars, Invoke, Continue, Crash, Resume, InvokeAt, ResumeAt, StartStep, Finish,
           PauseBefore, PauseAfter, PauseAt, Wait, Commit, ForkControls
  <1> QED  BY <1>1, <1>2, <1>3, <1>4 DEF Next, RunStep

\* Every step keeps prompts with their asker.
LEMMA NextAInv ==
  ASSUME IInv, AInv, [Next]_vars
  PROVE  AInv'
  <1>1. OwnStore' /\ OwnWrites(snap)'
    <2> USE DEF AInv
    <2>1. CASE UNCHANGED <<cps, store, snap>>  BY <2>1, OwnSame
    <2>2. CASE \E n \in Nodes : TaskStep(n)
      <3>1. PICK n \in Nodes : TaskStep(n)  BY <2>2
      <3>2. Launch(n) \/ Hear(n) \/ Retry(n) \/ (\E v \in Values : CacheHit(n, v))
              => UNCHANGED <<cps, store, snap>>
        BY DEF Launch, Hear, Retry, CacheHit, durable
      <3> QED  BY <3>1, <3>2, <2>1, InterruptOwn, ReturnOwn, FailOwn DEF TaskStep
    <2>3. CASE UNCHANGED vars \/ Crash \/ Finish \/ StartStep \/ Wait
      BY <2>3, <2>1 DEF vars, Crash, Finish, StartStep, Wait, durable
    <2>4. CASE PauseBefore \/ PauseAfter
      BY <2>4, PauseOwn DEF PauseBefore, PauseAfter
    <2>5. CASE RunStep
      BY <2>5, <2>2, <2>3, <2>4, CommitOwn, ForkControlsOwn DEF RunStep
    <2> QED  BY <2>3, <2>5, InvokeOwn, InvokeAtOwn, ResumeAtOwn, ResumeOwn, ContinueOwn DEF Next
  <1> QED  BY <1>1, HandlersStep, HeardStep DEF AInv

\* Every interrupt that is reported can be resumed, and what is answered reaches
\* the prompt that asked, also across forks that reopen prompts; where the body and
\* the error handler of a node both ask, it may reach the other's prompt at the same
\* position, and a prompt hears null only below one that a client answered
\* (interruptHandler, setResume, decodeTaskControl, forkInterrupt).
THEOREM PromptsAreAnswered == Spec => []InterruptsAnswered
  <1>1. Init => AInv
    <2> SUFFICES ASSUME Init PROVE AInv  OBVIOUS
    <2>1. OwnStore  BY EmptySeq DEF Init, OwnStore
    <2>2. OwnWrites(snap)  BY OwnNone DEF Init
    <2> QED  BY <2>1, <2>2 DEF Init, AInv, HandlersOnly, AnswersReachAsker
  <1>2. IInv /\ AInv /\ [Next]_vars => AInv'  BY NextAInv
  <1>3. HInv /\ AInv => InterruptsAnswered
    <2>1. AInv => NullBelowAnswer  BY DEF AInv, OwnStore, OwnWrites, OwnControl, NullBelowAnswer
    <2> QED  BY <2>1 DEF HInv, AInv, InterruptsAnswered
  <1> QED  BY <1>1, <1>2, <1>3, Invariance, HInvariance, PTL DEF Spec

-----------------------------------------------------------------------------
(***************************************************************************)
(* GraphBuilder: runs of what Compile accepted.  The search of Compile has *)
(* stopped growing after as many rounds as there are nodes, so no declared *)
(* route leaves what it found; what a run executed and scheduled holds the *)
(* targets of every route that it took and of every join that filled.      *)
(***************************************************************************)
Builder == [nodes: SUBSET Names, asking: SUBSET Names, children: SUBSET Names,
            edges: SUBSET Calls, branches: SUBSET Calls, commands: SUBSET Calls,
            waits: SUBSET Calls, sends: SUBSET Calls]
\* The calls of the builder that are not waiting edges have one source.
GraphOK ==
    /\ graph \in Builder /\ END \notin graph.nodes
    /\ \A r \in Routes(graph) \ graph.waits : r.op # "wait"
    /\ \A w \in graph.waits : w.from # {}
    /\ \A r \in Routes(graph) : END \notin r.from

\* A waiting edge remembers the sources that ran since it fired last.
WaitOK(w) ==
    /\ arrived[w] \subseteq w.from \cap done /\ arrived[w] # w.from
    /\ w.from \cap done \subseteq arrived[w] \/ w.to \subseteq done \cup scheduled
PlanOK ==
    /\ \E o : plan.options = {o} /\ Accepts(graph, o)
    /\ plan.nodes = graph.nodes
    /\ scheduled \subseteq graph.nodes \cup {START}
    /\ done \subseteq graph.nodes \cup {START, END}
    /\ START \in done \cup scheduled
    /\ strays = {} => scheduled \cup done \subseteq Reachable(graph)
    /\ \A w \in graph.waits : WaitOK(w)
    /\ \A r \in followed : r.to \subseteq done \cup scheduled

BuilderInv ==
    /\ GraphOK
    /\ plan = NoPlan => done = {} /\ followed = {}
    /\ plan # NoPlan => PlanOK

\* A set of naturals that is not empty has a least member.
LEMMA LeastNumber ==
    ASSUME NEW T, T \subseteq Nat, T # {} PROVE \E x \in T : \A y \in T : x <= y
<1>1. PICK x \in T : \A y \in T : ~(<<y, x>> \in OpToRel(<, Nat))
  BY NatLessThanWellFounded, WFMin, Zenon
<1>2. \A y \in T : ~(y < x)
  BY <1>1 DEF OpToRel
<1> QED BY <1>2

\* Induction up to n, for the numbers of a set.
LEMMA UpTo ==
    ASSUME NEW n \in Nat, NEW T, 0 \in T,
           \A i \in 0 .. n : i \in T /\ i < n => i + 1 \in T
    PROVE  \A i \in 0 .. n : i \in T
<1> SUFFICES ASSUME (0 .. n) \ T # {} PROVE FALSE
  OBVIOUS
<1>1. PICK x \in (0 .. n) \ T : \A y \in (0 .. n) \ T : x <= y
  <2>1. (0 .. n) \ T \subseteq Nat
    OBVIOUS
  <2> QED BY <2>1, LeastNumber
<1>2. x # 0 /\ x - 1 \in 0 .. n
  OBVIOUS
<1>3. x - 1 \in T
  BY <1>1, <1>2
<1> QED BY <1>2, <1>3

\* The rounds of the search, up to the n-th.
VisitsUpTo(g, n, F) == F = [i \in 0 .. n |-> IF i = 0 THEN {START} ELSE Reached(g, F[i - 1])]

\* The recursion of Reachable has a solution.
LEMMA VisitsExist == ASSUME NEW g, NEW n \in Nat PROVE \E F : VisitsUpTo(g, n, F)
<1> DEFINE Sol(m, F) == VisitsUpTo(g, m, F)
           T == {m \in 0 .. n : \E F : Sol(m, F)}
<1>1. 0 \in T
  <2> DEFINE E == [i \in 0 .. 0 |-> {START}]
  <2>1. Sol(0, E)
    BY DEF VisitsUpTo
  <2>2. 0 \in 0 .. n /\ \E F : Sol(0, F)
    <3> HIDE DEF Sol, E
    <3> QED BY <2>1
  <2> HIDE DEF Sol
  <2> QED BY <2>2
<1>2. ASSUME NEW m \in 0 .. n, m \in T, m < n PROVE m + 1 \in T
  <2>1. PICK F : Sol(m, F)
    BY <1>2
  <2> DEFINE G == [i \in 0 .. m + 1 |-> IF i = m + 1 THEN Reached(g, F[m]) ELSE F[i]]
  <2>2. \A i \in 0 .. m : G[i] = F[i]
    OBVIOUS
  <2>3. ASSUME NEW i \in 0 .. m + 1
        PROVE  G[i] = IF i = 0 THEN {START} ELSE Reached(g, G[i - 1])
    <3>1. CASE i = m + 1
      <4>1. i - 1 \in 0 .. m /\ i - 1 = m /\ i # 0
        BY <3>1
      <4> QED BY <3>1, <4>1, <2>2
    <3>2. CASE i # m + 1
      <4>1. i \in 0 .. m /\ (i # 0 => i - 1 \in 0 .. m)
        BY <3>2
      <4>2. F[i] = IF i = 0 THEN {START} ELSE Reached(g, F[i - 1])
        BY <4>1, <2>1 DEF VisitsUpTo
      <4>3. G[i] = F[i] /\ (i # 0 => G[i - 1] = F[i - 1])
        BY <4>1, <2>2
      <4> HIDE DEF G
      <4> QED BY <4>2, <4>3
    <3> QED BY <3>1, <3>2
  <2>4. Sol(m + 1, G)
    <3> HIDE DEF G
    <3>1. G = [i \in 0 .. m + 1 |-> G[i]]
      BY DEF G
    <3> QED BY <2>3, <3>1 DEF VisitsUpTo
  <2>5. m + 1 \in 0 .. n /\ \E H : Sol(m + 1, H)
    <3> HIDE DEF Sol, G
    <3> QED BY <1>2, <2>4
  <2> HIDE DEF Sol
  <2> QED BY <2>5
<1> HIDE DEF T
<1>3. n \in T
  BY <1>1, <1>2, UpTo
<1> QED BY <1>3 DEF T

\* What the search returns is the last of a chain of sets, each reached from the one before.
LEMMA VisitsChain ==
    ASSUME NEW g, NEW n \in Nat, n = Cardinality(g.nodes)
    PROVE  \E F : /\ Reachable(g) = F[n + 1] /\ F[0] = {START}
                  /\ \A i \in 0 .. n : F[i + 1] = Reached(g, F[i])
<1> DEFINE F == CHOOSE F : F = [i \in 0 .. n + 1 |-> IF i = 0 THEN {START} ELSE Reached(g, F[i - 1])]
<1>1. Reachable(g) = F[n + 1]
  BY DEF Reachable
<1>2. PICK H : VisitsUpTo(g, n + 1, H)
  BY VisitsExist
<1>3. F = [i \in 0 .. n + 1 |-> IF i = 0 THEN {START} ELSE Reached(g, F[i - 1])]
  BY <1>2, Zenon DEF VisitsUpTo
<1> HIDE DEF F
<1>4. F[0] = {START}
  BY <1>3
<1>5. ASSUME NEW i \in 0 .. n PROVE F[i + 1] = Reached(g, F[i])
  <2>1. i + 1 \in 0 .. n + 1 /\ i + 1 # 0 /\ (i + 1) - 1 = i
    OBVIOUS
  <2> QED BY <1>3, <2>1
<1> QED BY <1>1, <1>4, <1>5

\* No route leaves the set.
ClosedUnder(g, S) == \A r \in Routes(g) : r.from \cap (S \ {END}) # {} => r.to \subseteq S

\* The search finds nothing outside a set that no route leaves.
LEMMA ReachableLeast ==
    ASSUME NEW g, Cardinality(g.nodes) \in Nat, NEW D, START \in D, ClosedUnder(g, D)
    PROVE  Reachable(g) \subseteq D
<1>0. PICK n \in Nat : n = Cardinality(g.nodes)
  OBVIOUS
<1>1. PICK F : /\ Reachable(g) = F[n + 1] /\ F[0] = {START}
               /\ \A i \in 0 .. n : F[i + 1] = Reached(g, F[i])
  BY ONLY <1>0, VisitsChain
<1> DEFINE T == {i \in 0 .. n + 1 : F[i] \subseteq D}
<1>2. 0 \in T
  BY <1>1
<1>3. ASSUME NEW i \in 0 .. n + 1, i \in T, i < n + 1 PROVE i + 1 \in T
  <2>1. i \in 0 .. n /\ i + 1 \in 0 .. n + 1 /\ F[i] \subseteq D
    BY <1>3
  <2>2. F[i + 1] = Reached(g, F[i])
    BY <1>1, <2>1
  <2>3. Reached(g, F[i]) \subseteq D
    BY <2>1 DEF Reached, ClosedUnder
  <2> QED BY <2>1, <2>2, <2>3
<1> HIDE DEF T
<1>4. n + 1 \in T
  <2>1. \A i \in 0 .. n + 1 : i \in T
    BY <1>2, <1>3, UpTo
  <2> QED BY <2>1
<1> QED BY <1>1, <1>4 DEF T

\* The search has stopped growing: no route leaves what it returns.
LEMMA ReachableClosed ==
    ASSUME NEW g, IsFiniteSet(g.nodes), EndpointsKnown(g)
    PROVE  START \in Reachable(g) /\ ClosedUnder(g, Reachable(g))
<1>0. PICK n \in Nat : n = Cardinality(g.nodes)
  BY FS_CardinalityType
<1>1. PICK F : /\ Reachable(g) = F[n + 1] /\ F[0] = {START}
               /\ \A i \in 0 .. n : F[i + 1] = Reached(g, F[i])
  BY <1>0, VisitsChain
<1>2. PICK all : all = g.nodes \cup {START, END}
  OBVIOUS
<1>3. IsFiniteSet(all) /\ Cardinality(all) \in Nat /\ Cardinality(all) <= n + 2
  <2>1. /\ IsFiniteSet(g.nodes \cup {START}) /\ Cardinality(g.nodes \cup {START}) <= n + 1
        /\ Cardinality(g.nodes \cup {START}) \in Nat
    <3>1. IsFiniteSet(g.nodes \cup {START})
      BY FS_AddElement
    <3>2. Cardinality(g.nodes \cup {START}) = IF START \in g.nodes THEN Cardinality(g.nodes)
                                              ELSE Cardinality(g.nodes) + 1
      BY FS_AddElement
    <3> QED BY <1>0, <3>1, <3>2
  <2>2. all = (g.nodes \cup {START}) \cup {END}
    BY <1>2
  <2>3. PICK N : N = g.nodes \cup {START}
    OBVIOUS
  <2>4. IsFiniteSet(N \cup {END})
    BY <2>1, <2>3, FS_AddElement
  <2>5. Cardinality(N \cup {END}) = IF END \in N THEN Cardinality(N) ELSE Cardinality(N) + 1
    BY <2>1, <2>3, FS_AddElement
  <2> QED BY <1>0, <2>1, <2>2, <2>3, <2>4, <2>5
<1>4. \A r \in Routes(g) : r.to \subseteq all
  BY <1>2 DEF EndpointsKnown
<1> DEFINE Good(i) == /\ START \in F[i] /\ F[i] \subseteq all
                      /\ ClosedUnder(g, F[i]) \/ i + 1 <= Cardinality(F[i])
           T == {i \in 0 .. n + 1 : Good(i)}
<1>5. 0 \in T
  <2>1. Cardinality({START}) = 1
    BY FS_Singleton
  <2>2. Good(0)
    BY <1>1, <1>2, <2>1
  <2> QED BY <2>2
<1>6. ASSUME NEW i \in 0 .. n + 1, i \in T, i < n + 1 PROVE i + 1 \in T
  <2>1. i \in 0 .. n /\ i + 1 \in 0 .. n + 1 /\ Good(i)
    BY <1>6
  <2>2. F[i + 1] = Reached(g, F[i])
    BY <1>1, <2>1
  <2>3. F[i] \subseteq F[i + 1] /\ F[i + 1] \subseteq all
    BY <1>4, <2>1, <2>2 DEF Reached
  <2>4. CASE ClosedUnder(g, F[i])
    <3>1. F[i + 1] = F[i]
      BY <2>2, <2>4 DEF Reached, ClosedUnder
    <3> QED BY <2>1, <2>4, <3>1
  <2>5. CASE ~ClosedUnder(g, F[i])
    <3>1. F[i + 1] # F[i]
      BY <2>2, <2>5 DEF Reached, ClosedUnder
    <3>2. IsFiniteSet(F[i + 1]) /\ Cardinality(F[i + 1]) \in Nat
      BY <1>3, <2>3, FS_Subset, FS_CardinalityType
    <3>3. Cardinality(F[i]) <= Cardinality(F[i + 1]) /\ Cardinality(F[i]) # Cardinality(F[i + 1])
      BY <2>3, <3>1, <3>2, FS_Subset
    <3>4. Cardinality(F[i]) \in Nat
      BY <2>3, <3>2, FS_Subset, FS_CardinalityType
    <3>5. i + 1 <= Cardinality(F[i])
      BY <2>1, <2>5
    <3>6. i + 2 <= Cardinality(F[i + 1])
      BY <2>1, <3>2, <3>3, <3>4, <3>5
    <3> QED BY <2>1, <2>3, <3>6
  <2> QED BY <2>4, <2>5
<1>7. Good(n + 1)
  <2> HIDE DEF T
  <2>1. \A i \in 0 .. n + 1 : i \in T
    BY <1>5, <1>6, UpTo
  <2>2. n + 1 \in T
    BY <2>1
  <2> QED BY <2>2 DEF T
<1>8. CASE n + 2 <= Cardinality(F[n + 1])
  <2>1. F[n + 1] = all
    <3>1. F[n + 1] \subseteq all /\ Cardinality(F[n + 1]) <= Cardinality(all)
      BY <1>3, <1>7, FS_Subset
    <3>2. Cardinality(F[n + 1]) \in Nat
      BY <1>3, <1>7, FS_Subset, FS_CardinalityType
    <3>3. Cardinality(F[n + 1]) = Cardinality(all)
      BY <1>3, <1>8, <3>1, <3>2
    <3> QED BY <1>3, <3>1, <3>3, FS_Subset
  <2>2. ClosedUnder(g, all)
    BY <1>4 DEF ClosedUnder
  <2> QED BY <1>1, <1>7, <2>1, <2>2
<1> QED BY <1>1, <1>7, <1>8

\* The routes are calls of the program; those that do not wait have one source.
LEMMA RouteFacts ==
    ASSUME GraphOK
    PROVE  /\ Routes(graph) \subseteq Calls /\ graph.waits \subseteq Routes(graph)
           /\ \A r \in Routes(graph) \ graph.waits : \E s : r.from = {s}
           /\ \A w \in graph.waits : w.from # {}
           /\ \A r \in Routes(graph) : END \notin r.from
           /\ IsFiniteSet(graph.nodes) /\ Cardinality(graph.nodes) \in Nat
           /\ Cardinality(graph.nodes) <= Cardinality(Names)
<1>1. Routes(graph) \subseteq Calls /\ graph.waits \subseteq Routes(graph)
  BY DEF GraphOK, Builder, Routes
<1>2. \A r \in Routes(graph) \ graph.waits : \E s : r.from = {s}
  BY <1>1, BuilderAssumption DEF GraphOK
<1>3. graph.nodes \subseteq Names /\ IsFiniteSet(Names)
  BY BuilderAssumption DEF GraphOK, Builder
<1>4. IsFiniteSet(graph.nodes) /\ Cardinality(graph.nodes) <= Cardinality(Names)
  BY <1>3, FS_Subset
<1> QED BY <1>1, <1>2, <1>4, FS_CardinalityType DEF GraphOK

\* The calls of the builder.
LEMMA CallsKeep ==
    ASSUME BuilderInv, NEW c \in Calls,
           \/ AddNode(c) \/ AddEdge(c) \/ AddConditionalEdges(c)
           \/ AddCommandDestinations(c) \/ AddWaitingEdge(c) \/ AddSendEdges(c)
    PROVE  BuilderInv'
<1>1. plan = NoPlan /\ UNCHANGED <<plan, scheduled, arrived, done, followed, strays>>
  BY DEF AddNode, AddEdge, AddConditionalEdges, AddCommandDestinations, AddWaitingEdge, AddSendEdges,
         Building, Keep
<1>2. GraphOK /\ graph \in Builder /\ c.from \subseteq Names
  BY DEF BuilderInv, GraphOK, Names
<1>3. c.op # "wait" => c.from = {Source(c)}
  <2>1. ASSUME c.op # "wait" PROVE \E s : c.from = {s}
    BY <2>1, BuilderAssumption
  <2> QED BY <2>1 DEF Source
<1>4. CASE AddNode(c)
  <2>1. PICK n \in SUBSET Names, a \in SUBSET Names, h \in SUBSET Names :
           /\ graph' = [graph EXCEPT !.nodes = n, !.asking = a, !.children = h]
           /\ END \notin n
    <3>1. END \notin c.from /\ END \notin graph.nodes
      BY <1>2, <1>3, <1>4 DEF AddNode, GraphOK
    <3>2. graph.nodes \subseteq Names /\ graph.asking \subseteq Names /\ graph.children \subseteq Names
      BY <1>2 DEF Builder
    <3>3. graph' = [graph EXCEPT !.nodes = IF c.as = "incompatible" THEN graph.nodes
                                           ELSE graph.nodes \cup c.from,
                      !.asking = IF c.as \in {"asking", "incompatible"} THEN graph.asking \cup c.from
                                 ELSE graph.asking,
                      !.children = IF c.as = "stateful" THEN graph.children \cup c.from
                                   ELSE graph.children]
      BY <1>4 DEF AddNode
    <3>4. PICK n, a, h :
             /\ n = IF c.as = "incompatible" THEN graph.nodes ELSE graph.nodes \cup c.from
             /\ a = IF c.as \in {"asking", "incompatible"} THEN graph.asking \cup c.from
                    ELSE graph.asking
             /\ h = IF c.as = "stateful" THEN graph.children \cup c.from ELSE graph.children
      OBVIOUS
    <3>5. graph' = [graph EXCEPT !.nodes = n, !.asking = a, !.children = h]
      BY <3>3, <3>4
    <3>6. n \in SUBSET Names /\ a \in SUBSET Names /\ h \in SUBSET Names /\ END \notin n
      BY <1>2, <3>1, <3>2, <3>4
    <3> QED BY <3>5, <3>6
  <2>2. /\ graph' \in Builder /\ graph'.nodes = n /\ graph'.waits = graph.waits
        /\ Routes(graph') = Routes(graph)
    BY <1>2, <2>1 DEF Builder, Routes
  <2>3. GraphOK'
    BY <1>2, <2>1, <2>2 DEF GraphOK
  <2> QED BY <1>1, <2>3 DEF BuilderInv
<1>5. CASE AddWaitingEdge(c)
  <2>1. graph' = [graph EXCEPT !.waits = graph.waits \cup {c}] /\ c.from # {} /\ END \notin c.from
    BY <1>5, FS_EmptySet DEF AddWaitingEdge
  <2>2. /\ graph' \in Builder /\ graph'.nodes = graph.nodes /\ graph'.waits = graph.waits \cup {c}
        /\ Routes(graph') = Routes(graph) \cup {c}
    BY <1>2, <2>1 DEF Builder, Routes
  <2>3. GraphOK'
    BY <1>2, <2>1, <2>2 DEF GraphOK
  <2> QED BY <1>1, <2>3 DEF BuilderInv
<1>6. ASSUME graph' \in Builder, graph'.nodes = graph.nodes, graph'.waits = graph.waits,
             Routes(graph') = Routes(graph) \cup {c}, c.op # "wait", END \notin c.from
      PROVE  BuilderInv'
  <2>1. GraphOK'
    BY <1>2, <1>6 DEF GraphOK
  <2> QED BY <1>1, <2>1 DEF BuilderInv
<1>7. CASE AddEdge(c)
  <2>1. graph' = [graph EXCEPT !.edges = graph.edges \cup {c}] /\ c.op # "wait" /\ END \notin c.from
    BY <1>3, <1>7 DEF AddEdge
  <2> QED BY <1>2, <1>6, <2>1 DEF Builder, Routes
<1>8. CASE AddConditionalEdges(c)
  <2>1. /\ graph' = [graph EXCEPT !.branches = graph.branches \cup {c}] /\ c.op # "wait"
        /\ END \notin c.from
    BY <1>3, <1>8 DEF AddConditionalEdges
  <2> QED BY <1>2, <1>6, <2>1 DEF Builder, Routes
<1>9. CASE AddCommandDestinations(c)
  <2>1. /\ graph' = [graph EXCEPT !.commands = graph.commands \cup {c}] /\ c.op # "wait"
        /\ END \notin c.from
    BY <1>3, <1>9 DEF AddCommandDestinations
  <2> QED BY <1>2, <1>6, <2>1 DEF Builder, Routes
<1>10. CASE AddSendEdges(c)
  <2>1. graph' = [graph EXCEPT !.sends = graph.sends \cup {c}] /\ c.op # "wait" /\ END \notin c.from
    BY <1>3, <1>10 DEF AddSendEdges
  <2> QED BY <1>2, <1>6, <2>1 DEF Builder, Routes
<1> QED BY <1>4, <1>5, <1>7, <1>8, <1>9, <1>10

\* Compile: the run starts at START.
LEMMA CompileKeeps == ASSUME BuilderInv, NEW o, Compile(o) PROVE BuilderInv'
<1>1. /\ GraphOK /\ plan = NoPlan /\ done = {} /\ followed = {} /\ Accepts(graph, o)
      /\ plan' = [nodes |-> graph.nodes, options |-> {o}]
      /\ scheduled' = {START} /\ arrived' = [w \in graph.waits |-> {}]
      /\ UNCHANGED <<graph, done, followed, strays>>
  BY DEF BuilderInv, Compile
<1>2. plan'.nodes = graph.nodes /\ plan'.options = {o} /\ plan' # NoPlan
  BY <1>1 DEF NoPlan
<1>3. START \in Reachable(graph)
  BY <1>1, RouteFacts, ReachableClosed DEF Accepts
<1>4. GraphOK'
  BY <1>1 DEF GraphOK
<1>5. PlanOK'
  <2>1. \A w \in graph.waits : WaitOK(w)'
    BY <1>1, RouteFacts DEF WaitOK
  <2> QED BY <1>1, <1>2, <1>3, <2>1 DEF PlanOK
<1> QED BY <1>1, <1>2, <1>4, <1>5 DEF BuilderInv

\* A step takes known routes, and without undeclared targets stays within what the
\* search found.
LEMMA StepKeeps == ASSUME BuilderInv, NEW jumps, NEW aims, Step(jumps, aims) PROVE BuilderInv'
<1> DEFINE taken == Taken(jumps)
           routed == Routed(jumps, aims)
           commanded == {r \in graph.commands : r.from \subseteq jumps /\ r.to \subseteq aims}
<1>1. /\ GraphOK /\ PlanOK /\ plan # NoPlan
      /\ jumps \subseteq scheduled \ {START} /\ aims \subseteq graph.nodes \cup {END}
      /\ scheduled' = routed \ {END}
      /\ arrived' = [w \in graph.waits |-> IF Fires(w) THEN {} ELSE Seen(w)]
      /\ done' = done \cup scheduled \cup (routed \cap {END})
      /\ followed' = followed \cup taken \cup commanded
      /\ strays' = strays \cup (aims \ Declared) /\ UNCHANGED <<graph, plan>>
  BY DEF BuilderInv, PlanOK, Step
<1>2. /\ Routes(graph) \subseteq Calls /\ graph.waits \subseteq Routes(graph)
      /\ \A r \in Routes(graph) \ graph.waits : \E s : r.from = {s}
      /\ \A w \in graph.waits : w.from # {}
      /\ \A r \in Routes(graph) : END \notin r.from
      /\ IsFiniteSet(graph.nodes) /\ END \notin graph.nodes
  BY <1>1, RouteFacts DEF GraphOK
<1>3. PICK o : plan.options = {o} /\ Accepts(graph, o)
  BY <1>1 DEF PlanOK
<1>4. EndpointsKnown(graph)
  BY <1>3 DEF Accepts
<1>5. ClosedUnder(graph, Reachable(graph))
  BY <1>2, <1>4, ReachableClosed
<1>6. END \notin scheduled
  BY <1>1, <1>2, BuilderAssumption DEF PlanOK
<1>7. ASSUME NEW w \in graph.waits
      PROVE  /\ Seen(w) \subseteq w.from \cap (done \cup scheduled)
             /\ Fires(w) => w.from \subseteq done \cup scheduled
             /\ w.from \cap (done \cup scheduled) \subseteq Seen(w) \/ w.to \subseteq done \cup scheduled
  BY <1>1 DEF PlanOK, WaitOK, Seen, Fires
<1>8. ASSUME NEW r \in taken
      PROVE  r \in Routes(graph) /\ r.from \subseteq done \cup scheduled /\ r.from # {}
  <2>1. CASE r \in graph.waits
    BY <1>2, <1>7, <2>1 DEF Taken
  <2>2. CASE r \notin graph.waits
    <3>1. r \in Routes(graph) /\ r.from \subseteq scheduled
      BY <2>2 DEF Taken, Routes
    <3> QED BY <1>2, <2>2, <3>1
  <2> QED BY <2>1, <2>2
<1>9. routed \subseteq graph.nodes \cup {START, END}
  BY <1>1, <1>4, <1>8 DEF Routed, EndpointsKnown
<1>10. done' \cup scheduled' = done \cup scheduled \cup routed
  BY <1>1
<1>11. /\ \A r \in taken \cup commanded : r.to \subseteq routed
  BY DEF Routed
<1>12. ASSUME NEW w \in graph.waits PROVE WaitOK(w)'
  <2>1. arrived'[w] = IF Fires(w) THEN {} ELSE Seen(w)
    BY <1>1
  <2>2. arrived'[w] \subseteq w.from \cap done' /\ arrived'[w] # w.from
    BY <1>1, <1>2, <1>7, <2>1 DEF Fires
  <2>3. CASE Fires(w)
    <3>1. w.to \subseteq routed
      BY <1>11, <2>3 DEF Taken
    <3> HIDE DEF routed
    <3> QED BY <1>10, <2>2, <3>1 DEF WaitOK
  <2>4. CASE ~Fires(w)
    <3>1. w.from \cap done' = w.from \cap (done \cup scheduled)
      BY <1>1, <1>2
    <3> QED BY <1>7, <1>10, <2>1, <2>2, <2>4, <3>1 DEF WaitOK
  <2> QED BY <2>3, <2>4
<1>13. ASSUME NEW r \in followed' PROVE r.to \subseteq done' \cup scheduled'
  <2>1. CASE r \in followed
    BY <1>1, <1>10, <2>1 DEF PlanOK
  <2>2. CASE r \in taken \cup commanded
    <3> HIDE DEF taken, commanded, routed
    <3> QED BY <1>10, <1>11, <2>2
  <2> HIDE DEF taken, commanded, routed
  <2> QED BY <1>1, <2>1, <2>2
<1>14. ASSUME strays' = {} PROVE scheduled' \cup done' \subseteq Reachable(graph)
  <2>1. done \cup scheduled \subseteq Reachable(graph) /\ aims \subseteq Declared
    BY <1>1, <1>14 DEF PlanOK
  <2>2. ASSUME NEW r \in Routes(graph), r.from \subseteq done \cup scheduled, r.from # {}
        PROVE  r.to \subseteq Reachable(graph)
    <3>1. r.from \cap (Reachable(graph) \ {END}) # {}
      BY <1>2, <2>1, <2>2
    <3> QED BY <1>5, <3>1 DEF ClosedUnder
  <2>3. \A r \in taken : r.to \subseteq Reachable(graph)
    BY <1>8, <2>2
  <2>4. Declared \subseteq Reachable(graph)
    <3>1. ASSUME NEW r \in graph.commands, r.from \subseteq scheduled
          PROVE  r.to \subseteq Reachable(graph)
      <4>1. r \in Routes(graph)
        BY DEF Routes
      <4>2. r.from # {}
        BY <1>2, <4>1
      <4> QED BY <2>2, <3>1, <4>1, <4>2
    <3> QED BY <3>1 DEF Declared
  <2>5. routed \subseteq Reachable(graph)
    BY <2>1, <2>3, <2>4 DEF Routed
  <2> HIDE DEF routed
  <2> QED BY <1>10, <2>1, <2>5
<1> HIDE DEF taken, routed, commanded
<1>15. GraphOK'
  BY <1>1 DEF GraphOK
<1>16. PlanOK'
  <2>1. (\E p : plan.options = {p} /\ Accepts(graph, p))'
    BY <1>1, <1>3
  <2>2. (plan.nodes = graph.nodes)'
    BY <1>1 DEF PlanOK
  <2>3. (scheduled \subseteq graph.nodes \cup {START} /\ done \subseteq graph.nodes \cup {START, END})'
    BY <1>1, <1>9 DEF PlanOK
  <2>4. (START \in done \cup scheduled)'
    BY <1>1 DEF PlanOK
  <2>5. (strays = {} => scheduled \cup done \subseteq Reachable(graph))'
    <3>1. Reachable(graph)' = Reachable(graph)
      BY <1>1
    <3> QED BY <1>14, <3>1
  <2>6. (\A w \in graph.waits : WaitOK(w))'
    BY <1>1, <1>12
  <2>7. (\A r \in followed : r.to \subseteq done \cup scheduled)'
    BY <1>13
  <2> QED BY <2>1, <2>2, <2>3, <2>4, <2>5, <2>6, <2>7 DEF PlanOK
<1> QED BY <1>1, <1>15, <1>16 DEF BuilderInv

\* The start of a program.
LEMMA BuilderStart == BuilderInit => BuilderInv
<1> SUFFICES ASSUME BuilderInit PROVE BuilderInv
  OBVIOUS
<1>1. graph \in Builder /\ Routes(graph) = {} /\ graph.nodes = {} /\ graph.waits = {}
  BY DEF BuilderInit, Builder, Routes
<1>2. plan = NoPlan /\ done = {} /\ followed = {}
  BY DEF BuilderInit
<1> QED BY <1>1, <1>2 DEF BuilderInv, GraphOK

\* A stuttering step changes none of the variables.
LEMMA BuilderStutter == BuilderInv /\ UNCHANGED builderVars => BuilderInv'
<1> SUFFICES ASSUME BuilderInv, UNCHANGED builderVars PROVE BuilderInv'
  OBVIOUS
<1>1. UNCHANGED <<graph, accepted, plan, scheduled, arrived, done, followed, strays>>
  BY DEF builderVars
<1>2. GraphOK' <=> GraphOK
  BY <1>1 DEF GraphOK
<1>3. \A w : WaitOK(w)' <=> WaitOK(w)
  BY <1>1 DEF WaitOK
<1>4. Reachable(graph)' = Reachable(graph)
  BY <1>1
<1>5. PlanOK' <=> PlanOK
  BY <1>1, <1>3, <1>4 DEF PlanOK
<1> QED BY <1>1, <1>2, <1>5 DEF BuilderInv

\* An exhausted run has run all that the search found.
LEMMA BuilderInvPlanRuns == BuilderInv => PlanRuns
<1> SUFFICES ASSUME BuilderInv, plan # NoPlan PROVE PlanRuns
  BY DEF PlanRuns
<1>1. GraphOK /\ PlanOK
  BY DEF BuilderInv
<1>2. /\ scheduled \subseteq plan.nodes \cup {START}
      /\ strays = {} => done \subseteq Reachable(graph)
  BY <1>1 DEF PlanOK
<1>3. ASSUME Exhausted, NEW o \in plan.options
      PROVE  (o.unreachable \/ plan.nodes \subseteq done) /\ (o.unreachableEnd \/ END \in done)
  <2>1. scheduled \subseteq done /\ START \in done
    BY <1>1, <1>3 DEF PlanOK, Exhausted
  <2>2. ClosedUnder(graph, done)
    <3> SUFFICES ASSUME NEW r \in Routes(graph), r.from \cap (done \ {END}) # {}
                 PROVE  r.to \subseteq done
      BY DEF ClosedUnder
    <3>1. r.from \subseteq done /\ (r \in graph.waits \/ r \in followed)
      BY <1>3 DEF Exhausted
    <3>2. CASE r \in graph.waits
      <4>1. WaitOK(r)
        BY <1>1, <3>2 DEF PlanOK
      <4> QED BY <2>1, <3>1, <4>1 DEF WaitOK
    <3>3. CASE r \in followed
      BY <1>1, <2>1, <3>3 DEF PlanOK
    <3> QED BY <3>1, <3>2, <3>3
  <2>3. Reachable(graph) \subseteq done
    BY <1>1, <2>1, <2>2, RouteFacts, ReachableLeast
  <2>4. Accepts(graph, o) /\ plan.nodes = graph.nodes
    BY <1>1, <1>3 DEF PlanOK
  <2> QED BY <2>3, <2>4 DEF Accepts
<1> QED BY <1>2, <1>3 DEF PlanRuns

\* For every set of builder calls and options and every run: what Compile accepts runs as
\* declared (Compile, resolveNextTasks).
THEOREM PlansRun == BuilderSpec => []PlanRuns
<1>1. ASSUME BuilderInv, [BuilderNext]_builderVars PROVE BuilderInv'
  <2>1. CASE UNCHANGED builderVars
    BY <1>1, <2>1, BuilderStutter
  <2>2. CASE BuilderNext
    BY <1>1, <2>2, CallsKeep, CompileKeeps, StepKeeps DEF BuilderNext
  <2> QED BY <1>1, <2>1, <2>2
<1>2. BuilderSpec => []BuilderInv
  BY <1>1, BuilderStart, PTL DEF BuilderSpec
<1> QED BY <1>2, BuilderInvPlanRuns, PTL
=============================================================================
