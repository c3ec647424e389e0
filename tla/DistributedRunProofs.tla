------------------------- MODULE DistributedRunProofs -------------------------
(***************************************************************************)
(* No result is lost and no checkpoint is built from anything but the      *)
(* recorded results, for any number of threads, super-steps, workers,      *)
(* slots and drivers, any mix of the two outboxes, any node results and    *)
(* any number of faults.                                                   *)
(***************************************************************************)
EXTENDS DistributedRun, TLAPS

-----------------------------------------------------------------------------
(* The inductive invariant.                                                *)

Checkpoints == Threads \X (1 .. Last)

JobRecord ==
    [pc: {"free", "run", "write", "ack", "nack"}, task: AllTasks \cup {NoTask},
     token: 0 .. MaxClaims, value: Values \cup {NoValue}]

DriverRecord ==
    [pc: {"idle", "scheduling", "ready"}, thread: Threads \cup {0},
     k: DOMAIN Layers \cup {0}, todo: SUBSET Nat, time: 0 .. MaxPuts,
     results: UNION {[S -> Values \cup {NoValue}] : S \in SUBSET AllTasks}]

Typed ==
    /\ PoolTypeOK
    /\ DOMAIN folded = Checkpoints
    /\ driver \in [Drivers -> DriverRecord]

\* A slot that works has a task.  What it will acknowledge is what the store
\* res holds: the outbox read it back.
JobSound(r, res) ==
    /\ r.pc # "free" => r.task \in AllTasks
    /\ r.pc \in {"write", "ack"} => r.value \in Values
    /\ r.pc = "ack" => res[r.task] = r.value

\* A driver that schedules has tasks of a checkpoint it read; one that collected
\* a barrier still has, however late it commits, what the store records.
DriverSound(r, res, pub) ==
    /\ r.pc = "scheduling" =>
          /\ r.thread \in Threads /\ r.k \in DOMAIN Layers
          /\ r.todo \subseteq DOMAIN Layers[r.k]
          /\ r.time \in 1 .. MaxPuts
    /\ r.pc = "ready" =>
          /\ r.thread \in Threads /\ r.k \in DOMAIN Layers
          /\ pub[<<r.thread, r.k>>] > 0
          /\ \A t \in StepTasks(r.thread, r.k) : res[t] # NoValue
          /\ r.results = [t \in StepTasks(r.thread, r.k) |-> res[t]]

JobsSound == \A j \in Jobs : JobSound(job[j], result)
DriversSound == \A d \in Drivers : DriverSound(driver[d], result, stamp)

DInv == Typed /\ JobsSound /\ DriversSound /\ AckedResultsStored /\ StepsFoldRecorded


-----------------------------------------------------------------------------
(* Facts about the parameters and the record types.                        *)

\* Super-steps are numbered 1 .. Last - 1 and a commit publishes the next one.
LEMMA LayerFacts ==
    /\ Last \in Nat
    /\ \A k \in DOMAIN Layers : k \in 1 .. Last /\ k + 1 \in 1 .. Last
    /\ \A k \in 2 .. Last : k - 1 \in DOMAIN Layers
<1>1. Len(Layers) \in Nat /\ DOMAIN Layers = 1 .. Len(Layers)
  BY DistributedAssumption
<1> QED BY <1>1 DEF Last

\* The tasks of a super-step are tasks.
LEMMA TasksOfStep ==
    ASSUME NEW th \in Threads, NEW k \in DOMAIN Layers
    PROVE  /\ StepTasks(th, k) \subseteq AllTasks
           /\ \A i \in DOMAIN Layers[k] : <<th, k, Layers[k][i]>> \in AllTasks
<1>1. \A i \in DOMAIN Layers[k] : Layers[k][i] \in NodesOf(k)
  BY DEF NodesOf
<1>2. \A n \in NodesOf(k) : n \in UNION {NodesOf(x) : x \in DOMAIN Layers}
  OBVIOUS
<1>3. \A n \in NodesOf(k) : <<th, k, n>> \in AllTasks
  BY <1>2 DEF AllTasks
<1> QED BY <1>1, <1>3 DEF StepTasks

\* The records of an idle slot and of an idle driver.
LEMMA IdleRecords ==
    /\ Free \in JobRecord /\ \A res : JobSound(Free, res)
    /\ Resting \in DriverRecord /\ \A res, pub : DriverSound(Resting, res, pub)
<1>1. Free \in JobRecord /\ Free.pc = "free"
  BY DistributedAssumption DEF Free, JobRecord
<1>2. \A res : JobSound(Free, res)
  BY <1>1 DEF JobSound
<1>3. [t \in {} |-> NoValue] \in UNION {[S -> Values \cup {NoValue}] : S \in SUBSET AllTasks}
  <2>1. [t \in {} |-> NoValue] \in [{} -> Values \cup {NoValue}]
    OBVIOUS
  <2>2. {} \in SUBSET AllTasks
    OBVIOUS
  <2> QED BY <2>1, <2>2
<1>4. Resting \in DriverRecord /\ Resting.pc = "idle"
  <2>1. 0 \in 0 .. MaxPuts /\ {} \in SUBSET Nat
    BY DistributedAssumption
  <2> DEFINE R == UNION {[S -> Values \cup {NoValue}] : S \in SUBSET AllTasks}
  <2>2. ASSUME NEW f \in R
        PROVE  [pc |-> "idle", thread |-> 0, k |-> 0, todo |-> {}, time |-> 0, results |-> f]
                  \in [pc: {"idle", "scheduling", "ready"}, thread: Threads \cup {0},
                       k: DOMAIN Layers \cup {0}, todo: SUBSET Nat, time: 0 .. MaxPuts,
                       results: R]
    <3> HIDE DEF R
    <3> QED BY <2>1
  <2>3. [t \in {} |-> NoValue] \in R
    BY <1>3
  <2>4. Resting \in DriverRecord
    BY <2>2, <2>3, Zenon DEF Resting, DriverRecord
  <2> QED BY <2>4 DEF Resting
<1>5. \A res, pub : DriverSound(Resting, res, pub)
  BY <1>4 DEF DriverSound
<1> QED BY <1>1, <1>2, <1>4, <1>5

-----------------------------------------------------------------------------
(* What a step leaves of the invariant.                                    *)

\* What every step does to the store: a result that is there stays, and a
\* checkpoint that is published stays published.
Grows ==
    /\ result' \in [AllTasks -> Values \cup {NoValue}]
    /\ \A t \in AllTasks : result[t] # NoValue => result'[t] = result[t]

\* The slots keep their records when results are added.
LEMMA JobsStay ==
    ASSUME DInv, Grows, UNCHANGED job
    PROVE  job' \in [Jobs -> JobRecord] /\ JobsSound'
<1>1. job \in [Jobs -> JobRecord]
  BY DEF DInv, Typed, PoolTypeOK, JobRecord
<1>2. ASSUME NEW j \in Jobs PROVE JobSound(job[j], result')
  <2>1. JobSound(job[j], result)
    BY DEF DInv, JobsSound
  <2> QED BY <2>1, DistributedAssumption DEF JobSound, Grows
<1> QED BY <1>1, <1>2 DEF JobsSound

\* A slot moves to a sound record, the others keep theirs.
LEMMA JobMoves ==
    ASSUME DInv, Grows, NEW j \in Jobs, NEW r, job' = [job EXCEPT ![j] = r],
           r \in JobRecord, JobSound(r, result')
    PROVE  job' \in [Jobs -> JobRecord] /\ JobsSound'
<1>1. job \in [Jobs -> JobRecord]
  BY DEF DInv, Typed, PoolTypeOK, JobRecord
<1>2. ASSUME NEW i \in Jobs PROVE JobSound(job'[i], result')
  <2>1. CASE i = j
    BY <1>1, <2>1
  <2>2. CASE i # j
    <3>1. JobSound(job[i], result) /\ job'[i] = job[i]
      BY <1>1, <2>2 DEF DInv, JobsSound
    <3> QED BY <3>1, DistributedAssumption DEF JobSound, Grows
  <2> QED BY <2>1, <2>2
<1> QED BY <1>1, <1>2 DEF JobsSound

\* What the drivers read, and what was folded, stays recorded.
LEMMA StoreStays ==
    ASSUME DInv, Grows, UNCHANGED <<stamp, folded>>
    PROVE  /\ StepsFoldRecorded'
           /\ \A d \in Drivers : DriverSound(driver[d], result', stamp')
<1> USE DEF Grows
<1>1. ASSUME NEW th \in Threads, NEW k \in 2 .. Last, stamp'[<<th, k>>] > 0
      PROVE  /\ stamp'[<<th, k - 1>>] > 0
             /\ folded'[<<th, k>>] = [t \in StepTasks(th, k - 1) |-> result'[t]]
             /\ \A t \in StepTasks(th, k - 1) : result'[t] # NoValue
  <2>1. StepTasks(th, k - 1) \subseteq AllTasks
    BY LayerFacts, TasksOfStep
  <2>2. /\ stamp[<<th, k - 1>>] > 0
        /\ folded[<<th, k>>] = [t \in StepTasks(th, k - 1) |-> result[t]]
        /\ \A t \in StepTasks(th, k - 1) : result[t] # NoValue
    BY <1>1 DEF DInv, StepsFoldRecorded
  <2>3. \A t \in StepTasks(th, k - 1) : result'[t] = result[t]
    BY <2>1, <2>2
  <2> QED BY <2>2, <2>3
<1>2. ASSUME NEW d \in Drivers PROVE DriverSound(driver[d], result', stamp')
  <2>1. DriverSound(driver[d], result, stamp)
    BY DEF DInv, DriversSound
  <2>2. CASE driver[d].pc = "ready"
    <3>1. driver[d].thread \in Threads /\ driver[d].k \in DOMAIN Layers
      BY <2>1, <2>2 DEF DriverSound
    <3>2. StepTasks(driver[d].thread, driver[d].k) \subseteq AllTasks
      BY <3>1, TasksOfStep
    <3> QED BY <2>1, <2>2, <3>2 DEF DriverSound
  <2>3. CASE driver[d].pc # "ready"
    BY <2>1, <2>3 DEF DriverSound
  <2> QED BY <2>2, <2>3
<1> QED BY <1>1, <1>2 DEF StepsFoldRecorded

\* One driver moves to a sound record, nothing is written.
LEMMA DriverMoves ==
    ASSUME DInv, NEW d \in Drivers, NEW r, driver' = [driver EXCEPT ![d] = r],
           r \in DriverRecord, DriverSound(r, result, stamp),
           UNCHANGED <<stamp, folded, result>>
    PROVE  driver' \in [Drivers -> DriverRecord] /\ DriversSound' /\ StepsFoldRecorded'
<1>1. driver \in [Drivers -> DriverRecord]
  BY DEF DInv, Typed
<1>2. ASSUME NEW e \in Drivers PROVE DriverSound(driver'[e], result, stamp)
  <2>1. CASE e = d
    BY <1>1, <2>1
  <2>2. CASE e # d
    <3>1. driver'[e] = driver[e]
      BY <1>1, <2>2
    <3> QED BY <3>1 DEF DInv, DriversSound
  <2> QED BY <2>1, <2>2
<1>3. Grows
  BY DEF DInv, Typed, PoolTypeOK, Grows
<1>4. StepsFoldRecorded'
  BY <1>3, StoreStays
<1> QED BY <1>1, <1>2, <1>4 DEF DriversSound

\* The queue, its payloads and the idempotency keys name tasks and used tokens.
QueueTyped ==
    /\ DOMAIN holder \subseteq {QueueID(t) : t \in AllTasks}
    /\ \A id \in DOMAIN holder : holder[id] \in used \cup {0}
    /\ used \subseteq 1 .. MaxClaims
    /\ \A id \in DOMAIN payload : payload[id] \in AllTasks /\ QueueID(payload[id]) = id
    /\ DOMAIN holder \subseteq DOMAIN payload

BindingsTyped ==
    /\ DOMAIN keys \subseteq AllTasks
    /\ \A t \in DOMAIN keys : keys[t] \in 1 .. MaxPuts

\* The parts of the invariant make the invariant.
LEMMA Parts ==
    DInv <=> /\ QueueTyped /\ BindingsTyped
             /\ stamp \in [Checkpoints -> 0 .. MaxPuts] /\ DOMAIN folded = Checkpoints
             /\ result \in [AllTasks -> Values \cup {NoValue}]
             /\ up \in [Pool -> {"up", "stopping", "down"}]
             /\ job \in [Jobs -> JobRecord] /\ JobsSound
             /\ driver \in [Drivers -> DriverRecord] /\ DriversSound
             /\ acked \subseteq AllTasks /\ AckedResultsStored
             /\ faults \in 0 .. MaxFaults
             /\ StepsFoldRecorded
<1>1. ASSUME driver \in [Drivers -> DriverRecord]
      PROVE  \A d \in Drivers : driver[d].pc \in {"idle", "scheduling", "ready"}
  <2>1. \A r \in DriverRecord : r.pc \in {"idle", "scheduling", "ready"}
    BY DEF DriverRecord
  <2> QED BY <1>1, <2>1
<1> QED BY <1>1, Zenon DEF DInv, Typed, PoolTypeOK, QueueTyped, BindingsTyped, JobRecord, Checkpoints

\* Leaving the queue, and giving a lease back, keep it typed (Ack, Nack and the
\* end of a lease in the queue).
LEMMA QueueRemoves ==
    ASSUME QueueTyped, NEW id, NEW token, Q!Remove(id, token), UNCHANGED payload
    PROVE  QueueTyped'
BY DEF QueueTyped, Q!Remove

\* Releasing leases keeps the queue's type (Release).
LEMMA QueueReleases ==
    ASSUME QueueTyped, NEW S, Q!Release(S), UNCHANGED payload
    PROVE  QueueTyped'
BY DEF QueueTyped, Q!Release

\* So does a step that leaves the queue alone.
LEMMA QueueStays ==
    ASSUME QueueTyped, UNCHANGED <<leases, payload>>
    PROVE  QueueTyped'
BY DEF QueueTyped, leases

\* PutWrites keeps the first result of a task, and afterwards there is one.
LEMMA FirstWrite ==
    ASSUME DInv, NEW j \in Jobs, job[j].pc = "write"
    PROVE  /\ FirstWriteWins(j) \in [AllTasks -> Values \cup {NoValue}]
           /\ \A t \in AllTasks : result[t] # NoValue => FirstWriteWins(j)[t] = result[t]
           /\ job[j].task \in AllTasks
           /\ FirstWriteWins(j)[job[j].task] # NoValue
<1>1. job[j].task \in AllTasks /\ job[j].value \in Values
  BY DEF DInv, JobsSound, JobSound
<1>2. result \in [AllTasks -> Values \cup {NoValue}]
  BY DEF DInv, Typed, PoolTypeOK
<1>3. job[j].value # NoValue
  BY <1>1, DistributedAssumption
<1> QED BY <1>1, <1>2, <1>3 DEF FirstWriteWins

\* A step of one slot that changes the queue soundly, adds results and
\* acknowledges only tasks whose result is stored keeps the invariant.
LEMMA SlotSteps ==
    ASSUME DInv, QueueTyped', Grows,
           UNCHANGED <<keys, stamp, folded, driver>>,
           job' \in [Jobs -> JobRecord], JobsSound',
           up' \in [Pool -> {"up", "stopping", "down"}],
           faults' \in 0 .. MaxFaults,
           acked' \subseteq AllTasks,
           \A t \in acked' : t \in acked \/ result'[t] # NoValue
    PROVE  DInv'
<1>1. BindingsTyped' /\ stamp' \in [Checkpoints -> 0 .. MaxPuts]
      /\ DOMAIN folded' = Checkpoints /\ driver' \in [Drivers -> DriverRecord]
  BY Parts DEF BindingsTyped
<1>2. StepsFoldRecorded' /\ DriversSound'
  BY StoreStays DEF DriversSound
<1>3. AckedResultsStored'
  <2>1. acked \subseteq AllTasks /\ \A t \in acked : result[t] # NoValue
    BY Parts DEF AckedResultsStored
  <2> QED BY <2>1 DEF AckedResultsStored, Grows
<1>4. result' \in [AllTasks -> Values \cup {NoValue}]
  BY DEF Grows
<1> QED BY <1>1, <1>2, <1>3, <1>4, Parts DEF DInv, Typed, PoolTypeOK, QueueTyped, BindingsTyped,
        Checkpoints, JobRecord

\* A step of one driver that publishes nothing keeps the invariant.
LEMMA DriverSteps ==
    ASSUME DInv, QueueTyped', BindingsTyped',
           UNCHANGED <<stamp, folded, result, up, job, acked>>,
           driver' \in [Drivers -> DriverRecord], DriversSound', StepsFoldRecorded',
           faults' \in 0 .. MaxFaults
    PROVE  DInv'
<1>1. /\ stamp' \in [Checkpoints -> 0 .. MaxPuts] /\ DOMAIN folded' = Checkpoints
      /\ result' \in [AllTasks -> Values \cup {NoValue}]
      /\ up' \in [Pool -> {"up", "stopping", "down"}]
      /\ acked' \subseteq AllTasks /\ AckedResultsStored'
  BY Parts DEF AckedResultsStored
<1>2. Grows
  BY DEF DInv, Typed, PoolTypeOK, Grows
<1>3. job' \in [Jobs -> JobRecord] /\ JobsSound'
  BY <1>2, JobsStay
<1>4. \A d \in Drivers : driver'[d].pc \in {"idle", "scheduling", "ready"}
  BY DEF DriverRecord
<1> QED BY <1>1, <1>3, <1>4 DEF DInv, Typed, PoolTypeOK, QueueTyped, BindingsTyped, Checkpoints,
        JobRecord

-----------------------------------------------------------------------------
(* The drivers.                                                            *)

\* Schedule reads tasks of a published checkpoint.
LEMMA ScheduleKeeps ==
    ASSUME DInv, NEW d \in Drivers, NEW th \in Threads, NEW k \in DOMAIN Layers,
           Schedule(d, th, k)
    PROVE  DInv'
<1> DEFINE open == {i \in DOMAIN Layers[k] : result[<<th, k, Layers[k][i]>>] = NoValue}
           r == [Resting EXCEPT !.pc = "scheduling", !.thread = th, !.k = k,
                     !.todo = open, !.time = stamp[<<th, k>>]]
<1>1. /\ driver' = [driver EXCEPT ![d] = r] /\ stamp[<<th, k>>] > 0
      /\ UNCHANGED <<holder, used, payload, keys, stamp, folded, result, up, job,
                     acked, faults>>
  BY DEF Schedule, leases, checkpoints
<1>2. stamp[<<th, k>>] \in 1 .. MaxPuts
  <2>1. <<th, k>> \in Checkpoints
    BY LayerFacts DEF Checkpoints
  <2>2. stamp[<<th, k>>] \in 0 .. MaxPuts
    BY <2>1, Parts
  <2> QED BY <1>1, <2>2, DistributedAssumption
<1>3. open \subseteq DOMAIN Layers[k] /\ open \in SUBSET Nat
  <2>1. Layers[k] \in Seq(UNION {NodesOf(x) : x \in DOMAIN Layers})
    BY DistributedAssumption
  <2> QED BY <2>1
<1>4. /\ r \in DriverRecord /\ r.pc = "scheduling" /\ r.thread = th /\ r.k = k
      /\ r.todo = open /\ r.time = stamp[<<th, k>>]
  <2> HIDE DEF open
  <2>1. Resting \in DriverRecord
    BY IdleRecords
  <2>2. ASSUME NEW o \in SUBSET Nat, NEW m \in 0 .. MaxPuts, NEW Z,
               NEW q \in [pc: {"idle", "scheduling", "ready"}, thread: Threads \cup {0},
                          k: DOMAIN Layers \cup {0}, todo: SUBSET Nat, time: 0 .. MaxPuts,
                          results: Z]
        PROVE  LET e == [q EXCEPT !.pc = "scheduling", !.thread = th, !.k = k,
                             !.todo = o, !.time = m]
               IN  /\ e \in [pc: {"idle", "scheduling", "ready"}, thread: Threads \cup {0},
                             k: DOMAIN Layers \cup {0}, todo: SUBSET Nat, time: 0 .. MaxPuts,
                             results: Z]
                   /\ e.pc = "scheduling" /\ e.thread = th /\ e.k = k
                   /\ e.todo = o /\ e.time = m
    OBVIOUS
  <2>3. stamp[<<th, k>>] \in 0 .. MaxPuts
    BY <1>2, DistributedAssumption
  <2> QED BY <1>3, <2>1, <2>2, <2>3, Zenon DEF DriverRecord
<1>5. DriverSound(r, result, stamp)
  <2> HIDE DEF r, open
  <2> QED BY <1>2, <1>3, <1>4 DEF DriverSound
<1>6. driver' \in [Drivers -> DriverRecord] /\ DriversSound' /\ StepsFoldRecorded'
  <2> HIDE DEF r
  <2> QED BY <1>1, <1>4, <1>5, DriverMoves
<1>7. QueueTyped' /\ BindingsTyped' /\ faults' \in 0 .. MaxFaults
  BY <1>1, Parts DEF QueueTyped, BindingsTyped
<1> QED BY <1>1, <1>6, <1>7, DriverSteps

\* Collect reads a full barrier of a published checkpoint.
LEMMA CollectKeeps ==
    ASSUME DInv, NEW d \in Drivers, NEW th \in Threads, NEW k \in DOMAIN Layers,
           Collect(d, th, k)
    PROVE  DInv'
<1> DEFINE got == [t \in StepTasks(th, k) |-> result[t]]
           r == [Resting EXCEPT !.pc = "ready", !.thread = th, !.k = k, !.results = got]
<1>1. /\ driver' = [driver EXCEPT ![d] = r] /\ stamp[<<th, k>>] > 0
      /\ \A t \in StepTasks(th, k) : result[t] # NoValue
      /\ UNCHANGED <<holder, used, payload, keys, stamp, folded, result, up, job,
                     acked, faults>>
  BY DEF Collect, leases, checkpoints
<1>2. got \in UNION {[S -> Values \cup {NoValue}] : S \in SUBSET AllTasks}
  <2>1. StepTasks(th, k) \in SUBSET AllTasks
    BY TasksOfStep
  <2>2. got \in [StepTasks(th, k) -> Values \cup {NoValue}]
    BY <2>1, Parts
  <2> QED BY <2>1, <2>2
<1>3. /\ r \in DriverRecord /\ r.pc = "ready" /\ r.thread = th /\ r.k = k /\ r.results = got
  <2> HIDE DEF got
  <2>1. Resting \in DriverRecord
    BY IdleRecords
  <2> DEFINE R == UNION {[S -> Values \cup {NoValue}] : S \in SUBSET AllTasks}
  <2>2. ASSUME NEW Z, NEW g \in Z,
               NEW q \in [pc: {"idle", "scheduling", "ready"}, thread: Threads \cup {0},
                          k: DOMAIN Layers \cup {0}, todo: SUBSET Nat, time: 0 .. MaxPuts,
                          results: Z]
        PROVE  LET e == [q EXCEPT !.pc = "ready", !.thread = th, !.k = k, !.results = g]
               IN  /\ e \in [pc: {"idle", "scheduling", "ready"}, thread: Threads \cup {0},
                             k: DOMAIN Layers \cup {0}, todo: SUBSET Nat, time: 0 .. MaxPuts,
                             results: Z]
                   /\ e.pc = "ready" /\ e.thread = th /\ e.k = k /\ e.results = g
    OBVIOUS
  <2> QED BY <1>2, <2>1, <2>2, Zenon DEF DriverRecord
<1>4. DriverSound(r, result, stamp)
  <2> HIDE DEF r
  <2> QED BY <1>1, <1>3 DEF DriverSound
<1>5. driver' \in [Drivers -> DriverRecord] /\ DriversSound' /\ StepsFoldRecorded'
  <2> HIDE DEF r
  <2> QED BY <1>1, <1>3, <1>4, DriverMoves
<1>6. QueueTyped' /\ BindingsTyped' /\ faults' \in 0 .. MaxFaults
  BY <1>1, Parts DEF QueueTyped, BindingsTyped
<1> QED BY <1>1, <1>5, <1>6, DriverSteps

\* A driver that gives up or dies.
LEMMA DriverFailsKeeps ==
    ASSUME DInv, NEW d \in Drivers, DriverFails(d)
    PROVE  DInv'
<1>1. /\ driver' = [driver EXCEPT ![d] = Resting]
      /\ UNCHANGED <<holder, used, payload, keys, stamp, folded, result, up, job, acked>>
  BY DEF DriverFails, leases, checkpoints
<1>2. driver' \in [Drivers -> DriverRecord] /\ DriversSound' /\ StepsFoldRecorded'
  BY <1>1, IdleRecords, DriverMoves
<1>3. QueueTyped' /\ BindingsTyped'
  BY <1>1, Parts DEF QueueTyped, BindingsTyped
<1>4. faults' \in 0 .. MaxFaults
  BY Parts, DistributedAssumption DEF DriverFails, Fault
<1> QED BY <1>1, <1>2, <1>3, <1>4, DriverSteps

\* Enqueue records the task under its ID and binds its key.
LEMMA EnqueueKeeps ==
    ASSUME DInv, NEW d \in Drivers, EnqueueNext(d)
    PROVE  DInv'
<1> DEFINE s == driver[d]
<1>1. PICK i \in s.todo : s.pc = "scheduling" /\ EnqueueTask(d, i)
  BY DEF EnqueueNext
<1> DEFINE t == <<s.thread, s.k, Layers[s.k][i]>>
           rest == s.todo \ {i}
           next == IF rest = {} THEN Resting ELSE [s EXCEPT !.todo = rest]
<1>2. /\ s \in DriverRecord /\ DriverSound(s, result, stamp)
      /\ s.thread \in Threads /\ s.k \in DOMAIN Layers /\ s.time \in 1 .. MaxPuts
      /\ s.todo \subseteq DOMAIN Layers[s.k]
  BY <1>1, Parts DEF DriversSound, DriverSound
<1>3. t \in AllTasks
  BY <1>2, TasksOfStep
<1>4. next \in DriverRecord /\ DriverSound(next, result, stamp)
  <2>1. CASE rest = {}
    BY <2>1, IdleRecords
  <2>2. CASE rest # {}
    <3> DEFINE e == [s EXCEPT !.todo = rest]
    <3>1. ASSUME NEW Z,
                 NEW q \in [pc: {"idle", "scheduling", "ready"}, thread: Threads \cup {0},
                            k: DOMAIN Layers \cup {0}, todo: SUBSET Nat, time: 0 .. MaxPuts,
                            results: Z]
          PROVE  LET x == [q EXCEPT !.todo = q.todo \ {i}]
                 IN  /\ x \in [pc: {"idle", "scheduling", "ready"}, thread: Threads \cup {0},
                               k: DOMAIN Layers \cup {0}, todo: SUBSET Nat, time: 0 .. MaxPuts,
                               results: Z]
                     /\ x.pc = q.pc /\ x.thread = q.thread /\ x.k = q.k /\ x.time = q.time
                     /\ x.todo = q.todo \ {i}
      OBVIOUS
    <3>2. /\ e \in DriverRecord /\ e.pc = s.pc /\ e.thread = s.thread /\ e.k = s.k
          /\ e.time = s.time /\ e.todo = s.todo \ {i}
      BY <1>2, <3>1, Zenon DEF DriverRecord
    <3>3. DriverSound(e, result, stamp)
      <4> HIDE DEF e, s
      <4> QED BY <1>1, <1>2, <3>2 DEF DriverSound
    <3> QED BY <2>2, <3>2, <3>3
  <2> QED BY <2>1, <2>2
<1>5. /\ driver' = [driver EXCEPT ![d] = next] \/ driver' = [driver EXCEPT ![d] = Resting]
      /\ UNCHANGED <<stamp, folded, result, up, job, acked, faults>>
      /\ \/ UNCHANGED <<holder, used, payload, keys>>
         \/ /\ Q!Add(QueueID(t))
            /\ payload' = PayloadWith(t)
            /\ keys' = [x \in DOMAIN keys \cup {t} |->
                               IF x = t THEN s.time ELSE keys[x]]
  BY <1>1 DEF EnqueueTask, leases, checkpoints
<1> HIDE DEF t, next
<1>6. driver' \in [Drivers -> DriverRecord] /\ DriversSound' /\ StepsFoldRecorded'
  BY <1>4, <1>5, IdleRecords, DriverMoves
<1>7. QueueTyped' /\ BindingsTyped'
  <2>1. QueueTyped /\ BindingsTyped
    BY Parts
  <2>2. CASE UNCHANGED <<holder, used, payload, keys>>
    BY <2>1, <2>2 DEF QueueTyped, BindingsTyped
  <2>3. CASE /\ Q!Add(QueueID(t))
             /\ payload' = PayloadWith(t)
             /\ keys' = [x \in DOMAIN keys \cup {t} |->
                                IF x = t THEN s.time ELSE keys[x]]
    <3> HIDE DEF s
    <3>1. QueueTyped'
      BY <1>3, <2>1, <2>3 DEF QueueTyped, Q!Add, PayloadWith
    <3>2. BindingsTyped'
      BY <1>2, <1>3, <2>1, <2>3 DEF BindingsTyped
    <3> QED BY <3>1, <3>2
  <2> QED BY <1>5, <2>2, <2>3
<1>8. faults' \in 0 .. MaxFaults
  BY <1>5, Parts
<1> QED BY <1>5, <1>6, <1>7, <1>8, DriverSteps

\* Commit publishes the child of a published checkpoint from results that are
\* still the recorded ones: first results never change.
LEMMA CommitKeeps ==
    ASSUME DInv, NEW d \in Drivers, Commit(d)
    PROVE  DInv'
<1> DEFINE s == driver[d]
           c == <<s.thread, s.k + 1>>
<1>1. /\ s.pc = "ready"
      /\ stamp' = [stamp EXCEPT ![c] = IF stamp[c] < MaxPuts THEN stamp[c] + 1 ELSE stamp[c]]
      /\ folded' = [folded EXCEPT ![c] = s.results]
      /\ driver' = [driver EXCEPT ![d] = Resting]
      /\ UNCHANGED <<holder, used, payload, keys, result, up, job, acked, faults>>
  BY DEF Commit, leases
<1>2. /\ s.thread \in Threads /\ s.k \in DOMAIN Layers
      /\ stamp[<<s.thread, s.k>>] > 0
      /\ \A t \in StepTasks(s.thread, s.k) : result[t] # NoValue
      /\ s.results = [t \in StepTasks(s.thread, s.k) |-> result[t]]
  BY <1>1, Parts DEF DriversSound, DriverSound
<1>3. /\ stamp \in [Checkpoints -> 0 .. MaxPuts] /\ DOMAIN folded = Checkpoints
      /\ c \in Checkpoints /\ s.k \in Nat
  BY <1>2, Parts, LayerFacts DEF Checkpoints
<1> HIDE DEF s
<1>4. /\ stamp' \in [Checkpoints -> 0 .. MaxPuts] /\ DOMAIN folded' = Checkpoints
      /\ \A x \in Checkpoints : stamp[x] > 0 => stamp'[x] > 0
      /\ \A x \in Checkpoints : x # c => stamp'[x] = stamp[x] /\ folded'[x] = folded[x]
      /\ folded'[c] = s.results
  <2> HIDE DEF c
  <2> QED BY <1>1, <1>3, DistributedAssumption
<1>5. StepsFoldRecorded'
  <2> SUFFICES ASSUME NEW th \in Threads, NEW k \in 2 .. Last, stamp'[<<th, k>>] > 0
               PROVE  /\ stamp'[<<th, k - 1>>] > 0
                      /\ folded'[<<th, k>>] = [t \in StepTasks(th, k - 1) |-> result[t]]
                      /\ \A t \in StepTasks(th, k - 1) : result[t] # NoValue
    BY <1>1 DEF StepsFoldRecorded
  <2>1. <<th, k>> \in Checkpoints /\ <<th, k - 1>> \in Checkpoints
    BY LayerFacts DEF Checkpoints
  <2>2. CASE <<th, k>> = c
    <3>1. th = s.thread /\ k - 1 = s.k
      BY <1>3, <2>2
    <3> QED BY <1>2, <1>4, <2>1, <2>2, <3>1
  <2>3. CASE <<th, k>> # c
    <3>1. stamp[<<th, k>>] > 0
      BY <1>4, <2>1, <2>3
    <3>2. /\ stamp[<<th, k - 1>>] > 0
          /\ folded[<<th, k>>] = [t \in StepTasks(th, k - 1) |-> result[t]]
          /\ \A t \in StepTasks(th, k - 1) : result[t] # NoValue
      BY <3>1 DEF DInv, StepsFoldRecorded
    <3> QED BY <1>4, <2>1, <2>3, <3>2
  <2> QED BY <2>2, <2>3
<1>6. driver' \in [Drivers -> DriverRecord] /\ DriversSound'
  <2>1. driver \in [Drivers -> DriverRecord]
    BY Parts
  <2>2. driver' \in [Drivers -> DriverRecord]
    BY <1>1, <2>1, IdleRecords
  <2>3. ASSUME NEW e \in Drivers PROVE DriverSound(driver'[e], result', stamp')
    <3>1. CASE e = d
      BY <1>1, <2>1, <3>1, IdleRecords
    <3>2. CASE e # d
      <4>1. driver'[e] = driver[e] /\ DriverSound(driver[e], result, stamp)
        BY <1>1, <2>1, <3>2, Parts DEF DriversSound
      <4>2. ASSUME driver[e].pc = "ready" PROVE stamp'[<<driver[e].thread, driver[e].k>>] > 0
        <5>1. <<driver[e].thread, driver[e].k>> \in Checkpoints
          BY <4>1, <4>2, LayerFacts DEF DriverSound, Checkpoints
        <5> QED BY <1>4, <4>1, <4>2, <5>1 DEF DriverSound
      <4> QED BY <1>1, <4>1, <4>2 DEF DriverSound
    <3> QED BY <3>1, <3>2
  <2> QED BY <2>2, <2>3 DEF DriversSound
<1>7. Grows
  BY <1>1 DEF DInv, Typed, PoolTypeOK, Grows
<1>8. job' \in [Jobs -> JobRecord] /\ JobsSound'
  BY <1>1, <1>7, JobsStay
<1>9. /\ QueueTyped' /\ BindingsTyped'
      /\ result' \in [AllTasks -> Values \cup {NoValue}]
      /\ up' \in [Pool -> {"up", "stopping", "down"}]
      /\ acked' \subseteq AllTasks /\ AckedResultsStored' /\ faults' \in 0 .. MaxFaults
  BY <1>1, Parts DEF QueueTyped, BindingsTyped, AckedResultsStored
<1>10. \A e \in Drivers : driver'[e].pc \in {"idle", "scheduling", "ready"}
  BY <1>6 DEF DriverRecord
<1> QED BY <1>4, <1>5, <1>6, <1>8, <1>9, <1>10
        DEF DInv, Typed, PoolTypeOK, QueueTyped, BindingsTyped, Checkpoints, JobRecord

\* Pruning idempotency keys.
LEMMA PruneKeeps ==
    ASSUME DInv, PruneTaskKeys
    PROVE  DInv'
<1>1. /\ UNCHANGED <<holder, used, payload, stamp, folded, result, up, job, driver, acked>>
      /\ faults' \in 0 .. MaxFaults
  BY Parts, DistributedAssumption DEF PruneTaskKeys, Fault, leases, checkpoints
<1>2. QueueTyped' /\ BindingsTyped'
  BY <1>1, Parts DEF PruneTaskKeys, QueueTyped, BindingsTyped
<1>3. Grows
  BY <1>1 DEF DInv, Typed, PoolTypeOK, Grows
<1>4. driver' \in [Drivers -> DriverRecord] /\ DriversSound' /\ StepsFoldRecorded'
  BY <1>1, <1>3, StoreStays, Parts DEF DriversSound
<1> QED BY <1>1, <1>2, <1>4, DriverSteps

-----------------------------------------------------------------------------
(* The workers.                                                            *)

\* A claimed task is the one its ID was queued for.
LEMMA ClaimKeeps ==
    ASSUME DInv, NEW j \in Jobs, ClaimTask(j)
    PROVE  DInv'
<1> DEFINE token == Cardinality(used) + 1
<1> HIDE DEF token
<1>1. PICK id \in DOMAIN holder :
         /\ Q!Take([x \in {id} |-> token])
         /\ job' = [job EXCEPT ![j] =
               [Free EXCEPT !.pc = "run", !.task = payload[id], !.token = token]]
         /\ UNCHANGED <<payload, keys, checkpoints, up, driver, acked, faults>>
  BY DEF ClaimTask, token
<1>2. /\ token \in 1 .. MaxClaims /\ holder[id] = 0
      /\ holder' = [x \in DOMAIN holder |-> IF x = id THEN token ELSE holder[x]]
      /\ used' = used \cup {token}
  <2> DEFINE tok == [x \in {id} |-> token]
  <2>1. DOMAIN tok = {id} /\ tok[id] = token
    OBVIOUS
  <2>2. \A x \in DOMAIN holder : x \in DOMAIN tok <=> x = id
    BY <2>1
  <2>3. {tok[x] : x \in DOMAIN tok} = {token}
    BY <2>1
  <2> QED BY <1>1, <2>1, <2>2, <2>3 DEF Q!Take
<1>3. QueueTyped /\ payload[id] \in AllTasks
  BY Parts DEF QueueTyped
<1>4. QueueTyped'
  BY <1>1, <1>2, <1>3 DEF QueueTyped
<1>5. Grows
  BY <1>1 DEF checkpoints, DInv, Typed, PoolTypeOK, Grows
<1>6. job' \in [Jobs -> JobRecord] /\ JobsSound'
  <2> DEFINE r == [Free EXCEPT !.pc = "run", !.task = payload[id], !.token = token]
  <2>1. r \in JobRecord /\ r.pc = "run" /\ r.task = payload[id]
    <3>1. token \in 0 .. MaxClaims
      BY <1>2, DistributedAssumption
    <3>2. ASSUME NEW q \in JobRecord, NEW t \in AllTasks, NEW m \in 0 .. MaxClaims
          PROVE  /\ [q EXCEPT !.pc = "run"] \in JobRecord
                 /\ [q EXCEPT !.pc = "run"].pc = "run"
                 /\ [q EXCEPT !.task = t] \in JobRecord
                 /\ [q EXCEPT !.task = t].pc = q.pc /\ [q EXCEPT !.task = t].task = t
                 /\ [q EXCEPT !.token = m] \in JobRecord
                 /\ [q EXCEPT !.token = m].pc = q.pc /\ [q EXCEPT !.token = m].task = q.task
      BY DEF JobRecord
    <3> DEFINE a == [Free EXCEPT !.pc = "run"]
               b == [a EXCEPT !.task = payload[id]]
    <3>3. a \in JobRecord /\ a.pc = "run"
      BY <1>3, <3>1, <3>2, IdleRecords
    <3> HIDE DEF a
    <3>4. b \in JobRecord /\ b.pc = "run" /\ b.task = payload[id]
      BY <1>3, <3>1, <3>2, <3>3
    <3> HIDE DEF b
    <3>5. LET e == [b EXCEPT !.token = token]
          IN  e \in JobRecord /\ e.pc = "run" /\ e.task = payload[id]
      BY <1>3, <3>1, <3>2, <3>4
    <3> QED BY <3>5 DEF a, b
  <2> HIDE DEF r
  <2>2. JobSound(r, result')
    BY <1>3, <2>1 DEF JobSound
  <2>3. job' = [job EXCEPT ![j] = r]
    BY <1>1 DEF r
  <2> QED BY <1>5, <2>1, <2>2, <2>3, JobMoves
<1>7. /\ UNCHANGED <<keys, stamp, folded, driver, acked, up, faults>>
      /\ acked' \subseteq AllTasks /\ faults' \in 0 .. MaxFaults
      /\ up' \in [Pool -> {"up", "stopping", "down"}]
  BY <1>1, Parts DEF checkpoints
<1> QED BY <1>4, <1>5, <1>6, <1>7, SlotSteps

\* A slot is freed, and possibly its worker told to stop.
LEMMA Frees ==
    ASSUME DInv, Grows, NEW j \in Jobs, job' = [job EXCEPT ![j] = Free]
    PROVE  job' \in [Jobs -> JobRecord] /\ JobsSound'
BY IdleRecords, JobMoves

\* The jobs of a worker group that fails are idle or go on (GroupFails).
LEMMA GroupFailsTyped ==
    ASSUME DInv, Grows, NEW j \in Jobs, GroupFails(j)
    PROVE  /\ job' \in [Jobs -> JobRecord] /\ JobsSound'
           /\ up' \in [Pool -> {"up", "stopping", "down"}]
<1>1. up \in [Pool -> {"up", "stopping", "down"}]
  BY Parts
<1> QED BY <1>1, Frees DEF GroupFails

\* A slot goes to nack, whatever the store has become.
LEMMA NackSound ==
    ASSUME DInv, Grows, NEW j \in Jobs, job[j].pc # "free",
           job' = [job EXCEPT ![j].pc = "nack"]
    PROVE  job' \in [Jobs -> JobRecord] /\ JobsSound'
<1> DEFINE r == [job[j] EXCEPT !.pc = "nack"]
<1>1. job[j] \in JobRecord /\ job[j].task \in AllTasks
  BY Parts DEF JobsSound, JobSound
<1>2. r \in JobRecord /\ r.pc = "nack" /\ r.task = job[j].task
  BY <1>1 DEF JobRecord
<1> HIDE DEF r
<1>3. JobSound(r, result')
  BY <1>1, <1>2 DEF JobSound
<1>4. job' = [job EXCEPT ![j] = r]
  BY DEF r
<1> QED BY <1>2, <1>3, <1>4, JobMoves

\* The node's value is compared with the stored result, if there is one.
LEMMA ReturnKeeps ==
    ASSUME DInv, NEW j \in Jobs, NEW v \in Values, Return(j, v)
    PROVE  DInv'
<1> DEFINE p == IF Atomic(j) \/ result[job[j].task] = NoValue THEN "write"
                ELSE IF result[job[j].task] = v THEN "ack" ELSE "nack"
           r == [job[j] EXCEPT !.value = v, !.pc = p]
<1>1. /\ job[j].pc = "run" /\ job' = [job EXCEPT ![j] = r]
      /\ UNCHANGED <<holder, used, payload, keys, stamp, folded, result, up, driver,
                     acked, faults>>
  BY DEF Return, leases, checkpoints
<1>2. job[j] \in JobRecord /\ job[j].task \in AllTasks
  BY <1>1, Parts DEF JobsSound, JobSound
<1>3. /\ r \in JobRecord /\ r.pc = p /\ r.task = job[j].task /\ r.value = v
      /\ p \in {"write", "ack", "nack"} /\ (p = "ack" => result[job[j].task] = v)
  <2>1. p \in {"write", "ack", "nack"} /\ (p = "ack" => result[job[j].task] = v)
    OBVIOUS
  <2> HIDE DEF p
  <2>2. p \in {"free", "run", "write", "ack", "nack"} /\ v \in Values \cup {NoValue}
    BY <2>1
  <2>3. r \in JobRecord /\ r.pc = p /\ r.task = job[j].task /\ r.value = v
    BY <1>2, <2>2 DEF JobRecord
  <2> QED BY <2>1, <2>3
<1> HIDE DEF r, p
<1>4. JobSound(r, result')
  BY <1>1, <1>2, <1>3 DEF JobSound
<1>5. Grows
  BY <1>1 DEF DInv, Typed, PoolTypeOK, Grows
<1>6. job' \in [Jobs -> JobRecord] /\ JobsSound'
  BY <1>1, <1>3, <1>4, <1>5, JobMoves
<1>7. /\ QueueTyped' /\ acked' \subseteq AllTasks /\ faults' \in 0 .. MaxFaults
      /\ up' \in [Pool -> {"up", "stopping", "down"}]
  BY <1>1, Parts DEF QueueTyped
<1> QED BY <1>1, <1>5, <1>6, <1>7, SlotSteps

\* PutWrites and the read back.
LEMMA WriteKeeps ==
    ASSUME DInv, NEW j \in Jobs, Write(j)
    PROVE  DInv'
<1> DEFINE p == IF result'[job[j].task] = job[j].value THEN "ack" ELSE "nack"
           r == [job[j] EXCEPT !.pc = p]
<1>1. /\ job[j].pc = "write" /\ result' = FirstWriteWins(j)
      /\ job' = [job EXCEPT ![j] = r]
      /\ UNCHANGED <<holder, used, payload, keys, stamp, folded, up, driver, acked, faults>>
  BY DEF Write, leases
<1>2. Grows
  BY <1>1, FirstWrite DEF Grows
<1>3. job[j] \in JobRecord /\ job[j].task \in AllTasks /\ job[j].value \in Values
  BY <1>1, Parts DEF JobsSound, JobSound
<1>4. /\ r \in JobRecord /\ r.pc = p /\ r.task = job[j].task /\ r.value = job[j].value
      /\ p \in {"ack", "nack"} /\ (p = "ack" => result'[job[j].task] = job[j].value)
  <2>1. p \in {"ack", "nack"} /\ (p = "ack" => result'[job[j].task] = job[j].value)
    OBVIOUS
  <2> HIDE DEF p
  <2>2. r \in JobRecord /\ r.pc = p /\ r.task = job[j].task /\ r.value = job[j].value
    BY <1>3, <2>1 DEF JobRecord
  <2> QED BY <2>1, <2>2
<1> HIDE DEF r, p
<1>5. JobSound(r, result')
  BY <1>3, <1>4 DEF JobSound
<1>6. job' \in [Jobs -> JobRecord] /\ JobsSound'
  BY <1>1, <1>2, <1>4, <1>5, JobMoves
<1>7. /\ QueueTyped' /\ acked' \subseteq AllTasks /\ faults' \in 0 .. MaxFaults
      /\ up' \in [Pool -> {"up", "stopping", "down"}]
  BY <1>1, Parts DEF QueueTyped
<1> QED BY <1>1, <1>2, <1>6, <1>7, SlotSteps

\* Result and acknowledgement in one transaction.
LEMMA WriteAndAckKeeps ==
    ASSUME DInv, NEW j \in Jobs, WriteAndAck(j)
    PROVE  DInv'
<1> DEFINE t == job[j].task
<1>1. /\ job[j].pc = "write"
      /\ UNCHANGED <<payload, keys, stamp, folded, up, driver, faults>>
      /\ \/ /\ result' = FirstWriteWins(j)
            /\ Q!Remove(QueueID(t), job[j].token)
            /\ acked' = acked \cup {t}
            /\ job' = [job EXCEPT ![j] = Free]
         \/ job' = [job EXCEPT ![j] = Free] /\ UNCHANGED <<leases, result, acked>>
         \/ job' = [job EXCEPT ![j].pc = "nack"] /\ UNCHANGED <<leases, result, acked>>
  BY DEF WriteAndAck
<1>2. /\ QueueTyped /\ acked \subseteq AllTasks /\ faults' \in 0 .. MaxFaults
      /\ up' \in [Pool -> {"up", "stopping", "down"}]
  BY <1>1, Parts
<1>3. CASE UNCHANGED <<leases, result, acked>>
  <2>1. Grows
    BY <1>3 DEF DInv, Typed, PoolTypeOK, Grows
  <2>2. QueueTyped'
    BY <1>1, <1>2, <1>3, QueueStays
  <2>3. job' \in [Jobs -> JobRecord] /\ JobsSound'
    BY <1>1, <2>1, Frees, NackSound
  <2> QED BY <1>1, <1>2, <1>3, <2>1, <2>2, <2>3, SlotSteps
<1>4. CASE /\ result' = FirstWriteWins(j)
           /\ Q!Remove(QueueID(t), job[j].token)
           /\ acked' = acked \cup {t}
           /\ job' = [job EXCEPT ![j] = Free]
  <2>1. Grows /\ t \in AllTasks /\ result'[t] # NoValue
    BY <1>1, <1>4, FirstWrite DEF Grows
  <2>2. QueueTyped'
    BY <1>1, <1>2, <1>4, QueueRemoves
  <2>3. job' \in [Jobs -> JobRecord] /\ JobsSound'
    BY <1>4, <2>1, Frees
  <2>4. acked' \subseteq AllTasks /\ \A x \in acked' : x \in acked \/ result'[x] # NoValue
    BY <1>2, <1>4, <2>1
  <2> QED BY <1>1, <1>2, <2>1, <2>2, <2>3, <2>4, SlotSteps
<1> QED BY <1>1, <1>3, <1>4

\* A failing handler or outbox, whose call may have reached the store.
LEMMA HandlerFailsKeeps ==
    ASSUME DInv, NEW j \in Jobs, HandlerFails(j)
    PROVE  DInv'
<1> DEFINE t == job[j].task
<1>1. /\ job[j].pc \in {"run", "write"} /\ job' = [job EXCEPT ![j].pc = "nack"]
      /\ UNCHANGED <<payload, keys, stamp, folded, up, driver>>
      /\ \/ UNCHANGED <<leases, result, acked>>
         \/ /\ job[j].pc = "write" /\ result' = FirstWriteWins(j)
            /\ UNCHANGED <<leases, acked>>
         \/ /\ job[j].pc = "write" /\ result' = FirstWriteWins(j)
            /\ Q!Remove(QueueID(t), job[j].token)
            /\ acked' = acked \cup {t}
  BY DEF HandlerFails
<1>2. faults' \in 0 .. MaxFaults
  BY Parts, DistributedAssumption DEF HandlerFails, Fault
<1>3. /\ QueueTyped /\ acked \subseteq AllTasks
      /\ up' \in [Pool -> {"up", "stopping", "down"}]
  BY <1>1, Parts
<1>4. Grows
  BY <1>1, FirstWrite DEF Grows, DInv, Typed, PoolTypeOK
<1>5. job' \in [Jobs -> JobRecord] /\ JobsSound'
  BY <1>1, <1>4, NackSound
<1>6. QueueTyped'
  BY <1>1, <1>3, QueueStays, QueueRemoves
<1>7. acked' \subseteq AllTasks /\ \A x \in acked' : x \in acked \/ result'[x] # NoValue
  <2>1. CASE UNCHANGED acked
    BY <1>3, <2>1
  <2>2. CASE job[j].pc = "write" /\ result' = FirstWriteWins(j) /\ acked' = acked \cup {t}
    BY <1>3, <2>2, FirstWrite
  <2> QED BY <1>1, <2>1, <2>2
<1> QED BY <1>1, <1>2, <1>3, <1>4, <1>5, <1>6, <1>7, SlotSteps

\* Ack removes a task whose result was read back; the other ends of a task
\* acknowledge nothing.
LEMMA EndsKeep ==
    ASSUME DInv, NEW j \in Jobs,
           AckTask(j) \/ NackTask(j) \/ QueueCallFails(j) \/ HeartbeatLost(j) \/ Cancelled(j)
    PROVE  DInv'
<1> DEFINE t == job[j].task
<1>1. UNCHANGED <<payload, keys, stamp, folded, result, driver>>
  BY DEF AckTask, NackTask, QueueCallFails, HeartbeatLost, Cancelled, checkpoints
<1>2. faults' \in 0 .. MaxFaults
  BY Parts, DistributedAssumption
     DEF AckTask, NackTask, QueueCallFails, HeartbeatLost, Cancelled, Fault
<1>3. /\ QueueTyped /\ acked \subseteq AllTasks
      /\ up \in [Pool -> {"up", "stopping", "down"}]
  BY Parts
<1>4. Grows
  BY <1>1 DEF Grows, DInv, Typed, PoolTypeOK
<1>5. \/ job' = [job EXCEPT ![j] = Free] /\ UNCHANGED up
      \/ GroupFails(j)
  BY DEF AckTask, NackTask, QueueCallFails, HeartbeatLost, Cancelled
<1>6. /\ job' \in [Jobs -> JobRecord] /\ JobsSound'
      /\ up' \in [Pool -> {"up", "stopping", "down"}]
  BY <1>3, <1>4, <1>5, Frees, GroupFailsTyped
<1>7. QueueTyped'
  <2>1. \/ UNCHANGED leases
        \/ Q!Remove(QueueID(t), job[j].token)
        \/ Q!Release({QueueID(t)})
    BY DEF AckTask, NackTask, QueueCallFails, HeartbeatLost, Cancelled
  <2> QED BY <1>1, <1>3, <2>1, QueueStays, QueueRemoves, QueueReleases
<1>8. acked' \subseteq AllTasks /\ \A x \in acked' : x \in acked \/ result'[x] # NoValue
  <2>1. UNCHANGED acked \/ (job[j].pc = "ack" /\ acked' = acked \cup {t})
    BY DEF AckTask, NackTask, QueueCallFails, HeartbeatLost, Cancelled
  <2>2. ASSUME job[j].pc = "ack" PROVE t \in AllTasks /\ result[t] # NoValue
    <3>1. JobSound(job[j], result)
      BY Parts DEF JobsSound
    <3> QED BY <2>2, <3>1, DistributedAssumption DEF JobSound
  <2> QED BY <1>1, <1>3, <2>1, <2>2
<1> QED BY <1>1, <1>2, <1>4, <1>6, <1>7, <1>8, SlotSteps

\* Workers stop, die and are started again; leases run out.
LEMMA WorkersKeep ==
    ASSUME DInv,
           \/ \E w \in Pool : Restart(w) \/ Crash(w)
           \/ \E id \in DOMAIN holder : Expire(id)
    PROVE  DInv'
<1>1. UNCHANGED <<payload, keys, stamp, folded, result, driver, acked>>
  BY DEF Restart, Crash, Expire, checkpoints
<1>2. faults' \in 0 .. MaxFaults
  <2>1. UNCHANGED faults \/ Fault
    BY DEF Restart, Crash, Expire
  <2> QED BY <2>1, Parts, DistributedAssumption DEF Fault
<1>3. QueueTyped'
  <2>1. UNCHANGED leases \/ \E S : Q!Release(S)
    BY DEF Restart, Crash, Expire
  <2> QED BY <1>1, <2>1, Parts, QueueStays, QueueReleases
<1>4. Grows
  BY <1>1 DEF Grows, DInv, Typed, PoolTypeOK
<1>5. up' \in [Pool -> {"up", "stopping", "down"}]
  BY Parts DEF Restart, Crash, Expire
<1>6. job' \in [Jobs -> JobRecord] /\ JobsSound'
  <2>1. UNCHANGED job \/ \E w \in Pool : job' = [j \in Jobs |-> IF j[1] = w THEN Free ELSE job[j]]
    BY DEF Restart, Crash, Expire
  <2>2. ASSUME NEW w \in Pool, job' = [j \in Jobs |-> IF j[1] = w THEN Free ELSE job[j]]
        PROVE  job' \in [Jobs -> JobRecord] /\ JobsSound'
    <3>1. job \in [Jobs -> JobRecord] /\ JobsSound
      BY Parts
    <3>2. ASSUME NEW j \in Jobs PROVE job'[j] \in JobRecord /\ JobSound(job'[j], result)
      BY <2>2, <3>1, IdleRecords DEF JobsSound
    <3>3. job' \in [Jobs -> JobRecord]
      BY <2>2, <3>2
    <3> QED BY <1>1, <3>2, <3>3 DEF JobsSound
  <2> QED BY <1>4, <2>1, <2>2, JobsStay
<1>7. acked' \subseteq AllTasks
  BY <1>1, Parts
<1> QED BY <1>1, <1>2, <1>3, <1>4, <1>5, <1>6, <1>7, SlotSteps

-----------------------------------------------------------------------------
(* The theorem.                                                            *)

\* The first checkpoint of every thread, and nothing queued.
LEMMA DInit == PoolInit => DInv
<1> SUFFICES ASSUME PoolInit PROVE DInv
  OBVIOUS
<1>1. QueueTyped /\ BindingsTyped
  BY DistributedAssumption DEF PoolInit, Q!QueueInit, QueueTyped, BindingsTyped
<1>2. /\ stamp \in [Checkpoints -> 0 .. MaxPuts] /\ DOMAIN folded = Checkpoints
      /\ \A th \in Threads, k \in 2 .. Last : stamp[<<th, k>>] = 0
  BY DistributedAssumption, LayerFacts DEF PoolInit, Checkpoints
<1>3. StepsFoldRecorded
  BY <1>2 DEF StepsFoldRecorded
<1>4. /\ result \in [AllTasks -> Values \cup {NoValue}]
      /\ up \in [Pool -> {"up", "stopping", "down"}]
      /\ acked \subseteq AllTasks /\ AckedResultsStored /\ faults \in 0 .. MaxFaults
  BY DistributedAssumption DEF PoolInit, AckedResultsStored
<1>5. job \in [Jobs -> JobRecord] /\ JobsSound
  BY IdleRecords DEF PoolInit, JobsSound
<1>6. driver \in [Drivers -> DriverRecord] /\ DriversSound
  BY IdleRecords DEF PoolInit, DriversSound
<1> QED BY <1>1, <1>2, <1>3, <1>4, <1>5, <1>6, Parts

\* Every action keeps the invariant.
LEMMA DNext == DInv /\ [PoolNext]_poolVars => DInv'
<1> SUFFICES ASSUME DInv, [PoolNext]_poolVars PROVE DInv'
  OBVIOUS
<1>1. CASE UNCHANGED poolVars
  <2>1. /\ UNCHANGED <<holder, used, payload, keys, stamp, folded, result, up, job,
                       driver, acked, faults>>
    BY <1>1 DEF poolVars
  <2>2. Grows
    BY <2>1 DEF Grows, DInv, Typed, PoolTypeOK
  <2>3. /\ QueueTyped' /\ acked' \subseteq AllTasks /\ faults' \in 0 .. MaxFaults
        /\ up' \in [Pool -> {"up", "stopping", "down"}]
    BY <2>1, Parts DEF QueueTyped
  <2> QED BY <2>1, <2>2, <2>3, JobsStay, SlotSteps
<1> QED
  BY <1>1, ScheduleKeeps, CollectKeeps, EnqueueKeeps, CommitKeeps, DriverFailsKeeps,
     ClaimKeeps, ReturnKeeps, WriteKeeps, WriteAndAckKeeps, HandlerFailsKeeps, EndsKeep,
     WorkersKeep, PruneKeeps
     DEF PoolNext, DriverStep, JobStep

\* No result is lost and no checkpoint is wrong: a task leaves the queue only
\* with its result stored, whoever held it and whatever failed (WithOutbox,
\* PostgresCheckpointOutbox), and every checkpoint of a thread is the reduction
\* of exactly the results its parent records, also when late workers return
\* something else and drivers commit a barrier they collected long ago (Barrier,
\* StepCoordinator).
THEOREM ResultsAreKept == PoolSpec => []ResultsKept
<1>1. DInv => ResultsKept
  BY DEF DInv, Typed, ResultsKept
<1> QED BY <1>1, DInit, DNext, PTL DEF PoolSpec
=============================================================================
