---------------------------- MODULE ExecutionProofs -------------------------
(***************************************************************************)
(* Proofs about SuperSteps, Attempts, Functional and Channels. Joins wait  *)
(* for all of their sources, tasks are told apart and are those that the   *)
(* checkpoint stores, and deferred nodes run last, for every graph,        *)
(* recursion limit and history of invocations, crashes and restarts of a   *)
(* thread. An attempt is judged by what ended it, for every retry policy   *)
(* and all timeouts. An invocation of a workflow uses only what its        *)
(* attempt has recorded, for every body, policy, limit and history of      *)
(* interrupts and crashes. A channel of every kind holds what its history  *)
(* says, for all writes, failures, saves and restarts.                     *)
(***************************************************************************)
EXTENDS SuperSteps, Attempts, Functional, Channels, SequenceTheorems, FiniteSetTheorems,
        WellFoundedInduction, TLAPS

-----------------------------------------------------------------------------
(***************************************************************************)
(* SuperSteps: the joins of a run and of the checkpoint it would restore.  *)
(***************************************************************************)
\* A waiting record: the joins and the deferred nodes.
Shaped(w) == w = [joins |-> w.joins, deferred |-> w.deferred]

\* The part of the type invariant the argument needs, and the agreement of the
\* run's joins with the ones its checkpoint would restore.
JoinState ==
    /\ completed \in [Nodes -> Nat]
    /\ fired \in [DOMAIN Joins -> Nat]
    /\ Shaped(head.waiting)
    /\ \A j \in DOMAIN Joins : head.waiting.joins[j] \subseteq Joins[j].sources
    /\ status = "running" => waiting.joins = head.waiting.joins

JInv == JoinState /\ JoinsWaitForAll

\* Releasing deferred nodes does not touch the joins (releaseDeferredTasks
\* deletes deferral keys only).
LEMMA ReleaseKeepsJoins ==
    ASSUME NEW s, NEW t, NEW J, NEW D,
           NEW w, w = ReleaseIfIdle(s, t, [joins |-> J, deferred |-> D]).waiting
    PROVE  w.joins = J /\ Shaped(w)
BY DEF ReleaseIfIdle, ReleaseDeferred, Shaped

\* ScheduleStart leaves the joins alone (scheduleDefaultTasks).
LEMMA StartKeepsJoins ==
    ASSUME NEW s, NEW r, NEW v, Shaped(v),
           NEW w, w = ScheduleStart(s, r, v).waiting
    PROVE  w.joins = v.joins /\ Shaped(w)
BY DEF ScheduleStart, ReleaseIfIdle, ReleaseDeferred, Shaped

\* Routing a super-step leaves the joins in the state JoinsAfter gives them.
LEMMA ResolveSetsJoins ==
    ASSUME NEW s, NEW results, NEW v,
           NEW w, w = ResolveNext(s, results, v).waiting
    PROVE  w.joins = JoinsAfter(results, v) /\ Shaped(w)
BY ReleaseKeepsJoins DEF ResolveNext

\* An element of a sequence over S is in S.
LEMMA InSeq ==
    ASSUME NEW S, NEW q \in Seq(S), NEW j \in DOMAIN q
    PROVE  q[j] \in S
<1>1. DOMAIN q = 1 .. Len(q) /\ Len(q) \in Nat
  OBVIOUS
<1> QED BY <1>1

\* A join waits for at least one node, and for nodes only (RoutingAssumption).
LEMMA JoinsHaveSources ==
    ASSUME NEW j \in DOMAIN Joins
    PROVE  Joins[j].sources # {} /\ Joins[j].sources \subseteq Nodes
<1>1. Joins[j].sources # {}
  BY RoutingAssumption, Zenon
<1>2. Joins \in Seq([sources: SUBSET Nodes, target: Nodes])
  BY RoutingAssumption, Zenon
<1>3. Joins[j] \in [sources: SUBSET Nodes, target: Nodes]
  BY <1>2, InSeq
<1> QED BY <1>1, <1>3

\* The initial thread satisfies the invariant: no join has seen a source, and
\* every join has one (RoutingAssumption).
LEMMA JInit == Init => JInv
<1> SUFFICES ASSUME Init PROVE JInv
  OBVIOUS
<1>1. head.waiting = [joins |-> [j \in DOMAIN Joins |-> {}], deferred |-> {}]
  BY DEF Init, EmptyWaiting
<1>2. Shaped(head.waiting) /\ waiting = head.waiting
  BY <1>1 DEF Init, EmptyWaiting, Shaped
<1>3. \A j \in DOMAIN Joins : head.waiting.joins[j] = {}
  BY <1>1
<1>4. \A j \in DOMAIN Joins :
         Joins[j].sources # {} /\ Joins[j].sources \subseteq Nodes
  BY JoinsHaveSources
<1>5. completed = [n \in Nodes |-> 0] /\ fired = [j \in DOMAIN Joins |-> 0]
  BY DEF Init
<1>6. JoinState
  BY <1>2, <1>3, <1>5 DEF JoinState
<1>7. JoinsWaitForAll
  BY <1>3, <1>4, <1>5 DEF JoinsWaitForAll
<1> QED BY <1>6, <1>7 DEF JInv

\* A super-step keeps the invariant: a source counted in a join has completed
\* in this super-step or was counted before; a join that fires forgets them.
LEMMA JSuperStep ==
    ASSUME JInv, NEW results, NEW changed, SuperStep(results, changed)
    PROVE  JInv'
<1> DEFINE ran == {results[i].node : i \in DOMAIN results}
           w == ResolveNext(step, results, waiting).waiting
<1>1. /\ status = "running" /\ status' = "running"
      /\ waiting' = w
      /\ head'.waiting = w
      /\ completed' = [n \in Nodes |-> completed[n] + IF n \in ran THEN 1 ELSE 0]
      /\ fired' = [j \in DOMAIN Joins |->
                     fired[j] + IF JoinFires(j, results, waiting) THEN 1 ELSE 0]
  BY DEF SuperStep
<1>2. w.joins = JoinsAfter(results, waiting) /\ Shaped(w)
  BY ResolveSetsJoins
<1>3. waiting.joins = head.waiting.joins
  BY <1>1 DEF JInv, JoinState
<1>4. ASSUME NEW j \in DOMAIN Joins
      PROVE  /\ w.joins[j] \subseteq Joins[j].sources
             /\ w.joins[j] # Joins[j].sources
             /\ \A n \in Joins[j].sources :
                   /\ fired'[j] <= completed'[n]
                   /\ n \in w.joins[j] => fired'[j] < completed'[n]
  <2>1. Joins[j].sources \subseteq Nodes /\ Joins[j].sources # {}
    BY JoinsHaveSources
  <2>2. FilledJoin(j, results, waiting) =
          head.waiting.joins[j] \cup {n \in Joins[j].sources : n \in ran}
    BY <1>3 DEF FilledJoin
  <2>3. CASE JoinFires(j, results, waiting)
    <3>1. w.joins[j] = {} BY <1>2, <2>3 DEF JoinsAfter
    <3>2. fired'[j] = fired[j] + 1 /\ fired[j] \in Nat
      BY <1>1, <2>3 DEF JInv, JoinState
    <3>3. ASSUME NEW n \in Joins[j].sources PROVE fired'[j] <= completed'[n]
      <4>1. n \in head.waiting.joins[j] \/ n \in ran
        BY <2>2, <2>3 DEF JoinFires
      <4>2. /\ completed[n] \in Nat /\ fired[j] <= completed[n]
            /\ n \in head.waiting.joins[j] => fired[j] < completed[n]
        BY <2>1 DEF JInv, JoinState, JoinsWaitForAll
      <4>3. completed'[n] = completed[n] + IF n \in ran THEN 1 ELSE 0
        BY <1>1, <2>1
      <4> QED BY <3>2, <4>1, <4>2, <4>3
    <3> QED BY <2>1, <3>1, <3>3
  <2>4. CASE ~JoinFires(j, results, waiting)
    <3>1. w.joins[j] = FilledJoin(j, results, waiting)
      BY <1>2, <2>4 DEF JoinsAfter
    <3>2. fired'[j] = fired[j] /\ fired[j] \in Nat
      BY <1>1, <2>4 DEF JInv, JoinState
    <3>3. w.joins[j] # Joins[j].sources BY <2>4, <3>1 DEF JoinFires
    <3>4. w.joins[j] \subseteq Joins[j].sources
      BY <2>2, <3>1 DEF JInv, JoinState
    <3>5. ASSUME NEW n \in Joins[j].sources
          PROVE  /\ fired'[j] <= completed'[n]
                 /\ n \in w.joins[j] => fired'[j] < completed'[n]
      <4>1. n \in w.joins[j] => n \in head.waiting.joins[j] \/ n \in ran
        BY <2>2, <3>1
      <4>2. /\ completed[n] \in Nat /\ fired[j] <= completed[n]
            /\ n \in head.waiting.joins[j] => fired[j] < completed[n]
        BY <2>1 DEF JInv, JoinState, JoinsWaitForAll
      <4>3. completed'[n] = completed[n] + IF n \in ran THEN 1 ELSE 0
        BY <1>1, <2>1
      <4> QED BY <3>2, <4>1, <4>2, <4>3
    <3> QED BY <3>3, <3>4, <3>5
  <2> QED BY <2>3, <2>4
<1>5. completed' \in [Nodes -> Nat] /\ fired' \in [DOMAIN Joins -> Nat]
  BY <1>1 DEF JInv, JoinState
<1>6. JoinState'
  BY <1>1, <1>2, <1>4, <1>5 DEF JoinState
<1>7. JoinsWaitForAll'
  BY <1>1, <1>4 DEF JoinsWaitForAll
<1> QED BY <1>6, <1>7 DEF JInv

\* Starting an invocation keeps the invariant: the joins of the latest
\* checkpoint carry over into the new input checkpoint.
LEMMA JStartRun ==
    ASSUME JInv, NEW routes, NEW changed, StartRun(routes, changed)
    PROVE  JInv'
<1> DEFINE taskStep == IF head.id = 0 THEN 0 ELSE step + 1
           w == ScheduleStart(taskStep, routes, head.waiting).waiting
<1>1. /\ waiting' = w /\ head'.waiting = w
      /\ completed' = completed /\ fired' = fired
  BY DEF StartRun
<1>2. w.joins = head.waiting.joins /\ Shaped(w)
  BY StartKeepsJoins DEF JInv, JoinState
<1> QED
  BY <1>1, <1>2 DEF JInv, JoinState, JoinsWaitForAll

\* Every step keeps the invariant.
LEMMA JNext == JInv /\ [Next]_vars => JInv'
<1> SUFFICES ASSUME JInv, [Next]_vars PROVE JInv'
  OBVIOUS
<1>1. CASE \E routes \in StartRoutes, changed \in SUBSET Channels :
              StartRun(routes, changed)
  BY <1>1, JStartRun
<1>2. CASE AnySuperStep
  BY <1>2, JSuperStep DEF AnySuperStep
<1>3. CASE ContinueRun
  BY <1>3 DEF ContinueRun, JInv, JoinState, JoinsWaitForAll
<1>4. CASE Finish
  BY <1>4 DEF Finish, JInv, JoinState, JoinsWaitForAll
<1>5. CASE RecursionStop
  BY <1>5 DEF RecursionStop, JInv, JoinState, JoinsWaitForAll
<1>6. CASE Stop
  BY <1>6 DEF Stop, JInv, JoinState, JoinsWaitForAll
<1>7. CASE UNCHANGED vars
  BY <1>7 DEF vars, JInv, JoinState, JoinsWaitForAll
<1> QED
  BY <1>1, <1>2, <1>3, <1>4, <1>5, <1>6, <1>7 DEF Next

\* In every graph a join fires exactly when all of its sources have completed
\* again since it last fired, whatever the interleaving of super-steps, crashes,
\* restarts and new invocations (resolveNextWithStates and the waiting map each
\* checkpoint stores).
THEOREM JoinsCorrect == Spec => []JoinsWaitForAll
<1>1. JInv => JoinsWaitForAll BY DEF JInv
<1> QED
  BY <1>1, JInit, JNext, PTL DEF Spec

-----------------------------------------------------------------------------
(***************************************************************************)
(* SuperSteps: the tasks of a run and of the checkpoint it would restore.  *)
(* Kept and FlattenSeq are recursive functions: what they return is shown  *)
(* by induction up to the length of their argument, as a property of the   *)
(* numbers of a set.                                                       *)
(***************************************************************************)
\* A set of naturals that is not empty has a least member.
LEMMA LeastNumber ==
    ASSUME NEW T, T \subseteq Nat, T # {} PROVE \E x \in T : \A y \in T : x <= y
<1>1. PICK x \in T : \A y \in T : ~(<<y, x>> \in OpToRel(<, Nat))
  BY NatLessThanWellFounded, WFMin, Zenon
<1>2. \A y \in T : ~(y < x)
  BY <1>1 DEF OpToRel
<1> QED
  BY <1>2

\* Induction up to n, for the numbers of a set.
LEMMA UpTo ==
    ASSUME NEW n \in Nat, NEW T, 0 \in T,
           \A i \in 0 .. n : i \in T /\ i < n => i + 1 \in T
    PROVE  \A i \in 0 .. n : i \in T
<1> SUFFICES ASSUME (0 .. n) \ T # {} PROVE FALSE
  OBVIOUS
<1>1. PICK x \in (0 .. n) \ T : \A y \in (0 .. n) \ T : x <= y
  <2>1. (0 .. n) \ T \subseteq Nat
    OBVIOUS
  <2> QED
    BY <2>1, LeastNumber
<1>2. x # 0 /\ x - 1 \in 0 .. n
  OBVIOUS
<1>3. x - 1 \in T
  BY <1>1, <1>2
<1> QED
  BY <1>2, <1>3

\* One more position of a sequence, kept or not.
KeptNext(s, I, q, i) == IF i \in I THEN Append(q, s[i]) ELSE q

KeptUpTo(s, I, n, F) ==
    F = [i \in 0 .. n |-> IF i = 0 THEN <<>> ELSE KeptNext(s, I, F[i - 1], i)]

\* The recursion of Kept has a solution.
LEMMA KeptExists ==
    ASSUME NEW s, NEW I, NEW n \in Nat
    PROVE  \E F : KeptUpTo(s, I, n, F)
<1> DEFINE Sol(m, F) == KeptUpTo(s, I, m, F)
           T == {m \in 0 .. n : \E F : Sol(m, F)}
<1>1. 0 \in T
  <2> DEFINE E == [i \in 0 .. 0 |-> <<>>]
  <2>1. Sol(0, E)
    BY DEF KeptUpTo
  <2>2. 0 \in 0 .. n /\ \E F : Sol(0, F)
    <3> HIDE DEF Sol, E
    <3> QED
      BY <2>1
  <2> HIDE DEF Sol
  <2> QED
    BY <2>2
<1>2. ASSUME NEW m \in 0 .. n, m \in T, m < n PROVE m + 1 \in T
  <2>1. PICK F : Sol(m, F)
    BY <1>2
  <2> DEFINE G == [i \in 0 .. m + 1 |-> IF i = m + 1 THEN KeptNext(s, I, F[m], m + 1) ELSE F[i]]
  <2>2. \A i \in 0 .. m : G[i] = F[i]
    OBVIOUS
  <2>3. ASSUME NEW i \in 0 .. m + 1
        PROVE  G[i] = IF i = 0 THEN <<>> ELSE KeptNext(s, I, G[i - 1], i)
    <3>1. CASE i = m + 1
      <4>1. i - 1 \in 0 .. m /\ i - 1 = m /\ i # 0
        BY <3>1
      <4> QED
        BY <3>1, <4>1, <2>2
    <3>2. CASE i # m + 1
      <4>1. i \in 0 .. m /\ (i # 0 => i - 1 \in 0 .. m)
        BY <3>2
      <4> QED
        BY <4>1, <2>1, <2>2 DEF KeptUpTo
    <3> QED
      BY <3>1, <3>2
  <2>4. Sol(m + 1, G)
    <3> HIDE DEF G
    <3>1. G = [i \in 0 .. m + 1 |-> G[i]]
      BY DEF G
    <3> QED
      BY <2>3, <3>1 DEF KeptUpTo
  <2>5. m + 1 \in 0 .. n /\ \E H : Sol(m + 1, H)
    <3> HIDE DEF Sol, G
    <3> QED
      BY <1>2, <2>4
  <2> HIDE DEF Sol
  <2> QED
    BY <2>5
<1> HIDE DEF T
<1>3. n \in T
  BY <1>1, <1>2, UpTo
<1> QED
  BY <1>3 DEF T

\* What Kept returns is the last of a chain of sequences, each with one more position.
LEMMA KeptChain ==
    ASSUME NEW s, NEW I, Len(s) \in Nat
    PROVE  \E F : /\ Kept(s, I) = F[Len(s)]
                  /\ F[0] = <<>>
                  /\ \A i \in 1 .. Len(s) : F[i] = KeptNext(s, I, F[i - 1], i)
<1> DEFINE F == CHOOSE F : F = [i \in 0 .. Len(s) |->
                     IF i = 0 THEN <<>> ELSE IF i \in I THEN Append(F[i - 1], s[i]) ELSE F[i - 1]]
<1>1. Kept(s, I) = F[Len(s)]
  BY DEF Kept
<1>2. PICK H : KeptUpTo(s, I, Len(s), H)
  BY KeptExists
<1>3. H = [i \in 0 .. Len(s) |->
              IF i = 0 THEN <<>> ELSE IF i \in I THEN Append(H[i - 1], s[i]) ELSE H[i - 1]]
  <2>1. \A q, i : KeptNext(s, I, q, i) = IF i \in I THEN Append(q, s[i]) ELSE q
    BY DEF KeptNext
  <2> DEFINE Old == [i \in 0 .. Len(s) |-> IF i = 0 THEN <<>> ELSE KeptNext(s, I, H[i - 1], i)]
             New == [i \in 0 .. Len(s) |->
              IF i = 0 THEN <<>> ELSE IF i \in I THEN Append(H[i - 1], s[i]) ELSE H[i - 1]]
  <2>2. \A i \in 0 .. Len(s) : Old[i] = New[i]
    BY <2>1
  <2>3. Old = New
    BY <2>2, Zenon
  <2> QED
    BY <1>2, <2>3 DEF KeptUpTo
<1>4. F = [i \in 0 .. Len(s) |->
              IF i = 0 THEN <<>> ELSE IF i \in I THEN Append(F[i - 1], s[i]) ELSE F[i - 1]]
  BY <1>3, Zenon
<1> HIDE DEF F
<1>5. F[0] = <<>>
  BY <1>4
<1>6. ASSUME NEW i \in 1 .. Len(s) PROVE F[i] = KeptNext(s, I, F[i - 1], i)
  <2>1. i \in 0 .. Len(s) /\ i # 0
    OBVIOUS
  <2> QED
    BY <2>1, <1>4 DEF KeptNext
<1> QED
  BY <1>1, <1>5, <1>6

\* What is kept of a sequence comes from the positions that are kept, in the order
\* of the sequence: nothing is repeated, and all of it is kept if every position is.
From(s, I, i, q) ==
    \A k \in 1 .. Len(q) : \E j \in 1 .. i : j \in I /\ q[k] = s[j]
OneToOne(q) == \A k, l \in 1 .. Len(q) : q[k] = q[l] => k = l

\* One more element of the sequence: it is kept or not.
LEMMA KeptOneMore ==
    ASSUME NEW S, NEW s \in Seq(S), NEW I, NEW i \in 1 .. Len(s),
           NEW q \in Seq(S), From(s, I, i - 1, q),
           OneToOne(s) => OneToOne(q),
           NEW r, r = KeptNext(s, I, q, i)
    PROVE  r \in Seq(S) /\ From(s, I, i, r) /\ (OneToOne(s) => OneToOne(r))
<1>1. s[i] \in S /\ i - 1 \in Nat
  OBVIOUS
<1>2. \A j \in 1 .. i - 1 : j \in 1 .. i /\ j # i /\ j \in 1 .. Len(s)
  OBVIOUS
<1>3. CASE i \notin I
  <2>1. r = q
    BY <1>3 DEF KeptNext
  <2>2. From(s, I, i, q)
    BY <1>2 DEF From
  <2> QED
    BY <2>1, <2>2
<1>4. CASE i \in I
  <2>1. r = Append(q, s[i])
    BY <1>4 DEF KeptNext
  <2>2. /\ r \in Seq(S) /\ Len(q) \in Nat /\ Len(r) = Len(q) + 1
        /\ r[Len(q) + 1] = s[i] /\ \A k \in 1 .. Len(q) : r[k] = q[k]
    BY <1>1, <2>1, AppendProperties
  <2>3. \A k \in 1 .. Len(r) : k \in 1 .. Len(q) \/ k = Len(q) + 1
    BY <2>2
  <2>4. \A k \in 1 .. Len(q) : \E j \in 1 .. i - 1 : j \in I /\ r[k] = s[j]
    BY <2>2 DEF From
  <2>5. From(s, I, i, r)
    <3> SUFFICES ASSUME NEW k \in 1 .. Len(r)
                 PROVE  \E j \in 1 .. i : j \in I /\ r[k] = s[j]
      BY DEF From
    <3>1. CASE k = Len(q) + 1
      BY <1>4, <2>2, <3>1
    <3>2. CASE k \in 1 .. Len(q)
      BY <1>2, <2>4, <3>2
    <3> QED
      BY <2>3, <3>1, <3>2
  <2>6. ASSUME OneToOne(s) PROVE OneToOne(r)
    <3>1. \A k \in 1 .. Len(q) : r[k] # r[Len(q) + 1]
      BY <1>2, <2>2, <2>4, <2>6 DEF OneToOne
    <3>2. \A k, l \in 1 .. Len(q) : r[k] = r[l] => k = l
      BY <2>2, <2>6 DEF OneToOne
    <3> QED
      BY <2>3, <3>1, <3>2 DEF OneToOne
  <2> QED
    BY <2>2, <2>5, <2>6
<1> QED
  BY <1>3, <1>4

\* Kept(s, I) is the subsequence of s at the positions in I.
LEMMA KeptFacts ==
    ASSUME NEW S, NEW s \in Seq(S), NEW I
    PROVE  /\ Kept(s, I) \in Seq(S)
           /\ From(s, I, Len(s), Kept(s, I))
           /\ OneToOne(s) => OneToOne(Kept(s, I))
<1>1. Len(s) \in Nat
  OBVIOUS
<1>2. PICK F : /\ Kept(s, I) = F[Len(s)]
               /\ F[0] = <<>>
               /\ \A i \in 1 .. Len(s) : F[i] = KeptNext(s, I, F[i - 1], i)
  BY <1>1, KeptChain
<1> DEFINE Good(i) == F[i] \in Seq(S) /\ From(s, I, i, F[i]) /\ (OneToOne(s) => OneToOne(F[i]))
           T == {i \in 0 .. Len(s) : Good(i)}
<1>3. 0 \in T
  <2>1. F[0] \in Seq(S) /\ Len(F[0]) = 0
    BY <1>2
  <2>2. Good(0)
    BY <2>1 DEF From, OneToOne
  <2> QED
    BY <1>1, <2>2
<1>4. ASSUME NEW i \in 0 .. Len(s), i \in T, i < Len(s) PROVE i + 1 \in T
  <2>1. i + 1 \in 1 .. Len(s) /\ i + 1 \in 0 .. Len(s) /\ (i + 1) - 1 = i
    BY <1>1, <1>4
  <2>2. F[i + 1] = KeptNext(s, I, F[i], i + 1)
    BY <1>2, <2>1
  <2>3. Good(i)
    BY <1>4
  <2>4. ASSUME NEW m \in 1 .. Len(s), m = i + 1 PROVE Good(m)
    <3>1. From(s, I, m - 1, F[i]) /\ F[m] = KeptNext(s, I, F[i], m)
      BY <2>1, <2>2, <2>3, <2>4
    <3> QED
      BY <2>3, <3>1, KeptOneMore
  <2>5. Good(i + 1)
    BY <2>1, <2>4
  <2> QED
    BY <2>1, <2>5
<1>5. Len(s) \in T
  <2> HIDE DEF T
  <2>1. \A i \in 0 .. Len(s) : i \in T /\ i < Len(s) => i + 1 \in T
    BY <1>4
  <2>2. \A i \in 0 .. Len(s) : i \in T
    BY <1>1, <1>3, <2>1, UpTo
  <2> QED
    BY <1>1, <2>2
<1> QED
  BY <1>2, <1>5

\* Nothing is lost when every position is kept.
LEMMA KeptAll ==
    ASSUME NEW S, NEW s \in Seq(S), NEW I, 1 .. Len(s) \subseteq I
    PROVE  Kept(s, I) = s
<1>1. Len(s) \in Nat
  OBVIOUS
<1>2. PICK F : /\ Kept(s, I) = F[Len(s)]
               /\ F[0] = <<>>
               /\ \A i \in 1 .. Len(s) : F[i] = KeptNext(s, I, F[i - 1], i)
  BY <1>1, KeptChain
<1> DEFINE Good(i) == F[i] \in Seq(S) /\ Len(F[i]) = i /\ \A k \in 1 .. i : F[i][k] = s[k]
           T == {i \in 0 .. Len(s) : Good(i)}
<1>3. 0 \in T
  <2>1. F[0] \in Seq(S) /\ Len(F[0]) = 0
    BY <1>2
  <2>2. 1 .. 0 = {}
    OBVIOUS
  <2>3. Good(0)
    BY <2>1, <2>2
  <2> QED
    BY <1>1, <2>3
<1>4. ASSUME NEW i \in 0 .. Len(s), i \in T, i < Len(s) PROVE i + 1 \in T
  <2>1. i + 1 \in 1 .. Len(s) /\ i + 1 \in 0 .. Len(s) /\ (i + 1) - 1 = i
    BY <1>1, <1>4
  <2>2. F[i + 1] = Append(F[i], s[i + 1]) /\ s[i + 1] \in S
    <3>1. F[i + 1] = KeptNext(s, I, F[i], i + 1) /\ i + 1 \in I
      BY <1>2, <2>1
    <3> QED
      BY <2>1, <3>1 DEF KeptNext
  <2>3. Good(i)
    BY <1>4
  <2>4. F[i + 1] \in Seq(S) /\ Len(F[i + 1]) = i + 1
    BY <2>2, <2>3, AppendProperties
  <2>5. ASSUME NEW k \in 1 .. i + 1 PROVE F[i + 1][k] = s[k]
    <3>1. CASE k = i + 1
      BY <2>2, <2>3, <3>1, AppendProperties
    <3>2. CASE k # i + 1
      <4>1. k \in 1 .. i
        BY <3>2
      <4> QED
        BY <2>2, <2>3, <4>1, AppendProperties
    <3> QED
      BY <3>1, <3>2
  <2>6. Good(i + 1)
    BY <2>4, <2>5
  <2> QED
    BY <2>1, <2>6
<1>5. Len(s) \in T
  <2> HIDE DEF T
  <2>1. \A i \in 0 .. Len(s) : i \in T /\ i < Len(s) => i + 1 \in T
    BY <1>4
  <2>2. \A i \in 0 .. Len(s) : i \in T
    BY <1>1, <1>3, <2>1, UpTo
  <2> QED
    BY <1>1, <2>2
<1>6. F[Len(s)] \in Seq(S) /\ Len(F[Len(s)]) = Len(s)
      /\ \A k \in 1 .. Len(s) : F[Len(s)][k] = s[k]
  BY <1>5
<1> QED
  BY <1>2, <1>6, SeqEqual

\* The concatenation of the first sequences of ss, up to n.
FlattenUpTo(ss, n, F) ==
    F = [i \in 1 .. n |-> IF i = 1 THEN ss[i] ELSE F[i - 1] \o ss[i]]

\* The recursion of FlattenSeq has a solution.
LEMMA FlattenExists ==
    ASSUME NEW ss, NEW n \in Nat
    PROVE  \E F : FlattenUpTo(ss, n, F)
<1> DEFINE Sol(m, F) == FlattenUpTo(ss, m, F)
           T == {m \in 0 .. n : \E F : Sol(m, F)}
<1>1. 0 \in T
  <2> DEFINE E == [i \in 1 .. 0 |-> <<>>]
  <2>1. Sol(0, E)
    BY DEF FlattenUpTo
  <2>2. 0 \in 0 .. n /\ \E F : Sol(0, F)
    <3> HIDE DEF Sol, E
    <3> QED
      BY <2>1
  <2> HIDE DEF Sol
  <2> QED
    BY <2>2
<1>2. ASSUME NEW m \in 0 .. n, m \in T, m < n PROVE m + 1 \in T
  <2>1. PICK F : Sol(m, F)
    BY <1>2
  <2> DEFINE G == [i \in 1 .. m + 1 |->
                     IF i = m + 1 THEN (IF i = 1 THEN ss[i] ELSE F[m] \o ss[i]) ELSE F[i]]
  <2>2. \A i \in 1 .. m : G[i] = F[i]
    OBVIOUS
  <2>3. ASSUME NEW i \in 1 .. m + 1
        PROVE  G[i] = IF i = 1 THEN ss[i] ELSE G[i - 1] \o ss[i]
    <3>1. CASE i = m + 1
      <4>1. i - 1 = m /\ (i # 1 => i - 1 \in 1 .. m)
        BY <3>1
      <4> QED
        BY <3>1, <4>1, <2>2
    <3>2. CASE i # m + 1
      <4>1. i \in 1 .. m /\ (i # 1 => i - 1 \in 1 .. m)
        BY <3>2
      <4>2. F[i] = IF i = 1 THEN ss[i] ELSE F[i - 1] \o ss[i]
        <5>1. F = [k \in 1 .. m |-> IF k = 1 THEN ss[k] ELSE F[k - 1] \o ss[k]]
          BY <2>1 DEF FlattenUpTo
        <5> HIDE DEF G
        <5> QED
          BY <4>1, <5>1
      <4> HIDE DEF G
      <4> QED
        BY <4>1, <4>2, <2>2
    <3> QED
      BY <3>1, <3>2
  <2>4. Sol(m + 1, G)
    <3> HIDE DEF G
    <3>1. G = [i \in 1 .. m + 1 |-> G[i]]
      BY DEF G
    <3> QED
      BY <2>3, <3>1 DEF FlattenUpTo
  <2>5. m + 1 \in 0 .. n /\ \E H : Sol(m + 1, H)
    <3> HIDE DEF Sol, G
    <3> QED
      BY <1>2, <2>4
  <2> HIDE DEF Sol
  <2> QED
    BY <2>5
<1> HIDE DEF T
<1>3. n \in T
  BY <1>1, <1>2, UpTo
<1> QED
  BY <1>3 DEF T

\* The concatenation of sequences over S is a sequence over S.
LEMMA FlattenTyped ==
    ASSUME NEW S, NEW ss \in Seq(Seq(S))
    PROVE  FlattenSeq(ss) \in Seq(S)
<1>1. Len(ss) \in Nat /\ \A i \in 1 .. Len(ss) : ss[i] \in Seq(S)
  OBVIOUS
<1>2. CASE Len(ss) = 0
  <2>1. FlattenSeq(ss) = ss /\ ss = <<>>
    BY <1>2 DEF FlattenSeq
  <2> QED
    BY <2>1
<1>3. CASE Len(ss) # 0
  <2> DEFINE F == CHOOSE F : F = [i \in 1 .. Len(ss) |->
                     IF i = 1 THEN ss[i] ELSE F[i - 1] \o ss[i]]
             T == {i \in 0 .. Len(ss) : i # 0 => F[i] \in Seq(S)}
  <2>1. FlattenSeq(ss) = F[Len(ss)]
    BY <1>3 DEF FlattenSeq
  <2>2. PICK H : FlattenUpTo(ss, Len(ss), H)
    BY <1>1, FlattenExists
  <2>3. F = [i \in 1 .. Len(ss) |-> IF i = 1 THEN ss[i] ELSE F[i - 1] \o ss[i]]
    BY <2>2, Zenon DEF FlattenUpTo
  <2> HIDE DEF F
  <2>4. ASSUME NEW i \in 0 .. Len(ss), i \in T, i < Len(ss) PROVE i + 1 \in T
    <3>1. i + 1 \in 1 .. Len(ss) /\ (i + 1) - 1 = i
      BY <1>1, <2>4
    <3>2. F[i + 1] = IF i + 1 = 1 THEN ss[i + 1] ELSE F[i] \o ss[i + 1]
      BY <2>3, <3>1
    <3>3. CASE i = 0
      BY <1>1, <3>1, <3>2, <3>3
    <3>4. CASE i # 0
      <4>1. F[i] \in Seq(S) /\ ss[i + 1] \in Seq(S)
        BY <1>1, <2>4, <3>1, <3>4
      <4>2. F[i + 1] \in Seq(S)
        BY <3>2, <3>4, <4>1, ConcatProperties
      <4> QED
        BY <3>1, <4>2
    <3> QED
      BY <3>3, <3>4
  <2>5. 0 \in T
    BY <1>1
  <2>6. \A i \in 0 .. Len(ss) : i \in T
    <3> HIDE DEF T
    <3>1. \A i \in 0 .. Len(ss) : i \in T /\ i < Len(ss) => i + 1 \in T
      BY <2>4
    <3> QED
      BY <1>1, <2>5, <3>1, UpTo
  <2> QED
    BY <1>1, <1>3, <2>1, <2>6
<1> QED
  BY <1>2, <1>3

\* Tasks that are told apart, and that are all deferred or all ordinary.
Apart(ts) == \A i, j \in DOMAIN ts : ts[i].id = ts[j].id => i = j
DeferredApart(ts) ==
    (\E i \in DOMAIN ts : ts[i].node \in Deferred) =>
        (\A i \in DOMAIN ts : ts[i].node \in Deferred)
Over(N, ts) == \A i \in DOMAIN ts : ts[i].node \in N
AllUntriggered(ts) == \A i \in DOMAIN ts : Triggers[ts[i].node] = {}
Fewer(fs, ts) == \A N : Over(N, ts) => Over(N, fs)

\* Tasks that were apart stay so when some are left out.
LEMMA OverDeferred ==
    ASSUME NEW ts, NEW fs, DeferredApart(ts), Fewer(fs, ts)
    PROVE  DeferredApart(fs)
<1>1. CASE Over(Deferred, ts)
  BY <1>1 DEF Over, DeferredApart, Fewer
<1>2. CASE ~Over(Deferred, ts)
  <2> DEFINE N == {ts[i].node : i \in DOMAIN ts} \ Deferred
  <2>1. Over(N, ts)
    BY <1>2 DEF Over, DeferredApart
  <2>2. \A n \in N : n \notin Deferred
    OBVIOUS
  <2> HIDE DEF N
  <2>3. Over(N, fs)
    BY <2>1 DEF Fewer
  <2> QED
    BY <2>2, <2>3 DEF Over, DeferredApart
<1> QED
  BY <1>1, <1>2

\* A sequence over S with elements of N is one over N.
LEMMA SeqOver ==
    ASSUME NEW S, NEW N, NEW q \in Seq(S), \A k \in 1 .. Len(q) : q[k] \in N
    PROVE  q \in Seq(N)
OBVIOUS

\* A task and the parts of its ID.
LEMMA MadeTask ==
    ASSUME NEW k \in Nat, NEW i \in Nat, NEW n \in Nodes, NEW t, t = MakeTask(k, i, n)
    PROVE  t \in Task /\ t.node = n /\ t.id[2] = i
<1>1. <<k, i, n>> \in Nat \X Nat \X Nodes
  OBVIOUS
<1>2. t.id = <<k, i, n>> /\ t.node = n
  BY DEF MakeTask
<1>3. t \in Task
  BY <1>1 DEF MakeTask, Task
<1> QED
  BY <1>2, <1>3

\* Tasks are numbered by their position (scheduleTasks).
LEMMA MadeTasks ==
    ASSUME NEW N, N \subseteq Nodes, NEW all \in Seq(N), NEW k \in Nat,
           NEW ts, ts = [i \in DOMAIN all |-> MakeTask(k, i - 1, all[i])]
    PROVE  ts \in Seq(Task) /\ Apart(ts) /\ Over(N, ts)
<1>1. DOMAIN all = 1 .. Len(all) /\ Len(all) \in Nat /\ DOMAIN ts = DOMAIN all
  OBVIOUS
<1>2. ASSUME NEW i \in DOMAIN ts
      PROVE  ts[i] \in Task /\ ts[i].node \in N /\ ts[i].id[2] = i - 1
  <2>1. ts[i] = MakeTask(k, i - 1, all[i]) /\ all[i] \in N /\ all[i] \in Nodes /\ i - 1 \in Nat
    BY <1>1
  <2> QED
    BY <2>1, MadeTask
<1>3. \A i \in DOMAIN ts : ts[i] \in Task
  BY <1>2
<1>4. ts \in Seq(Task)
  <2>1. ts \in [1 .. Len(all) -> Task]
    BY <1>1, <1>3
  <2> QED
    BY <1>1, <2>1, IsASeq
<1>5. Apart(ts)
  <2> SUFFICES ASSUME NEW i \in DOMAIN ts, NEW j \in DOMAIN ts, ts[i].id = ts[j].id PROVE i = j
    BY DEF Apart
  <2>1. ts[i].id[2] = i - 1 /\ ts[j].id[2] = j - 1
    BY <1>2
  <2> QED
    BY <1>1, <2>1
<1>6. Over(N, ts)
  BY <1>2 DEF Over
<1> QED
  BY <1>4, <1>5, <1>6

\* Filtering tasks keeps them apart (freshChannelTasks).
LEMMA FreshKeeps ==
    ASSUME NEW ts \in Seq(Task), Apart(ts), NEW v, NEW n, NEW fs, fs = FreshTasks(ts, v, n)
    PROVE  /\ fs \in Seq(Task) /\ Apart(fs)
           /\ Fewer(fs, ts)
           /\ AllUntriggered(ts) => fs = ts
<1> DEFINE I == {i \in DOMAIN ts :
                   LET m == ts[i].node
                   IN  \/ Triggers[m] = {}
                       \/ ~n[m].ran
                       \/ \E c \in Triggers[m] : v[c] # n[m].at[c]}
<1>1. fs = Kept(ts, I)
  BY DEF FreshTasks
<1>2. DOMAIN ts = 1 .. Len(ts)
  OBVIOUS
<1>3. AllUntriggered(ts) => fs = ts
  <2> SUFFICES ASSUME AllUntriggered(ts) PROVE fs = ts
    OBVIOUS
  <2>1. 1 .. Len(ts) \subseteq I
    BY <1>2 DEF AllUntriggered
  <2> HIDE DEF I
  <2> QED
    BY <1>1, <2>1, KeptAll
<1> HIDE DEF I
<1>4. OneToOne(ts)
  BY <1>2 DEF OneToOne, Apart
<1>5. fs \in Seq(Task) /\ From(ts, I, Len(ts), fs) /\ OneToOne(fs)
  BY <1>1, <1>4, KeptFacts
<1>6. DOMAIN fs = 1 .. Len(fs)
  BY <1>5
<1>7. \A k \in DOMAIN fs : \E j \in DOMAIN ts : fs[k] = ts[j]
  BY <1>2, <1>5, <1>6 DEF From
<1>8. Apart(fs)
  <2> SUFFICES ASSUME NEW k \in DOMAIN fs, NEW l \in DOMAIN fs, fs[k].id = fs[l].id PROVE k = l
    BY DEF Apart
  <2>1. PICK i \in DOMAIN ts : fs[k] = ts[i]
    BY <1>7
  <2>2. PICK j \in DOMAIN ts : fs[l] = ts[j]
    BY <1>7
  <2>3. i = j
    BY <2>1, <2>2 DEF Apart
  <2> QED
    BY <1>5, <1>6, <2>1, <2>2, <2>3 DEF OneToOne
<1>9. Fewer(fs, ts)
  BY <1>7 DEF Over, Fewer
<1> QED
  BY <1>3, <1>5, <1>8, <1>9

\* The nodes, by number, are a sequence.
LEMMA NodeNumbers ==
    [n \in Nodes |-> n] \in Seq(Nodes) /\ Deferred \subseteq Nodes /\ END \notin Nodes
<1>1. Cardinality(Nodes) \in Nat /\ Nodes = 1 .. Cardinality(Nodes) /\ Deferred \subseteq Nodes
  BY RoutingAssumption, FS_CardinalityType
<1>2. [n \in Nodes |-> n] \in [1 .. Cardinality(Nodes) -> Nodes]
  BY <1>1
<1>3. END \notin Nodes
  BY <1>1 DEF END
<1> QED
  BY <1>1, <1>2, <1>3, IsASeq

\* A waiting record and its parts.
LEMMA WaitingRecord ==
    ASSUME NEW J, NEW D
    PROVE  [joins |-> J, deferred |-> D] \in Waiting
             <=> J \in [DOMAIN Joins -> SUBSET Nodes] /\ D \in SUBSET Deferred
BY DEF Waiting

\* Released deferred nodes are deferred (releaseDeferredTasks).
LEMMA ReleaseTyped ==
    ASSUME NEW k \in Nat, NEW w \in Waiting, NEW r, r = ReleaseDeferred(k, w)
    PROVE  /\ r.tasks \in Seq(Task) /\ Apart(r.tasks) /\ Over(Deferred, r.tasks)
           /\ r.waiting \in Waiting
<1> DEFINE numbers == [n \in Nodes |-> n]
           nodes == Kept(numbers, w.deferred)
<1>1. r.tasks = [i \in DOMAIN nodes |-> MakeTask(k, i - 1, nodes[i])]
  BY DEF ReleaseDeferred
<1>2. r.waiting = [w EXCEPT !.deferred = {}]
  BY DEF ReleaseDeferred
<1>3. r.waiting \in Waiting
  BY <1>2 DEF Waiting
<1>4. numbers \in Seq(Nodes) /\ (\A n \in Nodes : numbers[n] = n) /\ 1 .. Len(numbers) = Nodes
  <2>1. DOMAIN numbers = Nodes
    OBVIOUS
  <2> QED
    BY <2>1, NodeNumbers
<1>5. w.deferred \subseteq Deferred
  BY DEF Waiting
<1> HIDE DEF numbers
<1>6. nodes \in Seq(Nodes) /\ From(numbers, w.deferred, Len(numbers), nodes)
  BY <1>4, KeptFacts
<1> HIDE DEF nodes
<1>7. \A i \in 1 .. Len(nodes) : nodes[i] \in Deferred
  BY <1>4, <1>5, <1>6 DEF From
<1>8. nodes \in Seq(Deferred)
  BY <1>6, <1>7, SeqOver
<1> QED
  BY <1>1, <1>3, <1>8, MadeTasks, NodeNumbers

\* What is scheduled of some destinations (the add closure of resolveNextWithStates).
LEMMA ScheduledTyped ==
    ASSUME NEW dests \in Seq(Destinations), NEW N,
           \A i \in DOMAIN dests : dests[i] \in Nodes \ Deferred => dests[i] \in N
    PROVE  Scheduled(dests) \in Seq(N)
<1> DEFINE I == {i \in DOMAIN dests :
                   dests[i] # END /\ dests[i] \notin Deferred /\ FirstAt(dests, i)}
<1>1. Scheduled(dests) = Kept(dests, I)
  BY DEF Scheduled
<1>2. DOMAIN dests = 1 .. Len(dests) /\ \A i \in DOMAIN dests : dests[i] \in Destinations
  OBVIOUS
<1>3. \A i \in DOMAIN dests : i \in I => dests[i] \in N
  BY <1>2 DEF Destinations
<1> HIDE DEF I
<1>4. Scheduled(dests) \in Seq(Destinations) /\ From(dests, I, Len(dests), Scheduled(dests))
  BY <1>1, KeptFacts
<1>5. \A k \in 1 .. Len(Scheduled(dests)) : Scheduled(dests)[k] \in N
  BY <1>2, <1>3, <1>4 DEF From
<1> QED
  BY <1>4, <1>5, SeqOver

\* Deferred nodes are released when nothing else was scheduled.
LEMMA ReleaseIfIdleTyped ==
    ASSUME NEW k \in Nat, NEW w \in Waiting, NEW ts \in Seq(Task), Apart(ts),
           NEW r, r = ReleaseIfIdle(k, ts, w)
    PROVE  /\ r.tasks \in Seq(Task) /\ Apart(r.tasks) /\ r.waiting \in Waiting
           /\ \A N : Over(N, ts) => Over(N, r.tasks) \/ Over(Deferred, r.tasks)
<1>1. CASE ts = <<>>
  <2>1. r = ReleaseDeferred(k, w)
    BY <1>1 DEF ReleaseIfIdle
  <2> QED
    BY <2>1, ReleaseTyped
<1>2. CASE ts # <<>>
  <2>1. r = [tasks |-> ts, waiting |-> w]
    BY <1>2 DEF ReleaseIfIdle
  <2> QED
    BY <2>1
<1> QED
  BY <1>1, <1>2

\* The tasks of routed nodes and of Sends.
LEMMA NumberTyped ==
    ASSUME NEW N, N \subseteq Nodes, NEW a \in Seq(N), NEW b \in Seq(N), NEW k \in Nat,
           NEW ts, ts = NumberTasks(a, b, k)
    PROVE  ts \in Seq(Task) /\ Apart(ts) /\ Over(N, ts)
<1>1. a \o b \in Seq(N)
  BY ConcatProperties
<1>2. ts = [i \in DOMAIN (a \o b) |-> MakeTask(k, i - 1, (a \o b)[i])]
  BY DEF NumberTasks
<1> QED
  BY <1>1, <1>2, MadeTasks

\* The tasks of START: routed to, or deferred earlier (scheduleDefaultTasks).
LEMMA StartTyped ==
    ASSUME NEW k \in Nat, NEW routes \in StartRoutes, NEW w \in Waiting,
           NEW r, r = ScheduleStart(k, routes, w)
    PROVE  /\ r.tasks \in Seq(Task) /\ Apart(r.tasks) /\ r.waiting \in Waiting
           /\ DeferredApart(r.tasks)
           /\ StartsUntriggered => AllUntriggered(r.tasks)
<1> DEFINE N == {n \in Nodes \ Deferred : \E i \in DOMAIN routes : routes[i] = n}
           a == Scheduled(routes)
           ts == NumberTasks(a, <<>>, k)
           v == [w EXCEPT !.deferred = @ \cup DeferredIn(routes)]
<1>1. routes \in Seq(Destinations)
  BY RoutingAssumption
<1>2. a \in Seq(N) /\ <<>> \in Seq(N) /\ N \subseteq Nodes
  BY <1>1, ScheduledTyped
<1>3. v \in Waiting
  BY DEF Waiting, DeferredIn
<1>4. r = ReleaseIfIdle(k, ts, v)
  BY DEF ScheduleStart
<1>5. \A n \in N : n \notin Deferred
  OBVIOUS
<1>6. StartsUntriggered => \A n \in N \cup Deferred : Triggers[n] = {}
  <2>1. END \notin Nodes
    BY NodeNumbers
  <2> QED
    BY <2>1 DEF StartsUntriggered
<1> HIDE DEF N, a, v
<1>7. ts \in Seq(Task) /\ Apart(ts) /\ Over(N, ts)
  BY <1>2, NumberTyped
<1> HIDE DEF ts
<1>8. /\ r.tasks \in Seq(Task) /\ Apart(r.tasks) /\ r.waiting \in Waiting
      /\ Over(N, r.tasks) \/ Over(Deferred, r.tasks)
  BY <1>3, <1>4, <1>7, ReleaseIfIdleTyped
<1> QED
  BY <1>5, <1>6, <1>8 DEF Over, DeferredApart, AllUntriggered

\* The routes of a result (defaultRoutes, resolveNextWithStates).
LEMMA RoutesTyped ==
    ASSUME NEW r \in Result PROVE RoutesOf(r) \in Seq(Destinations)
<1>1. /\ r.branch \in Seq(Destinations) /\ r.node \in Nodes
      /\ (r.goto # NoGoto => r.goto \in Seq(Destinations))
  BY DEF Result
<1>2. Edges[r.node] \in Seq(Destinations)
  BY <1>1, RoutingAssumption
<1>3. DefaultRoutes(r) \in Seq(Destinations)
  BY <1>1, <1>2, ConcatProperties DEF DefaultRoutes
<1> QED
  BY <1>1, <1>3 DEF RoutesOf

\* The targets of the joins that fire.
LEMMA TargetsTyped ==
    ASSUME NEW results, NEW w
    PROVE  JoinTargets(results, w) \in Seq(Destinations)
<1> DEFINE I == {j \in DOMAIN Joins : JoinFires(j, results, w)}
           firing == Kept(Joins, I)
           targets == [k \in DOMAIN firing |-> firing[k].target]
<1>1. Joins \in Seq([sources: SUBSET Nodes, target: Nodes])
  BY RoutingAssumption
<1>2. JoinTargets(results, w) = targets
  BY DEF JoinTargets
<1> HIDE DEF I
<1>3. firing \in Seq([sources: SUBSET Nodes, target: Nodes])
  BY <1>1, KeptFacts
<1> HIDE DEF firing
<1>4. /\ DOMAIN firing = 1 .. Len(firing) /\ Len(firing) \in Nat
      /\ \A k \in DOMAIN firing : firing[k] \in [sources: SUBSET Nodes, target: Nodes]
  <2>1. DOMAIN firing = 1 .. Len(firing) /\ Len(firing) \in Nat
    BY <1>3, LenProperties
  <2>2. \A k \in DOMAIN firing : firing[k] \in [sources: SUBSET Nodes, target: Nodes]
    BY <1>3, InSeq
  <2> QED
    BY <2>1, <2>2
<1>5. \A k \in DOMAIN firing : firing[k].target \in Destinations
  BY <1>4 DEF Destinations
<1>6. targets \in [1 .. Len(firing) -> Destinations]
  BY <1>4, <1>5
<1> QED
  BY <1>2, <1>4, <1>6, IsASeq

\* The joins after a super-step.
LEMMA JoinsTyped ==
    ASSUME NEW results, NEW w \in Waiting
    PROVE  JoinsAfter(results, w) \in [DOMAIN Joins -> SUBSET Nodes]
<1>1. \A j \in DOMAIN Joins : Joins[j].sources \subseteq Nodes
  <2>1. Joins \in Seq([sources: SUBSET Nodes, target: Nodes])
    BY RoutingAssumption
  <2>2. \A j \in DOMAIN Joins : Joins[j] \in [sources: SUBSET Nodes, target: Nodes]
    BY <2>1, InSeq
  <2> QED
    BY <2>2
<1>2. \A j \in DOMAIN Joins : w.joins[j] \subseteq Nodes
  BY DEF Waiting
<1>3. \A j \in DOMAIN Joins : FilledJoin(j, results, w) \subseteq Nodes
  BY <1>1, <1>2 DEF FilledJoin
<1> QED
  BY <1>3 DEF JoinsAfter

\* The Sends of the results go to nodes, and to ordinary ones if all of them do.
LEMMA SendsTyped ==
    ASSUME NEW N, NEW results \in Seq(Result),
           \A i \in DOMAIN results : results[i].sends \in Seq(N)
    PROVE  FlattenSeq([i \in DOMAIN results |-> results[i].sends]) \in Seq(N)
<1> DEFINE ss == [i \in DOMAIN results |-> results[i].sends]
<1>1. DOMAIN results = 1 .. Len(results) /\ Len(results) \in Nat
  OBVIOUS
<1>2. ss \in [1 .. Len(results) -> Seq(N)]
  BY <1>1
<1> HIDE DEF ss
<1>3. ss \in Seq(Seq(N))
  BY <1>1, <1>2, IsASeq
<1>4. FlattenSeq(ss) \in Seq(N)
  BY <1>3, FlattenTyped
<1> QED
  BY <1>4 DEF ss

\* The tasks after a super-step: routed to, sent to, or deferred (resolveNextTasks).
LEMMA ResolveTyped ==
    ASSUME NEW k \in Nat, NEW results \in Seq(Result), NEW w \in Waiting,
           SendsOrdinary => \A i \in DOMAIN results : results[i].sends \in Seq(Nodes \ Deferred),
           NEW r, r = ResolveNext(k, results, w)
    PROVE  /\ r.tasks \in Seq(Task) /\ Apart(r.tasks) /\ r.waiting \in Waiting
           /\ SendsOrdinary => DeferredApart(r.tasks)
<1> DEFINE N == IF SendsOrdinary THEN Nodes \ Deferred ELSE Nodes
           rs == [i \in DOMAIN results |-> RoutesOf(results[i])]
           dests == FlattenSeq(rs) \o JoinTargets(results, w)
           sends == FlattenSeq([i \in DOMAIN results |-> results[i].sends])
           a == Scheduled(dests)
           ts == NumberTasks(a, sends, k + 1)
           v == [joins |-> JoinsAfter(results, w), deferred |-> w.deferred \cup DeferredIn(dests)]
<1>1. DOMAIN results = 1 .. Len(results) /\ Len(results) \in Nat
      /\ \A i \in DOMAIN results : results[i] \in Result
  OBVIOUS
<1>2. rs \in Seq(Seq(Destinations))
  <2>1. rs \in [1 .. Len(results) -> Seq(Destinations)]
    BY <1>1, RoutesTyped
  <2> QED
    BY <1>1, <2>1, IsASeq
<1>3. r = ReleaseIfIdle(k + 1, ts, v)
  BY DEF ResolveNext
<1>4. N \subseteq Nodes /\ (SendsOrdinary => N = Nodes \ Deferred) /\ Nodes \ Deferred \subseteq N
  OBVIOUS
<1> HIDE DEF N, rs
<1>5. dests \in Seq(Destinations)
  BY <1>2, FlattenTyped, TargetsTyped, ConcatProperties
<1>6. sends \in Seq(N)
  <2>1. \A i \in DOMAIN results : results[i].sends \in Seq(Nodes)
    BY <1>1 DEF Result
  <2>2. \A i \in DOMAIN results : results[i].sends \in Seq(N)
    BY <2>1 DEF N
  <2> QED
    BY <2>2, SendsTyped
<1>7. v \in Waiting
  <2>1. w.deferred \cup DeferredIn(dests) \in SUBSET Deferred
    BY DEF Waiting, DeferredIn
  <2> QED
    BY <2>1, JoinsTyped, WaitingRecord
<1> HIDE DEF dests, sends, v
<1>8. a \in Seq(N)
  BY <1>4, <1>5, ScheduledTyped
<1> HIDE DEF a
<1>9. ts \in Seq(Task) /\ Apart(ts) /\ Over(N, ts)
  <2>1. k + 1 \in Nat
    OBVIOUS
  <2> QED
    BY <1>4, <1>6, <1>8, <2>1, NumberTyped
<1> HIDE DEF ts
<1>10. /\ r.tasks \in Seq(Task) /\ Apart(r.tasks) /\ r.waiting \in Waiting
       /\ Over(N, r.tasks) \/ Over(Deferred, r.tasks)
  BY <1>3, <1>7, <1>9, ReleaseIfIdleTyped
<1> QED
  BY <1>4, <1>10 DEF Over, DeferredApart

\* The inductive invariant: the tasks of the run and those of its checkpoint are
\* sound, checkpoints are numbered by super-steps, and each invocation adds at most
\* one step beyond the limit.
StepsCounted ==
    /\ status = "running" => runs > 0
    /\ runs = 0 => head.id = 0 /\ step = 0 /\ head.next = <<>>
    /\ runs > 0 => head.id = step + 1 /\ step <= RecursionLimit + runs - 1

TasksSound(ts) == Apart(ts) /\ (SendsOrdinary => DeferredApart(ts))

RInv ==
    /\ TypeOK
    /\ TasksSound(tasks) /\ TasksSound(head.next)
    /\ StepsCounted
    /\ StartsUntriggered => RunMatchesCheckpoint

\* The bounds are numbers.
LEMMA Limits == RecursionLimit \in Nat \ {0} /\ MaxRuns \in Nat \ {0}
BY SuperStepsAssumption

\* No tasks are sound tasks.
LEMMA NoTasks == <<>> \in Seq(Task) /\ TasksSound(<<>>)
BY DEF TasksSound, Apart, DeferredApart

\* Nothing is waiting at first.
LEMMA NoWaiting == EmptyWaiting \in Waiting
BY DEF EmptyWaiting, Waiting

\* The initial thread satisfies the invariant.
LEMMA RInit == Init => RInv
<1> SUFFICES ASSUME Init PROVE RInv
  OBVIOUS
<1>1. versions \in [Channels -> Nat] /\ seen \in [Nodes -> [ran: BOOLEAN, at: [Channels -> Nat]]]
  BY DEF Init, NeverRan, NoVersions
<1>2. head \in [id: 0 .. MaxSteps + 1, next: Seq(Task), waiting: Waiting] /\ step \in 0 .. MaxSteps
  BY NoTasks, NoWaiting, Limits DEF Init, MaxSteps
<1>3. completed \in [Nodes -> Nat] /\ fired \in [DOMAIN Joins -> Nat]
  BY DEF Init
<1>4. status = "idle" /\ tasks = <<>> /\ waiting = EmptyWaiting /\ runs = 0 /\ runs \in 0 .. MaxRuns
  BY Limits DEF Init
<1>5. TypeOK
  BY <1>1, <1>2, <1>3, <1>4, NoTasks, NoWaiting DEF TypeOK
<1>6. StepsCounted
  BY <1>4 DEF Init, StepsCounted
<1>7. TasksSound(tasks) /\ TasksSound(head.next)
  BY NoTasks DEF Init
<1>8. RunMatchesCheckpoint
  BY <1>4 DEF RunMatchesCheckpoint
<1> QED
  BY <1>5, <1>6, <1>7, <1>8 DEF RInv

\* The versions of a new checkpoint.
LEMMA VersionsTyped ==
    ASSUME NEW v \in [Channels -> Nat], NEW c, NEW id \in Nat
    PROVE  NextVersions(v, c, id) \in [Channels -> Nat]
BY DEF NextVersions

\* What the nodes have seen.
LEMMA SeenTyped ==
    ASSUME NEW v \in [Channels -> Nat], NEW ran,
           NEW s \in [Nodes -> [ran: BOOLEAN, at: [Channels -> Nat]]]
    PROVE  NextSeen(s, v, ran) \in [Nodes -> [ran: BOOLEAN, at: [Channels -> Nat]]]
<1>1. \A n \in Nodes : [c \in Channels |-> IF c \in Reads[n] THEN v[c] ELSE 0] \in [Channels -> Nat]
  OBVIOUS
<1> QED
  BY <1>1 DEF NextSeen

\* The checkpoint of a boundary.
LEMMA HeadTyped ==
    ASSUME NEW n, NEW id \in 0 .. n, NEW ts \in Seq(Task), NEW w \in Waiting
    PROVE  /\ [id |-> id, next |-> ts, waiting |-> w] \in [id: 0 .. n, next: Seq(Task), waiting: Waiting]
           /\ [id |-> id, waiting |-> w, next |-> ts] \in [id: 0 .. n, next: Seq(Task), waiting: Waiting]
OBVIOUS

\* An invocation starts: its tasks are sound, and so are the fresh ones.
LEMMA RStartRun ==
    ASSUME RInv, NEW routes \in StartRoutes, NEW changed, StartRun(routes, changed)
    PROVE  RInv'
<1> DEFINE taskStep == IF head.id = 0 THEN 0 ELSE step + 1
           started == ScheduleStart(taskStep, routes, head.waiting)
           newVersions == NextVersions(versions, changed, head.id + 1)
           fresh == FreshTasks(started.tasks, newVersions, seen)
<1>1. /\ runs < MaxRuns /\ status' = "running" /\ step' = taskStep
      /\ tasks' = started.tasks /\ waiting' = started.waiting /\ versions' = newVersions
      /\ head' = [id |-> head.id + 1, waiting |-> started.waiting, next |-> fresh]
      /\ runs' = runs + 1 /\ seen' = seen /\ completed' = completed /\ fired' = fired
  BY DEF StartRun
<1>2. /\ step \in 0 .. MaxSteps /\ runs \in 0 .. MaxRuns
      /\ head \in [id: 0 .. MaxSteps + 1, next: Seq(Task), waiting: Waiting]
      /\ head.waiting \in Waiting /\ head.id \in Nat
      /\ versions \in [Channels -> Nat]
      /\ seen \in [Nodes -> [ran: BOOLEAN, at: [Channels -> Nat]]]
      /\ completed \in [Nodes -> Nat] /\ fired \in [DOMAIN Joins -> Nat]
      /\ MaxSteps = RecursionLimit + MaxRuns - 1 /\ StepsCounted
  BY Limits DEF RInv, TypeOK, MaxSteps
<1>3. taskStep \in Nat /\ head.id + 1 = taskStep + 1 /\ taskStep <= RecursionLimit + runs
  BY <1>2, Limits DEF StepsCounted
<1>4. /\ started.tasks \in Seq(Task) /\ Apart(started.tasks) /\ started.waiting \in Waiting
      /\ DeferredApart(started.tasks)
      /\ StartsUntriggered => AllUntriggered(started.tasks)
  BY <1>2, <1>3, StartTyped
<1> HIDE DEF started, newVersions, taskStep
<1>5. /\ fresh \in Seq(Task) /\ Apart(fresh)
      /\ Fewer(fresh, started.tasks)
      /\ AllUntriggered(started.tasks) => fresh = started.tasks
  <2>1. fresh = FreshTasks(started.tasks, newVersions, seen)
    OBVIOUS
  <2> HIDE DEF fresh
  <2> QED
    BY <1>4, <2>1, FreshKeeps
<1>6. DeferredApart(fresh)
  BY <1>4, <1>5, OverDeferred
<1> HIDE DEF fresh
<1>7. runs' \in 0 .. MaxRuns /\ step' \in 0 .. MaxSteps
      /\ head.id + 1 \in 0 .. MaxSteps + 1
  BY <1>1, <1>2, <1>3, Limits
<1>8. head' \in [id: 0 .. MaxSteps + 1, next: Seq(Task), waiting: Waiting]
  BY <1>1, <1>4, <1>5, <1>7, HeadTyped
<1>9. versions' \in [Channels -> Nat]
  <2>1. head.id + 1 \in Nat
    BY <1>2
  <2> QED
    BY <1>1, <1>2, <2>1, VersionsTyped DEF newVersions
<1>10. TypeOK'
  BY <1>1, <1>2, <1>4, <1>7, <1>8, <1>9 DEF TypeOK, MaxSteps
<1>11. head'.id = head.id + 1 /\ head'.next = fresh /\ head'.waiting = started.waiting
  BY <1>1
<1>12. StepsCounted'
  BY <1>1, <1>2, <1>3, <1>11 DEF StepsCounted
<1>13. TasksSound(tasks') /\ TasksSound(head'.next)
  BY <1>1, <1>4, <1>5, <1>6, <1>11 DEF TasksSound
<1>14. StartsUntriggered => RunMatchesCheckpoint'
  BY <1>1, <1>4, <1>5, <1>11 DEF RunMatchesCheckpoint
<1> QED
  BY <1>10, <1>12, <1>13, <1>14 DEF RInv

\* The results of a super-step are results of its tasks' nodes.
LEMMA ResultsTyped ==
    ASSUME NEW ts \in Seq(Task), NEW results \in [DOMAIN ts -> UNION {Outcomes[n] : n \in Nodes}],
           \A i \in DOMAIN ts : results[i] \in Outcomes[ts[i].node]
    PROVE  /\ results \in Seq(Result)
           /\ SendsOrdinary => \A i \in DOMAIN results : results[i].sends \in Seq(Nodes \ Deferred)
<1>1. DOMAIN ts = 1 .. Len(ts) /\ Len(ts) \in Nat /\ DOMAIN results = DOMAIN ts
  OBVIOUS
<1>2. ASSUME NEW i \in DOMAIN ts
      PROVE  ts[i].node \in Nodes /\ results[i] \in Outcomes[ts[i].node] /\ results[i] \in Result
  <2>1. ts[i] \in Task
    BY InSeq
  <2>2. ts[i].node \in Nodes
    BY <2>1 DEF Task
  <2> QED
    BY <2>2, SuperStepsAssumption
<1>3. results \in Seq(Result)
  <2>1. results \in [1 .. Len(ts) -> Result]
    BY <1>1, <1>2
  <2> QED
    BY <1>1, <2>1, IsASeq
<1>4. ASSUME SendsOrdinary, NEW i \in DOMAIN results
      PROVE  results[i].sends \in Seq(Nodes \ Deferred)
  <2>1. results[i].sends \in Seq(Nodes)
    BY <1>1, <1>2 DEF Result
  <2> DEFINE q == results[i].sends
  <2>2. \A k \in DOMAIN q : q[k] \notin Deferred
    BY <1>1, <1>2, <1>4 DEF SendsOrdinary
  <2>3. \A k \in 1 .. Len(q) : q[k] \in Nodes \ Deferred
    BY <2>1, <2>2
  <2> QED
    BY <2>1, <2>3, SeqOver
<1> QED
  BY <1>3, <1>4

\* A super-step: the run goes on with the tasks that its checkpoint stores.
LEMMA RSuperStep ==
    ASSUME RInv, NEW results \in [DOMAIN tasks -> UNION {Outcomes[n] : n \in Nodes}],
           \A i \in DOMAIN tasks : results[i] \in Outcomes[tasks[i].node],
           NEW changed, SuperStep(results, changed)
    PROVE  RInv'
<1> DEFINE next == ResolveNext(step, results, waiting)
           newVersions == NextVersions(versions, changed, head.id + 1)
           ran == {results[i].node : i \in DOMAIN results}
           newSeen == NextSeen(seen, versions, ran)
           fresh == FreshTasks(next.tasks, newVersions, newSeen)
           more == [n \in Nodes |-> completed[n] + IF n \in ran THEN 1 ELSE 0]
           again == [j \in DOMAIN Joins |-> fired[j] + IF JoinFires(j, results, waiting) THEN 1 ELSE 0]
<1>1. /\ status = "running" /\ ~LimitReached
      /\ tasks' = fresh /\ waiting' = next.waiting /\ versions' = newVersions
      /\ seen' = newSeen
      /\ head' = [id |-> head.id + 1, next |-> fresh, waiting |-> next.waiting]
      /\ step' = step + 1 /\ completed' = more /\ fired' = again
      /\ status' = status /\ runs' = runs
  BY DEF SuperStep, HeldTasks
<1>2. /\ step \in 0 .. MaxSteps /\ runs \in 0 .. MaxRuns /\ tasks \in Seq(Task)
      /\ waiting \in Waiting
      /\ head \in [id: 0 .. MaxSteps + 1, next: Seq(Task), waiting: Waiting]
      /\ head.id \in Nat
      /\ versions \in [Channels -> Nat]
      /\ seen \in [Nodes -> [ran: BOOLEAN, at: [Channels -> Nat]]]
      /\ completed \in [Nodes -> Nat] /\ fired \in [DOMAIN Joins -> Nat]
      /\ MaxSteps = RecursionLimit + MaxRuns - 1 /\ StepsCounted
  BY Limits DEF RInv, TypeOK, MaxSteps
<1>3. more \in [Nodes -> Nat] /\ again \in [DOMAIN Joins -> Nat]
  BY <1>2
<1> HIDE DEF more, again
<1>4. results \in Seq(Result)
      /\ (SendsOrdinary => \A i \in DOMAIN results : results[i].sends \in Seq(Nodes \ Deferred))
  BY <1>2, ResultsTyped
<1>5. step \in Nat
  BY <1>2, Limits
<1>6. /\ next.tasks \in Seq(Task) /\ Apart(next.tasks) /\ next.waiting \in Waiting
      /\ SendsOrdinary => DeferredApart(next.tasks)
  BY <1>2, <1>4, <1>5, ResolveTyped
<1> HIDE DEF next
<1>7. newVersions \in [Channels -> Nat]
      /\ newSeen \in [Nodes -> [ran: BOOLEAN, at: [Channels -> Nat]]]
  <2>1. head.id + 1 \in Nat
    BY <1>2
  <2> HIDE DEF ran
  <2> QED
    BY <1>2, <2>1, VersionsTyped, SeenTyped
<1> HIDE DEF newVersions, newSeen
<1>8. fresh \in Seq(Task) /\ Apart(fresh)
      /\ Fewer(fresh, next.tasks)
  <2>1. fresh = FreshTasks(next.tasks, newVersions, newSeen)
    OBVIOUS
  <2> HIDE DEF fresh
  <2> QED
    BY <1>6, <2>1, FreshKeeps
<1>9. SendsOrdinary => DeferredApart(fresh)
  BY <1>6, <1>8, OverDeferred
<1> HIDE DEF fresh
<1>10. /\ step + 1 \in 0 .. MaxSteps /\ head.id + 1 \in 0 .. MaxSteps + 1
       /\ head.id + 1 = step + 2 /\ step + 1 <= RecursionLimit + runs - 1 /\ runs > 0
  BY <1>1, <1>2, Limits DEF StepsCounted, LimitReached
<1>11. head' \in [id: 0 .. MaxSteps + 1, next: Seq(Task), waiting: Waiting]
  BY <1>1, <1>6, <1>8, <1>10, HeadTyped
<1>12. TypeOK'
  BY <1>1, <1>2, <1>3, <1>6, <1>7, <1>8, <1>10, <1>11 DEF TypeOK, MaxSteps
<1>13. head'.id = head.id + 1 /\ head'.next = fresh /\ head'.waiting = next.waiting
  BY <1>1
<1>14. StepsCounted'
  BY <1>1, <1>2, <1>5, <1>10, <1>13 DEF StepsCounted
<1>15. TasksSound(tasks') /\ TasksSound(head'.next)
  BY <1>1, <1>8, <1>9, <1>13 DEF TasksSound
<1>16. RunMatchesCheckpoint'
  BY <1>1, <1>13 DEF RunMatchesCheckpoint
<1> QED
  BY <1>12, <1>14, <1>15, <1>16 DEF RInv

\* Every step keeps the invariant.
LEMMA RNext == RInv /\ [Next]_vars => RInv'
<1> SUFFICES ASSUME RInv, [Next]_vars PROVE RInv'
  OBVIOUS
<1>1. CASE \E routes \in StartRoutes, changed \in SUBSET Channels :
              StartRun(routes, changed)
  BY <1>1, RStartRun
<1>2. CASE AnySuperStep
  BY <1>2, RSuperStep DEF AnySuperStep
<1>3. CASE ContinueRun
  <2>1. /\ runs < MaxRuns /\ status' = "running" /\ tasks' = head.next /\ waiting' = head.waiting
        /\ runs' = runs + 1 /\ head.next # <<>> /\ step' = step /\ head' = head
        /\ versions' = versions /\ seen' = seen /\ completed' = completed /\ fired' = fired
    BY <1>3 DEF ContinueRun
  <2>2. runs \in 0 .. MaxRuns /\ step \in 0 .. MaxSteps /\ head.id \in Nat
    BY Limits DEF RInv, TypeOK, MaxSteps
  <2>3. runs' \in 0 .. MaxRuns /\ runs' > 0 /\ runs > 0
    BY <2>1, <2>2, Limits DEF RInv, StepsCounted
  <2>4. head.next \in Seq(Task) /\ head.waiting \in Waiting
    BY DEF RInv, TypeOK
  <2>5. TypeOK'
    BY <2>1, <2>3, <2>4 DEF RInv, TypeOK, MaxSteps
  <2>6. StepsCounted'
    <3>1. step \in Nat
      BY <2>2, Limits DEF MaxSteps
    <3> QED
      BY <2>1, <2>2, <2>3, <3>1, Limits DEF RInv, StepsCounted
  <2>7. TasksSound(tasks') /\ TasksSound(head'.next) /\ RunMatchesCheckpoint'
    BY <2>1 DEF RInv, RunMatchesCheckpoint
  <2> QED
    BY <2>5, <2>6, <2>7 DEF RInv
<1>4. CASE Finish
  BY <1>4 DEF Finish, RInv, TypeOK, MaxSteps, StepsCounted, RunMatchesCheckpoint
<1>5. CASE RecursionStop
  BY <1>5 DEF RecursionStop, RInv, TypeOK, MaxSteps, StepsCounted, RunMatchesCheckpoint
<1>6. CASE Stop
  <2>1. tasks' = <<>> /\ waiting' = EmptyWaiting
    BY <1>6 DEF Stop
  <2>2. tasks' \in Seq(Task) /\ TasksSound(tasks') /\ waiting' \in Waiting
    BY <2>1, NoTasks, NoWaiting
  <2>3. TypeOK'
    BY <1>6, <2>2 DEF Stop, RInv, TypeOK, MaxSteps
  <2>4. StepsCounted' /\ RunMatchesCheckpoint'
    BY <1>6 DEF Stop, RInv, StepsCounted, RunMatchesCheckpoint
  <2>5. head' = head
    BY <1>6 DEF Stop
  <2> QED
    BY <2>2, <2>3, <2>4, <2>5 DEF RInv
<1>7. CASE UNCHANGED vars
  BY <1>7 DEF vars, RInv, TypeOK, MaxSteps, StepsCounted, RunMatchesCheckpoint
<1> QED
  BY <1>1, <1>2, <1>3, <1>4, <1>5, <1>6, <1>7 DEF Next

\* The state of a run is well formed and its task IDs are unique, Sends included, in
\* every graph; and where START and the deferred nodes are not subject to the
\* freshness filter, what a run is about to execute is what its latest checkpoint
\* would recover (resolveNextTasks, scheduleTasks, commitCheckpoint, restoreRun).
THEOREM RunsAreConsistent ==
    Spec => [](TypeOK /\ TaskIDsUnique /\ (StartsUntriggered => RunConsistent))
<1>1. RInv => TypeOK /\ TaskIDsUnique /\ (StartsUntriggered => RunConsistent)
  BY DEF RInv, TasksSound, Apart, TaskIDsUnique, RunConsistent
<1> QED
  BY <1>1, RInit, RNext, PTL DEF Spec

\* Deferred nodes run in super-steps of their own, in every graph whose Sends do not
\* target them (releaseDeferredTasks, resolveNextTasks, restoreRun).
THEOREM DeferredNodesRunLast == Spec => [](SendsOrdinary => DeferredRunLast)
<1>1. RInv => (SendsOrdinary => DeferredRunLast)
  BY DEF RInv, TasksSound, DeferredApart, DeferredRunLast
<1> QED
  BY <1>1, RInit, RNext, PTL DEF Spec

-----------------------------------------------------------------------------
(***************************************************************************)
(* Attempts: deadlines, verdicts and retries of one node or task.          *)
(***************************************************************************)
\* What an attempt may be judged to be.
AttemptOutcomes ==
    BodyResults \cup Unreported \cup {"none", "canceled", "timeout", "panic", "ok", "error"}
Causes == [why : {"open", "run", "idle", "parent", "outer"}, time : Nat]
Reports == [of : Nat, what : {"end", "error"}]

AttemptTypeOK ==
    /\ unit \in {"node", "task"}
    /\ stage \in {"new", "body", "stopping", "backoff", "ended"}
    /\ try \in Nat /\ clock \in Nat /\ idleAt \in Nat /\ lastBeat \in Nat
    /\ beat \in BOOLEAN /\ watcher \in BOOLEAN /\ runCanceled \in {"no", "parent", "outer"}
    /\ cause \in Causes /\ res \in AttemptOutcomes
    /\ verdicts \in Seq(AttemptOutcomes)
    /\ reports \in Seq(Reports)

\* The idle timer runs from the last heartbeat; the deadlines that were declared had
\* passed, and their watcher is gone.
DeadlinesKept ==
    /\ idleAt = lastBeat + IdleTimeout
    /\ cause.why = "run" => RunTimeout > 0 /\ cause.time >= RunTimeout
    /\ cause.why = "idle" => IdleTimeout > 0 /\ cause.time - lastBeat >= IdleTimeout
    /\ cause.why \in {"parent", "outer"} => runCanceled = cause.why
    /\ watcher => Live /\ cause.why \notin {"run", "idle"}

\* How many attempts have started and how many were judged, by the stage.
AttemptsCounted ==
    /\ try <= MaxAttempts
    /\ (stage = "new") = (try = 0)
    /\ stage = "backoff" => try < MaxAttempts
    /\ Len(verdicts) = IF Live THEN try - 1 ELSE try

\* An attempt that was followed by another, or is about to be, was retried; the
\* last verdict of a node that was timed out says so.
VerdictsJudged ==
    /\ \A i \in 1 .. Len(verdicts) : i < try \/ stage = "backoff" => Retried(verdicts[i])
    /\ stage \in {"backoff", "ended"} /\ unit = "node" /\ TimedOut
          => verdicts[try] \in {"timeout", "panic"} \cup Unreported
    /\ stage = "new" => ~TimedOut

\* The callbacks of a node heard once of every verdict on a body that was called, and
\* of nothing else.
ReportsMatch ==
    /\ \A i \in 1 .. Len(reports) :
          /\ reports[i].of \in 1 .. Len(verdicts) /\ verdicts[reports[i].of] \notin Unreported
          /\ (reports[i].what = "end") = (verdicts[reports[i].of] \in Completed)
    /\ \A i, j \in 1 .. Len(reports) : reports[i].of = reports[j].of => i = j
    /\ unit = "node" =>
          \A k \in 1 .. Len(verdicts) : verdicts[k] \notin Unreported =>
             \E i \in 1 .. Len(reports) : reports[i].of = k

AttemptInv == AttemptTypeOK /\ DeadlinesKept /\ AttemptsCounted /\ VerdictsJudged /\ ReportsMatch

-----------------------------------------------------------------------------
\* The outcomes that the code itself produces.
LEMMA OutcomeFacts ==
    /\ BodyResults \subseteq AttemptOutcomes
    /\ Unreported \subseteq AttemptOutcomes
    /\ \A o \in {"none", "canceled", "timeout", "panic", "ok", "error"} : o \in AttemptOutcomes
BY DEF AttemptOutcomes

\* A node or task that was not yet started.
LEMMA AttemptInitInv == AttemptInit => AttemptInv
<1> SUFFICES ASSUME AttemptInit PROVE AttemptInv
  OBVIOUS
<1> USE AttemptAssumption DEF AttemptInit, OpenContext
<1>1. AttemptTypeOK
  <2>1. cause \in Causes
    BY DEF Causes, AttemptTypeOK
  <2>2. beat \in BOOLEAN /\ watcher \in BOOLEAN
    BY DEF AttemptTypeOK
  <2> QED BY <2>1, <2>2, OutcomeFacts DEF AttemptTypeOK
<1>2. DeadlinesKept /\ AttemptsCounted
  BY DEF DeadlinesKept, AttemptsCounted, Live, TimedOut
<1>3. VerdictsJudged /\ ReportsMatch
  BY DEF VerdictsJudged, ReportsMatch, TimedOut
<1> QED BY <1>1, <1>2, <1>3 DEF AttemptInv

\* A new attempt starts with its own timers; the one before was retried.
LEMMA StartStep == ASSUME AttemptInv, Start PROVE AttemptInv'
<1> USE AttemptAssumption DEF AttemptInv, Start
<1>1. AttemptTypeOK'
  <2>1. cause' \in Causes
    BY DEF Causes, AttemptTypeOK, OpenContext
  <2>2. beat' \in BOOLEAN /\ watcher' \in BOOLEAN
    BY DEF AttemptTypeOK, OpenContext, Watched
  <2> QED BY <2>1, <2>2, OutcomeFacts DEF AttemptTypeOK, OpenContext
<1>2. DeadlinesKept'
  BY DEF DeadlinesKept, OpenContext, Live, TimedOut, AttemptTypeOK
<1>3. AttemptsCounted'
  BY DEF AttemptsCounted, Live, AttemptTypeOK
<1>4. VerdictsJudged'
  BY DEF VerdictsJudged, AttemptsCounted, Live, TimedOut, Retried, AttemptTypeOK
<1>5. ReportsMatch'
  BY DEF ReportsMatch
<1> QED BY <1>1, <1>2, <1>3, <1>4, <1>5

\* Time passes, the run is cancelled, a body sends a heartbeat.
LEMMA EnvironmentStep ==
    ASSUME AttemptInv, Tick \/ ParentCanceled \/ Heartbeat PROVE AttemptInv'
<1> USE AttemptAssumption DEF AttemptInv, Tick, ParentCanceled, Heartbeat, CanceledBy, OpenContext
<1>1. AttemptTypeOK'
  <2>1. cause' \in Causes
    BY DEF Causes, AttemptTypeOK
  <2>2. beat' \in BOOLEAN /\ watcher' \in BOOLEAN
    BY DEF AttemptTypeOK
  <2> QED BY <2>1, <2>2, OutcomeFacts DEF AttemptTypeOK
<1>2. DeadlinesKept'
  BY DEF DeadlinesKept, Live, TimedOut, AttemptTypeOK
<1>3. AttemptsCounted'
  BY DEF AttemptsCounted, Live
<1>4. VerdictsJudged'
  BY DEF VerdictsJudged, TimedOut, Retried, Live
<1>5. ReportsMatch'
  BY DEF ReportsMatch
<1> QED BY <1>1, <1>2, <1>3, <1>4, <1>5

\* The watcher cancels the attempt for a deadline that has passed, or leaves.
LEMMA WatcherStep == ASSUME AttemptInv, Watcher PROVE AttemptInv'
<1> USE AttemptAssumption
    DEF AttemptInv, Watcher, WatchRun, WatchIdle, WatchParent, WatchStop, WatchBeat, WatcherEnds,
        CanceledBy,
        OpenContext
<1>1. AttemptTypeOK'
  <2>1. cause' \in Causes
    BY DEF Causes, AttemptTypeOK
  <2>2. beat' \in BOOLEAN /\ watcher' \in BOOLEAN
    BY DEF AttemptTypeOK
  <2> QED BY <2>1, <2>2, OutcomeFacts DEF AttemptTypeOK
<1>2. DeadlinesKept'
  BY DEF DeadlinesKept, Live, TimedOut, AttemptTypeOK, Causes
<1>3. AttemptsCounted'
  BY DEF AttemptsCounted, Live
<1>4. VerdictsJudged'
  BY DEF VerdictsJudged, DeadlinesKept, TimedOut, Retried, Live
<1>5. ReportsMatch'
  BY DEF ReportsMatch
<1> QED BY <1>1, <1>2, <1>3, <1>4, <1>5

\* The body returns by itself, or because its context was cancelled.
LEMMA BodyReturnsStep == ASSUME AttemptInv, BodyReturns PROVE AttemptInv'
<1> USE DEF AttemptInv, BodyReturns
<1>1. AttemptTypeOK'
  BY OutcomeFacts DEF AttemptTypeOK
<1>2. DeadlinesKept'
  BY DEF DeadlinesKept, Live, TimedOut
<1>3. AttemptsCounted'
  BY DEF AttemptsCounted, Live
<1>4. VerdictsJudged'
  BY DEF VerdictsJudged, TimedOut, Retried
<1>5. ReportsMatch'
  BY DEF ReportsMatch
<1> QED BY <1>1, <1>2, <1>3, <1>4, <1>5

\* The verdict is the last element of verdicts; a node's is reported.
LEMMA JudgeStep == ASSUME AttemptInv, Judge PROVE AttemptInv'
<1> USE DEF AttemptInv
<1>1. PICK v \in Verdicts :
         /\ verdicts' = Append(verdicts, v)
         /\ reports' = IF unit = "task" \/ v \in Unreported THEN reports
                       ELSE Append(reports, Report(v))
         /\ stage' = IF Retried(v) /\ try < MaxAttempts THEN "backoff" ELSE "ended"
  BY DEF Judge
<1>2. /\ stage = "stopping" /\ ~watcher
      /\ UNCHANGED <<unit, try, clock, idleAt, beat, watcher, cause, res, runCanceled, lastBeat>>
  BY DEF Judge
<1>3. /\ v \in AttemptOutcomes
      /\ unit = "node" /\ TimedOut => v \in {"timeout", "panic"} \cup Unreported
  BY <1>1, OutcomeFacts DEF Verdicts, AttemptTypeOK
<1>4. /\ Len(verdicts) = try - 1 /\ try \in Nat \ {0} /\ Len(verdicts') = try
      /\ verdicts'[try] = v
      /\ \A i \in 1 .. Len(verdicts) : verdicts'[i] = verdicts[i]
  BY <1>1, <1>2, <1>3 DEF AttemptTypeOK, AttemptsCounted, Live
<1>5. AttemptTypeOK'
  <2>1. Report(v) \in Reports
    BY DEF Report, Reports, AttemptTypeOK
  <2> QED BY <1>1, <1>2, <1>3, <2>1 DEF AttemptTypeOK
<1>6. DeadlinesKept'
  BY <1>1, <1>2 DEF DeadlinesKept, Live
<1>7. AttemptsCounted'
  BY <1>1, <1>2, <1>4 DEF AttemptsCounted, Live
<1>8. VerdictsJudged'
  <2>1. ASSUME NEW i \in 1 .. Len(verdicts'), i < try' \/ stage' = "backoff"
        PROVE  Retried(verdicts'[i])
    <3>1. CASE i < try
      BY <1>2, <1>4, <3>1 DEF VerdictsJudged, Retried
    <3>2. CASE ~(i < try)
      BY <1>1, <1>2, <1>4, <2>1, <3>2 DEF Retried
    <3> QED BY <3>1, <3>2
  <2> QED BY <1>1, <1>2, <1>3, <1>4, <2>1 DEF VerdictsJudged, TimedOut, Retried
<1>9. ReportsMatch'
  <2>1. CASE unit = "task" \/ v \in Unreported
    <3>1. reports' = reports /\ (unit' = "node" => unit = "node" /\ v \in Unreported)
      BY <1>1, <1>2, <2>1
    <3>2. ASSUME NEW i \in 1 .. Len(reports)
          PROVE  /\ reports[i].of \in 1 .. Len(verdicts')
                 /\ verdicts'[reports[i].of] = verdicts[reports[i].of]
      BY <1>4 DEF ReportsMatch
    <3>3. ASSUME unit = "node", v \in Unreported,
                 NEW k \in 1 .. Len(verdicts'), verdicts'[k] \notin Unreported
          PROVE  \E i \in 1 .. Len(reports) : reports[i].of = k
      <4>1. k \in 1 .. Len(verdicts) /\ verdicts[k] \notin Unreported
        BY <1>4, <3>3
      <4> QED BY <3>3, <4>1 DEF ReportsMatch
    <3> QED BY <3>1, <3>2, <3>3 DEF ReportsMatch
  <2>2. CASE unit = "node" /\ v \notin Unreported
    <3>1. /\ Len(reports') = Len(reports) + 1 /\ Len(reports) \in Nat
          /\ reports'[Len(reports')] = Report(v)
          /\ \A i \in 1 .. Len(reports) : reports'[i] = reports[i]
      BY <1>1, <2>2 DEF AttemptTypeOK
    <3>2. /\ Report(v).of = try
          /\ (Report(v).what = "end") = (v \in Completed)
      BY DEF Report
    <3>3. ASSUME NEW i \in 1 .. Len(reports')
          PROVE  /\ reports'[i].of \in 1 .. Len(verdicts')
                 /\ verdicts'[reports'[i].of] \notin Unreported
                 /\ (reports'[i].what = "end") = (verdicts'[reports'[i].of] \in Completed)
                 /\ i \in 1 .. Len(reports) => reports'[i].of < try
      <4>1. CASE i \in 1 .. Len(reports)
        BY <1>4, <3>1, <4>1 DEF ReportsMatch
      <4>2. CASE i = Len(reports')
        BY <1>4, <2>2, <3>1, <3>2, <4>2
      <4> QED BY <3>1, <4>1, <4>2
    <3>4. ASSUME NEW i \in 1 .. Len(reports'), NEW j \in 1 .. Len(reports'),
                 reports'[i].of = reports'[j].of
          PROVE  i = j
      BY <1>4, <3>1, <3>2, <3>3, <3>4 DEF ReportsMatch
    <3>5. ASSUME NEW k \in 1 .. Len(verdicts'), verdicts'[k] \notin Unreported
          PROVE  \E i \in 1 .. Len(reports') : reports'[i].of = k
      <4>1. CASE k = try
        BY <3>1, <3>2, <4>1
      <4>2. CASE k # try
        <5>1. PICK i \in 1 .. Len(reports) : reports[i].of = k
          BY <1>4, <2>2, <3>5, <4>2 DEF ReportsMatch
        <5> QED BY <3>1, <5>1
      <4> QED BY <4>1, <4>2
    <3> QED BY <1>2, <3>3, <3>4, <3>5 DEF ReportsMatch
  <2> QED BY <2>1, <2>2 DEF AttemptTypeOK
<1> QED BY <1>5, <1>6, <1>7, <1>8, <1>9

\* The run is cancelled while a retry waits.
LEMMA BackoffCanceledStep == ASSUME AttemptInv, BackoffCanceled PROVE AttemptInv'
<1> USE DEF AttemptInv, BackoffCanceled
<1>1. AttemptTypeOK'
  BY DEF AttemptTypeOK
<1>2. DeadlinesKept' /\ AttemptsCounted'
  BY DEF DeadlinesKept, AttemptsCounted, Live, TimedOut
<1>3. VerdictsJudged' /\ ReportsMatch'
  BY DEF VerdictsJudged, ReportsMatch, TimedOut, Retried
<1> QED BY <1>1, <1>2, <1>3

\* A step that changes nothing keeps the invariant.
LEMMA AttemptStutter == ASSUME AttemptInv, UNCHANGED attemptVars PROVE AttemptInv'
BY DEF AttemptInv, AttemptTypeOK, DeadlinesKept, AttemptsCounted, VerdictsJudged, ReportsMatch,
       attemptVars,
       Live, TimedOut, Retried

\* The invariant says that attempts are judged by what ended them.
LEMMA AttemptInvSound == AttemptInv => AttemptSound
<1> SUFFICES ASSUME AttemptInv PROVE AttemptSound
  OBVIOUS
<1>1. DOMAIN verdicts = 1 .. Len(verdicts) /\ DOMAIN reports = 1 .. Len(reports)
  BY DEF AttemptInv, AttemptTypeOK
<1>2. Len(verdicts) \in {try, try - 1}
  BY DEF AttemptInv, AttemptsCounted
<1>3. unit = "node" =>
         {reports[i].of : i \in DOMAIN reports} = {k \in DOMAIN verdicts : verdicts[k] \notin Unreported}
  BY <1>1 DEF AttemptInv, ReportsMatch
<1>4. /\ \A i, j \in DOMAIN reports : reports[i].of = reports[j].of => i = j
      /\ \A i \in DOMAIN reports :
            (reports[i].what = "end") = (verdicts[reports[i].of] \in Completed)
  BY <1>1 DEF AttemptInv, ReportsMatch
<1> QED BY <1>1, <1>2, <1>3, <1>4
        DEF AttemptInv, AttemptSound, DeadlinesKept, AttemptsCounted, VerdictsJudged

\* Attempts of a node or a task are timed, retried, judged and reported as the policy
\* says, for every timeout and every number of attempts (withNodeTimeoutPolicy,
\* invokeNodeAttempt, invokeWithRetry, executeWithRetry).
THEOREM AttemptsSound == AttemptSpec => []AttemptSound
<1>1. AttemptInv /\ [AttemptNext]_attemptVars => AttemptInv'
  BY StartStep, EnvironmentStep, WatcherStep, BodyReturnsStep, JudgeStep, BackoffCanceledStep,
     AttemptStutter
     DEF AttemptNext
<1> QED BY AttemptInitInv, AttemptInvSound, <1>1, PTL DEF AttemptSpec

-----------------------------------------------------------------------------
(***************************************************************************)
(* Functional: what an invocation of a durable workflow uses is what its   *)
(* thread has recorded.                                                    *)
(***************************************************************************)
\* Pending writes: results by task, answers by prompt.
PromptIDs == (TaskIDs \cup {Entry}) \X Nat
PromptSets == SUBSET (PromptIDs \cup {<<>>})
ResultMaps == UNION {[D -> Nat] : D \in SUBSET TaskIDs}
AnswerMaps == UNION {[D -> AnswerValues \cup {0}] : D \in SUBSET PromptIDs}
WriteMaps == [results: ResultMaps, prompts: AnswerMaps]

ThreadRow ==
    [status: {"running", "complete"}, parent: Nat, input: Inputs \cup {0}, prev: Nat,
     writes: WriteMaps, used: WriteMaps]
TaskState ==
    [at: {"none", "queued", "started", "answered", "retry", "done", "failed"}, val: Nat, asked: Nat,
     answer: AnswerMaps, attempts: Nat, err: {"none", "failed", "interrupted"},
     prompt: PromptIDs \cup {<<>>}]
InvocationState ==
    [caller: Clients \cup {0}, attempt: Nat, recovered: WriteMaps, pc: Nat \ {0},
     task: [TaskIDs -> TaskState],
     entry: {"running", "ok", "none", "failed", "interrupted", "again"}, asked: Nat, answers: AnswerMaps,
     canceled: BOOLEAN, failed: BOOLEAN, prompts: PromptSets, own: PromptSets, calls: Nat]
CallState ==
    [at: {"idle", "waiting", "running", "told"}, input: Inputs \cup {0}, from: Nat, told: PromptSets,
     outcome: {"none", "failed", "interrupted", "complete", "invalid"}]
Grant == [prompts: PromptSets, answer: AnswerValues]

\* Checkpoints descend from older ones; an attempt keeps the value of the last
\* completed invocation of its branch, and a completed invocation has the input,
\* that value and the results of its attempt.
RowOK(h, th, i) ==
    /\ h = "entrypoint" /\ th[i].status = "running" => LastCompleted(th, th[i].prev, th[i].parent)
    /\ h = "entrypoint" /\ th[i].status = "complete" =>
         /\ th[i].parent # 0 /\ th[th[i].parent].status = "running"
         /\ th[i].prev = th[th[i].parent].prev
         /\ th[i].input = th[th[i].parent].input
         /\ KeptAgree(th[i].used.results, th[th[i].parent].writes.results)
    /\ h = "node" /\ th[i].status = "complete" => KeptAgree(th[i].used.results, th[i].writes.results)
Descending(th) == th \in Seq(ThreadRow) /\ \A i \in DOMAIN th : th[i].parent < i
ThreadOK(h, th) ==
    Descending(th) /\ (h = "node" => Len(th) = 1) /\ \A i \in DOMAIN th : RowOK(h, th, i)

\* A call names checkpoints of a thread of n.
CallOK(call, n) == call.from <= n /\ (call.at = "told" => n > 0)

\* What a task used: recovered answers and, if it is persistent, a recorded result.  What
\* is recorded beyond the recovered results was recorded by the invocation's own tasks.
TaskUses(entry, rec, w, t, task) ==
    /\ entry # "again" /\ t \in DOMAIN w.results => t \in DOMAIN rec.results \/ task.at = "done"
    /\ t \in Persistent /\ task.at = "done" => t \in DOMAIN w.results /\ w.results[t] = task.val
    /\ t \in Persistent /\ task.at \in {"started", "answered", "retry"} => t \notin DOMAIN rec.results
    /\ Agrees(task.answer, rec.prompts)
    /\ \A p \in DOMAIN task.answer : p[1] = t

\* What the invocation r recovered is still recorded (w), and it used nothing else.
Preserves(w, w2) == Agrees(w.results, w2.results) /\ Agrees(w.prompts, w2.prompts)
UsesRecorded(r, w) ==
    /\ Preserves(r.recovered, w)
    /\ Agrees(r.answers, r.recovered.prompts)
    /\ \A t \in TaskIDs : TaskUses(r.entry, r.recovered, w, t, r.task[t])

\* The body called every task that is there, once.
TaskCalled(entry, pc, t, task) ==
    task.at # "none" => entry # "again" /\ \E k \in DOMAIN Body : k < pc /\ Body[k] = <<"call", t>>
TasksCalled(r) == \A t \in TaskIDs : TaskCalled(r.entry, r.pc, t, r.task[t])

\* The holder of the thread's lock works on a running attempt of its own input.
Holds(h, th, r, call) ==
    /\ call.at = "running"
    /\ r.attempt \in DOMAIN th /\ th[r.attempt].status = "running"
    /\ h = "entrypoint" => th[r.attempt].input = call.input
    /\ UsesRecorded(r, th[r.attempt].writes)
    /\ TasksCalled(r)

FunctionalInv ==
    /\ host \in {"entrypoint", "node"}
    /\ ThreadOK(host, thread)
    /\ run \in InvocationState
    /\ caller \in [Clients -> CallState] /\ \A c \in Clients : CallOK(caller[c], Len(thread))
    /\ grants \in Seq(Grant) /\ values \in Nat
    /\ ~Busy => run = NoRun
    /\ Busy => Holds(host, thread, run, caller[run.caller])

-----------------------------------------------------------------------------
(***************************************************************************)
(* Records.                                                                *)
(***************************************************************************)
\* The maps of pending writes grow one key at a time.
LEMMA ExtendMaps ==
    /\ <<>> \in ResultMaps /\ <<>> \in AnswerMaps /\ DOMAIN <<>> = {}
    /\ \A f \in ResultMaps : DOMAIN f \subseteq TaskIDs /\ \A x \in DOMAIN f : f[x] \in Nat
    /\ \A f \in AnswerMaps :
         DOMAIN f \subseteq PromptIDs /\ \A x \in DOMAIN f : f[x] \in AnswerValues \cup {0}
    /\ \A f \in ResultMaps, k \in TaskIDs, v \in Nat : Extend(f, k, v) \in ResultMaps
    /\ \A f \in AnswerMaps, k \in PromptIDs, v \in AnswerValues \cup {0} : Extend(f, k, v) \in AnswerMaps
<1>1. /\ \A f \in ResultMaps : DOMAIN f \subseteq TaskIDs /\ \A x \in DOMAIN f : f[x] \in Nat
      /\ \A f \in AnswerMaps :
           DOMAIN f \subseteq PromptIDs /\ \A x \in DOMAIN f : f[x] \in AnswerValues \cup {0}
  BY DEF ResultMaps, AnswerMaps
<1>2. <<>> \in [{} -> Nat] /\ <<>> \in [{} -> AnswerValues \cup {0}] /\ DOMAIN <<>> = {}
  OBVIOUS
<1>3. <<>> \in ResultMaps /\ <<>> \in AnswerMaps
  BY <1>2 DEF ResultMaps, AnswerMaps
<1>4. ASSUME NEW f \in ResultMaps, NEW k \in TaskIDs, NEW v \in Nat PROVE Extend(f, k, v) \in ResultMaps
  <2>1. DOMAIN f \cup {k} \in SUBSET TaskIDs /\ Extend(f, k, v) \in [DOMAIN f \cup {k} -> Nat]
    BY <1>1 DEF Extend
  <2> QED
    BY <2>1 DEF ResultMaps
<1>5. ASSUME NEW f \in AnswerMaps, NEW k \in PromptIDs, NEW v \in AnswerValues \cup {0}
      PROVE  Extend(f, k, v) \in AnswerMaps
  <2>1. /\ DOMAIN f \cup {k} \in SUBSET PromptIDs
        /\ Extend(f, k, v) \in [DOMAIN f \cup {k} -> AnswerValues \cup {0}]
    BY <1>1 DEF Extend
  <2> QED
    BY <2>1 DEF AnswerMaps
<1> QED
  BY <1>1, <1>2, <1>3, <1>4, <1>5

\* Nothing is written, called or asked at the start.
LEMMA RestTyped ==
    /\ NothingWritten \in WriteMaps /\ NothingWritten.results = <<>> /\ NothingWritten.prompts = <<>>
    /\ NewTask \in TaskState /\ NewTask.at = "none" /\ NewTask.answer = <<>>
    /\ NoRun \in InvocationState /\ NoRun.caller = 0 /\ NoRun.recovered = NothingWritten
    /\ NoRun.entry = "running" /\ NoRun.answers = <<>> /\ \A t \in TaskIDs : NoRun.task[t] = NewTask
    /\ NoCall \in CallState /\ NoCall.at = "idle" /\ NoCall.from = 0
<1>1. NothingWritten \in WriteMaps /\ NothingWritten.results = <<>> /\ NothingWritten.prompts = <<>>
  BY ExtendMaps DEF NothingWritten, WriteMaps
<1>2. NewTask \in TaskState /\ NewTask.at = "none" /\ NewTask.answer = <<>>
  BY ExtendMaps DEF NewTask, TaskState
<1>3. [t \in TaskIDs |-> NewTask] \in [TaskIDs -> TaskState]
  BY <1>2
<1>4. {} \in PromptSets
  BY DEF PromptSets
<1>5. NoRun \in InvocationState
  BY <1>1, <1>3, <1>4, ExtendMaps DEF NoRun, InvocationState
<1>6. /\ NoRun.caller = 0 /\ NoRun.recovered = NothingWritten
      /\ NoRun.entry = "running" /\ NoRun.answers = <<>> /\ \A t \in TaskIDs : NoRun.task[t] = NewTask
  BY DEF NoRun
<1>7. NoCall \in CallState /\ NoCall.at = "idle" /\ NoCall.from = 0
  BY <1>4 DEF NoCall, CallState
<1> QED
  BY <1>1, <1>2, <1>5, <1>6, <1>7

\* A checkpoint that has just been put.
LEMMA NewTyped ==
    ASSUME NEW s \in {"running", "complete"}, NEW p \in Nat, NEW i \in Inputs \cup {0}, NEW v \in Nat
    PROVE  /\ NewCheckpoint(s, p, i, v) \in ThreadRow
           /\ NewCheckpoint(s, p, i, v).status = s /\ NewCheckpoint(s, p, i, v).parent = p
           /\ NewCheckpoint(s, p, i, v).input = i /\ NewCheckpoint(s, p, i, v).prev = v
           /\ NewCheckpoint(s, p, i, v).writes = NothingWritten
<1>1. NothingWritten \in WriteMaps
  BY RestTyped
<1> HIDE DEF NothingWritten
<1> QED
  BY <1>1 DEF NewCheckpoint, ThreadRow

-----------------------------------------------------------------------------
(***************************************************************************)
(* Branches.                                                               *)
(***************************************************************************)
\* The rows of a thread.
LEMMA ThreadRows ==
    ASSUME NEW th, Descending(th)
    PROVE  /\ th \in Seq(ThreadRow) /\ Len(th) \in Nat /\ DOMAIN th = 1 .. Len(th)
           /\ \A i \in 1 .. Len(th) :
                /\ th[i] \in ThreadRow /\ th[i].parent \in Nat /\ th[i].parent < i /\ th[i].prev \in Nat
                /\ th[i].writes \in WriteMaps /\ th[i].used \in WriteMaps
                /\ th[i].status \in {"running", "complete"} /\ th[i].input \in Inputs \cup {0}
<1>1. th \in Seq(ThreadRow) /\ Len(th) \in Nat /\ DOMAIN th = 1 .. Len(th)
  BY DEF Descending
<1>2. ASSUME NEW i \in 1 .. Len(th) PROVE th[i] \in ThreadRow /\ th[i].parent < i
  BY <1>1 DEF Descending
<1> QED
  BY <1>1, <1>2 DEF ThreadRow

\* A checkpoint's branch is the checkpoint and its parent's branch, all older.
LEMMA BranchFacts ==
    ASSUME NEW th, Descending(th), NEW i \in 0 .. Len(th)
    PROVE  /\ i \in Branch(th, i)
           /\ \A x \in Branch(th, i) : x \in Nat /\ x <= i
           /\ i # 0 => \A x : x \in Branch(th, i) <=> x = i \/ x \in Branch(th, th[i].parent)
<1>0. Len(th) \in Nat /\ \A j \in 1 .. Len(th) : th[j].parent \in Nat /\ th[j].parent < j
  BY ThreadRows
<1> DEFINE n == Len(th)
           Closed(S) == \A j \in S \ {0} : th[j].parent \in S
<1>1. i \in Branch(th, i)
  BY <1>0 DEF Branch
<1>2. ASSUME NEW x \in Branch(th, i) PROVE x \in Nat /\ x <= i
  <2>1. (0 .. i) \in SUBSET (0 .. n) /\ i \in 0 .. i /\ Closed(0 .. i)
    BY <1>0
  <2>2. x \in 0 .. i
    BY <2>1 DEF Branch
  <2> QED
    BY <2>2, <1>0
<1>3. ASSUME i # 0, NEW x, x \in Branch(th, i), x # i PROVE x \in Branch(th, th[i].parent)
  <2>1. SUFFICES ASSUME NEW S \in SUBSET (0 .. n), th[i].parent \in S, Closed(S) PROVE x \in S
    BY <1>3 DEF Branch
  <2>2. S \cup {i} \in SUBSET (0 .. n) /\ i \in S \cup {i} /\ Closed(S \cup {i})
    BY <2>1
  <2>3. x \in S \cup {i}
    BY <2>2, <1>3 DEF Branch
  <2> QED
    BY <2>3, <1>3
<1>4. ASSUME i # 0, NEW x, x \in Branch(th, th[i].parent) PROVE x \in Branch(th, i)
  <2>1. x \in 0 .. n
    BY <1>4 DEF Branch
  <2>2. SUFFICES ASSUME NEW S \in SUBSET (0 .. n), i \in S, Closed(S) PROVE x \in S
    BY <2>1 DEF Branch
  <2>3. th[i].parent \in S
    BY <2>2, <1>4
  <2> QED
    BY <2>2, <2>3, <1>4 DEF Branch
<1> QED
  BY <1>1, <1>2, <1>3, <1>4

\* Checkpoints put later do not change a branch.
LEMMA BranchSame ==
    ASSUME NEW th, Descending(th), NEW th2, Descending(th2), Len(th) <= Len(th2),
           \A j \in 1 .. Len(th) : th2[j].parent = th[j].parent,
           NEW i \in 0 .. Len(th)
    PROVE  \A x : x \in Branch(th2, i) <=> x \in Branch(th, i)
<1>0. /\ Len(th) \in Nat /\ Len(th2) \in Nat /\ i \in 0 .. Len(th2)
      /\ \A j \in 1 .. Len(th2) : th2[j].parent \in Nat /\ th2[j].parent < j
  BY ThreadRows
<1>1. ASSUME NEW x, x \in Branch(th2, i) PROVE x \in Branch(th, i)
  <2>1. x \in 0 .. Len(th)
    BY <1>0, <1>1, BranchFacts
  <2>2. SUFFICES ASSUME NEW S \in SUBSET (0 .. Len(th)), i \in S, \A j \in S \ {0} : th[j].parent \in S
                 PROVE  x \in S
    BY <2>1 DEF Branch
  <2>3. S \in SUBSET (0 .. Len(th2)) /\ \A j \in S \ {0} : th2[j].parent \in S
    BY <2>2, <1>0
  <2> QED
    BY <2>2, <2>3, <1>1 DEF Branch
<1>2. ASSUME NEW x, x \in Branch(th, i) PROVE x \in Branch(th2, i)
  <2>1. x \in 0 .. Len(th) /\ x \in 0 .. Len(th2)
    BY <1>0, <1>2 DEF Branch
  <2>2. SUFFICES ASSUME NEW S \in SUBSET (0 .. Len(th2)), i \in S, \A j \in S \ {0} : th2[j].parent \in S
                 PROVE  x \in S
    BY <2>1 DEF Branch
  <2> DEFINE T == S \cap (0 .. Len(th))
  <2>3. T \in SUBSET (0 .. Len(th)) /\ i \in T
    BY <2>2
  <2>4. ASSUME NEW j \in T \ {0} PROVE th[j].parent \in T
    <3>1. j \in 1 .. Len(th) /\ th2[j].parent = th[j].parent /\ j \in 1 .. Len(th2)
      BY <1>0
    <3>2. th2[j].parent \in S /\ th2[j].parent \in Nat /\ th2[j].parent < j
      BY <3>1, <2>2, <1>0
    <3> QED
      BY <3>1, <3>2, <1>0
  <2>5. x \in T
    BY <2>3, <2>4, <1>2 DEF Branch
  <2> QED
    BY <2>5
<1> QED
  BY <1>1, <1>2

\* Nor do they change its last completed invocation.
LEMMA LastSame ==
    ASSUME NEW th, Descending(th), NEW th2, Descending(th2), Len(th) <= Len(th2),
           \A j \in 1 .. Len(th) : th2[j].parent = th[j].parent /\ th2[j].status = th[j].status,
           NEW i \in 0 .. Len(th), NEW id, LastCompleted(th, id, i)
    PROVE  LastCompleted(th2, id, i)
<1>1. \A x : x \in Branch(th2, i) <=> x \in Branch(th, i)
  BY BranchSame
<1>2. \A x \in Branch(th, i) : CompleteOrNone(th2, x) <=> CompleteOrNone(th, x)
  <2>1. \A x \in Branch(th, i) : x = 0 \/ x \in 1 .. Len(th)
    BY BranchFacts, ThreadRows
  <2> QED
    BY <2>1 DEF CompleteOrNone
<1> QED
  BY <1>1, <1>2 DEF LastCompleted

\* The last completed invocation at a checkpoint: none, the checkpoint, or its parent's.
LEMMA LastFacts ==
    ASSUME NEW th, Descending(th)
    PROVE  /\ LastCompleted(th, 0, 0)
           /\ \A i \in 1 .. Len(th) : th[i].status = "complete" => LastCompleted(th, i, i)
           /\ \A i \in 1 .. Len(th) : \A id :
                th[i].status = "running" /\ LastCompleted(th, id, th[i].parent)
                    => LastCompleted(th, id, i)
<1>0. Len(th) \in Nat /\ \A j \in 1 .. Len(th) : th[j].parent \in Nat /\ th[j].parent < j
  BY ThreadRows
<1>1. LastCompleted(th, 0, 0)
  BY <1>0, BranchFacts DEF LastCompleted, CompleteOrNone
<1>2. ASSUME NEW i \in 1 .. Len(th), th[i].status = "complete" PROVE LastCompleted(th, i, i)
  BY <1>0, <1>2, BranchFacts DEF LastCompleted, CompleteOrNone
<1>3. ASSUME NEW i \in 1 .. Len(th), NEW id, th[i].status = "running",
             LastCompleted(th, id, th[i].parent)
      PROVE  LastCompleted(th, id, i)
  <2>1. i \in 0 .. Len(th) /\ i # 0
    BY <1>0
  <2>2. \A x : x \in Branch(th, i) <=> x = i \/ x \in Branch(th, th[i].parent)
    BY <2>1, BranchFacts
  <2>3. ~CompleteOrNone(th, i)
    BY <1>3, <2>1 DEF CompleteOrNone
  <2> QED
    BY <1>3, <2>2, <2>3 DEF LastCompleted
<1> QED
  BY <1>1, <1>2, <1>3

-----------------------------------------------------------------------------
(***************************************************************************)
(* Threads.                                                                *)
(***************************************************************************)
\* What one map agrees with is agreed with by the maps that hold it.
LEMMA AgreesTrans ==
    ASSUME NEW f, NEW g, NEW k, Agrees(f, g), Agrees(g, k)
    PROVE  Agrees(f, k)
BY DEF Agrees

\* What agrees for persistent tasks agrees with later writes, too.
LEMMA KeptTrans ==
    ASSUME NEW f, NEW g, NEW k, KeptAgree(f, g), Agrees(g, k)
    PROVE  KeptAgree(f, k)
BY DEF Agrees, KeptAgree

\* Writes are added to checkpoints, which otherwise stay.
LEMMA WritesGrow ==
    ASSUME NEW h, NEW th, ThreadOK(h, th), NEW th2 \in Seq(ThreadRow), Len(th2) = Len(th),
           \A i \in 1 .. Len(th) :
               /\ th2[i].status = th[i].status /\ th2[i].parent = th[i].parent
               /\ th2[i].input = th[i].input
               /\ th2[i].prev = th[i].prev /\ th2[i].used = th[i].used
               /\ Agrees(th[i].writes.results, th2[i].writes.results)
    PROVE  ThreadOK(h, th2)
<1>0. Descending(th)
  BY DEF ThreadOK
<1>1. Len(th) \in Nat /\ DOMAIN th = 1 .. Len(th) /\ DOMAIN th2 = 1 .. Len(th)
  BY <1>0, ThreadRows
<1>2. Descending(th2)
  BY <1>0, <1>1 DEF Descending
<1>3. ASSUME NEW i \in 1 .. Len(th) PROVE RowOK(h, th2, i)
  <2>1. RowOK(h, th, i)
    BY <1>1 DEF ThreadOK
  <2>2. th[i].parent \in Nat /\ th[i].parent < i /\ th[i].parent \in 0 .. Len(th)
    BY <1>0, ThreadRows
  <2>3. ASSUME h = "entrypoint", th2[i].status = "running"
        PROVE  LastCompleted(th2, th2[i].prev, th2[i].parent)
    BY <2>1, <2>2, <2>3, <1>0, <1>2, <1>1, LastSame DEF RowOK
  <2>4. ASSUME h = "entrypoint", th2[i].status = "complete"
        PROVE  /\ th2[i].parent # 0 /\ th2[th2[i].parent].status = "running"
               /\ th2[i].prev = th2[th2[i].parent].prev
               /\ th2[i].input = th2[th2[i].parent].input
               /\ KeptAgree(th2[i].used.results, th2[th2[i].parent].writes.results)
    <3>1. th[i].parent # 0 /\ th[i].parent \in 1 .. Len(th)
      BY <2>1, <2>2, <2>4 DEF RowOK
    <3>2. KeptAgree(th[i].used.results, th[th[i].parent].writes.results)
      BY <2>1, <2>4 DEF RowOK
    <3>3. KeptAgree(th[i].used.results, th2[th[i].parent].writes.results)
      BY <3>1, <3>2, KeptTrans
    <3> QED
      BY <2>1, <2>4, <3>1, <3>3 DEF RowOK
  <2>5. ASSUME h = "node", th2[i].status = "complete"
        PROVE  KeptAgree(th2[i].used.results, th2[i].writes.results)
    BY <2>1, <2>5, KeptTrans DEF RowOK
  <2> QED
    BY <2>3, <2>4, <2>5 DEF RowOK
<1> QED
  BY <1>1, <1>2, <1>3 DEF ThreadOK

\* A checkpoint is put: the earlier ones keep what holds of them.
LEMMA ThreadAppended ==
    ASSUME NEW th, ThreadOK("entrypoint", th), NEW row \in ThreadRow, row.parent <= Len(th),
           NEW th2, th2 = Append(th, row), RowOK("entrypoint", th2, Len(th) + 1)
    PROVE  ThreadOK("entrypoint", th2)
<1>0. Descending(th)
  BY DEF ThreadOK
<1>1. Len(th) \in Nat /\ DOMAIN th = 1 .. Len(th) /\ th \in Seq(ThreadRow)
  BY <1>0, ThreadRows
<1>2. /\ th2 \in Seq(ThreadRow) /\ Len(th2) = Len(th) + 1 /\ DOMAIN th2 = 1 .. (Len(th) + 1)
      /\ th2[Len(th) + 1] = row /\ \A i \in 1 .. Len(th) : th2[i] = th[i]
  BY <1>1
<1>3. Descending(th2)
  <2>1. row.parent \in Nat
    BY DEF ThreadRow
  <2>2. \A i \in 1 .. Len(th) : th2[i].parent < i
    BY <1>2, <1>0, ThreadRows
  <2>3. th2[Len(th) + 1].parent < Len(th) + 1
    BY <1>2, <1>1, <2>1
  <2> QED
    BY <1>1, <1>2, <2>2, <2>3 DEF Descending
<1>4. ASSUME NEW i \in 1 .. Len(th) PROVE RowOK("entrypoint", th2, i)
  <2>1. RowOK("entrypoint", th, i) /\ th2[i] = th[i]
    BY <1>1, <1>2 DEF ThreadOK
  <2>2. th[i].parent \in Nat /\ th[i].parent < i /\ th[i].parent \in 0 .. Len(th)
    BY <1>0, ThreadRows
  <2>3. ASSUME th2[i].status = "running" PROVE LastCompleted(th2, th2[i].prev, th2[i].parent)
    <3>1. LastCompleted(th, th[i].prev, th[i].parent)
      BY <2>1, <2>3 DEF RowOK
    <3>2. Len(th) <= Len(th2)
      BY <1>1, <1>2
    <3>3. LastCompleted(th2, th[i].prev, th[i].parent)
      BY <3>1, <3>2, <2>2, <1>0, <1>3, <1>2, LastSame
    <3> QED
      BY <3>3, <2>1
  <2>4. th[i].parent # 0 => th2[th[i].parent] = th[th[i].parent]
    BY <1>1, <1>2, <2>2
  <2> QED
    BY <2>1, <2>3, <2>4 DEF RowOK
<1> QED
  BY <1>1, <1>2, <1>3, <1>4 DEF ThreadOK

\* The previous value that a new attempt on checkpoint base keeps.
LEMMA PreviousLast ==
    ASSUME host = "entrypoint", ThreadOK(host, thread), NEW base \in 0 .. Len(thread)
    PROVE  LastCompleted(thread, PreviousOf(base), base) /\ PreviousOf(base) \in Nat
<1>0. Descending(thread)
  BY DEF ThreadOK
<1>1. CASE base = 0
  BY <1>0, <1>1, LastFacts DEF PreviousOf
<1>2. CASE base # 0
  <2>1. base \in 1 .. Len(thread) /\ DOMAIN thread = 1 .. Len(thread)
    BY <1>0, <1>2, ThreadRows
  <2>2. thread[base].status \in {"running", "complete"} /\ thread[base].prev \in Nat
    BY <1>0, <2>1, ThreadRows
  <2>3. RowOK("entrypoint", thread, base)
    BY <2>1 DEF ThreadOK
  <2>4. thread[base].status = "running" => LastCompleted(thread, thread[base].prev, thread[base].parent)
    BY <2>3 DEF RowOK
  <2> QED
    BY <1>0, <1>2, <2>1, <2>2, <2>4, LastFacts DEF PreviousOf
<1> QED
  BY <1>1, <1>2

\* A new attempt on checkpoint base.
LEMMA AttemptPut ==
    ASSUME host = "entrypoint", ThreadOK(host, thread), NEW base \in 0 .. Len(thread),
           NEW input \in Inputs \cup {0},
           NEW th2, th2 = Append(thread, NewCheckpoint("running", base, input, PreviousOf(base)))
    PROVE  /\ ThreadOK("entrypoint", th2) /\ Len(th2) = Len(thread) + 1 /\ Len(thread) \in Nat
           /\ th2[Len(thread) + 1] = NewCheckpoint("running", base, input, PreviousOf(base))
           /\ DOMAIN th2 = 1 .. (Len(thread) + 1)
<1> DEFINE row == NewCheckpoint("running", base, input, PreviousOf(base))
<1>0. Descending(thread)
  BY DEF ThreadOK
<1>1. Len(thread) \in Nat /\ DOMAIN thread = 1 .. Len(thread) /\ thread \in Seq(ThreadRow)
  BY <1>0, ThreadRows
<1>2. LastCompleted(thread, PreviousOf(base), base) /\ PreviousOf(base) \in Nat
  BY PreviousLast
<1>3. row \in ThreadRow /\ row.status = "running" /\ row.parent = base /\ row.prev = PreviousOf(base)
  <2>1. base \in Nat /\ "running" \in {"running", "complete"}
    BY <1>1
  <2> QED
    BY <2>1, <1>2, NewTyped
<1> HIDE DEF row
<1>4. th2 = Append(thread, row)
  BY DEF row
<1>5. /\ th2 \in Seq(ThreadRow) /\ Len(th2) = Len(thread) + 1 /\ DOMAIN th2 = 1 .. (Len(thread) + 1)
      /\ th2[Len(thread) + 1] = row /\ \A i \in 1 .. Len(thread) : th2[i] = thread[i]
  BY <1>1, <1>3, <1>4
<1>6. Descending(th2)
  <2>1. \A i \in 1 .. Len(thread) : th2[i].parent < i
    BY <1>5, <1>0, ThreadRows
  <2> QED
    BY <1>1, <1>3, <1>5, <2>1 DEF Descending
<1>7. LastCompleted(th2, PreviousOf(base), base)
  <2>1. Len(thread) <= Len(th2)
    BY <1>1, <1>5
  <2> QED
    BY <2>1, <1>0, <1>2, <1>5, <1>6, LastSame
<1>8. RowOK("entrypoint", th2, Len(thread) + 1)
  BY <1>3, <1>5, <1>7 DEF RowOK
<1>9. ThreadOK("entrypoint", th2)
  <2>1. ThreadOK("entrypoint", thread) /\ row.parent <= Len(thread)
    BY <1>1, <1>3
  <2> QED
    BY <2>1, <1>3, <1>4, <1>8, ThreadAppended
<1> QED
  BY <1>1, <1>5, <1>9 DEF row

\* The checkpoint of a completed invocation.
LEMMA CompletePut ==
    ASSUME NEW th, ThreadOK("entrypoint", th), NEW a \in DOMAIN th, th[a].status = "running",
           NEW u \in WriteMaps, KeptAgree(u.results, th[a].writes.results),
           NEW th2,
           th2 = Append(th, [NewCheckpoint("complete", a, th[a].input, th[a].prev) EXCEPT !.used = u])
    PROVE  ThreadOK("entrypoint", th2) /\ Len(th2) = Len(th) + 1 /\ Len(th) \in Nat
<1> DEFINE new == NewCheckpoint("complete", a, th[a].input, th[a].prev)
           row == [new EXCEPT !.used = u]
<1>0. Descending(th)
  BY DEF ThreadOK
<1>1. Len(th) \in Nat /\ DOMAIN th = 1 .. Len(th) /\ th \in Seq(ThreadRow)
  BY <1>0, ThreadRows
<1>2. /\ a \in Nat /\ th[a].input \in Inputs \cup {0} /\ th[a].prev \in Nat
      /\ "complete" \in {"running", "complete"}
  BY <1>0, <1>1, ThreadRows
<1>3. /\ new \in ThreadRow /\ new.status = "complete" /\ new.parent = a
      /\ new.input = th[a].input /\ new.prev = th[a].prev
  <2>1. NothingWritten \in WriteMaps
    BY RestTyped
  <2> HIDE DEF NothingWritten
  <2> QED
    BY <2>1, <1>2 DEF NewCheckpoint, ThreadRow
<1> HIDE DEF new
<1>4. /\ row \in ThreadRow /\ row.status = "complete" /\ row.parent = a
      /\ row.input = th[a].input /\ row.prev = th[a].prev /\ row.used = u
  BY <1>3 DEF ThreadRow
<1>5. th2 = Append(th, row)
  BY DEF new
<1> HIDE DEF row
<1>6. Len(th2) = Len(th) + 1 /\ th2[Len(th) + 1] = row /\ th2[a] = th[a]
  BY <1>1, <1>4, <1>5
<1>7. RowOK("entrypoint", th2, Len(th) + 1)
  <2>1. a # 0 /\ th2[a].status = "running" /\ "complete" # "running" /\ "entrypoint" # "node"
    BY <1>1, <1>6
  <2> DEFINE n == Len(th) + 1
  <2>2. /\ th2[n].status = "complete" /\ th2[n].parent = a /\ th2[n].prev = th2[a].prev
        /\ th2[n].input = th2[a].input /\ KeptAgree(th2[n].used.results, th2[a].writes.results)
    BY <1>4, <1>6
  <2> HIDE DEF n
  <2>3. RowOK("entrypoint", th2, n)
    BY <2>1, <2>2 DEF RowOK
  <2> QED
    BY <2>3 DEF n
<1>8. row.parent <= Len(th)
  BY <1>1, <1>4
<1>9. ThreadOK("entrypoint", th2)
  BY <1>4, <1>5, <1>7, <1>8, ThreadAppended
<1> QED
  BY <1>1, <1>6, <1>9

\* A node completes on its own checkpoint.
LEMMA NodeCompletes ==
    ASSUME NEW th, ThreadOK("node", th), NEW u \in WriteMaps,
           KeptAgree(u.results, th[1].writes.results), NEW th2, th2 = [th EXCEPT ![1].status = "complete", ![1].used = u]
    PROVE  ThreadOK("node", th2) /\ Len(th2) = Len(th)
<1>0. Descending(th) /\ Len(th) = 1
  BY DEF ThreadOK
<1>1. DOMAIN th = {1} /\ th \in Seq(ThreadRow) /\ th[1] \in ThreadRow /\ th[1].parent < 1
  BY <1>0, ThreadRows
<1>2. th2[1] = [th[1] EXCEPT !.status = "complete", !.used = u]
  BY <1>0, <1>1
<1>3. /\ th2[1] \in ThreadRow /\ th2[1].parent = th[1].parent
      /\ th2[1].writes = th[1].writes /\ th2[1].used = u
  BY <1>1, <1>2 DEF ThreadRow
<1>4. th2 \in Seq(ThreadRow) /\ Len(th2) = 1 /\ DOMAIN th2 = {1}
  <2>1. th2 = [th EXCEPT ![1] = th2[1]]
    BY <1>1, <1>2
  <2>2. th2 \in Seq(ThreadRow) /\ Len(th2) = 1
    BY <1>0, <1>1, <1>3, <2>1, ExceptSeq
  <2> QED
    BY <2>2
<1>5. Descending(th2)
  BY <1>1, <1>3, <1>4 DEF Descending
<1>6. RowOK("node", th2, 1)
  BY <1>3 DEF RowOK
<1> QED
  BY <1>0, <1>4, <1>5, <1>6 DEF ThreadOK

-----------------------------------------------------------------------------
(***************************************************************************)
(* Invocations.                                                            *)
(***************************************************************************)
\* What an invocation used is typed and recorded.
LEMMA UsedRecorded ==
    ASSUME NEW w, run \in InvocationState, UsesRecorded(run, w)
    PROVE  /\ Used \in WriteMaps
           /\ KeptAgree(Used.results, w.results) /\ Agrees(Used.prompts, w.prompts)
<1> DEFINE answered == {t \in TaskIDs : run.task[t].answer # <<>>}
           doneTasks == {x \in TaskIDs : run.task[x].at = "done"}
           prompts == DOMAIN run.answers \cup UNION {DOMAIN run.task[t].answer : t \in answered}
           done == [t \in doneTasks |-> run.task[t].val]
           ans == [p \in prompts |->
                     IF p \in DOMAIN run.answers THEN run.answers[p] ELSE run.task[p[1]].answer[p]]
<1>1. Used = [results |-> done, prompts |-> ans]
  BY DEF Used
<1>2. /\ run.answers \in AnswerMaps /\ run.task \in [TaskIDs -> TaskState]
      /\ \A t \in TaskIDs : run.task[t].val \in Nat /\ run.task[t].answer \in AnswerMaps
  BY DEF InvocationState, TaskState
<1>3. done \in ResultMaps
  <2>1. doneTasks \in SUBSET TaskIDs /\ done \in [doneTasks -> Nat]
    BY <1>2
  <2> QED
    BY <2>1 DEF ResultMaps
<1>4. ASSUME NEW p \in prompts
      PROVE  /\ p \in PromptIDs /\ ans[p] \in AnswerValues \cup {0}
             /\ p \in DOMAIN run.recovered.prompts /\ ans[p] = run.recovered.prompts[p]
  <2>1. CASE p \in DOMAIN run.answers
    <3>1. p \in PromptIDs /\ run.answers[p] \in AnswerValues \cup {0}
      BY <2>1, <1>2, ExtendMaps
    <3>2. p \in DOMAIN run.recovered.prompts /\ run.answers[p] = run.recovered.prompts[p]
      BY <2>1 DEF UsesRecorded, Agrees
    <3> QED
      BY <2>1, <3>1, <3>2
  <2>2. CASE p \notin DOMAIN run.answers
    <3>1. PICK t \in TaskIDs : p \in DOMAIN run.task[t].answer
      BY <2>2
    <3>2. TaskUses(run.entry, run.recovered, w, t, run.task[t])
      BY DEF UsesRecorded
    <3>3. /\ p[1] = t /\ p \in DOMAIN run.recovered.prompts
          /\ run.task[t].answer[p] = run.recovered.prompts[p]
      BY <3>1, <3>2 DEF TaskUses, Agrees
    <3>4. p \in PromptIDs /\ run.task[t].answer[p] \in AnswerValues \cup {0}
      BY <3>1, <1>2, ExtendMaps
    <3> QED
      BY <2>2, <3>3, <3>4
  <2> QED
    BY <2>1, <2>2
<1>5. ans \in AnswerMaps
  <2>1. prompts \in SUBSET PromptIDs
    BY <1>4
  <2>2. ans \in [prompts -> AnswerValues \cup {0}]
    BY <1>4
  <2> QED
    BY <2>1, <2>2 DEF AnswerMaps
<1>6. KeptAgree(done, w.results)
  <2>1. ASSUME NEW t \in doneTasks \cap Persistent
        PROVE  t \in DOMAIN w.results /\ w.results[t] = run.task[t].val
    BY DEF UsesRecorded, TaskUses
  <2> QED
    BY <2>1 DEF KeptAgree
<1>7. Agrees(ans, w.prompts)
  <2>1. Agrees(ans, run.recovered.prompts)
    BY <1>4 DEF Agrees
  <2>2. Agrees(run.recovered.prompts, w.prompts)
    BY DEF UsesRecorded, Preserves
  <2> HIDE DEF ans
  <2> QED
    BY <2>1, <2>2, AgreesTrans
<1> HIDE DEF done, ans
<1>8. Used \in WriteMaps
  BY <1>1, <1>3, <1>5 DEF WriteMaps
<1> QED
  BY <1>1, <1>6, <1>7, <1>8

\* An invocation that has just begun used nothing and called nothing.
LEMMA FreshUses ==
    ASSUME NEW r, NEW w, r.task = NoRun.task, r.answers = <<>>,
           \/ r.recovered = w
           \/ r.entry = "again" /\ r.recovered = NothingWritten
    PROVE  UsesRecorded(r, w) /\ TasksCalled(r)
<1>1. DOMAIN <<>> = {} /\ NothingWritten.results = <<>> /\ NothingWritten.prompts = <<>>
  BY RestTyped, ExtendMaps
<1>2. Preserves(r.recovered, w)
  BY <1>1 DEF Preserves, Agrees
<1>3. ASSUME NEW t \in TaskIDs PROVE r.task[t].at = "none" /\ r.task[t].answer = <<>>
  <2>1. r.task[t] = NewTask
    BY RestTyped
  <2> QED
    BY <2>1, RestTyped
<1>4. ASSUME NEW t \in TaskIDs PROVE TaskUses(r.entry, r.recovered, w, t, r.task[t])
  BY <1>1, <1>3 DEF TaskUses, Agrees
<1>5. TasksCalled(r)
  BY <1>3 DEF TasksCalled, TaskCalled
<1> QED
  BY <1>1, <1>2, <1>4, <1>5 DEF UsesRecorded, Agrees

\* One task of an invocation moves; it may record its own result, or a prompt.
LEMMA TaskMoves ==
    ASSUME NEW r, NEW r2, NEW w, NEW w2, NEW t \in TaskIDs, UsesRecorded(r, w), TasksCalled(r),
           r2.recovered = r.recovered, r2.answers = r.answers, r2.entry = r.entry, r2.pc = r.pc,
           r.task[t].at # "none", \A u \in TaskIDs : u # t => r2.task[u] = r.task[u],
           Preserves(r.recovered, w2), Agrees(w.results, w2.results),
           \A u \in DOMAIN w2.results : u # t => u \in DOMAIN w.results,
           TaskUses(r.entry, r.recovered, w2, t, r2.task[t])
    PROVE  UsesRecorded(r2, w2) /\ TasksCalled(r2)
<1>2. ASSUME NEW u \in TaskIDs PROVE TaskUses(r.entry, r.recovered, w2, u, r2.task[u])
  <2>1. CASE u = t
    BY <2>1
  <2>2. CASE u # t
    <3>1. TaskUses(r.entry, r.recovered, w, u, r.task[u]) /\ r2.task[u] = r.task[u]
      BY <2>2 DEF UsesRecorded
    <3> QED
      BY <2>2, <3>1 DEF TaskUses, Agrees
  <2> QED
    BY <2>1, <2>2
<1>3. UsesRecorded(r2, w2)
  BY <1>2 DEF UsesRecorded
<1>4. ASSUME NEW u \in TaskIDs PROVE TaskCalled(r.entry, r.pc, u, r2.task[u])
  <2>1. TaskCalled(r.entry, r.pc, u, r.task[u]) /\ TaskCalled(r.entry, r.pc, t, r.task[t])
    BY DEF TasksCalled
  <2> QED
    BY <2>1 DEF TaskCalled
<1> QED
  BY <1>3, <1>4 DEF TasksCalled

-----------------------------------------------------------------------------
(***************************************************************************)
(* Steps.                                                                  *)
(***************************************************************************)
\* The writes of one checkpoint are replaced by writes with its results.
WithWrites(th, a, w) == [th EXCEPT ![a].writes = w]

\* Recording writes that keep the recorded results leaves the lineage of the thread as it is.
LEMMA WritesPut ==
    ASSUME NEW h, NEW th, ThreadOK(h, th), NEW a \in DOMAIN th, NEW w \in WriteMaps,
           Agrees(th[a].writes.results, w.results), NEW th2, th2 = WithWrites(th, a, w)
    PROVE  /\ ThreadOK(h, th2) /\ Len(th2) = Len(th) /\ DOMAIN th2 = DOMAIN th
           /\ th2[a].writes = w /\ th2[a].status = th[a].status /\ th2[a].input = th[a].input
<1> DEFINE row == [th[a] EXCEPT !.writes = w]
<1>0. Descending(th)
  BY DEF ThreadOK
<1>1. Len(th) \in Nat /\ DOMAIN th = 1 .. Len(th) /\ th \in Seq(ThreadRow) /\ th[a] \in ThreadRow
  BY <1>0, ThreadRows
<1>2. /\ row \in ThreadRow /\ row.writes = w /\ row.status = th[a].status /\ row.parent = th[a].parent
      /\ row.input = th[a].input /\ row.prev = th[a].prev /\ row.used = th[a].used
  BY <1>1 DEF ThreadRow
<1>3. th2 = [th EXCEPT ![a] = row]
  BY DEF WithWrites
<1> HIDE DEF row
<1>4. /\ th2 \in Seq(ThreadRow) /\ Len(th2) = Len(th)
      /\ \A j \in 1 .. Len(th) : th2[j] = IF j = a THEN row ELSE th[j]
  BY <1>1, <1>2, <1>3, ExceptSeq
<1>5. DOMAIN th2 = 1 .. Len(th)
  BY <1>4
<1>6. \A f : Agrees(f, f)
  BY DEF Agrees
<1>7. ThreadOK(h, th2)
  BY <1>2, <1>4, <1>6, WritesGrow
<1> QED
  BY <1>1, <1>2, <1>4, <1>5, <1>7

\* A caller that does not hold the thread's lock makes a call or gets its answer.
LEMMA CallerMoves ==
    ASSUME FunctionalInv, NEW c \in Clients, NEW call \in CallState, CallOK(call, Len(thread)),
           Busy => run.caller # c, host' = host, thread' = thread, run' = run,
           caller' = [caller EXCEPT ![c] = call], grants' \in Seq(Grant), values' = values
    PROVE  FunctionalInv'
<1>1. /\ caller' \in [Clients -> CallState] /\ caller'[c] = call
      /\ \A d \in Clients : d # c => caller'[d] = caller[d]
  BY DEF FunctionalInv
<1>2. \A d \in Clients : CallOK(caller'[d], Len(thread'))
  BY <1>1 DEF FunctionalInv
<1>3. Busy' <=> Busy
  BY DEF Busy
<1>4. ASSUME Busy' PROVE Holds(host', thread', run', caller'[run'.caller])
  <2>1. run.caller \in Clients /\ run.caller # c
    BY <1>3, <1>4 DEF FunctionalInv, InvocationState, Busy
  <2> QED
    BY <1>1, <1>3, <1>4, <2>1 DEF FunctionalInv
<1> QED
  BY <1>1, <1>2, <1>3, <1>4 DEF FunctionalInv

\* An invocation ends: the lock is free, and its caller is told.
LEMMA RunEnds ==
    ASSUME FunctionalInv, host' = host, ThreadOK(host, thread'), Len(thread') \in Nat,
           Len(thread') >= Len(thread), run' = NoRun, grants' = grants, values' = values,
           caller' \in [Clients -> CallState],
           \A c \in Clients : caller'[c] = caller[c] \/ CallOK(caller'[c], Len(thread'))
    PROVE  FunctionalInv'
<1>1. ~Busy'
  BY RestTyped DEF Busy
<1>2. ASSUME NEW c \in Clients PROVE CallOK(caller'[c], Len(thread'))
  <2>1. CallOK(caller[c], Len(thread)) /\ caller[c].from \in Nat /\ Len(thread) \in Nat
    BY DEF FunctionalInv, CallState, ThreadOK, Descending
  <2>2. CallOK(caller[c], Len(thread'))
    BY <2>1 DEF CallOK
  <2> QED
    BY <2>2
<1> QED
  BY <1>1, <1>2, RestTyped DEF FunctionalInv

\* An invocation begins on the attempt a: the lock is taken.
LEMMA RunBegins ==
    ASSUME FunctionalInv, host' = host, ThreadOK(host, thread'), Len(thread') \in Nat,
           Len(thread') >= Len(thread), grants' = grants, values' = values,
           run' \in InvocationState, NEW c \in Clients, run'.caller = c, c # 0,
           run'.attempt \in DOMAIN thread', thread'[run'.attempt].status = "running",
           host = "entrypoint" => thread'[run'.attempt].input = caller[c].input,
           run'.task = NoRun.task, run'.answers = <<>>,
           \/ run'.recovered = thread'[run'.attempt].writes
           \/ run'.entry = "again" /\ run'.recovered = NothingWritten,
           caller' = [caller EXCEPT ![c].at = "running"]
    PROVE  FunctionalInv'
<1> DEFINE call == [caller[c] EXCEPT !.at = "running"]
<1>0. caller \in [Clients -> CallState] /\ caller[c] \in CallState
  BY DEF FunctionalInv
<1>1. /\ call \in CallState /\ call.at = "running" /\ call.input = caller[c].input
      /\ call.from = caller[c].from
  BY <1>0 DEF CallState
<1>2. caller' = [caller EXCEPT ![c] = call]
  OBVIOUS
<1> HIDE DEF call
<1>3. /\ caller' \in [Clients -> CallState] /\ caller'[c] = call
      /\ \A d \in Clients : d # c => caller'[d] = caller[d]
  BY <1>0, <1>1, <1>2
<1>4. ASSUME NEW d \in Clients PROVE CallOK(caller'[d], Len(thread'))
  <2>1. CallOK(caller[d], Len(thread)) /\ caller[d].from \in Nat /\ Len(thread) \in Nat
    BY DEF FunctionalInv, CallState, ThreadOK, Descending
  <2>2. caller'[d].from = caller[d].from /\ (caller'[d].at = "told" => caller[d].at = "told")
    BY <1>1, <1>3
  <2> QED
    BY <2>1, <2>2 DEF CallOK
<1>5. Busy'
  BY DEF Busy
<1>6. UsesRecorded(run', thread'[run'.attempt].writes) /\ TasksCalled(run')
  BY FreshUses
<1>7. Holds(host', thread', run', caller'[run'.caller])
  BY <1>1, <1>3, <1>6 DEF Holds
<1>8. /\ host' \in {"entrypoint", "node"} /\ grants' \in Seq(Grant) /\ values' \in Nat
      /\ ThreadOK(host', thread')
  BY DEF FunctionalInv
<1> QED
  BY <1>3, <1>4, <1>5, <1>7, <1>8 DEF FunctionalInv

\* The invocation moves, and may add writes to its attempt.
LEMMA RunMoves ==
    ASSUME FunctionalInv, Busy, host' = host, caller' = caller, grants' = grants, values' \in Nat,
           NEW w, Agrees(thread[run.attempt].writes.results, w.results),
           \/ thread' = thread /\ w = thread[run.attempt].writes
           \/ w \in WriteMaps /\ thread' = [thread EXCEPT ![run.attempt].writes = w],
           run' \in InvocationState, run'.caller = run.caller, run'.attempt = run.attempt,
           UsesRecorded(run', w), TasksCalled(run')
    PROVE  FunctionalInv'
<1> DEFINE a == run.attempt
<1>0. Holds(host, thread, run, caller[run.caller]) /\ ThreadOK(host, thread)
  BY DEF FunctionalInv
<1>1. a \in DOMAIN thread /\ thread[a].status = "running" /\ caller[run.caller].at = "running"
  BY <1>0 DEF Holds
<1>2. Agrees(thread[a].writes.results, w.results)
  OBVIOUS
<1>3. /\ ThreadOK(host, thread') /\ Len(thread') = Len(thread) /\ a \in DOMAIN thread'
      /\ thread'[a].writes = w /\ thread'[a].status = "running" /\ thread'[a].input = thread[a].input
  <2>1. CASE thread' = thread /\ w = thread[a].writes
    BY <2>1, <1>0, <1>1
  <2>2. CASE w \in WriteMaps /\ thread' = [thread EXCEPT ![a].writes = w]
    <3>1. thread' = WithWrites(thread, a, w)
      BY <2>2 DEF WithWrites
    <3>2. ASSUME NEW b \in DOMAIN thread, Agrees(thread[b].writes.results, w.results),
                 NEW th2, th2 = WithWrites(thread, b, w)
          PROVE  /\ ThreadOK(host, th2) /\ Len(th2) = Len(thread) /\ DOMAIN th2 = DOMAIN thread
                 /\ th2[b].writes = w /\ th2[b].status = thread[b].status
                 /\ th2[b].input = thread[b].input
      BY <3>2, <2>2, <1>0, WritesPut
    <3> QED
      BY <3>1, <3>2, <1>2, <1>1
  <2> QED
    BY <2>1, <2>2
<1>4. Busy'
  BY DEF Busy
<1>5. Holds(host', thread', run', caller'[run'.caller])
  BY <1>0, <1>1, <1>3 DEF Holds
<1>6. /\ host' \in {"entrypoint", "node"} /\ grants' \in Seq(Grant) /\ ThreadOK(host', thread')
      /\ caller' \in [Clients -> CallState] /\ \A c \in Clients : CallOK(caller'[c], Len(thread'))
  BY <1>3 DEF FunctionalInv
<1> QED
  BY <1>4, <1>5, <1>6 DEF FunctionalInv

\* One task moves, and nothing is written.
LEMMA TaskStepKeeps ==
    ASSUME FunctionalInv, Busy, host' = host, thread' = thread, caller' = caller, grants' = grants,
           values' \in Nat, NEW t \in TaskIDs, run.task[t].at # "none",
           run' \in InvocationState, run'.caller = run.caller, run'.attempt = run.attempt,
           run'.recovered = run.recovered, run'.answers = run.answers, run'.entry = run.entry,
           run'.pc = run.pc, \A u \in TaskIDs : u # t => run'.task[u] = run.task[u],
           TaskUses(run.entry, run.recovered, thread[run.attempt].writes, t, run'.task[t])
    PROVE  FunctionalInv'
<1> DEFINE w == thread[run.attempt].writes
<1>1. UsesRecorded(run, w) /\ TasksCalled(run)
  BY DEF FunctionalInv, Holds
<1>2. Preserves(run.recovered, w) /\ Agrees(w.results, w.results)
  BY <1>1 DEF UsesRecorded, Agrees
<1>3. UsesRecorded(run', w) /\ TasksCalled(run')
  <2> HIDE DEF w
  <2>1. TaskUses(run.entry, run.recovered, w, t, run'.task[t])
    BY DEF w
  <2> QED
    BY <1>1, <1>2, <2>1, TaskMoves
<1> QED
  BY <1>2, <1>3, RunMoves

-----------------------------------------------------------------------------
(***************************************************************************)
(* The tasks.                                                              *)
(***************************************************************************)
\* The fields of an invocation, and of its tasks.
LEMMA RunFields ==
    ASSUME FunctionalInv, Busy
    PROVE  /\ run.caller \in Clients /\ run.attempt \in Nat /\ run.recovered \in WriteMaps
           /\ run.recovered.results \in ResultMaps /\ run.recovered.prompts \in AnswerMaps
           /\ run.pc \in Nat \ {0} /\ run.asked \in Nat /\ run.answers \in AnswerMaps
           /\ run.calls \in Nat
           /\ run.task \in [TaskIDs -> TaskState] /\ run.prompts \in PromptSets /\ run.own \in PromptSets
           /\ run.canceled \in BOOLEAN /\ run.failed \in BOOLEAN
           /\ \A t \in TaskIDs : run.task[t] \in TaskState
           /\ run.attempt \in DOMAIN thread /\ thread[run.attempt].writes \in WriteMaps
           /\ UsesRecorded(run, thread[run.attempt].writes) /\ TasksCalled(run)
           /\ \A t \in TaskIDs :
                TaskUses(run.entry, run.recovered, thread[run.attempt].writes, t, run.task[t])
<1>1. run \in InvocationState /\ run.caller # 0
  BY DEF FunctionalInv, Busy
<1>2. /\ run.caller \in Clients /\ run.attempt \in Nat /\ run.recovered \in WriteMaps
      /\ run.pc \in Nat \ {0} /\ run.asked \in Nat /\ run.answers \in AnswerMaps /\ run.calls \in Nat
      /\ run.task \in [TaskIDs -> TaskState] /\ run.prompts \in PromptSets /\ run.own \in PromptSets
      /\ run.canceled \in BOOLEAN /\ run.failed \in BOOLEAN
  BY <1>1 DEF InvocationState
<1>3. run.recovered.results \in ResultMaps /\ run.recovered.prompts \in AnswerMaps
  BY <1>2 DEF WriteMaps
<1>4. Holds(host, thread, run, caller[run.caller]) /\ Descending(thread)
  BY DEF FunctionalInv, ThreadOK
<1>5. run.attempt \in DOMAIN thread /\ UsesRecorded(run, thread[run.attempt].writes) /\ TasksCalled(run)
  BY <1>4 DEF Holds
<1>6. thread[run.attempt].writes \in WriteMaps
  BY <1>4, <1>5, ThreadRows
<1> QED
  BY <1>2, <1>3, <1>5, <1>6 DEF UsesRecorded

\* The invocation with one task replaced.
WithTask(r, t, new) == [r EXCEPT !.task = [r.task EXCEPT ![t] = new]]

\* A run whose task takes another state.
LEMMA TaskPut ==
    ASSUME NEW r \in InvocationState, NEW t \in TaskIDs, NEW new \in TaskState, NEW r2,
           r2 = WithTask(r, t, new)
    PROVE  /\ r2 \in InvocationState /\ r2.caller = r.caller /\ r2.attempt = r.attempt
           /\ r2.recovered = r.recovered /\ r2.answers = r.answers /\ r2.entry = r.entry /\ r2.pc = r.pc
           /\ r2.task[t] = new /\ \A u \in TaskIDs : u # t => r2.task[u] = r.task[u]
<1> DEFINE task == [r.task EXCEPT ![t] = new]
<1>1. /\ task \in [TaskIDs -> TaskState] /\ task[t] = new
      /\ \A u \in TaskIDs : u # t => task[u] = r.task[u]
  BY DEF InvocationState
<1> HIDE DEF task
<1>2. r2 = [r EXCEPT !.task = task]
  BY DEF task, WithTask
<1>3. r2 \in InvocationState
  BY <1>1, <1>2 DEF InvocationState
<1> QED
  BY <1>1, <1>2, <1>3 DEF InvocationState

\* A task takes a slot (recoverTaskResult).
LEMMA TaskStartKeeps ==
    ASSUME FunctionalInv, NEW t \in TaskIDs, TaskStart(t)
    PROVE  FunctionalInv'
<1> DEFINE rec == run.recovered.results
           old == t \in Persistent /\ t \in DOMAIN rec
           new == IF old THEN [run.task[t] EXCEPT !.at = "done", !.val = rec[t]]
                  ELSE [run.task[t] EXCEPT !.at = "started"]
<1>0. Busy /\ run.task[t].at = "queued" /\ run \in InvocationState
  BY DEF TaskStart, FunctionalInv
<1>1. /\ rec \in ResultMaps /\ run.task \in [TaskIDs -> TaskState] /\ run.task[t] \in TaskState
      /\ TaskUses(run.entry, run.recovered, thread[run.attempt].writes, t, run.task[t])
      /\ Agrees(rec, thread[run.attempt].writes.results)
  BY <1>0, RunFields DEF UsesRecorded, Preserves
<1>2. run' = WithTask(run, t, new)
  <2>1. Recoverable(t) <=> t \in Persistent
    BY DEF Recoverable, Durable, FunctionalInv
  <2> QED
    BY <1>0, <1>1, <2>1 DEF TaskStart, WithTask
<1>3. old => rec[t] \in Nat
  BY <1>1, ExtendMaps
<1>4. /\ new \in TaskState /\ new.answer = run.task[t].answer
      /\ new.at = IF old THEN "done" ELSE "started"
      /\ old => new.val = rec[t]
  BY <1>1, <1>3 DEF TaskState
<1> HIDE DEF new
<1>5. TaskUses(run.entry, run.recovered, thread[run.attempt].writes, t, new)
  BY <1>0, <1>1, <1>4 DEF TaskUses, Agrees
<1>6. /\ run' \in InvocationState /\ run'.caller = run.caller /\ run'.attempt = run.attempt
      /\ run'.recovered = run.recovered /\ run'.answers = run.answers /\ run'.entry = run.entry
      /\ run'.pc = run.pc /\ run'.task[t] = new /\ \A u \in TaskIDs : u # t => run'.task[u] = run.task[u]
  BY <1>0, <1>2, <1>4, TaskPut
<1>7. host' = host /\ thread' = thread /\ caller' = caller /\ grants' = grants /\ values' \in Nat
  BY DEF TaskStart, FunctionalInv
<1> QED
  BY <1>0, <1>5, <1>6, <1>7, TaskStepKeeps

\* A step of one task that writes nothing, and may add its prompt or end the manager.
LEMMA TaskReplaced ==
    ASSUME FunctionalInv, Busy, NEW t \in TaskIDs, run.task[t].at # "none", NEW new \in TaskState,
           TaskUses(run.entry, run.recovered, thread[run.attempt].writes, t, new),
           host' = host, thread' = thread, caller' = caller, grants' = grants, values' \in Nat,
           NEW P \in PromptSets, NEW f \in BOOLEAN, NEW k \in BOOLEAN,
           \/ run' = WithTask(run, t, new)
           \/ run' = [WithTask(run, t, new) EXCEPT !.prompts = P]
           \/ run' = [WithTask(run, t, new) EXCEPT !.failed = f]
           \/ run' = [WithTask(run, t, new) EXCEPT !.failed = f, !.canceled = k]
    PROVE  FunctionalInv'
<1>0. run \in InvocationState
  BY DEF FunctionalInv
<1> DEFINE r == WithTask(run, t, new)
<1>1. /\ r \in InvocationState /\ r.caller = run.caller /\ r.attempt = run.attempt
      /\ r.recovered = run.recovered /\ r.answers = run.answers /\ r.entry = run.entry
      /\ r.pc = run.pc /\ r.task[t] = new /\ \A u \in TaskIDs : u # t => r.task[u] = run.task[u]
  BY <1>0, TaskPut
<1> HIDE DEF r
<1>2. \/ run' = r \/ run' = [r EXCEPT !.prompts = P] \/ run' = [r EXCEPT !.failed = f]
      \/ run' = [r EXCEPT !.failed = f, !.canceled = k]
  BY DEF r
<1>3. /\ run' \in InvocationState /\ run'.caller = r.caller /\ run'.attempt = r.attempt
      /\ run'.recovered = r.recovered /\ run'.answers = r.answers /\ run'.entry = r.entry
      /\ run'.pc = r.pc /\ run'.task = r.task
  <2>1. CASE run' = r
    BY <1>1, <2>1
  <2>2. CASE run' = [r EXCEPT !.prompts = P]
    BY <1>1, <2>2 DEF InvocationState
  <2>3. CASE run' = [r EXCEPT !.failed = f]
    BY <1>1, <2>3 DEF InvocationState
  <2>4. CASE run' = [r EXCEPT !.failed = f, !.canceled = k]
    BY <1>1, <2>4 DEF InvocationState
  <2> QED
    BY <1>2, <2>1, <2>2, <2>3, <2>4
<1>4. /\ run' \in InvocationState /\ run'.caller = run.caller /\ run'.attempt = run.attempt
      /\ run'.recovered = run.recovered /\ run'.answers = run.answers /\ run'.entry = run.entry
      /\ run'.pc = run.pc /\ run'.task[t] = new /\ \A u \in TaskIDs : u # t => run'.task[u] = run.task[u]
  BY <1>1, <1>3
<1> QED
  BY <1>4, TaskStepKeeps

\* A task fails (invokeTaskSafely).
LEMMA TaskErrorKeeps ==
    ASSUME FunctionalInv, NEW t \in TaskIDs, TaskError(t)
    PROVE  FunctionalInv'
<1> DEFINE new == [run.task[t] EXCEPT !.at = "retry", !.err = "failed"]
<1>0. Busy /\ run.task[t].at \in {"started", "answered"}
  BY DEF TaskError
<1>1. /\ run.task \in [TaskIDs -> TaskState] /\ run.task[t] \in TaskState /\ run \in InvocationState
      /\ TaskUses(run.entry, run.recovered, thread[run.attempt].writes, t, run.task[t])
  BY <1>0, RunFields DEF FunctionalInv
<1>2. run' = WithTask(run, t, new)
  BY <1>0, <1>1 DEF TaskError, WithTask
<1>3. new \in TaskState /\ new.answer = run.task[t].answer /\ new.at = "retry"
  BY <1>1 DEF TaskState
<1> HIDE DEF new
<1>4. TaskUses(run.entry, run.recovered, thread[run.attempt].writes, t, new)
  BY <1>0, <1>1, <1>3 DEF TaskUses
<1>5. host' = host /\ thread' = thread /\ caller' = caller /\ grants' = grants /\ values' \in Nat
  BY DEF TaskError, FunctionalInv
<1>6. {} \in PromptSets /\ TRUE \in BOOLEAN /\ run.task[t].at # "none"
  BY <1>0 DEF PromptSets
<1> QED
  BY <1>0, <1>2, <1>3, <1>4, <1>5, <1>6, TaskReplaced

\* A failed attempt of a task is made again (executeWithRetry).
LEMMA RetryTaskKeeps ==
    ASSUME FunctionalInv, NEW t \in TaskIDs, RetryTask(t)
    PROVE  FunctionalInv'
<1> DEFINE n == run.task[t].attempts + 1
           new == [run.task[t] EXCEPT !.at = "started", !.attempts = n, !.err = "none", !.answer = <<>>]
<1>0. Busy /\ run.task[t].at = "retry"
  BY DEF RetryTask
<1>1. /\ run.task \in [TaskIDs -> TaskState] /\ run.task[t] \in TaskState /\ run \in InvocationState
      /\ TaskUses(run.entry, run.recovered, thread[run.attempt].writes, t, run.task[t])
  BY <1>0, RunFields DEF FunctionalInv
<1>2. run' = WithTask(run, t, new)
  <2>1. run' = [run EXCEPT !.task[t].at = "started", !.task[t].attempts = n,
                           !.task[t].err = "none", !.task[t].answer = <<>>]
    BY <1>1 DEF RetryTask
  <2> HIDE DEF n
  <2> QED
    BY <1>1, <2>1 DEF WithTask
<1>3. <<>> \in AnswerMaps /\ DOMAIN <<>> = {} /\ n \in Nat
  BY <1>1, ExtendMaps DEF TaskState
<1> HIDE DEF n
<1>4. new \in TaskState /\ new.answer = <<>> /\ new.at = "started"
  BY <1>1, <1>3 DEF TaskState
<1> HIDE DEF new
<1>5. TaskUses(run.entry, run.recovered, thread[run.attempt].writes, t, new)
  BY <1>0, <1>1, <1>3, <1>4 DEF TaskUses, Agrees
<1>6. host' = host /\ thread' = thread /\ caller' = caller /\ grants' = grants /\ values' \in Nat
  BY DEF RetryTask, FunctionalInv
<1>7. {} \in PromptSets /\ TRUE \in BOOLEAN /\ run.task[t].at # "none"
  BY <1>0 DEF PromptSets
<1> QED
  BY <1>0, <1>2, <1>4, <1>5, <1>6, <1>7, TaskReplaced

\* A task gives up, with its prompt or with its error.
LEMMA FailTaskKeeps ==
    ASSUME FunctionalInv, NEW t \in TaskIDs, FailTask(t)
    PROVE  FunctionalInv'
<1> DEFINE asks == run.task[t].err = "interrupted" /\ run.task[t].attempts >= TaskAttempts[t]
           asked == [run.task[t] EXCEPT !.at = "failed"]
           failed == [run.task[t] EXCEPT !.at = "failed", !.err = "failed"]
           P == run.prompts \cup {run.task[t].prompt}
<1>0. Busy /\ run.task[t].at = "retry"
  BY DEF FailTask
<1>1. /\ run.task \in [TaskIDs -> TaskState] /\ run.task[t] \in TaskState /\ run \in InvocationState
      /\ TaskUses(run.entry, run.recovered, thread[run.attempt].writes, t, run.task[t])
      /\ run.prompts \in PromptSets
  BY <1>0, RunFields DEF FunctionalInv
<1>2. /\ asks => run' = [WithTask(run, t, asked) EXCEPT !.prompts = P]
      /\ ~asks => run' = [WithTask(run, t, failed) EXCEPT !.failed = TRUE, !.canceled = TRUE]
  BY <1>0, <1>1 DEF FailTask, WithTask, InvocationState
<1>3. P \in PromptSets
  BY <1>1 DEF PromptSets, TaskState
<1>4. /\ asked \in TaskState /\ asked.answer = run.task[t].answer /\ asked.at = "failed"
      /\ failed \in TaskState /\ failed.answer = run.task[t].answer /\ failed.at = "failed"
  BY <1>1 DEF TaskState
<1> HIDE DEF asked, failed, P, asks
<1>5. /\ TaskUses(run.entry, run.recovered, thread[run.attempt].writes, t, asked)
      /\ TaskUses(run.entry, run.recovered, thread[run.attempt].writes, t, failed)
  BY <1>0, <1>1, <1>4 DEF TaskUses
<1>6. host' = host /\ thread' = thread /\ caller' = caller /\ grants' = grants /\ values' \in Nat
  BY DEF FailTask, FunctionalInv
<1>7. TRUE \in BOOLEAN /\ run.task[t].at # "none"
  BY <1>0
<1> QED
  <2>1. CASE asks
    <3>1. run' = [WithTask(run, t, asked) EXCEPT !.prompts = P]
      BY <1>2, <2>1
    <3> QED
      BY <1>0, <1>3, <1>4, <1>5, <1>6, <1>7, <3>1, TaskReplaced
  <2>2. CASE ~asks
    <3>1. run' = [WithTask(run, t, failed) EXCEPT !.failed = TRUE, !.canceled = TRUE]
      BY <1>2, <2>2
    <3> QED
      BY <1>0, <1>3, <1>4, <1>5, <1>6, <1>7, <3>1, TaskReplaced
  <2> QED
    BY <2>1, <2>2

\* A task sees that the manager is cancelled.
LEMMA CancelKeeps ==
    ASSUME FunctionalInv, NEW t \in TaskIDs, Cancel(t)
    PROVE  FunctionalInv'
<1> DEFINE new == [run.task[t] EXCEPT !.at = "failed", !.err = "failed"]
<1>0. Busy /\ run.task[t].at \in {"queued", "started", "answered"}
  BY DEF Cancel
<1>1. /\ run.task \in [TaskIDs -> TaskState] /\ run.task[t] \in TaskState /\ run \in InvocationState
      /\ TaskUses(run.entry, run.recovered, thread[run.attempt].writes, t, run.task[t])
  BY <1>0, RunFields DEF FunctionalInv
<1>2. run' = [WithTask(run, t, new) EXCEPT !.failed = TRUE]
  BY <1>0, <1>1 DEF Cancel, WithTask, InvocationState
<1>3. new \in TaskState /\ new.answer = run.task[t].answer /\ new.at = "failed"
  BY <1>1 DEF TaskState
<1> HIDE DEF new
<1>4. TaskUses(run.entry, run.recovered, thread[run.attempt].writes, t, new)
  BY <1>0, <1>1, <1>3 DEF TaskUses
<1>5. host' = host /\ thread' = thread /\ caller' = caller /\ grants' = grants /\ values' \in Nat
  BY DEF Cancel, FunctionalInv
<1>6. {} \in PromptSets /\ TRUE \in BOOLEAN /\ run.task[t].at # "none"
  BY <1>0 DEF PromptSets
<1> QED
  BY <1>0, <1>2, <1>3, <1>4, <1>5, <1>6, TaskReplaced

\* What an invocation may write to its attempt: a prompt it did not recover, and the
\* result of a task that has none.
WithPrompt(w, id) == [w EXCEPT !.prompts = Extend(w.prompts, id, 0)]
WithResult(w, t, v) == [w EXCEPT !.results = Extend(w.results, t, v)]

\* A new prompt or a new result preserves the writes that were recorded.
LEMMA WritesAdded ==
    ASSUME NEW w \in WriteMaps, NEW rec \in WriteMaps, Preserves(rec, w)
    PROVE  /\ \A id \in PromptIDs : id \notin DOMAIN rec.prompts =>
                /\ WithPrompt(w, id) \in WriteMaps /\ WithPrompt(w, id).results = w.results
                /\ Preserves(rec, WithPrompt(w, id))
           /\ \A t \in TaskIDs, v \in Nat : t \notin DOMAIN w.results =>
                /\ WithResult(w, t, v) \in WriteMaps /\ Agrees(w.results, WithResult(w, t, v).results)
                /\ Preserves(rec, WithResult(w, t, v))
                /\ DOMAIN WithResult(w, t, v).results = DOMAIN w.results \cup {t}
                /\ WithResult(w, t, v).results[t] = v
<1>0. w.results \in ResultMaps /\ w.prompts \in AnswerMaps
  BY DEF WriteMaps
<1>1. ASSUME NEW id \in PromptIDs, id \notin DOMAIN rec.prompts
      PROVE  /\ WithPrompt(w, id) \in WriteMaps /\ WithPrompt(w, id).results = w.results
             /\ Preserves(rec, WithPrompt(w, id))
  <2> DEFINE e == Extend(w.prompts, id, 0)
  <2>1. e \in AnswerMaps
    BY <1>0, ExtendMaps
  <2>2. /\ DOMAIN e = DOMAIN w.prompts \cup {id}
        /\ \A x \in DOMAIN w.prompts : x # id => e[x] = w.prompts[x]
    BY DEF Extend
  <2> HIDE DEF e
  <2>3. WithPrompt(w, id) = [w EXCEPT !.prompts = e]
    BY DEF WithPrompt, e
  <2>4. /\ WithPrompt(w, id) \in WriteMaps /\ WithPrompt(w, id).results = w.results
        /\ WithPrompt(w, id).prompts = e
    BY <2>1, <2>3 DEF WriteMaps
  <2>5. Agrees(rec.prompts, e)
    BY <1>1, <2>2 DEF Preserves, Agrees
  <2> QED
    BY <2>4, <2>5 DEF Preserves
<1>2. ASSUME NEW t \in TaskIDs, NEW v \in Nat, t \notin DOMAIN w.results
      PROVE  /\ WithResult(w, t, v) \in WriteMaps /\ Agrees(w.results, WithResult(w, t, v).results)
             /\ Preserves(rec, WithResult(w, t, v))
             /\ DOMAIN WithResult(w, t, v).results = DOMAIN w.results \cup {t}
             /\ WithResult(w, t, v).results[t] = v
  <2> DEFINE e == Extend(w.results, t, v)
  <2>1. e \in ResultMaps
    BY <1>0, ExtendMaps
  <2>2. /\ DOMAIN e = DOMAIN w.results \cup {t} /\ e[t] = v
        /\ \A x \in DOMAIN w.results : x # t => e[x] = w.results[x]
    BY DEF Extend
  <2> HIDE DEF e
  <2>3. WithResult(w, t, v) = [w EXCEPT !.results = e]
    BY DEF WithResult, e
  <2>4. /\ WithResult(w, t, v) \in WriteMaps /\ WithResult(w, t, v).prompts = w.prompts
        /\ WithResult(w, t, v).results = e
    BY <2>1, <2>3 DEF WriteMaps
  <2>5. Agrees(w.results, e)
    BY <1>2, <2>2 DEF Agrees
  <2>6. Agrees(rec.results, e)
    BY <2>5, AgreesTrans DEF Preserves
  <2> QED
    BY <2>2, <2>4, <2>5, <2>6 DEF Preserves
<1> QED
  BY <1>1, <1>2

\* A task returns, and the result of a persistent one is recorded unless the manager is
\* cancelled (persistTaskResult).
LEMMA TaskReturnKeeps ==
    ASSUME FunctionalInv, NEW t \in TaskIDs, TaskReturn(t)
    PROVE  FunctionalInv'
<1> DEFINE v == values + 1
           w == thread[run.attempt].writes
           lost == [run.task[t] EXCEPT !.at = "failed", !.err = "failed"]
           kept == [run.task[t] EXCEPT !.at = "done", !.val = v]
<1>0. Busy /\ run.task[t].at \in {"started", "answered"} /\ values \in Nat /\ run \in InvocationState
  BY DEF TaskReturn, FunctionalInv
<1>1. /\ run.task \in [TaskIDs -> TaskState] /\ run.task[t] \in TaskState /\ run.recovered \in WriteMaps
      /\ w \in WriteMaps /\ UsesRecorded(run, w) /\ TasksCalled(run)
      /\ TaskUses(run.entry, run.recovered, w, t, run.task[t]) /\ run.attempt \in DOMAIN thread
  BY <1>0, RunFields
<1>2. host' = host /\ caller' = caller /\ grants' = grants /\ values' = v /\ v \in Nat
  BY <1>0 DEF TaskReturn, FunctionalInv
<1>r. Recoverable(t) <=> t \in Persistent
  BY DEF Recoverable, Durable, FunctionalInv
<1>3. CASE t \in Persistent /\ run.canceled
  <2>1. run' = [WithTask(run, t, lost) EXCEPT !.failed = TRUE] /\ thread' = thread
    <3>1. /\ run' = [run EXCEPT !.task[t].at = "failed", !.task[t].err = "failed", !.failed = TRUE]
          /\ thread' = thread
      BY <1>r, <1>3 DEF TaskReturn
    <3> QED
      BY <1>0, <1>1, <3>1 DEF WithTask, InvocationState
  <2>2. lost \in TaskState /\ lost.answer = run.task[t].answer /\ lost.at = "failed"
    BY <1>1 DEF TaskState
  <2> HIDE DEF lost, w
  <2>3. TaskUses(run.entry, run.recovered, w, t, lost)
    BY <1>0, <1>1, <2>2 DEF TaskUses
  <2>4. TaskUses(run.entry, run.recovered, thread[run.attempt].writes, t, lost)
    BY <2>3 DEF w
  <2>5. {} \in PromptSets /\ TRUE \in BOOLEAN /\ run.task[t].at # "none" /\ values' \in Nat
    BY <1>0, <1>2 DEF PromptSets
  <2> QED
    BY <1>0, <1>2, <2>1, <2>2, <2>4, <2>5, TaskReplaced
<1>5. CASE t \notin Persistent
  <2>1. run' = WithTask(run, t, kept) /\ thread' = thread
    BY <1>0, <1>1, <1>r, <1>5 DEF TaskReturn, WithTask
  <2>2. kept \in TaskState /\ kept.answer = run.task[t].answer /\ kept.at = "done"
    BY <1>1, <1>2 DEF TaskState
  <2> HIDE DEF kept, w
  <2>3. TaskUses(run.entry, run.recovered, w, t, kept)
    BY <1>0, <1>1, <1>5, <2>2 DEF TaskUses
  <2>4. TaskUses(run.entry, run.recovered, thread[run.attempt].writes, t, kept)
    BY <2>3 DEF w
  <2>5. {} \in PromptSets /\ TRUE \in BOOLEAN /\ run.task[t].at # "none" /\ values' \in Nat
    BY <1>0, <1>2 DEF PromptSets
  <2> QED
    BY <1>0, <1>2, <2>1, <2>2, <2>4, <2>5, TaskReplaced
<1>4. CASE t \in Persistent /\ ~run.canceled
  <2> DEFINE w2 == WithResult(w, t, v)
  <2>1. run' = WithTask(run, t, kept)
    BY <1>0, <1>1, <1>4 DEF TaskReturn, WithTask
  <2>2. thread' = [thread EXCEPT ![run.attempt].writes = w2]
    BY <1>1, <1>r, <1>4 DEF TaskReturn, WithResult
  <2>3. kept \in TaskState /\ kept.answer = run.task[t].answer /\ kept.at = "done" /\ kept.val = v
    BY <1>1, <1>2 DEF TaskState
  <2> HIDE DEF kept, w, v
  <2>4. t \notin DOMAIN w.results
    <3>1. TaskCalled(run.entry, run.pc, t, run.task[t])
      BY <1>1 DEF TasksCalled
    <3> QED
      BY <1>0, <1>1, <1>4, <3>1 DEF TaskCalled, TaskUses
  <2>5. /\ w2 \in WriteMaps /\ Agrees(w.results, w2.results) /\ Preserves(run.recovered, w2)
        /\ DOMAIN w2.results = DOMAIN w.results \cup {t} /\ w2.results[t] = v
    <3>1. Preserves(run.recovered, w)
      BY <1>1 DEF UsesRecorded
    <3> QED
      BY <3>1, <1>1, <1>2, <2>4, WritesAdded
  <2> HIDE DEF w2
  <2>6. TaskUses(run.entry, run.recovered, w2, t, kept)
    BY <1>0, <1>1, <2>3, <2>5 DEF TaskUses
  <2>7. /\ run' \in InvocationState /\ run'.caller = run.caller /\ run'.attempt = run.attempt
        /\ run'.recovered = run.recovered /\ run'.answers = run.answers /\ run'.entry = run.entry
        /\ run'.pc = run.pc /\ run'.task[t] = kept
        /\ \A u \in TaskIDs : u # t => run'.task[u] = run.task[u]
    BY <1>0, <2>1, <2>3, TaskPut
  <2>8. UsesRecorded(run', w2) /\ TasksCalled(run')
    BY <1>0, <1>1, <2>5, <2>6, <2>7, TaskMoves
  <2>9. Agrees(thread[run.attempt].writes.results, w2.results)
    BY <2>5 DEF w
  <2> QED
    BY <1>0, <1>2, <2>2, <2>5, <2>7, <2>8, <2>9, RunMoves
<1> QED
  BY <1>3, <1>4, <1>5

\* A task asks: it goes on with a recovered answer, or its prompt is recorded and
\* interrupts it (AwaitResume).
LEMMA TaskAskKeeps ==
    ASSUME FunctionalInv, NEW t \in TaskIDs, TaskAsk(t)
    PROVE  FunctionalInv'
<1> DEFINE n == run.task[t].asked + 1
           id == <<t, run.task[t].asked>>
           w == thread[run.attempt].writes
           answer == Extend(<<>>, id, run.recovered.prompts[id])
           err == IF Unrecorded(id) THEN "failed" ELSE "interrupted"
           told == [run.task[t] EXCEPT !.at = "answered", !.asked = n, !.answer = answer]
           stopped == [run.task[t] EXCEPT !.at = "retry", !.asked = n, !.prompt = id, !.err = err]
<1>0. Busy /\ run.task[t].at = "started" /\ values \in Nat /\ run \in InvocationState
  BY DEF TaskAsk, FunctionalInv
<1>1. /\ run.task \in [TaskIDs -> TaskState] /\ run.task[t] \in TaskState /\ run.recovered \in WriteMaps
      /\ run.recovered.prompts \in AnswerMaps
      /\ w \in WriteMaps /\ UsesRecorded(run, w) /\ TasksCalled(run)
      /\ TaskUses(run.entry, run.recovered, w, t, run.task[t]) /\ run.attempt \in DOMAIN thread
  BY <1>0, RunFields
<1>2. /\ host' = host /\ caller' = caller /\ grants' = grants /\ values' \in Nat
      /\ {} \in PromptSets /\ TRUE \in BOOLEAN /\ run.task[t].at # "none"
  BY <1>0 DEF TaskAsk, FunctionalInv, PromptSets
<1>3. id \in PromptIDs /\ n \in Nat /\ id[1] = t /\ err \in {"none", "failed", "interrupted"}
  BY <1>1 DEF PromptIDs, TaskState
<1>4. CASE Lookup(id) = "answered"
  <2>1. id \in DOMAIN run.recovered.prompts
    BY <1>4 DEF Lookup
  <2>2. run.recovered.prompts[id] \in AnswerValues \cup {0}
    BY <2>1, <1>1, ExtendMaps
  <2>3. answer \in AnswerMaps
    BY <2>2, <1>3, ExtendMaps
  <2>4. DOMAIN answer = {id} /\ answer[id] = run.recovered.prompts[id]
    BY ExtendMaps DEF Extend
  <2>5. run' = WithTask(run, t, told) /\ thread' = thread
    BY <1>0, <1>1, <1>4 DEF TaskAsk, WithTask, Recorded
  <2> HIDE DEF answer, id, n, err, w
  <2>6. told \in TaskState /\ told.at = "answered" /\ told.answer = answer
    BY <1>1, <1>3, <2>3 DEF TaskState
  <2> HIDE DEF told
  <2>7. TaskUses(run.entry, run.recovered, w, t, told)
    BY <1>0, <1>1, <1>3, <2>1, <2>4, <2>6 DEF TaskUses, Agrees
  <2>8. TaskUses(run.entry, run.recovered, thread[run.attempt].writes, t, told)
    BY <2>7 DEF w
  <2> QED
    BY <1>0, <1>2, <2>5, <2>6, <2>8, TaskReplaced
<1>5. CASE Lookup(id) # "answered"
  <2>1. run' = WithTask(run, t, stopped)
    <3>1. run' = [run EXCEPT !.task[t].at = "retry", !.task[t].asked = n, !.task[t].prompt = id,
                             !.task[t].err = err]
      BY <1>1, <1>5 DEF TaskAsk
    <3> HIDE DEF n, id, err
    <3> QED
      BY <1>1, <3>1 DEF WithTask
  <2> DEFINE w2 == IF Lookup(id) = "new" /\ ~run.canceled THEN WithPrompt(w, id) ELSE w
  <2>2. \/ thread' = thread /\ w2 = w
        \/ w2 = WithPrompt(w, id) /\ thread' = [thread EXCEPT ![run.attempt].writes = w2]
    BY <1>1 DEF TaskAsk, Recorded, WithPrompt
  <2>3. Lookup(id) = "new" => id \notin DOMAIN run.recovered.prompts
    BY DEF Lookup
  <2>4. Preserves(run.recovered, w)
    BY <1>1 DEF UsesRecorded
  <2> HIDE DEF id, n, err, w
  <2>5. w2 \in WriteMaps /\ w2.results = w.results /\ Preserves(run.recovered, w2)
    BY <1>1, <1>3, <2>3, <2>4, WritesAdded
  <2>6. stopped \in TaskState /\ stopped.at = "retry" /\ stopped.answer = run.task[t].answer
    BY <1>1, <1>3 DEF TaskState
  <2> HIDE DEF stopped, w2
  <2>7. TaskUses(run.entry, run.recovered, w2, t, stopped)
    BY <1>0, <1>1, <2>5, <2>6 DEF TaskUses
  <2>8. /\ run' \in InvocationState /\ run'.caller = run.caller /\ run'.attempt = run.attempt
        /\ run'.recovered = run.recovered /\ run'.answers = run.answers /\ run'.entry = run.entry
        /\ run'.pc = run.pc /\ run'.task[t] = stopped
        /\ \A u \in TaskIDs : u # t => run'.task[u] = run.task[u]
    BY <1>0, <2>1, <2>6, TaskPut
  <2>9. Agrees(w.results, w2.results) /\ \A u \in DOMAIN w2.results : u # t => u \in DOMAIN w.results
    BY <2>5 DEF Agrees
  <2>10. UsesRecorded(run', w2) /\ TasksCalled(run')
    BY <1>1, <1>2, <2>5, <2>7, <2>8, <2>9, TaskMoves
  <2>11. /\ Agrees(thread[run.attempt].writes.results, w2.results)
         /\ \/ thread' = thread /\ w2 = thread[run.attempt].writes
            \/ w2 \in WriteMaps /\ thread' = [thread EXCEPT ![run.attempt].writes = w2]
    BY <2>2, <2>5, <2>9 DEF w
  <2> QED
    BY <1>0, <1>2, <2>8, <2>10, <2>11, RunMoves
<1> QED
  BY <1>4, <1>5

-----------------------------------------------------------------------------
(***************************************************************************)
(* The body.                                                               *)
(***************************************************************************)
\* The body goes on, or stops; its tasks stay.
LEMMA BodyMoves ==
    ASSUME FunctionalInv, Busy, host' = host, caller' = caller, grants' = grants, values' \in Nat,
           run' \in InvocationState, run'.caller = run.caller, run'.attempt = run.attempt,
           run'.recovered = run.recovered, run'.task = run.task, run.pc <= run'.pc,
           run.entry # "again", run'.entry # "again", Agrees(run'.answers, run.recovered.prompts),
           NEW w, w.results = thread[run.attempt].writes.results, Preserves(run.recovered, w),
           \/ thread' = thread /\ w = thread[run.attempt].writes
           \/ w \in WriteMaps /\ thread' = [thread EXCEPT ![run.attempt].writes = w]
    PROVE  FunctionalInv'
<1>0. /\ UsesRecorded(run, thread[run.attempt].writes) /\ TasksCalled(run) /\ run.pc \in Nat
      /\ \A t \in TaskIDs :
           TaskUses(run.entry, run.recovered, thread[run.attempt].writes, t, run.task[t])
  BY RunFields
<1>1. ASSUME NEW t \in TaskIDs PROVE TaskUses(run'.entry, run'.recovered, w, t, run'.task[t])
  BY <1>0 DEF TaskUses
<1>2. UsesRecorded(run', w)
  BY <1>1 DEF UsesRecorded
<1>3. TasksCalled(run')
  <2>1. run'.pc \in Nat /\ \A k \in DOMAIN Body : k \in Nat
    BY FunctionalAssumption DEF InvocationState
  <2>2. ASSUME NEW t \in TaskIDs PROVE TaskCalled(run'.entry, run'.pc, t, run.task[t])
    <3>1. TaskCalled(run.entry, run.pc, t, run.task[t])
      BY <1>0 DEF TasksCalled
    <3> QED
      BY <3>1, <2>1, <1>0 DEF TaskCalled
  <2> QED
    BY <2>2 DEF TasksCalled
<1>4. Agrees(thread[run.attempt].writes.results, w.results)
  BY DEF Agrees
<1> QED
  BY <1>2, <1>3, <1>4, RunMoves

\* A statement of the body.
LEMMA BodyOps ==
    ASSUME run.pc \in Nat, run.pc <= Len(Body), run.pc # 0
    PROVE  /\ run.pc \in DOMAIN Body /\ Op[1] \in {"call", "await", "ask"}
           /\ Op[1] \in {"call", "await"} => Op[2] \in TaskIDs /\ Op = <<Op[1], Op[2]>>
<1>1. Len(Body) \in Nat /\ DOMAIN Body = 1 .. Len(Body)
  BY FunctionalAssumption
<1>2. run.pc \in DOMAIN Body
  BY <1>1
<1>3. Op \in {"call", "await"} \X TaskIDs \cup {<<"ask", Entry>>}
  BY <1>2, FunctionalAssumption DEF Op
<1> QED
  BY <1>2, <1>3

\* The body calls a task, which it has not called before (submit).
LEMMA CallKeeps ==
    ASSUME FunctionalInv, Call
    PROVE  FunctionalInv'
<1> DEFINE t == Op[2]
           w == thread[run.attempt].writes
           new == [run.task[t] EXCEPT !.at = "queued"]
           r == WithTask(run, t, new)
           pc == run.pc + 1
<1>0. Busy /\ run.entry = "running" /\ run.pc <= Len(Body) /\ Op[1] = "call" /\ run \in InvocationState
  BY DEF Call, AtOp, BodyRunning, FunctionalInv
<1>1. /\ run.task \in [TaskIDs -> TaskState] /\ UsesRecorded(run, w) /\ TasksCalled(run)
      /\ run.pc \in Nat \ {0} /\ \A u \in TaskIDs : TaskUses(run.entry, run.recovered, w, u, run.task[u])
  BY <1>0, RunFields
<1>2. /\ run.pc \in DOMAIN Body /\ t \in TaskIDs /\ Body[run.pc] = <<"call", t>>
      /\ DOMAIN Body \subseteq Nat
  BY <1>0, <1>1, BodyOps, FunctionalAssumption DEF Op
<1>3. run' = [r EXCEPT !.pc = pc]
  BY <1>0, <1>1, <1>2 DEF Call, WithTask, InvocationState
<1>4. host' = host /\ thread' = thread /\ caller' = caller /\ grants' = grants /\ values' \in Nat
  BY DEF Call, FunctionalInv
<1> HIDE DEF t, w
<1>5. run.task[t] \in TaskState /\ run.task[t].at = "none"
  <2>1. TaskCalled(run.entry, run.pc, t, run.task[t])
    BY <1>1, <1>2 DEF TasksCalled
  <2>2. ASSUME NEW k \in DOMAIN Body, k < run.pc, Body[k] = <<"call", t>> PROVE FALSE
    <3>1. Body[k] = Body[run.pc] /\ Body[k][1] = "call"
      BY <1>2, <2>2
    <3>2. k = run.pc
      BY <3>1, <1>2, FunctionalAssumption
    <3> QED
      BY <3>2, <2>2, <1>1
  <2> QED
    BY <2>1, <2>2, <1>1, <1>2 DEF TaskCalled
<1>6. new \in TaskState /\ new.at = "queued" /\ new.answer = run.task[t].answer
  BY <1>5 DEF TaskState
<1> HIDE DEF new
<1>7. /\ r \in InvocationState /\ r.caller = run.caller /\ r.attempt = run.attempt
      /\ r.recovered = run.recovered /\ r.answers = run.answers /\ r.entry = run.entry
      /\ r.task[t] = new /\ \A u \in TaskIDs : u # t => r.task[u] = run.task[u]
  BY <1>0, <1>2, <1>6, TaskPut
<1> HIDE DEF r
<1>8. pc \in Nat \ {0}
  BY <1>1
<1>9. /\ run' \in InvocationState /\ run'.caller = run.caller /\ run'.attempt = run.attempt
      /\ run'.recovered = run.recovered /\ run'.answers = run.answers /\ run'.entry = "running"
      /\ run'.pc = pc /\ run'.task = r.task
  <2> HIDE DEF pc
  <2> QED
    BY <1>0, <1>3, <1>7, <1>8 DEF InvocationState
<1>10. ASSUME NEW u \in TaskIDs
       PROVE  /\ TaskUses(run'.entry, run'.recovered, w, u, run'.task[u])
              /\ TaskCalled(run'.entry, run'.pc, u, run'.task[u])
  <2>1. /\ TaskUses(run.entry, run.recovered, w, u, run.task[u])
        /\ TaskCalled(run.entry, run.pc, u, run.task[u])
    BY <1>1 DEF TasksCalled
  <2>2. CASE u = t
    <3>1. TaskUses(run'.entry, run'.recovered, w, u, run'.task[u])
      BY <2>1, <2>2, <1>0, <1>5, <1>6, <1>7, <1>9 DEF TaskUses
    <3>2. run.pc < run'.pc
      BY <1>1, <1>9
    <3> QED
      BY <3>1, <3>2, <2>2, <1>2, <1>9 DEF TaskCalled
  <2>3. CASE u # t
    <3>1. run'.task[u] = run.task[u]
      BY <2>3, <1>7, <1>9
    <3>2. \A k \in DOMAIN Body : k < run.pc => k < run'.pc
      BY <1>1, <1>2, <1>9
    <3>3. TaskUses(run'.entry, run'.recovered, w, u, run'.task[u])
      BY <2>1, <3>1, <1>0, <1>9
    <3> QED
      BY <2>1, <3>1, <3>2, <3>3, <1>9 DEF TaskCalled
  <2> QED
    BY <2>2, <2>3
<1>11. UsesRecorded(run', w) /\ TasksCalled(run')
  BY <1>1, <1>9, <1>10 DEF UsesRecorded, TasksCalled
<1>12. Agrees(thread[run.attempt].writes.results, w.results) /\ w = thread[run.attempt].writes
  BY DEF Agrees, w
<1> QED
  BY <1>0, <1>4, <1>9, <1>11, <1>12, RunMoves

\* Nothing is written by the statements that only move the body.
LEMMA BodyOnly ==
    ASSUME FunctionalInv, Busy, host' = host, thread' = thread, caller' = caller, grants' = grants,
           values' = values, run' \in InvocationState, run'.caller = run.caller,
           run'.attempt = run.attempt, run'.recovered = run.recovered, run'.task = run.task,
           run.pc <= run'.pc, run.entry # "again", run'.entry # "again",
           Agrees(run'.answers, run.recovered.prompts)
    PROVE  FunctionalInv'
<1>1. Preserves(run.recovered, thread[run.attempt].writes)
  BY RunFields DEF UsesRecorded
<1>2. values' \in Nat
  BY DEF FunctionalInv
<1> QED
  BY <1>1, <1>2, BodyMoves

\* The body gets the result of a task, or returns its error (Future.Await).
LEMMA AwaitKeeps ==
    ASSUME FunctionalInv, Await
    PROVE  FunctionalInv'
<1> DEFINE err == run.task[Op[2]].err
           pc == run.pc + 1
           k == run.canceled \/ err # "interrupted"
<1>0. Busy /\ run.entry = "running" /\ run.pc <= Len(Body) /\ Op[1] = "await" /\ run \in InvocationState
  BY DEF Await, AtOp, BodyRunning, FunctionalInv
<1>1. /\ \A u \in TaskIDs : run.task[u] \in TaskState
      /\ UsesRecorded(run, thread[run.attempt].writes) /\ run.pc \in Nat \ {0}
  BY <1>0, RunFields
<1>2. Op[2] \in TaskIDs
  BY <1>0, <1>1, BodyOps
<1>3. err \in {"none", "failed", "interrupted"} /\ pc \in Nat \ {0} /\ k \in BOOLEAN /\ run.pc <= pc
  BY <1>1, <1>2 DEF TaskState
<1>4. run' = [run EXCEPT !.pc = pc] \/ run' = [run EXCEPT !.entry = err, !.canceled = k]
  BY DEF Await
<1>5. Agrees(run.answers, run.recovered.prompts)
  BY <1>1 DEF UsesRecorded
<1> HIDE DEF err, pc, k
<1>6. /\ run' \in InvocationState /\ run'.caller = run.caller
      /\ run'.attempt = run.attempt /\ run'.recovered = run.recovered /\ run'.task = run.task
      /\ run'.pc \in {run.pc, pc} /\ run'.entry \in {run.entry, err} /\ run'.answers = run.answers
  <2>1. CASE run' = [run EXCEPT !.pc = pc]
    BY <1>0, <1>3, <2>1 DEF InvocationState
  <2>2. CASE run' = [run EXCEPT !.entry = err, !.canceled = k]
    BY <1>0, <1>3, <2>2 DEF InvocationState
  <2> QED
    BY <1>4, <2>1, <2>2
<1>7. run.entry # "again" /\ run'.entry # "again" /\ run.pc <= run'.pc
  BY <1>0, <1>1, <1>3, <1>6
<1>8. host' = host /\ thread' = thread /\ caller' = caller /\ grants' = grants /\ values' = values
  BY DEF Await
<1> QED
  BY <1>0, <1>5, <1>6, <1>7, <1>8, BodyOnly

\* The body returns.
LEMMA EntryReturnKeeps ==
    ASSUME FunctionalInv, EntryReturn
    PROVE  FunctionalInv'
<1>0. Busy /\ run.entry = "running" /\ run \in InvocationState /\ run' = [run EXCEPT !.entry = "ok"]
  BY DEF EntryReturn, BodyRunning, FunctionalInv
<1>1. UsesRecorded(run, thread[run.attempt].writes) /\ run.pc \in Nat \ {0}
  BY <1>0, RunFields
<1>2. /\ run' \in InvocationState /\ run'.caller = run.caller
      /\ run'.attempt = run.attempt /\ run'.recovered = run.recovered /\ run'.task = run.task
      /\ run'.pc = run.pc /\ run'.entry = "ok" /\ run'.answers = run.answers
  BY <1>0 DEF InvocationState
<1>3. host' = host /\ thread' = thread /\ caller' = caller /\ grants' = grants /\ values' = values
  BY DEF EntryReturn
<1>4. Agrees(run.answers, run.recovered.prompts) /\ run.pc <= run.pc
  BY <1>1 DEF UsesRecorded
<1>5. run.entry # "again" /\ run'.entry # "again"
  BY <1>0, <1>2
<1> QED
  BY <1>0, <1>2, <1>3, <1>4, <1>5, BodyOnly

\* The body asks (AwaitResume).
LEMMA AskKeeps ==
    ASSUME FunctionalInv, Ask
    PROVE  FunctionalInv'
<1> DEFINE n == run.asked + 1
           pc == run.pc + 1
           id == <<Entry, run.asked>>
           w == thread[run.attempt].writes
           answers == Extend(run.answers, id, run.recovered.prompts[id])
           own == run.own \cup {id}
<1>0. Busy /\ run.entry = "running" /\ values \in Nat /\ run \in InvocationState
  BY DEF Ask, AtOp, BodyRunning, FunctionalInv
<1>1. /\ run.pc \in Nat \ {0} /\ run.asked \in Nat /\ run.recovered \in WriteMaps
      /\ run.own \in PromptSets
      /\ run.recovered.prompts \in AnswerMaps /\ run.answers \in AnswerMaps
      /\ w \in WriteMaps /\ UsesRecorded(run, w) /\ run.attempt \in DOMAIN thread
  BY <1>0, RunFields
<1>2. host' = host /\ caller' = caller /\ grants' = grants /\ values' = values /\ values' \in Nat
  BY <1>0 DEF Ask
<1>3. id \in PromptIDs /\ n \in Nat /\ pc \in Nat \ {0} /\ own \in PromptSets /\ run.pc <= pc
  BY <1>1 DEF PromptIDs, PromptSets
<1>4. Agrees(run.answers, run.recovered.prompts) /\ Preserves(run.recovered, w)
  BY <1>1 DEF UsesRecorded
<1>5. CASE Lookup(id) = "answered"
  <2>1. id \in DOMAIN run.recovered.prompts
    BY <1>5 DEF Lookup
  <2>2. run.recovered.prompts[id] \in AnswerValues \cup {0}
    BY <2>1, <1>1, ExtendMaps
  <2>3. answers \in AnswerMaps
    BY <2>2, <1>1, <1>3, ExtendMaps
  <2>4. Agrees(answers, run.recovered.prompts)
    BY <2>1, <1>4 DEF Extend, Agrees
  <2>5. run' = [run EXCEPT !.asked = n, !.pc = pc, !.answers = answers] /\ thread' = thread
    BY <1>0, <1>1, <1>5 DEF Ask, Recorded
  <2> HIDE DEF answers, id, n, pc
  <2>6. /\ run' \in InvocationState /\ run'.caller = run.caller
        /\ run'.attempt = run.attempt /\ run'.recovered = run.recovered /\ run'.task = run.task
        /\ run'.pc = pc /\ run'.entry = run.entry /\ run'.answers = answers
    BY <1>0, <1>3, <2>3, <2>5 DEF InvocationState
  <2>7. run.entry # "again" /\ run'.entry # "again"
    BY <1>0, <2>6
  <2> QED
    BY <1>0, <1>2, <1>3, <2>4, <2>5, <2>6, <2>7, BodyOnly
<1>6. CASE Lookup(id) # "answered"
  <2>1. \/ run' = [run EXCEPT !.entry = "failed"]
        \/ run' = [run EXCEPT !.asked = n, !.entry = "interrupted", !.own = own]
    BY <1>6 DEF Ask
  <2> DEFINE w2 == IF Lookup(id) = "new" /\ ~run.canceled THEN WithPrompt(w, id) ELSE w
  <2>2. \/ thread' = thread /\ w2 = w
        \/ w2 = WithPrompt(w, id) /\ thread' = [thread EXCEPT ![run.attempt].writes = w2]
    BY <1>1 DEF Ask, Recorded, WithPrompt
  <2>3. Lookup(id) = "new" => id \notin DOMAIN run.recovered.prompts
    BY DEF Lookup
  <2> HIDE DEF id, n, own, w
  <2>4. w2 \in WriteMaps /\ w2.results = w.results /\ Preserves(run.recovered, w2)
    BY <1>1, <1>3, <1>4, <2>3, WritesAdded
  <2> HIDE DEF w2
  <2>5. /\ run' \in InvocationState /\ run'.caller = run.caller
        /\ run'.attempt = run.attempt /\ run'.recovered = run.recovered /\ run'.task = run.task
        /\ run'.pc = run.pc /\ run'.entry \in {"failed", "interrupted"} /\ run'.answers = run.answers
    <3>1. CASE run' = [run EXCEPT !.entry = "failed"]
      BY <1>0, <3>1 DEF InvocationState
    <3>2. CASE run' = [run EXCEPT !.asked = n, !.entry = "interrupted", !.own = own]
      BY <1>0, <1>3, <3>2 DEF InvocationState
    <3> QED
      BY <2>1, <3>1, <3>2
  <2>6. run.entry # "again" /\ run'.entry # "again" /\ run.pc <= run'.pc
    BY <1>0, <1>1, <2>5
  <2>7. /\ w2.results = thread[run.attempt].writes.results
        /\ \/ thread' = thread /\ w2 = thread[run.attempt].writes
           \/ w2 \in WriteMaps /\ thread' = [thread EXCEPT ![run.attempt].writes = w2]
    BY <2>2, <2>4 DEF w
  <2> QED
    BY <1>0, <1>2, <1>4, <2>4, <2>5, <2>6, <2>7, BodyMoves
<1> QED
  BY <1>5, <1>6

-----------------------------------------------------------------------------
(***************************************************************************)
(* Calls, and the beginning and the end of an invocation.                  *)
(***************************************************************************)
\* The calls and the thread.
LEMMA CallFields ==
    ASSUME FunctionalInv
    PROVE  /\ caller \in [Clients -> CallState] /\ Descending(thread) /\ ThreadOK(host, thread)
           /\ \A c \in Clients :
                /\ caller[c] \in CallState /\ caller[c].input \in Inputs \cup {0}
                /\ caller[c].from \in Nat /\ caller[c].from <= Len(thread)
                /\ caller[c].told \in PromptSets
                /\ caller[c].at = "told" => Len(thread) > 0
                /\ caller[c].at # "running" => ~Busy \/ run.caller # c
           /\ host = "node" => Len(thread) = 1
           /\ Len(thread) \in Nat /\ DOMAIN thread = 1 .. Len(thread)
<1>1. caller \in [Clients -> CallState] /\ Descending(thread) /\ ThreadOK(host, thread)
  BY DEF FunctionalInv, ThreadOK
<1>2. ASSUME NEW c \in Clients
      PROVE  /\ caller[c] \in CallState /\ caller[c].input \in Inputs \cup {0}
             /\ caller[c].from \in Nat /\ caller[c].from <= Len(thread) /\ caller[c].told \in PromptSets
             /\ caller[c].at = "told" => Len(thread) > 0
             /\ caller[c].at # "running" => ~Busy \/ run.caller # c
  <2>1. caller[c] \in CallState /\ CallOK(caller[c], Len(thread))
    BY DEF FunctionalInv
  <2>2. caller[c].at # "running" => ~Busy \/ run.caller # c
    BY DEF FunctionalInv, Holds
  <2> QED
    BY <2>1, <2>2 DEF CallOK, CallState
<1> QED
  BY <1>1, <1>2, ThreadRows DEF ThreadOK

\* A call that waits for the thread.
WaitingCall(input, from) == [NoCall EXCEPT !.at = "waiting", !.input = input, !.from = from]

\* A call that waits for the lock of its thread.
LEMMA WaitingCallTyped ==
    ASSUME NEW input \in Inputs \cup {0}, NEW from \in Nat, NEW n \in Nat, from <= n
    PROVE  WaitingCall(input, from) \in CallState /\ CallOK(WaitingCall(input, from), n)
<1>1. NoCall \in CallState
  BY RestTyped
<1> HIDE DEF NoCall
<1>2. /\ WaitingCall(input, from) \in CallState /\ WaitingCall(input, from).from = from
      /\ WaitingCall(input, from).at = "waiting"
  BY <1>1 DEF WaitingCall, CallState
<1> QED
  BY <1>2 DEF CallOK

\* What a caller is told at the end.
LEMMA OutcomeTyped ==
    ASSUME NEW o \in {"none", "failed", "interrupted", "complete", "invalid"}, NEW n \in Nat
    PROVE  [NoCall EXCEPT !.outcome = o] \in CallState /\ CallOK([NoCall EXCEPT !.outcome = o], n)
<1>1. NoCall \in CallState /\ NoCall.at = "idle" /\ NoCall.from = 0
  BY RestTyped
<1> HIDE DEF NoCall
<1>2. /\ [NoCall EXCEPT !.outcome = o] \in CallState /\ [NoCall EXCEPT !.outcome = o].at = "idle"
      /\ [NoCall EXCEPT !.outcome = o].from = 0
  BY <1>1 DEF CallState
<1> QED
  BY <1>2 DEF CallOK

\* A caller calls (Invoke).
LEMMA InvokeKeeps ==
    ASSUME FunctionalInv, NEW c \in Clients, NEW input \in Inputs,
           NEW from \in 0 .. (IF host = "node" THEN 0 ELSE Len(thread)),
           InvokeEntrypoint(c, input, from)
    PROVE  FunctionalInv'
<1>1. Len(thread) \in Nat /\ (caller[c].at # "running" => ~Busy \/ run.caller # c)
  BY CallFields
<1>2. from \in Nat /\ from <= Len(thread)
  BY <1>1
<1>3. WaitingCall(input, from) \in CallState /\ CallOK(WaitingCall(input, from), Len(thread))
  BY <1>1, <1>2, WaitingCallTyped
<1>4. caller' = [caller EXCEPT ![c] = WaitingCall(input, from)] /\ caller[c].at = "idle"
  BY DEF InvokeEntrypoint, WaitingCall
<1>5. host' = host /\ thread' = thread /\ run' = run /\ grants' \in Seq(Grant) /\ values' = values
  BY DEF InvokeEntrypoint, FunctionalInv
<1>6. Busy => run.caller # c
  BY <1>1, <1>4
<1> QED
  BY <1>3, <1>4, <1>5, <1>6, CallerMoves

\* The graph is resumed with an answer for what a node asked.
LEMMA GraphResumeKeeps ==
    ASSUME FunctionalInv, NEW c \in Clients, NEW a \in AnswerValues, GraphResume(c, a)
    PROVE  FunctionalInv'
<1> DEFINE g == [prompts |-> caller[c].told, answer |-> a]
           call == [NoCall EXCEPT !.at = "waiting", !.input = caller[c].input]
<1>1. /\ Len(thread) \in Nat /\ (caller[c].at # "running" => ~Busy \/ run.caller # c)
      /\ caller[c].input \in Inputs \cup {0} /\ caller[c].told \in PromptSets
  BY CallFields
<1>2. call \in CallState /\ CallOK(call, Len(thread))
  <2>1. NoCall \in CallState /\ NoCall.from = 0
    BY RestTyped
  <2> HIDE DEF NoCall
  <2>2. call \in CallState /\ call.from = 0 /\ call.at = "waiting"
    BY <1>1, <2>1 DEF CallState
  <2> QED
    BY <1>1, <2>2 DEF CallOK
<1>3. caller[c].at = "told" /\ ~Busy
  BY DEF GraphResume
<1>4. caller' = [caller EXCEPT ![c] = call]
  BY DEF GraphResume
<1> HIDE DEF call
<1>5. g \in Grant
  BY <1>1 DEF Grant
<1>6. grants' \in Seq(Grant)
  <2>1. grants \in Seq(Grant) /\ grants' = Append(grants, g)
    BY DEF GraphResume, FunctionalInv
  <2> HIDE DEF g
  <2> QED
    BY <2>1, <1>5
<1>7. host' = host /\ thread' = thread /\ run' = run /\ values' = values
  BY DEF GraphResume
<1> QED
  BY <1>2, <1>3, <1>4, <1>6, <1>7, CallerMoves

\* Answers are put for prompts that are written; results stay.
LEMMA GrantedKeeps ==
    ASSUME NEW w \in WriteMaps, NEW g, g.answer \in AnswerValues
    PROVE  Granted(w, g) \in WriteMaps /\ Agrees(w.results, Granted(w, g).results)
<1> DEFINE ps == [p \in DOMAIN w.prompts |-> IF p \in g.prompts THEN g.answer ELSE w.prompts[p]]
<1>1. w.prompts \in AnswerMaps
  BY DEF WriteMaps
<1>2. DOMAIN w.prompts \in SUBSET PromptIDs /\ ps \in [DOMAIN w.prompts -> AnswerValues \cup {0}]
  BY <1>1, ExtendMaps
<1>3. ps \in AnswerMaps
  BY <1>2 DEF AnswerMaps
<1>4. Granted(w, g) = [w EXCEPT !.prompts = ps]
  BY DEF Granted
<1> HIDE DEF ps
<1> QED
  BY <1>3, <1>4 DEF WriteMaps, Agrees

\* The answers of a caller are written to a checkpoint of the thread (Resume).
LEMMA ResumeKeeps ==
    ASSUME FunctionalInv, NEW c \in Clients, NEW a \in AnswerValues, NEW from \in 0 .. Len(thread),
           ResumeEntrypoint(c, a, from)
    PROVE  FunctionalInv'
<1> DEFINE id == IF from = 0 THEN Len(thread) ELSE from
           g == [prompts |-> caller[c].told, answer |-> a]
           w == Granted(thread[id].writes, g)
           good == /\ thread[id].status = "running"
                   /\ caller[c].told \subseteq DOMAIN thread[id].writes.prompts
<1>1. /\ caller \in [Clients -> CallState] /\ Len(thread) \in Nat /\ DOMAIN thread = 1 .. Len(thread)
      /\ caller[c].input \in Inputs \cup {0} /\ (caller[c].at = "told" => Len(thread) > 0)
      /\ Descending(thread) /\ ThreadOK(host, thread)
  BY CallFields
<1>2. /\ ~Busy /\ caller[c].at = "told" /\ run = NoRun /\ host' = host /\ run' = run
      /\ grants' = grants /\ values' = values /\ grants' \in Seq(Grant)
  BY DEF ResumeEntrypoint, FunctionalInv
<1>3. id \in DOMAIN thread
  BY <1>1, <1>2
<1>4. CASE good
  <2>1. /\ thread' = [thread EXCEPT ![id].writes = w]
        /\ caller' = [caller EXCEPT ![c] = WaitingCall(caller[c].input, from)]
    BY <1>3, <1>4 DEF ResumeEntrypoint, WaitingCall
  <2>2. thread[id].writes \in WriteMaps /\ g.answer \in AnswerValues
    BY <1>1, <1>3, ThreadRows
  <2> HIDE DEF g
  <2>3. w \in WriteMaps /\ Agrees(thread[id].writes.results, w.results)
    BY <2>2, GrantedKeeps
  <2> HIDE DEF w, id
  <2>4. ThreadOK(host, thread') /\ Len(thread') = Len(thread)
    <3>1. thread' = WithWrites(thread, id, w)
      BY <2>1 DEF WithWrites
    <3>2. ASSUME NEW b \in DOMAIN thread, NEW v \in WriteMaps,
                 Agrees(thread[b].writes.results, v.results),
                 NEW th2, th2 = WithWrites(thread, b, v)
          PROVE  ThreadOK(host, th2) /\ Len(th2) = Len(thread)
      BY <3>2, <1>1, WritesPut
    <3> QED
      BY <3>1, <3>2, <1>3, <2>3
  <2>5. /\ WaitingCall(caller[c].input, from) \in CallState
        /\ CallOK(WaitingCall(caller[c].input, from), Len(thread'))
    <3>1. from \in Nat /\ from <= Len(thread') /\ Len(thread') \in Nat
      BY <1>1, <2>4
    <3> QED
      BY <1>1, <3>1, WaitingCallTyped
  <2>6. /\ caller' \in [Clients -> CallState]
        /\ \A d \in Clients : caller'[d] = caller[d] \/ CallOK(caller'[d], Len(thread'))
    BY <1>1, <2>1, <2>5
  <2>7. run' = NoRun /\ Len(thread') \in Nat /\ Len(thread') >= Len(thread)
    BY <1>1, <1>2, <2>4
  <2> QED
    BY <1>2, <2>4, <2>6, <2>7, RunEnds
<1>5. CASE ~good
  <2>1. thread' = thread /\ caller' = [caller EXCEPT ![c] = [NoCall EXCEPT !.outcome = "invalid"]]
    BY <1>5 DEF ResumeEntrypoint
  <2>2. /\ [NoCall EXCEPT !.outcome = "invalid"] \in CallState
        /\ CallOK([NoCall EXCEPT !.outcome = "invalid"], Len(thread))
    BY <1>1, OutcomeTyped
  <2> QED
    BY <1>2, <2>1, <2>2, CallerMoves
<1> QED
  BY <1>4, <1>5

\* The invocation that has just begun.
Fresh(c, a, rec, n) == [NoRun EXCEPT !.caller = c, !.attempt = a, !.recovered = rec, !.calls = n]

\* The run of an attempt that was just begun.
LEMMA FreshTyped ==
    ASSUME NEW c \in Clients, NEW a \in Nat, NEW rec \in WriteMaps, NEW n \in Nat,
           NEW r, r = Fresh(c, a, rec, n)
    PROVE  /\ r \in InvocationState /\ r.caller = c /\ r.attempt = a /\ r.recovered = rec
           /\ r.task = NoRun.task /\ r.answers = <<>>
<1>1. NoRun \in InvocationState /\ NoRun.answers = <<>>
  BY RestTyped
<1> HIDE DEF NoRun
<1> QED
  BY <1>1 DEF Fresh, InvocationState

\* An invocation takes the lock, on an attempt of its input or on a new one (invoke).
LEMMA BeginKeeps ==
    ASSUME FunctionalInv, NEW c \in Clients, Begin(c)
    PROVE  FunctionalInv'
<1> DEFINE input == caller[c].input
           base == IF caller[c].from = 0 THEN Len(thread) ELSE caller[c].from
           reuses == base > 0 /\ Reuses(thread[base], input)
<1>1. /\ input \in Inputs \cup {0} /\ Len(thread) \in Nat /\ DOMAIN thread = 1 .. Len(thread)
      /\ ThreadOK(host, thread) /\ Descending(thread) /\ caller[c].from \in Nat
      /\ caller[c].from <= Len(thread)
  BY CallFields
<1>2. base \in 0 .. Len(thread)
  BY <1>1
<1>3. /\ host = "entrypoint" /\ host' = host /\ grants' = grants /\ values' = values
      /\ caller' = [caller EXCEPT ![c].at = "running"] /\ c # 0
  BY FunctionalAssumption DEF Begin
<1>4. /\ NoRun \in InvocationState /\ NoRun.recovered = NothingWritten /\ NothingWritten \in WriteMaps
      /\ NoRun.calls = 0
  BY RestTyped DEF NoRun
<1>5. CASE reuses
  <2>1. base \in 1 .. Len(thread)
    BY <1>1, <1>2, <1>5
  <2>2. /\ thread[base].status = "running" /\ thread[base].input = input
        /\ thread[base].writes \in WriteMaps
    BY <1>1, <1>5, <2>1, ThreadRows DEF Reuses
  <2>3. thread' = thread
    BY <1>5 DEF Begin
  <2>4. run' = [NoRun EXCEPT !.caller = c, !.attempt = base, !.recovered = thread[base].writes]
    BY <1>5 DEF Begin
  <2> HIDE DEF base, input
  <2>5. /\ run' \in InvocationState /\ run'.caller = c /\ run'.attempt = base
        /\ run'.recovered = thread[base].writes /\ run'.task = NoRun.task /\ run'.answers = <<>>
    <3>1. NoRun.answers = <<>> /\ base \in Nat
      BY <1>1, <2>1, RestTyped
    <3> HIDE DEF NoRun
    <3> QED
      BY <1>4, <2>2, <2>4, <3>1 DEF InvocationState
  <2>6. /\ run'.attempt \in DOMAIN thread' /\ thread'[run'.attempt].status = "running"
        /\ thread'[run'.attempt].input = caller[c].input
        /\ run'.recovered = thread'[run'.attempt].writes
    BY <1>1, <2>1, <2>2, <2>3, <2>5 DEF input
  <2>7. ThreadOK(host, thread') /\ Len(thread') \in Nat /\ Len(thread') >= Len(thread)
    BY <1>1, <2>3
  <2> QED
    BY <1>3, <2>5, <2>6, <2>7, RunBegins
<1>6. CASE ~reuses
  <2> DEFINE row == NewCheckpoint("running", base, input, PreviousOf(base))
             a == Len(thread) + 1
  <2>1. thread' = Append(thread, row) /\ run' = [NoRun EXCEPT !.caller = c, !.attempt = a]
    BY <1>6 DEF Begin
  <2>2. /\ ThreadOK("entrypoint", thread') /\ Len(thread') = a /\ thread'[a] = row
        /\ DOMAIN thread' = 1 .. a
    <3>1. ASSUME NEW b \in 0 .. Len(thread), NEW i \in Inputs \cup {0},
                 NEW th2, th2 = Append(thread, NewCheckpoint("running", b, i, PreviousOf(b)))
          PROVE  /\ ThreadOK("entrypoint", th2) /\ Len(th2) = Len(thread) + 1
                 /\ th2[Len(thread) + 1] = NewCheckpoint("running", b, i, PreviousOf(b))
                 /\ DOMAIN th2 = 1 .. (Len(thread) + 1)
      BY <3>1, <1>1, <1>3, AttemptPut
    <3> HIDE DEF base, input
    <3> QED
      BY <3>1, <1>1, <1>2, <2>1
  <2>3. row.status = "running" /\ row.input = input /\ row.writes = NothingWritten
    BY DEF NewCheckpoint
  <2> HIDE DEF row, base, input, a
  <2>4. /\ run' \in InvocationState /\ run'.caller = c /\ run'.attempt = a
        /\ run'.recovered = NothingWritten /\ run'.task = NoRun.task /\ run'.answers = <<>>
    <3>1. NoRun.answers = <<>> /\ a \in Nat
      BY <1>1, RestTyped DEF a
    <3> HIDE DEF NoRun
    <3> QED
      BY <1>4, <2>1, <3>1 DEF InvocationState
  <2>5. a \in 1 .. a /\ a >= Len(thread) /\ a \in Nat
    BY <1>1 DEF a
  <2>6. /\ run'.attempt \in DOMAIN thread' /\ thread'[run'.attempt].status = "running"
        /\ thread'[run'.attempt].input = caller[c].input
        /\ run'.recovered = thread'[run'.attempt].writes
    BY <2>2, <2>3, <2>4, <2>5 DEF input
  <2>7. ThreadOK(host, thread') /\ Len(thread') \in Nat /\ Len(thread') >= Len(thread)
    BY <1>3, <2>2, <2>5
  <2> QED
    BY <1>3, <2>4, <2>6, <2>7, RunBegins
<1> QED
  BY <1>5, <1>6

\* The caller of a node is told the prompts, and the lock is free.
LEMMA ToldKeeps ==
    ASSUME FunctionalInv, NEW c \in Clients, NEW ps \in PromptSets, Len(thread) > 0, host' = host,
           thread' = thread, run' = NoRun, grants' = grants, values' = values, caller' = Told(c, ps)
    PROVE  FunctionalInv'
<1> DEFINE call == [caller[c] EXCEPT !.at = "told", !.told = ps, !.outcome = "interrupted"]
<1>1. /\ caller \in [Clients -> CallState] /\ caller[c] \in CallState /\ Len(thread) \in Nat
      /\ caller[c].from \in Nat /\ caller[c].from <= Len(thread) /\ ThreadOK(host, thread)
  BY CallFields
<1>2. caller' = [caller EXCEPT ![c] = call]
  BY <1>1 DEF Told
<1>3. call \in CallState /\ call.from = caller[c].from
  BY <1>1 DEF CallState
<1>4. CallOK(call, Len(thread'))
  BY <1>1, <1>3 DEF CallOK
<1> HIDE DEF call
<1>5. /\ caller' \in [Clients -> CallState]
      /\ \A d \in Clients : caller'[d] = caller[d] \/ CallOK(caller'[d], Len(thread'))
  BY <1>1, <1>2, <1>3, <1>4
<1> QED
  BY <1>1, <1>5, RunEnds

\* The caller is given the outcome, and the lock is free.
LEMMA OutcomeKeeps ==
    ASSUME FunctionalInv, NEW c \in Clients,
           NEW o \in {"none", "failed", "interrupted", "complete", "invalid"},
           host' = host, ThreadOK(host, thread'), Len(thread') \in Nat, Len(thread') >= Len(thread),
           run' = NoRun, grants' = grants, values' = values, caller' = Outcome(c, o)
    PROVE  FunctionalInv'
<1> DEFINE call == [NoCall EXCEPT !.outcome = o]
<1>1. caller \in [Clients -> CallState]
  BY CallFields
<1>2. caller' = [caller EXCEPT ![c] = call]
  BY DEF Outcome
<1>3. call \in CallState /\ CallOK(call, Len(thread'))
  BY OutcomeTyped
<1> HIDE DEF call
<1>4. /\ caller' \in [Clients -> CallState]
      /\ \A d \in Clients : caller'[d] = caller[d] \/ CallOK(caller'[d], Len(thread'))
  BY <1>1, <1>2, <1>3
<1> QED
  BY <1>4, RunEnds

\* An invocation returns its outcome and releases the lock (invoke).
LEMMA FinishKeeps ==
    ASSUME FunctionalInv, FinishInvocation
    PROVE  FunctionalInv'
<1> DEFINE c == run.caller
           a == run.attempt
           told == IF run.prompts # {} THEN run.prompts ELSE run.own
<1>0. /\ host = "entrypoint" /\ Busy /\ host' = host /\ run' = NoRun /\ grants' = grants
      /\ values' = values
      /\ run \in InvocationState
  BY DEF FinishInvocation, Waited, FunctionalInv
<1>1. /\ c \in Clients /\ run.prompts \in PromptSets /\ run.own \in PromptSets
      /\ a \in DOMAIN thread /\ UsesRecorded(run, thread[a].writes)
  BY <1>0, RunFields
<1>2. thread[a].status = "running" /\ thread[a].input = caller[c].input
  BY <1>0 DEF FunctionalInv, Holds
<1>3. /\ Len(thread) \in Nat /\ DOMAIN thread = 1 .. Len(thread) /\ ThreadOK(host, thread)
      /\ told \in PromptSets
  BY <1>1, CallFields
<1>4. Used \in WriteMaps /\ KeptAgree(Used.results, thread[a].writes.results)
  BY <1>0, <1>1, UsedRecorded
<1>5. \/ caller' = Outcome(c, "failed") /\ thread' = thread
      \/ caller' = Told(c, told) /\ thread' = thread
      \/ /\ caller' = Outcome(c, "complete")
         /\ thread' = Append(thread,
              [NewCheckpoint("complete", a, thread[a].input, thread[a].prev) EXCEPT !.used = Used])
  BY <1>2 DEF FinishInvocation
<1> HIDE DEF told, c
<1>6. CASE caller' = Outcome(c, "failed") /\ thread' = thread
  BY <1>0, <1>1, <1>3, <1>6, OutcomeKeeps
<1>7. CASE caller' = Told(c, told) /\ thread' = thread
  <2>1. Len(thread) > 0
    BY <1>1, <1>3
  <2> QED
    BY <1>0, <1>1, <1>3, <1>7, <2>1, ToldKeeps
<1>8. CASE /\ caller' = Outcome(c, "complete")
           /\ thread' = Append(thread,
                [NewCheckpoint("complete", a, thread[a].input, thread[a].prev) EXCEPT !.used = Used])
  <2> HIDE DEF a, Used
  <2>1. ASSUME NEW b \in DOMAIN thread, thread[b].status = "running", NEW u \in WriteMaps,
               KeptAgree(u.results, thread[b].writes.results), NEW th2,
               th2 = Append(thread,
                 [NewCheckpoint("complete", b, thread[b].input, thread[b].prev) EXCEPT !.used = u])
        PROVE  ThreadOK("entrypoint", th2) /\ Len(th2) = Len(thread) + 1
    BY <2>1, <1>0, <1>3, CompletePut
  <2>2. ThreadOK(host, thread') /\ Len(thread') = Len(thread) + 1
    BY <1>0, <1>1, <1>2, <1>4, <1>8, <2>1
  <2>3. Len(thread') \in Nat /\ Len(thread') >= Len(thread)
    BY <1>3, <2>2
  <2> QED
    BY <1>0, <1>1, <1>8, <2>2, <2>3, OutcomeKeeps
<1> QED
  BY <1>5, <1>6, <1>7, <1>8

\* The process dies: the lock and the calls that were under way are gone.
LEMMA ProcessDiesKeeps ==
    ASSUME FunctionalInv, ProcessDies
    PROVE  FunctionalInv'
<1>1. /\ caller \in [Clients -> CallState] /\ Len(thread) \in Nat /\ ThreadOK(host, thread)
      /\ NoCall \in CallState /\ NoCall.at = "idle" /\ NoCall.from = 0
  BY CallFields, RestTyped
<1> HIDE DEF NoCall
<1>2. /\ host' = host /\ thread' = thread /\ run' = NoRun /\ grants' = grants /\ values' = values
      /\ caller' = [c \in Clients |->
                      IF caller[c].at \in {"waiting", "running"} THEN NoCall ELSE caller[c]]
  BY DEF ProcessDies
<1>3. caller' \in [Clients -> CallState]
  BY <1>1, <1>2
<1>4. \A c \in Clients : caller'[c] = caller[c] \/ CallOK(caller'[c], Len(thread'))
  BY <1>1, <1>2 DEF CallOK
<1> QED
  BY <1>1, <1>2, <1>3, <1>4, RunEnds

\* A node begins, with the answers that the graph has for its prompts
\* (graphNodeTaskManager, pendingGraphNodeInterrupts).
LEMMA NodeBeginKeeps ==
    ASSUME FunctionalInv, NEW c \in Clients, NodeBegin(c)
    PROVE  FunctionalInv'
<1> DEFINE w == thread[1].writes
           n == run.calls + 1
           g == grants[n]
           pending == Unanswered(w)
<1>0. /\ host = "node" /\ thread[1].status = "running" /\ host' = host /\ grants' = grants
      /\ values' = values
      /\ run \in InvocationState /\ grants \in Seq(Grant) /\ c # 0
  BY FunctionalAssumption DEF NodeBegin, FunctionalInv
<1>1. /\ Len(thread) = 1 /\ DOMAIN thread = 1 .. 1 /\ ThreadOK(host, thread) /\ Descending(thread)
      /\ caller \in [Clients -> CallState]
  BY <1>0, CallFields
<1>2. w \in WriteMaps /\ run.calls \in Nat /\ n \in Nat \ {0} /\ Len(grants) \in Nat
  BY <1>0, <1>1, ThreadRows DEF InvocationState
<1>3. pending \in PromptSets
  <2>1. w.prompts \in AnswerMaps
    BY <1>2 DEF WriteMaps
  <2> QED
    BY <2>1, ExtendMaps DEF Unanswered, PromptSets
<1>4. \/ /\ run' = Fresh(c, 1, w, run.calls) /\ caller' = [caller EXCEPT ![c].at = "running"]
         /\ thread' = thread
      \/ caller' = Told(c, pending) /\ run' = NoRun /\ thread' = thread
      \/ /\ Len(grants) >= n /\ thread' = [thread EXCEPT ![1].writes = Granted(w, g)]
         /\ run' = Fresh(c, 1, Granted(w, g), n) /\ caller' = [caller EXCEPT ![c].at = "running"]
  BY DEF NodeBegin, Fresh
<1> HIDE DEF w, n, g, pending
<1>5. CASE /\ run' = Fresh(c, 1, w, run.calls) /\ caller' = [caller EXCEPT ![c].at = "running"]
           /\ thread' = thread
  <2>1. /\ run' \in InvocationState /\ run'.caller = c /\ run'.attempt = 1 /\ run'.recovered = w
        /\ run'.task = NoRun.task /\ run'.answers = <<>>
    BY <1>2, <1>5, FreshTyped
  <2>2. /\ run'.attempt \in DOMAIN thread' /\ thread'[run'.attempt].status = "running"
        /\ run'.recovered = thread'[run'.attempt].writes /\ host # "entrypoint"
    BY <1>0, <1>1, <1>5, <2>1 DEF w
  <2>3. ThreadOK(host, thread') /\ Len(thread') \in Nat /\ Len(thread') >= Len(thread)
    <3>1. thread' = thread
      BY <1>5
    <3> QED
      BY <1>1, <3>1
  <2> QED
    BY <1>0, <1>5, <2>1, <2>2, <2>3, RunBegins
<1>6. CASE caller' = Told(c, pending) /\ run' = NoRun /\ thread' = thread
  <2>1. Len(thread) > 0
    BY <1>1
  <2> QED
    BY <1>0, <1>3, <1>6, <2>1, ToldKeeps
<1>7. CASE /\ Len(grants) >= n /\ thread' = [thread EXCEPT ![1].writes = Granted(w, g)]
           /\ run' = Fresh(c, 1, Granted(w, g), n) /\ caller' = [caller EXCEPT ![c].at = "running"]
  <2> DEFINE w2 == Granted(w, g)
  <2>1. g \in Grant /\ g.answer \in AnswerValues
    <3>1. n \in 1 .. Len(grants)
      BY <1>2, <1>7
    <3>2. g \in Grant
      BY <1>0, <3>1 DEF g
    <3> QED
      BY <3>2 DEF Grant
  <2>2. w2 \in WriteMaps /\ Agrees(w.results, w2.results)
    BY <1>2, <2>1, GrantedKeeps
  <2> HIDE DEF w2
  <2>3. thread' = [thread EXCEPT ![1].writes = w2] /\ run' = Fresh(c, 1, w2, n)
    BY <1>7 DEF w2
  <2>4. /\ run' \in InvocationState /\ run'.caller = c /\ run'.attempt = 1 /\ run'.recovered = w2
        /\ run'.task = NoRun.task /\ run'.answers = <<>>
    <3>1. n \in Nat /\ 1 \in Nat
      BY <1>2
    <3> QED
      BY <2>2, <2>3, <3>1, FreshTyped
  <2>5. /\ ThreadOK(host, thread') /\ Len(thread') = Len(thread) /\ DOMAIN thread' = DOMAIN thread
        /\ thread'[1].writes = w2 /\ thread'[1].status = thread[1].status
    <3>1. thread' = WithWrites(thread, 1, w2) /\ 1 \in DOMAIN thread
      BY <1>1, <2>3 DEF WithWrites
    <3>2. Agrees(thread[1].writes.results, w2.results)
      BY <2>2 DEF w
    <3> QED
      BY <1>1, <2>2, <3>1, <3>2, WritesPut
  <2>6. /\ run'.attempt \in DOMAIN thread' /\ thread'[run'.attempt].status = "running"
        /\ run'.recovered = thread'[run'.attempt].writes /\ host # "entrypoint"
    BY <1>0, <1>1, <2>4, <2>5
  <2>7. Len(thread') \in Nat /\ Len(thread') >= Len(thread)
    BY <1>1, <2>5
  <2> QED
    BY <1>0, <1>7, <2>4, <2>5, <2>6, <2>7, RunBegins
<1> QED
  BY <1>4, <1>5, <1>6, <1>7

\* A node ends, or begins once more with an answer that the graph already has.
LEMMA NodeFinishKeeps ==
    ASSUME FunctionalInv, NodeFinish
    PROVE  FunctionalInv'
<1> DEFINE c == run.caller
           w == thread[1].writes
           n == run.calls + 1
           g == grants[n]
           again == [NoRun EXCEPT !.caller = c, !.attempt = 1, !.calls = n, !.entry = "again"]
<1>0. /\ host = "node" /\ Busy /\ host' = host /\ grants' = grants /\ values' = values
      /\ run \in InvocationState /\ grants \in Seq(Grant)
  BY DEF NodeFinish, Waited, FunctionalInv
<1>1. /\ Len(thread) = 1 /\ DOMAIN thread = 1 .. 1 /\ ThreadOK(host, thread) /\ Descending(thread)
      /\ caller \in [Clients -> CallState]
  BY <1>0, CallFields
<1>2. /\ c \in Clients /\ run.prompts \in PromptSets /\ run.calls \in Nat
      /\ run.attempt \in DOMAIN thread
      /\ UsesRecorded(run, thread[run.attempt].writes)
  BY <1>0, RunFields
<1>3. run.attempt = 1 /\ w \in WriteMaps /\ n \in Nat \ {0} /\ Len(grants) \in Nat
  BY <1>0, <1>1, <1>2, ThreadRows
<1>4. Used \in WriteMaps /\ KeptAgree(Used.results, w.results)
  BY <1>0, <1>2, <1>3, UsedRecorded
<1>5. thread[1].status = "running" /\ caller[c].at = "running" /\ c # 0
  BY <1>0, <1>3 DEF FunctionalInv, Holds, Busy
<1>6. \/ caller' = Outcome(c, "failed") /\ run' = NoRun /\ thread' = thread
      \/ /\ caller' = Outcome(c, "complete") /\ run' = NoRun
         /\ thread' = [thread EXCEPT ![1].status = "complete", ![1].used = Used]
      \/ caller' = Told(c, run.prompts) /\ run' = NoRun /\ thread' = thread
      \/ /\ Len(grants) >= n /\ thread' = [thread EXCEPT ![1].writes = Granted(w, g)]
         /\ run' = again /\ caller' = caller
  BY DEF NodeFinish
<1> HIDE DEF w, g, Used
<1>7. CASE caller' = Outcome(c, "failed") /\ run' = NoRun /\ thread' = thread
  <2> HIDE DEF c
  <2> QED
    <3>1. ThreadOK(host, thread') /\ Len(thread') \in Nat /\ Len(thread') >= Len(thread)
      BY <1>1, <1>7
    <3> QED
      BY <1>0, <1>2, <1>7, <3>1, OutcomeKeeps
<1>8. CASE /\ caller' = Outcome(c, "complete") /\ run' = NoRun
           /\ thread' = [thread EXCEPT ![1].status = "complete", ![1].used = Used]
  <2> HIDE DEF c
  <2>1. ASSUME NEW u \in WriteMaps, KeptAgree(u.results, thread[1].writes.results),
               NEW th2, th2 = [thread EXCEPT ![1].status = "complete", ![1].used = u]
        PROVE  ThreadOK("node", th2) /\ Len(th2) = Len(thread)
    BY <2>1, <1>0, <1>1, NodeCompletes
  <2>2. ThreadOK(host, thread') /\ Len(thread') = Len(thread)
    BY <1>0, <1>4, <1>8, <2>1 DEF w
  <2>3. Len(thread') \in Nat /\ Len(thread') >= Len(thread)
    BY <1>1, <2>2
  <2> QED
    BY <1>0, <1>2, <1>8, <2>2, <2>3, OutcomeKeeps
<1>9. CASE caller' = Told(c, run.prompts) /\ run' = NoRun /\ thread' = thread
  <2> HIDE DEF c
  <2>1. Len(thread) > 0
    BY <1>1
  <2> QED
    BY <1>0, <1>2, <1>9, <2>1, ToldKeeps
<1>10. CASE /\ Len(grants) >= n /\ thread' = [thread EXCEPT ![1].writes = Granted(w, g)]
            /\ run' = again /\ caller' = caller
  <2> DEFINE w2 == Granted(w, g)
  <2>1. g.answer \in AnswerValues
    <3>1. n \in 1 .. Len(grants)
      BY <1>3, <1>10
    <3>2. g \in Grant
      BY <1>0, <3>1 DEF g
    <3> QED
      BY <3>2 DEF Grant
  <2>2. w2 \in WriteMaps /\ Agrees(w.results, w2.results)
    BY <1>3, <2>1, GrantedKeeps
  <2>3. thread' = WithWrites(thread, 1, w2) /\ 1 \in DOMAIN thread
    BY <1>1, <1>10 DEF WithWrites
  <2> HIDE DEF w2, n, c
  <2>4. /\ ThreadOK(host, thread') /\ Len(thread') = Len(thread) /\ DOMAIN thread' = DOMAIN thread
        /\ thread'[1].writes = w2 /\ thread'[1].status = thread[1].status
    <3>1. Agrees(thread[1].writes.results, w2.results)
      BY <2>2 DEF w
    <3> QED
      BY <1>1, <2>2, <2>3, <3>1, WritesPut
  <2>5. /\ run' \in InvocationState /\ run'.caller = c /\ run'.attempt = 1
        /\ run'.recovered = NothingWritten
        /\ run'.task = NoRun.task /\ run'.answers = <<>> /\ run'.entry = "again"
    <3>1. NoRun \in InvocationState /\ NoRun.answers = <<>> /\ NoRun.recovered = NothingWritten
      BY RestTyped
    <3>2. run' = again
      BY <1>10
    <3> HIDE DEF NoRun
    <3> QED
      BY <1>2, <1>3, <3>1, <3>2 DEF InvocationState
  <2>6. caller' = [caller EXCEPT ![c].at = "running"]
    <3>1. [caller[c] EXCEPT !.at = "running"] = caller[c]
      BY <1>1, <1>2, <1>5 DEF CallState
    <3> QED
      BY <1>1, <1>2, <1>10, <3>1
  <2>7. /\ run'.attempt \in DOMAIN thread' /\ thread'[run'.attempt].status = "running"
        /\ host # "entrypoint"
    BY <1>0, <1>1, <1>5, <2>4, <2>5
  <2>8. Len(thread') \in Nat /\ Len(thread') >= Len(thread)
    BY <1>1, <2>4
  <2> QED
    BY <1>0, <1>2, <1>5, <2>4, <2>5, <2>6, <2>7, <2>8, RunBegins
<1> QED
  BY <1>6, <1>7, <1>8, <1>9, <1>10

-----------------------------------------------------------------------------
(***************************************************************************)
(* The theorem.                                                            *)
(***************************************************************************)
\* A thread begins empty, or with the checkpoint of a node.
LEMMA FunctionalStart ==
    ASSUME FunctionalInit, Durable
    PROVE  FunctionalInv
<1> DEFINE row == NewCheckpoint("running", 0, 0, 0)
<1>0. /\ host \in {"entrypoint", "node"} /\ run = NoRun /\ caller = [c \in Clients |-> NoCall]
      /\ grants = <<>> /\ values = 0 /\ thread = IF host = "node" THEN <<row>> ELSE <<>>
  BY FunctionalAssumption DEF FunctionalInit, Durable
<1>1. row \in ThreadRow /\ row.parent = 0 /\ row.status = "running"
  BY NewTyped
<1> HIDE DEF row
<1>2. thread \in Seq(ThreadRow) /\ (host = "node" => Len(thread) = 1 /\ thread[1] = row)
      /\ (host = "entrypoint" => Len(thread) = 0)
  BY <1>0, <1>1
<1>3. ThreadOK(host, thread)
  <2>1. DOMAIN thread = 1 .. Len(thread) /\ Len(thread) \in Nat
    BY <1>2
  <2>2. ASSUME NEW i \in DOMAIN thread PROVE thread[i].parent < i /\ RowOK(host, thread, i)
    <3>1. host = "node" /\ i = 1 /\ thread[i] = row
      BY <1>0, <1>2, <2>1
    <3> QED
      BY <3>1, <1>1 DEF RowOK
  <2> QED
    BY <1>2, <2>2 DEF ThreadOK, Descending
<1>4. /\ NoRun \in InvocationState /\ NoRun.caller = 0 /\ NoCall \in CallState /\ NoCall.at = "idle"
      /\ NoCall.from = 0
  BY RestTyped
<1> HIDE DEF NoRun, NoCall
<1>5. caller \in [Clients -> CallState] /\ \A c \in Clients : CallOK(caller[c], Len(thread))
  <2>1. Len(thread) \in Nat
    BY <1>2
  <2> QED
    BY <1>0, <1>4, <2>1 DEF CallOK
<1>6. grants \in Seq(Grant) /\ values \in Nat
  BY <1>0
<1> QED
  BY <1>0, <1>3, <1>4, <1>5, <1>6 DEF FunctionalInv, Busy

\* Every step keeps the invariant.
LEMMA FunctionalSteps ==
    ASSUME FunctionalInv, [FunctionalNext]_functionalVars
    PROVE  FunctionalInv'
<1>1. ASSUME NEW c \in Clients, NEW input \in Inputs,
             NEW from \in 0 .. (IF host = "node" THEN 0 ELSE Len(thread)),
             InvokeEntrypoint(c, input, from)
      PROVE  FunctionalInv'
  BY <1>1, InvokeKeeps
<1>2. ASSUME NEW c \in Clients, Begin(c) PROVE FunctionalInv'
  BY <1>2, BeginKeeps
<1>3. ASSUME NEW c \in Clients, NEW a \in AnswerValues, GraphResume(c, a) PROVE FunctionalInv'
  BY <1>3, GraphResumeKeeps
<1>4. ASSUME NEW c \in Clients, NEW a \in AnswerValues, NEW from \in 0 .. Len(thread),
             ResumeEntrypoint(c, a, from)
      PROVE  FunctionalInv'
  BY <1>4, ResumeKeeps
<1>5. ASSUME NEW c \in Clients, NodeBegin(c) PROVE FunctionalInv'
  BY <1>5, NodeBeginKeeps
<1>6. ASSUME Call \/ Await \/ Ask \/ EntryReturn \/ FinishInvocation \/ NodeFinish PROVE FunctionalInv'
  BY <1>6, CallKeeps, AwaitKeeps, AskKeeps, EntryReturnKeeps, FinishKeeps, NodeFinishKeeps
<1>7. ASSUME NEW t \in TaskIDs,
             \/ TaskStart(t) \/ TaskAsk(t) \/ TaskReturn(t) \/ RetryTask(t) \/ FailTask(t)
             \/ TaskError(t) \/ Cancel(t)
      PROVE  FunctionalInv'
  BY <1>7, TaskStartKeeps, TaskAskKeeps, TaskReturnKeeps, RetryTaskKeeps, FailTaskKeeps,
     TaskErrorKeeps, CancelKeeps
<1>8. ASSUME ProcessDies PROVE FunctionalInv'
  BY <1>8, ProcessDiesKeeps
<1>9. CASE UNCHANGED functionalVars
  BY <1>9 DEF functionalVars, FunctionalInv, Busy
<1>10. /\ ~AskRefused /\ ~PlainFinish /\ \A c \in Clients : ~PlainBegin(c)
       /\ \A t \in TaskIDs : ~TaskAskRefused(t)
  BY DEF FunctionalInv, AskRefused, PlainFinish, PlainBegin, TaskAskRefused, Durable
<1> QED
  BY <1>1, <1>2, <1>3, <1>4, <1>5, <1>6, <1>7, <1>8, <1>9, <1>10 DEF FunctionalNext, FunctionalStep

\* The invariant gives the property.
LEMMA FunctionalSound ==
    ASSUME FunctionalInv
    PROVE  InvocationFaithful
<1>1. ASSUME Busy
      PROVE  /\ KeptAgree(Used.results, thread[run.attempt].writes.results)
             /\ Agrees(Used.prompts, thread[run.attempt].writes.prompts)
  <2>1. run \in InvocationState /\ UsesRecorded(run, thread[run.attempt].writes)
    BY <1>1, RunFields DEF FunctionalInv
  <2> HIDE DEF Used
  <2> QED
    BY <2>1, UsedRecorded
<1>2. ASSUME NEW t \in Active, Recoverable(t)
      PROVE  t \notin DOMAIN thread[run.attempt].writes.results
  <2>1. t \in TaskIDs /\ run.task[t].at \in {"started", "answered", "retry"}
    BY DEF Active
  <2>2. Busy
    <3>1. ~Busy => run.task[t].at = "none"
      <4>1. NoRun.task[t] = NewTask /\ NewTask.at = "none"
        BY <2>1, RestTyped
      <4> HIDE DEF NoRun, NewTask
      <4> QED
        BY <4>1 DEF FunctionalInv
    <3> QED
      BY <2>1, <3>1
  <2>3. /\ TaskUses(run.entry, run.recovered, thread[run.attempt].writes, t, run.task[t])
        /\ TaskCalled(run.entry, run.pc, t, run.task[t])
    BY <2>1, <2>2, RunFields DEF TasksCalled
  <2> QED
    BY <1>2, <2>1, <2>3 DEF TaskUses, TaskCalled, Recoverable
<1>3. ASSUME NEW i \in DOMAIN thread, thread[i].status = "complete", NEW a,
             a = IF host = "node" THEN i ELSE thread[i].parent
      PROVE  /\ KeptAgree(thread[i].used.results, thread[a].writes.results)
             /\ thread[i].input = thread[a].input
             /\ host = "entrypoint" => LastCompleted(thread, thread[i].prev, thread[a].parent)
  <2>1. /\ host \in {"entrypoint", "node"} /\ Descending(thread) /\ DOMAIN thread = 1 .. Len(thread)
        /\ Len(thread) \in Nat /\ \A j \in DOMAIN thread : RowOK(host, thread, j)
    BY CallFields DEF FunctionalInv, ThreadOK
  <2>2. RowOK(host, thread, i)
    BY <2>1
  <2>3. CASE host = "node"
    BY <1>3, <2>2, <2>3 DEF RowOK
  <2>4. CASE host = "entrypoint"
    <3>1. /\ a # 0 /\ a = thread[i].parent /\ thread[a].status = "running"
          /\ thread[i].prev = thread[a].prev /\ thread[i].input = thread[a].input
          /\ KeptAgree(thread[i].used.results, thread[a].writes.results)
      BY <1>3, <2>2, <2>4 DEF RowOK
    <3>2. a \in DOMAIN thread
      BY <2>1, <3>1, ThreadRows
    <3>3. LastCompleted(thread, thread[a].prev, thread[a].parent)
      BY <2>1, <2>4, <3>1, <3>2 DEF RowOK
    <3> QED
      BY <3>1, <3>3
  <2> QED
    BY <2>1, <2>3, <2>4
<1>4. Durable
  BY DEF FunctionalInv, Durable
<1>5. host # "plain"
  BY <1>4 DEF Durable
<1> HIDE DEF Used, LastCompleted, KeptAgree, Agrees
<1> QED
  BY <1>1, <1>2, <1>3, <1>4, <1>5 DEF InvocationFaithful

-----------------------------------------------------------------------------
\* Without recovery every checkpoint is a completed invocation, which built on the one
\* before it; an invocation that runs began from one of them.
PlainThread(th) ==
    /\ \E S : th \in Seq(S)
    /\ \A i \in 1 .. Len(th) :
          /\ th[i].status = "complete" /\ th[i].parent \in Nat /\ th[i].parent < i
          /\ th[i].prev = th[i].parent
RunShaped(r) == {"attempt", "caller", "task", "pc", "entry"} \subseteq DOMAIN r
PlainInv ==
    /\ host = "plain" /\ PlainThread(thread)
    /\ caller \in [Clients -> CallState] /\ \A c \in Clients : caller[c].from <= Len(thread)
    /\ RunShaped(run) /\ (Busy => run.attempt \in 0 .. Len(thread))

\* Every completed invocation is the last one of its branch.
LEMMA PlainLast ==
    ASSUME NEW th, Len(th) \in Nat, NEW i \in 0 .. Len(th),
           \A j \in 1 .. Len(th) : th[j].status = "complete" /\ th[j].parent \in Nat /\ th[j].parent < j
    PROVE  LastCompleted(th, i, i)
<1>1. i \in Branch(th, i)
  BY DEF Branch
<1>2. ASSUME NEW x \in Branch(th, i) PROVE x <= i
  <2>1. /\ 0 .. i \in SUBSET (0 .. Len(th)) /\ i \in 0 .. i
        /\ \A j \in (0 .. i) \ {0} : th[j].parent \in 0 .. i
    OBVIOUS
  <2>2. x \in 0 .. i
    BY <2>1 DEF Branch
  <2> QED BY <2>2
<1> QED
  BY <1>1, <1>2 DEF LastCompleted, CompleteOrNone

\* The steps of the body and of the tasks keep the thread, the calls and the lock.
LEMMA PlainRuns ==
    ASSUME PlainInv, NEW t \in TaskIDs,
           \/ Call \/ Await \/ AskRefused \/ EntryReturn
           \/ TaskStart(t) \/ TaskAskRefused(t) \/ TaskReturn(t) \/ RetryTask(t) \/ FailTask(t)
           \/ TaskError(t) \/ Cancel(t)
    PROVE  PlainInv'
<1>1. ~Recoverable(t) /\ ~Durable
  BY DEF PlainInv, Recoverable, Durable
<1>2. host' = host /\ thread' = thread /\ caller' = caller
  BY <1>1 DEF Call, Await, AskRefused, EntryReturn, TaskStart, TaskAskRefused, TaskReturn, RetryTask,
              FailTask, TaskError, Cancel
<1>3. run'.attempt = run.attempt /\ run'.caller = run.caller /\ DOMAIN run' = DOMAIN run
  <2>0. {"attempt", "caller", "task", "pc", "entry"} \subseteq DOMAIN run
    BY DEF PlainInv, RunShaped
  <2>1. CASE Call
    BY <2>0, <2>1 DEF Call
  <2>2. CASE Await
    BY <2>0, <2>2 DEF Await
  <2>3. CASE AskRefused
    BY <2>0, <2>3 DEF AskRefused
  <2>4. CASE EntryReturn
    BY <2>0, <2>4 DEF EntryReturn
  <2>5. CASE TaskStart(t)
    <3>1. run' = [run EXCEPT !.task[t].at = "started"]
      BY <1>1, <2>5 DEF TaskStart
    <3> QED BY <2>0, <3>1
  <2>6. CASE TaskAskRefused(t)
    BY <2>0, <2>6 DEF TaskAskRefused
  <2>7. CASE TaskReturn(t)
    BY <2>0, <2>7 DEF TaskReturn
  <2>8. CASE RetryTask(t)
    <3>1. run' = [run EXCEPT !.task[t].at = "started", !.task[t].attempts = @ + 1,
                             !.task[t].err = "none", !.task[t].answer = <<>>]
      BY <2>8 DEF RetryTask
    <3> QED BY <2>0, <3>1
  <2>9. CASE FailTask(t)
    <3>1. \/ run' = [run EXCEPT !.task[t].at = "failed", !.prompts = @ \cup {run.task[t].prompt}]
          \/ run' = [run EXCEPT !.task[t].at = "failed", !.task[t].err = "failed",
                                !.failed = TRUE, !.canceled = TRUE]
      BY <2>9 DEF FailTask
    <3> QED BY <2>0, <3>1
  <2>10. CASE TaskError(t)
    <3>1. run' = [run EXCEPT !.task[t].at = "retry", !.task[t].err = "failed"]
      BY <2>10 DEF TaskError
    <3> QED BY <2>0, <3>1
  <2>11. CASE Cancel(t)
    BY <2>0, <2>11 DEF Cancel
  <2> QED
    BY <2>1, <2>2, <2>3, <2>4, <2>5, <2>6, <2>7, <2>8, <2>9, <2>10, <2>11
<1> QED
  BY <1>2, <1>3 DEF PlainInv, RunShaped, Busy

\* An invocation ends without a trace, or puts one checkpoint after the one it began from.
LEMMA PlainFinishKeeps == ASSUME PlainInv, PlainFinish PROVE PlainInv'
<1> DEFINE c == run.caller
           a == run.attempt
           row == [NewCheckpoint("complete", a, caller[c].input, PreviousOf(a)) EXCEPT !.used = Used]
<1>1. Busy /\ a \in 0 .. Len(thread) /\ host' = host /\ run' = NoRun
  BY DEF PlainInv, PlainFinish, Waited
<1>2. PICK S : thread \in Seq(S)
  BY DEF PlainInv, PlainThread
<1>3. Len(thread) \in Nat
  BY <1>2
<1>4. PreviousOf(a) = a
  BY <1>1, <1>3 DEF PreviousOf, PlainInv, PlainThread
<1>5. row.status = "complete" /\ row.parent = a /\ row.prev = a
  <2> HIDE DEF Used, NothingWritten
  <2> QED BY <1>4 DEF NewCheckpoint
<1>6. \/ caller' = Outcome(c, "failed") /\ thread' = thread
      \/ caller' = Outcome(c, "complete") /\ thread' = Append(thread, row)
  BY DEF PlainFinish
<1> HIDE DEF row
<1>7. PlainThread(thread') /\ Len(thread') \in Nat /\ Len(thread) <= Len(thread')
  <2>1. CASE thread' = thread
    BY <2>1, <1>3 DEF PlainInv
  <2>2. CASE thread' = Append(thread, row)
    <3>1. /\ thread' \in Seq(S \cup {row}) /\ Len(thread') = Len(thread) + 1
          /\ thread'[Len(thread) + 1] = row /\ \A i \in 1 .. Len(thread) : thread'[i] = thread[i]
      <4>1. thread \in Seq(S \cup {row})
        BY <1>2
      <4> QED BY <2>2, <4>1
    <3>2. ASSUME NEW i \in 1 .. Len(thread')
          PROVE  /\ thread'[i].status = "complete" /\ thread'[i].parent \in Nat
                 /\ thread'[i].parent < i /\ thread'[i].prev = thread'[i].parent
      <4>1. CASE i = Len(thread) + 1
        BY <1>1, <1>3, <1>5, <3>1, <4>1
      <4>2. CASE i \in 1 .. Len(thread)
        BY <3>1, <4>2 DEF PlainInv, PlainThread
      <4> QED BY <1>3, <3>1, <4>1, <4>2
    <3>3. PlainThread(thread')
      BY <3>1, <3>2 DEF PlainThread
    <3> QED BY <1>3, <3>1, <3>3
  <2> QED BY <1>6, <2>1, <2>2
<1>8. /\ caller' \in [Clients -> CallState]
      /\ \A d \in Clients : caller'[d].from <= Len(thread')
  <2>1. PICK o \in {"failed", "complete"} : caller' = [caller EXCEPT ![c] = [NoCall EXCEPT !.outcome = o]]
    BY <1>6 DEF Outcome
  <2>2. [NoCall EXCEPT !.outcome = o] \in CallState /\ [NoCall EXCEPT !.outcome = o].from = 0
    BY OutcomeTyped, RestTyped DEF CallState
  <2>3. \A d \in Clients : caller[d] \in CallState /\ caller[d].from \in Nat
    BY DEF PlainInv, CallState
  <2> DEFINE ended == [NoCall EXCEPT !.outcome = o]
  <2>4. /\ caller' = [caller EXCEPT ![c] = ended] /\ ended \in CallState /\ ended.from = 0
        /\ caller \in [Clients -> CallState] /\ \A d \in Clients : caller[d].from <= Len(thread)
    BY <2>1, <2>2 DEF PlainInv
  <2> HIDE DEF ended, c
  <2>5. ASSUME NEW d \in Clients PROVE caller'[d] = caller[d] \/ caller'[d] = ended
    BY <2>4
  <2>6. ASSUME NEW d \in Clients PROVE caller'[d].from <= Len(thread')
    BY <1>3, <1>7, <2>3, <2>4, <2>5
  <2> QED BY <2>4, <2>6
<1>9. RunShaped(run') /\ run'.caller = 0
  BY <1>1 DEF RunShaped, NoRun
<1> QED
  BY <1>1, <1>7, <1>8, <1>9 DEF PlainInv, Busy

\* Every step keeps the invariant.
LEMMA PlainSteps == ASSUME PlainInv, [FunctionalNext]_functionalVars PROVE PlainInv'
<1>0. /\ host = "plain" /\ ~Durable /\ PlainThread(thread) /\ Len(thread) \in Nat
      /\ \A c \in Clients : caller[c] \in CallState /\ caller[c].from \in Nat
  BY DEF PlainInv, PlainThread, Durable, CallState
<1>1. ASSUME NEW c \in Clients, NEW input \in Inputs, NEW from \in 0 .. Len(thread),
             InvokeEntrypoint(c, input, from)
      PROVE  PlainInv'
  <2>1. /\ WaitingCall(input, from) \in CallState /\ WaitingCall(input, from).from = from
    <3>1. NoCall \in CallState
      BY RestTyped
    <3>2. from \in Nat /\ input \in Inputs \cup {0}
      BY <1>0
    <3> HIDE DEF NoCall
    <3> QED BY <3>1, <3>2 DEF WaitingCall, CallState
  <2>2. caller' = [caller EXCEPT ![c] = WaitingCall(input, from)]
    BY <1>1 DEF InvokeEntrypoint, WaitingCall
  <2>3. host' = host /\ thread' = thread /\ run' = run
    BY <1>1 DEF InvokeEntrypoint
  <2> HIDE DEF WaitingCall
  <2> QED BY <1>0, <2>1, <2>2, <2>3 DEF PlainInv, Busy, RunShaped
<1>2. ASSUME NEW c \in Clients, PlainBegin(c) PROVE PlainInv'
  <2>1. /\ run'.attempt \in 0 .. Len(thread) /\ RunShaped(run')
        /\ host' = host /\ thread' = thread /\ caller' = [caller EXCEPT ![c].at = "running"]
    BY <1>0, <1>2 DEF PlainBegin, NoRun, RunShaped, PlainInv
  <2>2. /\ [caller[c] EXCEPT !.at = "running"] \in CallState
        /\ [caller[c] EXCEPT !.at = "running"].from = caller[c].from
    BY <1>0 DEF CallState
  <2> QED BY <1>0, <2>1, <2>2 DEF PlainInv, Busy
<1>3. ASSUME PlainFinish PROVE PlainInv'
  BY <1>3, PlainFinishKeeps
<1>4. ASSUME Call \/ Await \/ AskRefused \/ EntryReturn, NEW t \in TaskIDs PROVE PlainInv'
  BY <1>4, PlainRuns
<1>5. ASSUME Call \/ Await \/ AskRefused \/ EntryReturn, TaskIDs = {} PROVE PlainInv'
  <2>1. /\ host' = host /\ thread' = thread /\ caller' = caller /\ DOMAIN run' = DOMAIN run
        /\ run'.attempt = run.attempt /\ run'.caller = run.caller
    BY <1>5 DEF Call, Await, AskRefused, EntryReturn, PlainInv, RunShaped
  <2> QED BY <2>1 DEF PlainInv, RunShaped, Busy
<1>6. ASSUME NEW t \in TaskIDs,
             \/ TaskStart(t) \/ TaskAskRefused(t) \/ TaskReturn(t) \/ RetryTask(t) \/ FailTask(t)
             \/ TaskError(t) \/ Cancel(t)
      PROVE  PlainInv'
  BY <1>6, PlainRuns
<1>7. ASSUME ProcessDies PROVE PlainInv'
  <2>1. NoCall \in CallState /\ NoCall.from = 0 /\ NoRun.caller = 0 /\ RunShaped(NoRun)
    BY RestTyped DEF RunShaped, NoRun
  <2> HIDE DEF NoCall, NoRun
  <2>2. /\ host' = host /\ thread' = thread /\ run' = NoRun
        /\ caller' = [c \in Clients |-> IF caller[c].at \in {"waiting", "running"} THEN NoCall
                                        ELSE caller[c]]
    BY <1>7 DEF ProcessDies
  <2> QED BY <1>0, <2>1, <2>2 DEF PlainInv, Busy
<1>8. CASE UNCHANGED functionalVars
  BY <1>8 DEF functionalVars, PlainInv, Busy
<1>9. /\ ~Ask /\ ~FinishInvocation /\ ~NodeFinish
      /\ \A c \in Clients : ~Begin(c) /\ ~NodeBegin(c)
      /\ \A c \in Clients, a \in AnswerValues :
            ~GraphResume(c, a) /\ \A from \in 0 .. Len(thread) : ~ResumeEntrypoint(c, a, from)
      /\ \A t \in TaskIDs : ~TaskAsk(t)
  BY <1>0 DEF Ask, FinishInvocation, NodeFinish, Begin, NodeBegin, GraphResume, ResumeEntrypoint,
              TaskAsk
<1> QED
  BY <1>0, <1>1, <1>2, <1>3, <1>4, <1>5, <1>6, <1>7, <1>8, <1>9 DEF FunctionalNext, FunctionalStep

\* Without recovery nothing is kept, and the previous value is that of the branch.
LEMMA PlainSound == ASSUME PlainInv PROVE InvocationFaithful
<1>1. ~Durable /\ host = "plain" /\ \A t \in Active : ~Recoverable(t)
  BY DEF PlainInv, Durable, Recoverable
<1>2. ASSUME NEW i \in DOMAIN thread PROVE LastCompleted(thread, thread[i].prev, thread[i].parent)
  <2>1. /\ Len(thread) \in Nat /\ i \in 1 .. Len(thread)
        /\ thread[i].prev = thread[i].parent /\ thread[i].parent \in 0 .. Len(thread)
    BY DEF PlainInv, PlainThread
  <2> QED BY <2>1, PlainLast DEF PlainInv, PlainThread
<1> HIDE DEF LastCompleted, Used, Durable
<1> QED
  BY <1>1, <1>2 DEF InvocationFaithful

\* For every body, retry policy and limit, every set of persistent tasks, with recovery
\* and without, and however often it is interrupted, answered, retried, killed and
\* replayed, an invocation uses only what is recorded on its attempt, as far as it is
\* kept, no recorded task runs again, and a completed invocation has the input, the
\* results and the previous value of its own branch.
THEOREM InvocationsFaithful == FunctionalSpec => []InvocationFaithful
<1>1. FunctionalInit => FunctionalInv \/ PlainInv
  <2>1. ASSUME FunctionalInit, ~Durable PROVE PlainInv
    <3>1. /\ host = "plain" /\ thread = <<>> /\ run = NoRun /\ caller = [c \in Clients |-> NoCall]
      BY <2>1 DEF FunctionalInit, Durable
    <3>2. NoCall \in CallState /\ NoCall.from = 0 /\ NoRun.caller = 0 /\ RunShaped(NoRun)
      BY RestTyped DEF RunShaped, NoRun
    <3>3. PlainThread(<<>>) /\ Len(<<>>) = 0
      BY DEF PlainThread
    <3> HIDE DEF NoCall, NoRun
    <3> QED BY <3>1, <3>2, <3>3 DEF PlainInv, Busy
  <2> QED BY <2>1, FunctionalStart
<1>2. (FunctionalInv \/ PlainInv) /\ [FunctionalNext]_functionalVars => (FunctionalInv \/ PlainInv)'
  BY FunctionalSteps, PlainSteps
<1>3. FunctionalInv \/ PlainInv => InvocationFaithful
  BY FunctionalSound, PlainSound
<1> QED
  BY <1>1, <1>2, <1>3, PTL DEF FunctionalSpec

-----------------------------------------------------------------------------
(***************************************************************************)
(* Channels: what a channel holds is a function of its history, because    *)
(* every operation changes the value in the way it changes the history;    *)
(* and the steps that a delta channel keeps since its last materialized    *)
(* value replay to what it holds.                                          *)
(***************************************************************************)
Write == [v: Values, overwrite: BOOLEAN]
WriteSeq == Seq(Write)
Event == [op: {"update", "finish", "consume"}, w: WriteSeq]
Chan(kind) == [value: IF kind \in Barriers THEN SUBSET Values ELSE Seq(Values), finished: BOOLEAN]
\* One more operation of a history, the n-th.
WithNew(S, n) == S \cup {n}
\* The finishes of a history.
Finishes(h) == Ops(h, "finish")
Gated == Barriers \cup {"lastAfterFinish"}

HoldsHistory(kind, c, h) == c.value = HeldValue(kind, h) /\ c.finished = HeldFinished(kind, h)
\* Only the gated kinds are finished and consumed.
UpdatesOnly(kind, h) == kind \notin Gated => \A i \in DOMAIN h : h[i].op = "update"
\* An overwrite is the last write of its step.
ResetsLast(w) == \A k \in Overwrites(w) : k = Len(w)
\* The steps of a log are steps of the history.
LogOf(l, h) == Reproducible(h) => \A i \in 1 .. Len(l) : ResetsLast(l[i])

ChannelTypes ==
    /\ chanKind \in Kinds /\ chan \in Chan(chanKind) /\ chanFailed \in BOOLEAN
    /\ hist \in Seq(Event) /\ log \in Seq(WriteSeq)
    /\ disk \in [snapshot: Chan(chanKind), base: Seq(Values), log: Seq(WriteSeq), hist: Seq(Event)]

ChannelInv ==
    /\ ChannelTypes
    /\ UpdatesOnly(chanKind, hist) /\ UpdatesOnly(chanKind, disk.hist)
    /\ chanKind = "delta" => LogOf(log, hist) /\ LogOf(disk.log, disk.hist)
    /\ chanKind \in Untracked => disk.snapshot = NewChannel(chanKind)
    /\ ~chanFailed /\ (chanKind = "delta" => Reproducible(hist)) => HoldsHistory(chanKind, chan, hist)
    /\ ~chanFailed /\ chanKind = "delta" /\ Reproducible(hist)
          => chan.value = ReplayWrites(disk.base, log)
    /\ chanKind \notin Untracked /\ (chanKind = "delta" => Reproducible(disk.hist)) =>
          HoldsHistory(chanKind, Restore(chanKind, disk), disk.hist)

\* A sequence of sequences and one more.
LEMMA FlattenAppend ==
    ASSUME NEW S, NEW ss \in Seq(Seq(S)), NEW s \in Seq(S)
    PROVE  FlattenSeq(Append(ss, s)) = FlattenSeq(ss) \o s
<1> DEFINE n == Len(ss)
           tt == Append(ss, s)
<1>1. /\ n \in Nat /\ tt \in Seq(Seq(S)) /\ Len(tt) = n + 1 /\ tt[n + 1] = s
      /\ \A i \in 1 .. n : tt[i] = ss[i]
  OBVIOUS
<1> HIDE DEF tt
<1> DEFINE G == CHOOSE F : F = [i \in 1 .. Len(tt) |-> IF i = 1 THEN tt[i] ELSE F[i - 1] \o tt[i]]
<1>2. FlattenSeq(tt) = G[n + 1]
  BY <1>1 DEF FlattenSeq
<1>3. G = [i \in 1 .. Len(tt) |-> IF i = 1 THEN tt[i] ELSE G[i - 1] \o tt[i]]
  <2>0. Len(tt) \in Nat
    BY <1>1
  <2>1. PICK H : FlattenUpTo(tt, Len(tt), H)
    BY ONLY <2>0, FlattenExists
  <2> QED BY <2>1, Zenon DEF FlattenUpTo
<1> HIDE DEF G
<1>4. \A i \in 1 .. n + 1 : G[i] = IF i = 1 THEN tt[i] ELSE G[i - 1] \o tt[i]
  BY <1>1, <1>3
<1>5. CASE n = 0
  <2>1. FlattenSeq(ss) = <<>>
    BY <1>5 DEF FlattenSeq
  <2>2. G[n + 1] = s
    BY <1>1, <1>4, <1>5
  <2>3. <<>> \o s = s
    BY ConcatProperties, ConcatEmptySeq
  <2> QED BY <1>2, <2>1, <2>2, <2>3 DEF tt
<1>6. CASE n # 0
  <2> DEFINE K == CHOOSE F : F = [i \in 1 .. Len(ss) |-> IF i = 1 THEN ss[i] ELSE F[i - 1] \o ss[i]]
             T == {i \in 0 .. n : i # 0 => K[i] = G[i]}
  <2>1. FlattenSeq(ss) = K[n]
    BY <1>6 DEF FlattenSeq
  <2>2. K = [i \in 1 .. Len(ss) |-> IF i = 1 THEN ss[i] ELSE K[i - 1] \o ss[i]]
    <3>1. PICK H : FlattenUpTo(ss, Len(ss), H)
      BY <1>1, FlattenExists
    <3> QED BY <3>1, Zenon DEF FlattenUpTo
  <2> HIDE DEF K
  <2>3. \A i \in 1 .. n : K[i] = IF i = 1 THEN ss[i] ELSE K[i - 1] \o ss[i]
    BY <1>1, <2>2
  <2>4. ASSUME NEW i \in 0 .. n, i \in T, i < n PROVE i + 1 \in T
    <3>1. i + 1 \in 1 .. n /\ i + 1 \in 1 .. n + 1 /\ (i + 1) - 1 = i
      BY <1>1, <2>4
    <3>2. K[i + 1] = IF i + 1 = 1 THEN ss[i + 1] ELSE K[i] \o ss[i + 1]
      BY <2>3, <3>1
    <3>3. G[i + 1] = IF i + 1 = 1 THEN ss[i + 1] ELSE G[i] \o ss[i + 1]
      BY <1>1, <1>4, <3>1
    <3> QED BY <2>4, <3>1, <3>2, <3>3
  <2>5. 0 \in T
    BY <1>1
  <2> HIDE DEF T
  <2>6. n \in T
    <3>1. \A i \in 0 .. n : i \in T
      BY ONLY <1>1, <2>4, <2>5, UpTo
    <3> QED BY <1>1, <3>1
  <2>7. K[n] = G[n]
    BY <1>6, <2>6 DEF T
  <2>8. G[n + 1] = G[n] \o s
    <3>1. n + 1 \in 1 .. n + 1 /\ n + 1 # 1 /\ (n + 1) - 1 = n
      BY <1>1, <1>6
    <3> QED BY <1>1, <1>4, <3>1
  <2> QED BY <1>2, <2>1, <2>7, <2>8 DEF tt
<1> QED BY <1>5, <1>6

\* No sequences.
LEMMA FlattenEmpty == FlattenSeq(<<>>) = <<>>
BY DEF FlattenSeq

\* The values of the writes of a step.
LEMMA ValsFacts ==
    ASSUME NEW w \in WriteSeq
    PROVE  /\ Vals(w) \in Seq(Values) /\ Len(Vals(w)) = Len(w)
           /\ \A i \in 1 .. Len(w) : Vals(w)[i] = w[i].v
<1>1. DOMAIN w = 1 .. Len(w) /\ Len(w) \in Nat /\ \A i \in 1 .. Len(w) : w[i] \in Write
  BY DEF WriteSeq
<1>2. \A i \in 1 .. Len(w) : w[i].v \in Values
  BY <1>1 DEF Write
<1> QED BY <1>1, <1>2 DEF Vals

\* The values of two steps.
LEMMA ValsConcat ==
    ASSUME NEW a \in WriteSeq, NEW b \in WriteSeq
    PROVE  Vals(a \o b) = Vals(a) \o Vals(b)
<1>1. a \o b \in WriteSeq
  BY ConcatProperties DEF WriteSeq
<1>2. /\ Len(a) \in Nat /\ Len(b) \in Nat /\ Len(a \o b) = Len(a) + Len(b)
      /\ \A i \in 1 .. Len(a) + Len(b) : (a \o b)[i] = IF i <= Len(a) THEN a[i] ELSE b[i - Len(a)]
  BY ConcatProperties DEF WriteSeq
<1>3. PICK x, y, z : x = Vals(a) /\ y = Vals(b) /\ z = Vals(a \o b)
  OBVIOUS
<1>4. /\ x \in Seq(Values) /\ Len(x) = Len(a) /\ \A i \in 1 .. Len(a) : x[i] = a[i].v
      /\ y \in Seq(Values) /\ Len(y) = Len(b) /\ \A i \in 1 .. Len(b) : y[i] = b[i].v
  BY <1>3, ValsFacts
<1>5. /\ z \in Seq(Values) /\ Len(z) = Len(a) + Len(b)
      /\ \A i \in 1 .. Len(a) + Len(b) : z[i] = (a \o b)[i].v
  BY <1>1, <1>2, <1>3, ValsFacts
<1>6. /\ x \o y \in Seq(Values) /\ Len(x \o y) = Len(a) + Len(b)
      /\ \A i \in 1 .. Len(a) + Len(b) : (x \o y)[i] = IF i <= Len(a) THEN x[i] ELSE y[i - Len(a)]
  <2>1. /\ x \o y \in Seq(Values) /\ Len(x \o y) = Len(x) + Len(y)
        /\ \A i \in 1 .. Len(x) + Len(y) : (x \o y)[i] = IF i <= Len(x) THEN x[i] ELSE y[i - Len(x)]
    <3>1. PICK V : V = Values
      OBVIOUS
    <3>2. x \in Seq(V) /\ y \in Seq(V)
      BY <1>4, <3>1
    <3>3. /\ x \o y \in Seq(V) /\ Len(x \o y) = Len(x) + Len(y)
          /\ \A i \in 1 .. Len(x) + Len(y) : (x \o y)[i] = IF i <= Len(x) THEN x[i] ELSE y[i - Len(x)]
      BY ONLY <3>2, ConcatProperties
    <3> QED BY <3>1, <3>3
  <2> QED BY <1>4, <2>1
<1>7. ASSUME NEW i \in 1 .. Len(a) + Len(b) PROVE z[i] = (x \o y)[i]
  <2>1. CASE i <= Len(a)
    BY <1>2, <1>4, <1>5, <1>6, <2>1
  <2>2. CASE ~(i <= Len(a))
    <3>1. i - Len(a) \in 1 .. Len(b)
      BY <1>2, <2>2
    <3> QED BY <1>2, <1>4, <1>5, <1>6, <2>2, <3>1
  <2> QED BY <2>1, <2>2
<1>8. z = x \o y
  BY <1>5, <1>6, <1>7, SeqEqual
<1> QED BY <1>3, <1>8

\* The latest of a set of numbers up to n.
LEMMA LastOfMember ==
    ASSUME NEW n \in Nat, NEW S, S \subseteq 0 .. n, S # {}
    PROVE  LastOf(S) \in S /\ \A j \in S : LastOf(S) >= j
<1> DEFINE T == {m \in 0 .. n : n - m \in S}
<1>1. T \subseteq Nat /\ T # {}
  <2>1. PICK j \in S : TRUE
    OBVIOUS
  <2>2. n - j \in 0 .. n /\ n - (n - j) = j
    BY <2>1
  <2>3. n - j \in T
    BY <2>1, <2>2
  <2>4. T # {}
    <3> HIDE DEF T
    <3> QED BY <2>3
  <2>5. T \subseteq Nat
    OBVIOUS
  <2> QED BY <2>4, <2>5
<1>2. PICK x \in T : \A y \in T : x <= y
  BY <1>1, LeastNumber
<1>3. x \in 0 .. n /\ n - x \in S
  BY <1>2
<1>4. ASSUME NEW j \in S PROVE n - x >= j
  <2>1. n - j \in T
    <3>1. n - j \in 0 .. n /\ n - (n - j) = j
      OBVIOUS
    <3> QED BY <3>1
  <2> HIDE DEF T
  <2>2. x <= n - j
    BY <1>2, <2>1
  <2> QED BY <1>3, <2>2
<1>5. \E i \in S : \A j \in S : i >= j
  BY <1>3, <1>4
<1> QED BY <1>5 DEF LastOf

\* A number after all the others.
LEMMA LastOfNew ==
    ASSUME NEW n \in Nat, NEW S, S \subseteq 0 .. n
    PROVE  LastOf(S \cup {n + 1}) = n + 1
<1>1. \A i \in S \cup {n + 1} : (\A j \in S \cup {n + 1} : i >= j) => i = n + 1
  OBVIOUS
<1>2. \A j \in S \cup {n + 1} : n + 1 >= j
  OBVIOUS
<1> QED BY <1>1, <1>2 DEF LastOf

\* One number.
LEMMA LastOfZero == LastOf({0}) = 0
BY DEF LastOf

\* What a history tells of the writes after its i-th operation.
LEMMA AfterFacts ==
    ASSUME NEW h \in Seq(Event), NEW i \in 0 .. Len(h)
    PROVE  /\ After(h, i) \in Seq(Values)
           /\ \A e \in Event : After(Append(h, e), i) = After(h, i) \o Vals(e.w)
           /\ After(h, Len(h)) = <<>>
<1> DEFINE m == Len(h) - i
           ss == [j \in 1 .. m |-> Vals(h[i + j].w)]
<1>1. m \in Nat /\ Len(h) \in Nat /\ \A j \in 1 .. m : i + j \in 1 .. Len(h)
  OBVIOUS
<1>2. \A k \in 1 .. Len(h) : h[k] \in Event
  OBVIOUS
<1>3. \A k \in 1 .. Len(h) : Vals(h[k].w) \in Seq(Values)
  BY <1>2, ValsFacts DEF Event
<1>4. ss \in Seq(Seq(Values)) /\ Len(ss) = m
  BY <1>1, <1>3
<1>5. After(h, i) \in Seq(Values)
  <2>1. After(h, i) = FlattenSeq(ss)
    BY DEF After
  <2> HIDE DEF ss
  <2> QED BY <1>4, <2>1, FlattenTyped
<1>6. ASSUME NEW e \in Event PROVE After(Append(h, e), i) = After(h, i) \o Vals(e.w)
  <2> DEFINE tt == [j \in 1 .. m + 1 |-> Vals(Append(h, e)[i + j].w)]
             t == Vals(e.w)
  <2>1. t \in Seq(Values)
    BY ValsFacts DEF Event
  <2>2. Len(Append(h, e)) - i = m + 1
    BY <1>1
  <2>3. After(Append(h, e), i) = FlattenSeq(tt)
    BY <2>2 DEF After
  <2>4. \A j \in 1 .. m : Append(h, e)[i + j] = h[i + j]
    BY <1>1
  <2>5. Append(h, e)[i + (m + 1)] = e
    BY <1>1
  <2>6. tt = Append(ss, t)
    <3>1. \A j \in 1 .. m : tt[j] = ss[j]
      BY <2>4
    <3>2. tt[m + 1] = t
      BY <1>1, <2>5
    <3>3. /\ Append(ss, t) \in Seq(Seq(Values)) /\ Len(Append(ss, t)) = m + 1
          /\ \A j \in 1 .. m : Append(ss, t)[j] = ss[j]
          /\ Append(ss, t)[m + 1] = t
          /\ \A j \in 1 .. m : ss[j] \in Seq(Values)
      <4> HIDE DEF ss, t
      <4> QED BY <1>4, <2>1
    <3>6. \A j \in 1 .. m + 1 : tt[j] \in Seq(Values)
      <4> HIDE DEF tt, ss, t, m
      <4> QED BY <1>1, <2>1, <3>1, <3>2, <3>3
    <3>7. tt \in Seq(Seq(Values)) /\ Len(tt) = m + 1
      <4>1. tt \in [1 .. m + 1 -> Seq(Values)] /\ m + 1 \in Nat
        <5>1. tt = [j \in 1 .. m + 1 |-> tt[j]] /\ m + 1 \in Nat
          BY <1>1
        <5> HIDE DEF tt, m
        <5> QED BY <3>6, <5>1
      <4> HIDE DEF tt, m
      <4> QED BY <4>1
    <3> HIDE DEF tt, ss, t, m
    <3>8. ASSUME NEW j \in 1 .. m + 1 PROVE tt[j] = Append(ss, t)[j]
      <4>1. j = m + 1 \/ j \in 1 .. m
        BY <1>1
      <4> QED BY <3>1, <3>2, <3>3, <4>1
    <3> QED BY <1>1, <3>3, <3>7, <3>8, SeqEqual
  <2>7. FlattenSeq(tt) = FlattenSeq(ss) \o t
    <3> HIDE DEF ss, t, tt
    <3> QED BY <1>4, <2>1, <2>6, FlattenAppend
  <2> QED BY <2>3, <2>7 DEF After
<1>7. After(h, Len(h)) = <<>>
  <2>1. [j \in 1 .. Len(h) - Len(h) |-> Vals(h[Len(h) + j].w)] = <<>>
    BY <1>1
  <2> QED BY <2>1, FlattenEmpty DEF After
<1> QED BY <1>5, <1>6, <1>7

\* The operations of a history.
LEMMA HistoryFacts ==
    ASSUME NEW h \in Seq(Event)
    PROVE  /\ \A op : Ops(h, op) \subseteq 1 .. Len(h)
           /\ Since(h) \in 0 .. Len(h)
           /\ Updates(h) \subseteq 1 .. Len(h)
           /\ Substantial(h) \subseteq 1 .. Len(h)
           /\ Resets(h) \subseteq 1 .. Len(h)
<1>1. DOMAIN h = 1 .. Len(h) /\ Len(h) \in Nat
  OBVIOUS
<1>2. \A op : Ops(h, op) \subseteq 1 .. Len(h)
  BY <1>1 DEF Ops
<1>3. Since(h) \in 0 .. Len(h)
  <2>1. {0} \cup Ops(h, "consume") \subseteq 0 .. Len(h)
    BY <1>1, <1>2
  <2> QED BY <1>1, <2>1, LastOfMember DEF Since
<1>4. Updates(h) \subseteq 1 .. Len(h)
  BY <1>2 DEF Updates
<1> QED BY <1>2, <1>3, <1>4 DEF Substantial, Resets

\* A history and one more operation.
LEMMA HistoryGrows ==
    ASSUME NEW h \in Seq(Event), NEW e \in Event, NEW g, NEW n, g = Append(h, e), n = Len(h) + 1
    PROVE  /\ g \in Seq(Event) /\ Len(g) = n /\ n \in Nat /\ Len(h) \in Nat /\ g[n] = e
           /\ \A i \in 1 .. Len(h) : g[i] = h[i]
           /\ DOMAIN g = DOMAIN h \cup {n} /\ DOMAIN h = 1 .. Len(h) /\ n \notin 1 .. Len(h)
<1>1. /\ g \in Seq(Event) /\ Len(g) = n /\ n \in Nat /\ g[n] = e /\ Len(h) \in Nat
      /\ \A i \in 1 .. Len(h) : g[i] = h[i]
  OBVIOUS
<1>2. /\ DOMAIN g = 1 .. n /\ DOMAIN h = 1 .. Len(h) /\ 1 .. n = (1 .. Len(h)) \cup {n}
      /\ n \notin 1 .. Len(h)
  BY <1>1
<1> QED BY <1>1, <1>2

\* A history and one more update.
LEMMA UpdateGrows ==
    ASSUME NEW h \in Seq(Event), NEW e \in Event, NEW g, NEW n, g = Append(h, e), n = Len(h) + 1,
           e.op = "update"
    PROVE  /\ Since(g) = Since(h) /\ Finishes(g) = Finishes(h)
           /\ Updates(g) = WithNew(Updates(h), n)
           /\ Substantial(g) = IF e.w = <<>> THEN Substantial(h) ELSE WithNew(Substantial(h), n)
           /\ Resets(g) = IF Overwrites(e.w) = {} THEN Resets(h) ELSE WithNew(Resets(h), n)
<1>1. /\ n \in Nat /\ g[n] = e /\ \A i \in 1 .. Len(h) : g[i] = h[i]
      /\ Ops(g, "update") = Ops(h, "update") \cup {n}
      /\ Ops(g, "consume") = Ops(h, "consume") /\ Finishes(g) = Finishes(h)
  BY HistoryGrows DEF Ops, Finishes, WithNew
<1>2. Since(g) = Since(h) /\ Since(h) \in 0 .. Len(h) /\ n > Since(h)
  <2>1. Since(h) \in 0 .. Len(h) /\ Len(h) \in Nat
    BY HistoryFacts
  <2>2. n > Since(h)
    BY <2>1
  <2> QED BY <1>1, <2>1, <2>2 DEF Since
<1>3. Updates(g) = WithNew(Updates(h), n) /\ Updates(h) \subseteq 1 .. Len(h)
  BY <1>1, <1>2, HistoryFacts DEF Updates, WithNew
<1>4. Substantial(g) = IF e.w = <<>> THEN Substantial(h) ELSE WithNew(Substantial(h), n)
  BY <1>1, <1>3 DEF Substantial, WithNew
<1>5. Resets(g) = IF Overwrites(e.w) = {} THEN Resets(h) ELSE WithNew(Resets(h), n)
  BY <1>1, <1>3 DEF Resets, WithNew
<1> QED BY <1>1, <1>2, <1>3, <1>4, <1>5

\* A history and one more Finish.
LEMMA FinishGrows ==
    ASSUME NEW h \in Seq(Event), NEW e \in Event, NEW g, NEW n, g = Append(h, e), n = Len(h) + 1,
           e.op = "finish"
    PROVE  /\ Since(g) = Since(h) /\ Finishes(g) = WithNew(Finishes(h), n)
           /\ Updates(g) = Updates(h) /\ Substantial(g) = Substantial(h)
<1>1. /\ n \in Nat /\ g[n] = e /\ \A i \in 1 .. Len(h) : g[i] = h[i]
      /\ Ops(g, "update") = Ops(h, "update") /\ Ops(g, "consume") = Ops(h, "consume")
      /\ Finishes(g) = WithNew(Finishes(h), n)
  BY HistoryGrows DEF Ops, Finishes, WithNew
<1>2. Since(g) = Since(h)
  BY <1>1 DEF Since
<1>3. Updates(g) = Updates(h) /\ Updates(h) \subseteq 1 .. Len(h)
  BY <1>1, <1>2, HistoryFacts DEF Updates, WithNew
<1> QED BY <1>1, <1>2, <1>3 DEF Substantial, WithNew

\* A history and one more Consume.
LEMMA ConsumeGrows ==
    ASSUME NEW h \in Seq(Event), NEW e \in Event, NEW g, NEW n, g = Append(h, e), n = Len(h) + 1,
           e.op = "consume"
    PROVE  /\ Since(g) = n /\ \A i \in Finishes(g) : ~(i > Since(g))
           /\ Updates(g) = {} /\ Substantial(g) = {}
<1>1. /\ n \in Nat /\ Len(h) \in Nat /\ Ops(g, "consume") = Ops(h, "consume") \cup {n}
      /\ \A i \in DOMAIN g : i \in 1 .. n
  <2>1. Ops(g, "consume") = Ops(h, "consume") \cup {n}
    BY HistoryGrows DEF Ops
  <2>2. n \in Nat /\ Len(h) \in Nat /\ \A i \in DOMAIN g : i \in 1 .. n
    BY HistoryGrows
  <2> QED BY <2>1, <2>2
<1>2. Since(g) = n
  <2>1. {0} \cup Ops(h, "consume") \subseteq 0 .. Len(h)
    BY <1>1, HistoryFacts
  <2>2. LastOf(({0} \cup Ops(h, "consume")) \cup {Len(h) + 1}) = Len(h) + 1
    BY <1>1, <2>1, LastOfNew
  <2>3. ({0} \cup Ops(h, "consume")) \cup {n} = {0} \cup Ops(g, "consume")
    BY <1>1
  <2> QED BY <2>2, <2>3 DEF Since
<1>3. \A i \in DOMAIN g : ~(i > n)
  BY <1>1
<1>4. Updates(g) = {}
  BY <1>2, <1>3 DEF Updates, Ops
<1> QED BY <1>2, <1>3, <1>4 DEF Substantial, Ops, Finishes

\* What the histories of the kinds tell.
LEMMA HeldKinds ==
    ASSUME NEW h, chanKind \in Kinds
    PROVE  /\ chanKind \in LatestKinds =>
                HeldValue(chanKind, h) = IF Substantial(h) = {} THEN <<>>
                                         ELSE LastWrite(h[LastOf(Substantial(h))].w)
           /\ chanKind \in StepKinds =>
                HeldValue(chanKind, h) = IF Updates(h) = {} THEN <<>>
                                         ELSE LastWrite(h[LastOf(Updates(h))].w)
           /\ chanKind = "topic" =>
                HeldValue(chanKind, h) = IF Updates(h) = {} THEN <<>> ELSE Vals(h[LastOf(Updates(h))].w)
           /\ chanKind \in Barriers =>
                HeldValue(chanKind, h) = UNION {NamesOf(h[i].w) : i \in Updates(h)}
           /\ chanKind \in {"aggregate", "delta", "accumulating"} =>
                HeldValue(chanKind, h) = IF Resets(h) = {} THEN After(h, 0)
                               ELSE
                               <<h[LastOf(Resets(h))].w[FirstOf(Overwrites(h[LastOf(Resets(h))].w))].v>>
                                    \o After(h, LastOf(Resets(h)))
<1>1. CASE chanKind \in LatestKinds
  BY <1>1 DEF HeldValue, LatestKinds, StepKinds, Barriers
<1>2. CASE chanKind \in StepKinds
  BY <1>2 DEF HeldValue, LatestKinds, StepKinds, Barriers
<1>3. CASE chanKind = "topic"
  BY <1>3 DEF HeldValue, LatestKinds, StepKinds, Barriers
<1>4. CASE chanKind \in Barriers
  BY <1>4 DEF HeldValue, LatestKinds, StepKinds, Barriers
<1>5. CASE chanKind \in {"aggregate", "delta", "accumulating"}
  BY <1>5 DEF HeldValue, LatestKinds, StepKinds, Barriers
<1> QED BY <1>1, <1>2, <1>3, <1>4, <1>5 DEF Kinds, Overwritable

\* A new channel holds nothing.
LEMMA HeldNothing == ASSUME chanKind \in Kinds PROVE HoldsHistory(chanKind, NewChannel(chanKind), <<>>)
<1>1. Ops(<<>>, "update") = {} /\ Ops(<<>>, "finish") = {}
  BY DEF Ops
<1>2. Updates(<<>>) = {}
  BY <1>1 DEF Updates
<1>3. Substantial(<<>>) = {} /\ Resets(<<>>) = {}
  BY <1>2 DEF Substantial, Resets
<1>4. After(<<>>, 0) = <<>>
  <2>1. PICK h : h = <<>>
    OBVIOUS
  <2>2. h \in Seq(Event) /\ Len(h) = 0 /\ 0 \in 0 .. Len(h)
    BY <2>1
  <2>3. After(h, Len(h)) = <<>>
    BY ONLY <2>2, AfterFacts
  <2> QED BY <2>1, <2>2, <2>3
<1>5. HeldFinished(chanKind, <<>>) = FALSE
  BY <1>1 DEF HeldFinished
<1>6. HeldValue(chanKind, <<>>) = NewChannel(chanKind).value
  <2>1. CASE chanKind \in LatestKinds \cup StepKinds \cup {"topic"}
    BY <1>2, <1>3, <2>1, HeldKinds DEF NewChannel, LatestKinds, StepKinds, Barriers
  <2>2. CASE chanKind \in Barriers
    BY <1>2, <2>2, HeldKinds DEF NewChannel
  <2>3. CASE chanKind \in {"aggregate", "delta", "accumulating"}
    BY <1>3, <1>4, <2>3, HeldKinds DEF NewChannel, Barriers
  <2> QED BY <2>1, <2>2, <2>3 DEF Kinds, Overwritable
<1> QED BY <1>5, <1>6 DEF HoldsHistory, NewChannel

\* The kinds of one value, and a topic: what a step leaves is what it wrote.
LEMMA HeldLatest ==
    ASSUME chanKind \in Kinds, NEW h \in Seq(Event), NEW w \in WriteSeq, NEW e \in Event, NEW g,
           g = Append(h, e), e.op = "update", e.w = w
    PROVE  /\ chanKind \in LatestKinds =>
                 HeldValue(chanKind, g) = IF w = <<>> THEN HeldValue(chanKind, h) ELSE LastWrite(w)
           /\ chanKind \in StepKinds => HeldValue(chanKind, g) = LastWrite(w)
           /\ chanKind = "topic" => HeldValue(chanKind, g) = Vals(w)
<1>0. PICK n : n = Len(h) + 1
  OBVIOUS
<1>1. /\ n \in Nat /\ Len(h) \in Nat /\ g[n] = e /\ \A i \in 1 .. Len(h) : g[i] = h[i]
  BY <1>0, HistoryGrows
<1>2. /\ Updates(g) = WithNew(Updates(h), n)
      /\ Substantial(g) = IF w = <<>> THEN Substantial(h) ELSE WithNew(Substantial(h), n)
  BY <1>0, UpdateGrows
<1>3. Updates(h) \subseteq 1 .. Len(h) /\ Substantial(h) \subseteq 1 .. Len(h)
  BY HistoryFacts
<1>4. LastOf(WithNew(Updates(h), n)) = n /\ LastOf(WithNew(Substantial(h), n)) = n
  <2>1. Updates(h) \subseteq 0 .. Len(h) /\ Substantial(h) \subseteq 0 .. Len(h)
    BY <1>1, <1>3
  <2> QED BY <1>0, <1>1, <2>1, LastOfNew DEF WithNew
<1>5. Updates(g) # {} /\ LastOf(Updates(g)) = n /\ g[n].w = w
  BY <1>1, <1>2, <1>4 DEF WithNew
<1>6. ASSUME chanKind \in LatestKinds
      PROVE  HeldValue(chanKind, g) = IF w = <<>> THEN HeldValue(chanKind, h) ELSE LastWrite(w)
  <2>1. CASE w # <<>>
    <3>1. Substantial(g) # {} /\ LastOf(Substantial(g)) = n
      BY <1>2, <1>4, <2>1 DEF WithNew
    <3> QED BY <1>5, <1>6, <2>1, <3>1, HeldKinds
  <2>2. CASE w = <<>> /\ Substantial(h) = {}
    BY <1>2, <1>6, <2>2, HeldKinds
  <2>3. CASE w = <<>> /\ Substantial(h) # {}
    <3>1. Substantial(g) = Substantial(h)
      BY <1>2, <2>3
    <3>2. LastOf(Substantial(h)) \in 1 .. Len(h)
      <4>1. Substantial(h) \subseteq 0 .. Len(h)
        BY <1>3
      <4> QED BY <1>1, <1>3, <2>3, <4>1, LastOfMember
    <3> QED BY <1>1, <1>6, <2>3, <3>1, <3>2, HeldKinds
  <2> QED BY <2>1, <2>2, <2>3
<1>7. chanKind \in StepKinds => HeldValue(chanKind, g) = LastWrite(w)
  BY <1>5, HeldKinds
<1>8. chanKind = "topic" => HeldValue(chanKind, g) = Vals(w)
  BY <1>5, HeldKinds
<1> QED BY <1>6, <1>7, <1>8

\* A barrier sees the names of one more step.
LEMMA HeldBarrier ==
    ASSUME chanKind \in Barriers, NEW h \in Seq(Event), NEW w \in WriteSeq, NEW e \in Event, NEW g,
           g = Append(h, e), e.op = "update", e.w = w
    PROVE  HeldValue(chanKind, g) = HeldValue(chanKind, h) \cup {w[i].v : i \in 1 .. Len(w)}
<1>0. PICK n : n = Len(h) + 1
  OBVIOUS
<1>1. /\ n \in Nat /\ Len(h) \in Nat /\ g[n] = e /\ \A i \in 1 .. Len(h) : g[i] = h[i]
  BY <1>0, HistoryGrows
<1>2. Updates(g) = WithNew(Updates(h), n) /\ Updates(h) \subseteq 1 .. Len(h)
  BY <1>0, UpdateGrows, HistoryFacts
<1>3. chanKind \in Kinds
  BY DEF Kinds
<1>4. NamesOf(w) = {w[i].v : i \in 1 .. Len(w)}
  BY DEF WriteSeq, NamesOf
<1>5. /\ HeldValue(chanKind, g) = UNION {NamesOf(g[i].w) : i \in Updates(g)}
      /\ HeldValue(chanKind, h) = UNION {NamesOf(h[i].w) : i \in Updates(h)}
  BY <1>3, HeldKinds
<1>6. (\A i \in Updates(h) : g[i] = h[i]) /\ g[n].w = w
  BY <1>1, <1>2
<1>7. ASSUME NEW x
      PROVE  x \in HeldValue(chanKind, g) <=> x \in HeldValue(chanKind, h) \/ x \in NamesOf(w)
  <2>1. x \in HeldValue(chanKind, g) <=> \E i \in Updates(g) : x \in NamesOf(g[i].w)
    BY <1>5
  <2>2. x \in HeldValue(chanKind, h) <=> \E i \in Updates(h) : x \in NamesOf(h[i].w)
    BY <1>5
  <2>3. \A i : i \in Updates(g) <=> i \in Updates(h) \/ i = n
    BY <1>2 DEF WithNew
  <2> QED BY <1>6, <2>1, <2>2, <2>3
<1>8. HeldValue(chanKind, g) = HeldValue(chanKind, h) \cup NamesOf(w)
  BY <1>7
<1> QED BY <1>4, <1>8

\* The aggregates reduce one more step, or are overwritten by it.
LEMMA HeldAggregate ==
    ASSUME chanKind \in {"aggregate", "delta", "accumulating"}, NEW h \in Seq(Event),
           NEW w \in WriteSeq, NEW e \in Event, NEW g,
           g = Append(h, e), e.op = "update", e.w = w
    PROVE  HeldValue(chanKind, g) = IF Overwrites(w) = {} THEN HeldValue(chanKind, h) \o Vals(w)
                          ELSE <<w[FirstOf(Overwrites(w))].v>>
<1>0. PICK n : n = Len(h) + 1
  OBVIOUS
<1>1. /\ g \in Seq(Event) /\ Len(g) = n /\ n \in Nat /\ Len(h) \in Nat /\ g[n] = e
      /\ \A i \in 1 .. Len(h) : g[i] = h[i]
  BY <1>0, HistoryGrows
<1>2. /\ Resets(g) = IF Overwrites(w) = {} THEN Resets(h) ELSE WithNew(Resets(h), n)
      /\ Resets(h) \subseteq 1 .. Len(h)
  BY <1>0, UpdateGrows, HistoryFacts
<1>3. chanKind \in Kinds
  BY DEF Kinds, Overwritable
<1>4. \A i \in 0 .. Len(h) : After(h, i) \in Seq(Values) /\ After(g, i) = After(h, i) \o Vals(w)
  BY AfterFacts
<1>5. Vals(w) \in Seq(Values)
  BY ValsFacts
<1>6. CASE Overwrites(w) = {} /\ Resets(h) = {}
  <2>1. 0 \in 0 .. Len(h)
    BY <1>1
  <2> QED BY <1>2, <1>3, <1>4, <1>6, <2>1, HeldKinds
<1>7. CASE Overwrites(w) = {} /\ Resets(h) # {}
  <2>1. PICK r : r = LastOf(Resets(h))
    OBVIOUS
  <2>2. r \in Resets(h) /\ r \in 1 .. Len(h) /\ r \in 0 .. Len(h)
    <3>1. Resets(h) \subseteq 0 .. Len(h)
      BY <1>1, <1>2
    <3>2. r \in Resets(h)
      BY <1>1, <1>7, <2>1, <3>1, LastOfMember
    <3> QED BY <1>2, <3>1, <3>2
  <2>3. PICK x : x = h[r].w[FirstOf(Overwrites(h[r].w))].v
    OBVIOUS
  <2>4. HeldValue(chanKind, h) = <<x>> \o After(h, r)
    BY <1>3, <1>7, <2>1, <2>3, HeldKinds
  <2>5. HeldValue(chanKind, g) = <<x>> \o After(g, r)
    <3>1. g[r] = h[r] /\ Resets(g) = Resets(h)
      BY <1>1, <1>2, <1>7, <2>2
    <3> QED BY <1>3, <1>7, <2>1, <2>3, <3>1, HeldKinds
  <2>6. PICK a, b : a = After(h, r) /\ b = Vals(w)
    OBVIOUS
  <2>7. <<x>> \o (a \o b) = (<<x>> \o a) \o b
    <3>1. PICK V : V = Values \cup {x}
      OBVIOUS
    <3>2. a \in Seq(V) /\ b \in Seq(V) /\ <<x>> \in Seq(V)
      BY <1>4, <1>5, <2>2, <2>6, <3>1
    <3> QED BY ONLY <3>2, ConcatAssociative
  <2> QED BY <1>4, <1>7, <2>2, <2>4, <2>5, <2>6, <2>7
<1>8. CASE Overwrites(w) # {}
  <2>1. Resets(g) = WithNew(Resets(h), n)
    BY <1>2, <1>8
  <2>2. LastOf(Resets(g)) = n
    <3>1. Resets(h) \subseteq 0 .. Len(h)
      BY <1>1, <1>2
    <3> QED BY <1>0, <1>1, <2>1, <3>1, LastOfNew DEF WithNew
  <2>3. After(g, n) = <<>>
    <3>1. Len(g) \in 0 .. Len(g)
      BY <1>1
    <3> QED BY <1>1, <3>1, AfterFacts
  <2>4. PICK x : x = w[FirstOf(Overwrites(w))].v
    OBVIOUS
  <2>5. HeldValue(chanKind, g) = <<x>> \o <<>>
    BY <1>1, <1>3, <2>1, <2>2, <2>3, <2>4, HeldKinds DEF WithNew
  <2>6. <<x>> \o <<>> = <<x>>
    OBVIOUS
  <2> QED BY <1>8, <2>4, <2>5, <2>6
<1> QED BY <1>6, <1>7, <1>8

\* The last write of a step.
LEMMA LastWriteTyped == ASSUME NEW w \in WriteSeq PROVE LastWrite(w) \in Seq(Values)
<1>1. CASE w = <<>>
  BY <1>1 DEF LastWrite
<1>2. CASE w # <<>>
  <2>1. Len(w) \in 1 .. Len(w) /\ \A i \in 1 .. Len(w) : w[i] \in Write
    BY <1>2 DEF WriteSeq
  <2>2. Last(w).v \in Values
    BY <2>1 DEF Last, Write
  <2> QED BY <1>2, <2>2 DEF LastWrite
<1> QED BY <1>1, <1>2

\* The overwrites of a step.
LEMMA OverwriteFacts ==
    ASSUME NEW w \in WriteSeq
    PROVE  /\ Overwrites(w) \subseteq 1 .. Len(w)
           /\ Overwrites(w) # {} => FirstOf(Overwrites(w)) \in Overwrites(w)
           /\ \A i \in 1 .. Len(w) : w[i].v \in Values
<1>1. DOMAIN w = 1 .. Len(w) /\ \A i \in 1 .. Len(w) : w[i] \in Write
  BY DEF WriteSeq
<1>2. Overwrites(w) \subseteq 1 .. Len(w) /\ Overwrites(w) \subseteq Nat
  BY <1>1 DEF Overwrites
<1>3. ASSUME Overwrites(w) # {} PROVE FirstOf(Overwrites(w)) \in Overwrites(w)
  <2>1. \E i \in Overwrites(w) : \A j \in Overwrites(w) : i <= j
    BY <1>2, <1>3, LeastNumber
  <2> QED BY <2>1 DEF FirstOf
<1>4. \A i \in 1 .. Len(w) : w[i].v \in Values
  BY <1>1 DEF Write
<1> QED BY <1>2, <1>3, <1>4

\* What an update that succeeds leaves.
Left(c, w) ==
    CASE chanKind \in LatestKinds -> IF w = <<>> THEN c.value ELSE LastWrite(w)
      [] chanKind \in StepKinds -> LastWrite(w)
      [] chanKind = "topic" -> Vals(w)
      [] chanKind \in Barriers -> c.value \cup {w[i].v : i \in 1 .. Len(w)}
      [] OTHER -> IF Overwrites(w) = {} THEN c.value \o Vals(w) ELSE <<w[FirstOf(Overwrites(w))].v>>

\* The kinds of one value.
LEMMA UpdateLatest ==
    ASSUME chanKind \in LatestKinds \cup StepKinds, NEW c \in Chan(chanKind), NEW w \in WriteSeq, NEW r,
           r = UpdateOf(c, w)
    PROVE  /\ r \in Chan(chanKind) /\ (~UpdateFails(w) => r.value = Left(c, w))
           /\ r.finished = IF chanKind = "lastAfterFinish" /\ w # <<>> THEN FALSE ELSE c.finished
<1>1. LastWrite(w) \in Seq(Values) /\ Len(w) \in Nat /\ (Len(w) = 0 <=> w = <<>>)
  BY LastWriteTyped DEF WriteSeq
<1>2. chanKind \notin Barriers
  BY DEF LatestKinds, StepKinds, Barriers
<1>3. c.value \in Seq(Values) /\ c.finished \in BOOLEAN
  BY <1>2 DEF Chan
<1>4. PICK x : x = LastWrite(w)
  OBVIOUS
<1>5. PICK y : y = [c EXCEPT !.value = x]
  OBVIOUS
<1>6. y \in Chan(chanKind) /\ y.value = x /\ y.finished = c.finished
  BY <1>1, <1>2, <1>3, <1>4, <1>5 DEF Chan
<1>7. CASE chanKind = "last"
  <2>1. r = IF Len(w) = 1 THEN y ELSE c
    BY <1>4, <1>5, <1>7 DEF UpdateOf, LastValueUpdate, Untracked, Barriers
  <2>2. Left(c, w) = IF w = <<>> THEN c.value ELSE x
    BY <1>4, <1>7 DEF Left, LatestKinds, StepKinds, Barriers
  <2>3. ~UpdateFails(w) => Len(w) <= 1
    BY <1>1, <1>7 DEF UpdateFails
  <2>4. CASE Len(w) = 1
    BY <1>1, <1>6, <1>7, <2>1, <2>2, <2>4
  <2>5. CASE Len(w) # 1
    <3>1. r = c /\ chanKind # "lastAfterFinish"
      BY <1>7, <2>1, <2>5
    <3>2. ASSUME ~UpdateFails(w) PROVE w = <<>>
      <4>1. PICK n : n = Len(w)
        OBVIOUS
      <4>2. n <= 1
        BY <2>3, <3>2, <4>1, Zenon
      <4>3. n \in Nat /\ n # 1
        BY <1>1, <2>5, <4>1
      <4>4. n = 0
        BY ONLY <4>2, <4>3
      <4> QED BY <1>1, <4>1, <4>4
    <3> QED BY <2>2, <3>1, <3>2
  <2> QED BY <2>4, <2>5
<1>8. CASE chanKind = "any"
  <2>1. r = y
    BY <1>4, <1>5, <1>8 DEF UpdateOf, AnyValueUpdate, Untracked, Barriers
  <2>2. Left(c, w) = x
    BY <1>4, <1>8 DEF Left, LatestKinds, StepKinds, Barriers
  <2> QED BY <1>6, <1>8, <2>1, <2>2
<1>9. CASE chanKind \in {"ephemeral", "guardedEphemeral"}
  <2>1. r = IF UpdateFails(w) THEN c ELSE y
    BY <1>4, <1>5, <1>9 DEF UpdateOf, EphemeralUpdate, Untracked, Barriers
  <2>2. Left(c, w) = x
    BY <1>4, <1>9 DEF Left, LatestKinds, StepKinds, Barriers
  <2> QED BY <1>6, <1>9, <2>1, <2>2
<1>10. CASE chanKind \in Untracked
  <2>1. r = IF UpdateFails(w) \/ w = <<>> THEN c ELSE y
    BY <1>4, <1>5, <1>10 DEF UpdateOf, UntrackedUpdate, Untracked, Barriers
  <2>2. Left(c, w) = IF w = <<>> THEN c.value ELSE x
    BY <1>4, <1>10 DEF Left, LatestKinds, StepKinds, Barriers, Untracked
  <2>3. chanKind # "lastAfterFinish"
    BY <1>10 DEF Untracked
  <2> QED BY <1>6, <2>1, <2>2, <2>3
<1>11. CASE chanKind = "lastAfterFinish"
  <2>1. PICK z : z = [value |-> x, finished |-> FALSE]
    OBVIOUS
  <2>2. r = IF w = <<>> THEN c ELSE z
    BY <1>4, <1>11, <2>1 DEF UpdateOf, LastAfterFinishUpdate, Untracked, Barriers
  <2>3. Left(c, w) = IF w = <<>> THEN c.value ELSE x
    BY <1>4, <1>11 DEF Left, LatestKinds, StepKinds, Barriers
  <2>4. z \in Chan(chanKind) /\ z.value = x /\ z.finished = FALSE
    BY <1>1, <1>2, <1>4, <2>1 DEF Chan
  <2> QED BY <1>11, <2>2, <2>3, <2>4
<1> QED BY <1>7, <1>8, <1>9, <1>10, <1>11 DEF LatestKinds, StepKinds, Untracked

\* The barriers.
LEMMA UpdateBarrier ==
    ASSUME chanKind \in Barriers, NEW c \in Chan(chanKind), NEW w \in WriteSeq, NEW r, r = UpdateOf(c, w)
    PROVE  r \in Chan(chanKind) /\ (~UpdateFails(w) => r.value = Left(c, w)) /\ r.finished = c.finished
<1>1. DOMAIN w = 1 .. Len(w) /\ Len(w) \in Nat /\ \A i \in 1 .. Len(w) : w[i].v \in Values
  BY OverwriteFacts DEF WriteSeq
<1>2. c.value \subseteq Values /\ c.finished \in BOOLEAN
  BY DEF Chan
<1>3. PICK bad : bad = {i \in DOMAIN w : w[i].v \notin BarrierNames}
  OBVIOUS
<1>4. PICK m : m = IF bad = {} THEN Len(w) ELSE FirstOf(bad) - 1
  OBVIOUS
<1>5. 1 .. m \subseteq 1 .. Len(w) /\ (bad = {} => m = Len(w))
  <2>1. CASE bad = {}
    BY <1>4, <2>1
  <2>2. CASE bad # {}
    <3>1. bad \subseteq 1 .. Len(w) /\ bad \subseteq Nat
      BY <1>1, <1>3
    <3>2. \E i \in bad : \A j \in bad : i <= j
      BY <2>2, <3>1, LeastNumber
    <3>3. FirstOf(bad) \in 1 .. Len(w)
      BY <3>1, <3>2 DEF FirstOf
    <3> QED BY <1>1, <1>4, <2>2, <3>3
  <2> QED BY <2>1, <2>2
<1>6. PICK x : x = c.value \cup {w[i].v : i \in 1 .. m}
  OBVIOUS
<1>7. r = [c EXCEPT !.value = x]
  BY <1>3, <1>4, <1>6 DEF UpdateOf, BarrierUpdate, Barriers, Untracked
<1>8. x \subseteq Values
  BY <1>1, <1>2, <1>5, <1>6
<1>9. r \in Chan(chanKind) /\ r.value = x /\ r.finished = c.finished
  BY <1>2, <1>7, <1>8 DEF Chan
<1>10. Left(c, w) = c.value \cup {w[i].v : i \in 1 .. Len(w)}
  BY DEF Left, Barriers, LatestKinds, StepKinds
<1>11. ~UpdateFails(w) => bad = {}
  BY <1>3 DEF UpdateFails
<1>12. bad = {} => x = Left(c, w)
  BY <1>5, <1>6, <1>10
<1> QED BY <1>9, <1>11, <1>12

\* The aggregates and the topics.
LEMMA UpdateAggregate ==
    ASSUME chanKind \in {"aggregate", "delta", "accumulating", "topic"}, NEW c \in Chan(chanKind),
           NEW w \in WriteSeq,
           NEW r, r = UpdateOf(c, w), chanKind \notin Overwritable => Overwrites(w) = {}
    PROVE  r \in Chan(chanKind) /\ (~UpdateFails(w) => r.value = Left(c, w)) /\ r.finished = c.finished
<1>1. /\ chanKind \notin Barriers /\ chanKind \notin LatestKinds /\ chanKind \notin StepKinds
      /\ chanKind \notin Untracked
  BY DEF Barriers, LatestKinds, StepKinds, Untracked
<1>2. c.value \in Seq(Values) /\ c.finished \in BOOLEAN
  BY <1>1 DEF Chan
<1>3. PICK o, v, f : o = Overwrites(w) /\ v = Vals(w) /\ f = <<w[FirstOf(Overwrites(w))].v>>
  OBVIOUS
<1>4. v \in Seq(Values) /\ (o # {} => f \in Seq(Values)) /\ c.value \o v \in Seq(Values) /\ <<>> \o v = v
  <2>1. v \in Seq(Values)
    BY <1>3, ValsFacts
  <2>2. o # {} => f \in Seq(Values)
    <3>1. o # {} => w[FirstOf(Overwrites(w))].v \in Values
      BY <1>3, OverwriteFacts
    <3> QED BY <1>3, <3>1
  <2>3. c.value \o v \in Seq(Values)
    BY <1>2, <2>1, ConcatProperties
  <2>4. <<>> \o v = v
    BY <2>1, ConcatEmptySeq
  <2> QED BY <2>1, <2>2, <2>3, <2>4
<1>5. ASSUME NEW x \in Seq(Values), NEW y, y = [c EXCEPT !.value = x]
      PROVE  y \in Chan(chanKind) /\ y.value = x /\ y.finished = c.finished
  BY <1>1, <1>2, <1>5 DEF Chan
<1>6. PICK x : x = IF o = {} THEN c.value \o v ELSE f
  OBVIOUS
<1>7. PICK y : y = [c EXCEPT !.value = x]
  OBVIOUS
<1>8. x \in Seq(Values)
  BY <1>4, <1>6
<1>9. y \in Chan(chanKind) /\ y.value = x /\ y.finished = c.finished
  BY <1>5, <1>7, <1>8
<1>10. chanKind # "topic" => Left(c, w) = x
  BY <1>1, <1>3, <1>6 DEF Left
<1>11. AggregateUpdate(c, w) = y
  BY <1>3, <1>6, <1>7 DEF AggregateUpdate
<1>12. CASE chanKind = "aggregate"
  <2>1. r = y
    BY <1>1, <1>11, <1>12 DEF UpdateOf
  <2> QED BY <1>9, <1>10, <1>12, <2>1
<1>13. CASE chanKind = "delta"
  <2>1. r = IF UpdateFails(w) THEN c ELSE y
    BY <1>1, <1>11, <1>13 DEF UpdateOf, DeltaUpdate
  <2> QED BY <1>9, <1>10, <1>13, <2>1
<1>14. CASE chanKind = "accumulating"
  <2>1. o = {}
    BY <1>3, <1>14 DEF Overwritable
  <2>2. r = y
    BY <1>1, <1>3, <1>6, <1>7, <1>14, <2>1 DEF UpdateOf, TopicUpdate
  <2> QED BY <1>9, <1>10, <1>14, <2>2
<1>15. CASE chanKind = "topic"
  <2>1. r = [c EXCEPT !.value = <<>> \o v]
    BY <1>1, <1>3, <1>15 DEF UpdateOf, TopicUpdate
  <2>2. Left(c, w) = v
    BY <1>1, <1>3, <1>15 DEF Left
  <2>3. r = [c EXCEPT !.value = v]
    BY <1>4, <2>1
  <2> QED BY <1>4, <1>5, <2>2, <2>3
<1> QED BY <1>12, <1>13, <1>14, <1>15

\* What an update leaves.
LEMMA UpdateTyped ==
    ASSUME chanKind \in Kinds, NEW c \in Chan(chanKind), NEW w \in WriteSeq, NEW r, r = UpdateOf(c, w),
           chanKind \notin Overwritable => Overwrites(w) = {}
    PROVE  /\ r \in Chan(chanKind) /\ (~UpdateFails(w) => r.value = Left(c, w))
           /\ r.finished = IF chanKind = "lastAfterFinish" /\ w # <<>> THEN FALSE ELSE c.finished
<1>1. CASE chanKind \in LatestKinds \cup StepKinds
  BY <1>1, UpdateLatest
<1>2. CASE chanKind \in Barriers
  <2>1. chanKind # "lastAfterFinish"
    BY <1>2 DEF Barriers
  <2> QED BY <1>2, <2>1, UpdateBarrier
<1>3. CASE chanKind \in {"aggregate", "delta", "accumulating", "topic"}
  <2>1. chanKind # "lastAfterFinish"
    BY <1>3
  <2> QED BY <1>3, <2>1, UpdateAggregate
<1> QED BY <1>1, <1>2, <1>3 DEF Kinds, Overwritable

\* An update changes the value as it changes the history.
LEMMA UpdateHeld ==
    ASSUME chanKind \in Kinds, NEW c \in Chan(chanKind), NEW w \in WriteSeq, NEW r, r = UpdateOf(c, w),
           chanKind \notin Overwritable => Overwrites(w) = {}, ~UpdateFails(w),
           NEW h \in Seq(Event), NEW e \in Event, NEW g, g = Append(h, e), e.op = "update", e.w = w,
           HoldsHistory(chanKind, c, h)
    PROVE  HoldsHistory(chanKind, r, g)
<1>1. /\ r.value = Left(c, w)
      /\ r.finished = IF chanKind = "lastAfterFinish" /\ w # <<>> THEN FALSE ELSE c.finished
  <2>1. chanKind \notin Overwritable => Overwrites(w) = {}
    OBVIOUS
  <2>2. /\ r \in Chan(chanKind) /\ (~UpdateFails(w) => r.value = Left(c, w))
        /\ r.finished = IF chanKind = "lastAfterFinish" /\ w # <<>> THEN FALSE ELSE c.finished
    BY ONLY chanKind \in Kinds, c \in Chan(chanKind), w \in WriteSeq, r = UpdateOf(c, w), <2>1,
            UpdateTyped
  <2> QED BY <2>2
<1>2. c.value = HeldValue(chanKind, h) /\ c.finished = HeldFinished(chanKind, h)
  BY DEF HoldsHistory
<1>3. Left(c, w) = HeldValue(chanKind, g)
  <2>0. /\ chanKind \in LatestKinds =>
              HeldValue(chanKind, g) = IF w = <<>> THEN HeldValue(chanKind, h) ELSE LastWrite(w)
        /\ chanKind \in StepKinds => HeldValue(chanKind, g) = LastWrite(w)
        /\ chanKind = "topic" => HeldValue(chanKind, g) = Vals(w)
    BY ONLY chanKind \in Kinds, h \in Seq(Event), w \in WriteSeq, e \in Event, g = Append(h, e),
            e.op = "update", e.w = w, HeldLatest, ZenonT(60)
  <2>1. CASE chanKind \in LatestKinds
    <3>1. Left(c, w) = IF w = <<>> THEN c.value ELSE LastWrite(w)
      BY <2>1 DEF Left, LatestKinds, StepKinds, Barriers
    <3>2. HeldValue(chanKind, g) = IF w = <<>> THEN HeldValue(chanKind, h) ELSE LastWrite(w)
      BY <2>0, <2>1
    <3> QED BY <1>2, <3>1, <3>2
  <2>2. CASE chanKind \in StepKinds
    <3>1. Left(c, w) = LastWrite(w)
      BY <2>2 DEF Left, LatestKinds, StepKinds, Barriers
    <3> QED BY <2>0, <2>2, <3>1
  <2>3. CASE chanKind = "topic"
    <3>1. Left(c, w) = Vals(w)
      BY <2>3 DEF Left, LatestKinds, StepKinds, Barriers
    <3> QED BY <2>0, <2>3, <3>1
  <2>4. CASE chanKind \in Barriers
    <3>1. Left(c, w) = c.value \cup {w[i].v : i \in 1 .. Len(w)}
      BY <2>4 DEF Left, LatestKinds, StepKinds, Barriers
    <3>2. HeldValue(chanKind, g) = HeldValue(chanKind, h) \cup {w[i].v : i \in 1 .. Len(w)}
      BY <2>4, HeldBarrier
    <3> QED BY <1>2, <3>1, <3>2
  <2>5. CASE chanKind \in {"aggregate", "delta", "accumulating"}
    <3>1. Left(c, w) = IF Overwrites(w) = {} THEN c.value \o Vals(w) ELSE <<w[FirstOf(Overwrites(w))].v>>
      BY <2>5 DEF Left, LatestKinds, StepKinds, Barriers
    <3>2. HeldValue(chanKind, g) = IF Overwrites(w) = {} THEN HeldValue(chanKind, h) \o Vals(w)
                                   ELSE <<w[FirstOf(Overwrites(w))].v>>
      BY <2>5, HeldAggregate
    <3> QED BY <1>2, <3>1, <3>2
  <2> QED BY <2>1, <2>2, <2>3, <2>4, <2>5 DEF Kinds, Overwritable
<1>4. r.finished = HeldFinished(chanKind, g)
  <2>0. PICK n : n = Len(h) + 1
    OBVIOUS
  <2>1. /\ Since(g) = Since(h) /\ Finishes(g) = Finishes(h)
        /\ Substantial(g) = IF w = <<>> THEN Substantial(h) ELSE WithNew(Substantial(h), n)
    <3>1. Since(g) = Since(h) /\ Finishes(g) = Finishes(h)
      BY <2>0, UpdateGrows
    <3>2. Substantial(g) = IF e.w = <<>> THEN Substantial(h) ELSE WithNew(Substantial(h), n)
      BY ONLY <2>0, h \in Seq(Event), e \in Event, g = Append(h, e), e.op = "update", UpdateGrows
    <3> QED BY <3>1, <3>2
  <2>2. CASE chanKind = "lastAfterFinish" /\ w # <<>>
    <3>1. n \in Substantial(g)
      BY <2>1, <2>2 DEF WithNew
    <3>2. \A i \in Finishes(g) : ~(i > n)
      <4>1. Finishes(h) \subseteq 1 .. Len(h) /\ Len(h) \in Nat
        BY HistoryFacts DEF Finishes
      <4> QED BY <2>0, <2>1, <4>1
    <3>3. HeldFinished(chanKind, g) = FALSE
      BY <2>2, <3>1, <3>2 DEF HeldFinished, Finishes
    <3> QED BY <1>1, <2>2, <3>3
  <2>3. CASE chanKind = "lastAfterFinish" /\ w = <<>>
    <3>1. Substantial(g) = Substantial(h)
      BY <2>1, <2>3
    <3>2. HeldFinished(chanKind, g) = HeldFinished(chanKind, h)
      BY <2>1, <3>1 DEF HeldFinished, Finishes
    <3> QED BY <1>1, <1>2, <2>3, <3>2
  <2>4. CASE chanKind # "lastAfterFinish"
    <3>1. HeldFinished(chanKind, g) = HeldFinished(chanKind, h)
      BY <2>1, <2>4 DEF HeldFinished, Finishes
    <3> QED BY <1>1, <1>2, <2>4, <3>1
  <2> QED BY <2>2, <2>3, <2>4
<1> QED BY <1>1, <1>3, <1>4 DEF HoldsHistory

\* Finish and Consume change the value as they change the history.
LEMMA GatesHeld ==
    ASSUME chanKind \in Kinds, NEW c \in Chan(chanKind), NEW h \in Seq(Event), NEW e \in Event, NEW g,
           g = Append(h, e),
           HoldsHistory(chanKind, c, h)
    PROVE  /\ e.op = "finish" /\ CanFinish(c) => HoldsHistory(chanKind, [c EXCEPT !.finished = TRUE], g)
           /\ e.op = "consume" /\ CanConsume(c) => HoldsHistory(chanKind, NewChannel(chanKind), g)
<1>0. PICK n : n = Len(h) + 1
  OBVIOUS
<1>1. /\ n \in Nat /\ Len(h) \in Nat /\ g[n] = e /\ \A i \in 1 .. Len(h) : g[i] = h[i]
  BY <1>0, HistoryGrows
<1>2. /\ Updates(h) \subseteq 1 .. Len(h) /\ Substantial(h) \subseteq 1 .. Len(h)
      /\ Since(h) \in 0 .. Len(h)
  BY HistoryFacts
<1>3. ASSUME e.op = "finish", CanFinish(c) PROVE HoldsHistory(chanKind, [c EXCEPT !.finished = TRUE], g)
  <2>1. /\ Since(g) = Since(h) /\ Finishes(g) = WithNew(Finishes(h), n)
        /\ Updates(g) = Updates(h) /\ Substantial(g) = Substantial(h)
    BY <1>0, <1>3, FinishGrows
  <2>2. chanKind = "lastAfterFinish" \/ chanKind = "barrierAfterFinish"
    BY <1>3 DEF CanFinish
  <2>3. HeldFinished(chanKind, g) = TRUE
    <3>1. n \in Finishes(g) /\ n > Since(g)
      BY <1>0, <1>1, <1>2, <2>1 DEF WithNew
    <3>2. \A j \in Substantial(g) : n > j
      BY <1>0, <1>1, <1>2, <2>1
    <3> QED BY <3>1, <3>2 DEF HeldFinished, Finishes
  <2>4. HeldValue(chanKind, g) = HeldValue(chanKind, h)
    <3>1. CASE chanKind = "lastAfterFinish"
      <4>1. chanKind \in LatestKinds
        BY <3>1 DEF LatestKinds
      <4>2. CASE Substantial(h) = {}
        BY <2>1, <4>1, <4>2, HeldKinds
      <4>3. CASE Substantial(h) # {}
        <5>1. LastOf(Substantial(h)) \in 1 .. Len(h)
          <6>1. Substantial(h) \subseteq 0 .. Len(h)
            BY <1>2
          <6> QED BY <1>1, <1>2, <4>3, <6>1, LastOfMember
        <5> QED BY <1>1, <2>1, <4>1, <4>3, <5>1, HeldKinds
      <4> QED BY <4>2, <4>3
    <3>2. CASE chanKind = "barrierAfterFinish"
      <4>1. chanKind \in Barriers
        BY <3>2 DEF Barriers
      <4>2. /\ HeldValue(chanKind, g) = UNION {NamesOf(g[i].w) : i \in Updates(g)}
            /\ HeldValue(chanKind, h) = UNION {NamesOf(h[i].w) : i \in Updates(h)}
        BY <4>1, HeldKinds
      <4>3. \A i \in Updates(h) : g[i] = h[i]
        BY <1>1, <1>2
      <4>4. ASSUME NEW x PROVE x \in HeldValue(chanKind, g) <=> x \in HeldValue(chanKind, h)
        <5>1. x \in HeldValue(chanKind, g) <=> \E i \in Updates(g) : x \in NamesOf(g[i].w)
          BY <4>2
        <5>2. x \in HeldValue(chanKind, h) <=> \E i \in Updates(h) : x \in NamesOf(h[i].w)
          BY <4>2
        <5> QED BY <2>1, <4>3, <5>1, <5>2
      <4> QED BY <4>2, <4>4
    <3> QED BY <2>2, <3>1, <3>2
  <2>5. [c EXCEPT !.finished = TRUE].value = c.value /\ [c EXCEPT !.finished = TRUE].finished = TRUE
    BY DEF Chan
  <2> QED BY <2>3, <2>4, <2>5 DEF HoldsHistory
<1>4. ASSUME e.op = "consume", CanConsume(c) PROVE HoldsHistory(chanKind, NewChannel(chanKind), g)
  <2>1. /\ \A i \in Finishes(g) : ~(i > Since(g))
        /\ Updates(g) = {} /\ Substantial(g) = {}
    BY <1>0, <1>4, ConsumeGrows
  <2>2. HeldFinished(chanKind, g) = FALSE
    BY <2>1 DEF HeldFinished, Finishes
  <2>3. chanKind = "lastAfterFinish" \/ chanKind \in Barriers
    BY <1>4 DEF CanConsume, Barriers
  <2>4. HeldValue(chanKind, g) = NewChannel(chanKind).value
    <3>1. CASE chanKind = "lastAfterFinish"
      BY <2>1, <3>1, HeldKinds DEF LatestKinds, NewChannel, Barriers
    <3>2. CASE chanKind \in Barriers
      BY <2>1, <3>2, HeldKinds DEF NewChannel
    <3> QED BY <2>3, <3>1, <3>2
  <2> QED BY <2>2, <2>4 DEF HoldsHistory, NewChannel
<1> QED BY <1>3, <1>4

\* The overwrites of two steps in a row.
LEMMA OverwritesConcat ==
    ASSUME NEW a \in WriteSeq, NEW b \in WriteSeq
    PROVE  \A i : i \in Overwrites(a \o b) <=> i \in Overwrites(a)
             \/ (i - Len(a) \in Overwrites(b) /\ i \in Nat)
<1>1. a \o b \in WriteSeq
  BY ConcatProperties DEF WriteSeq
<1>2. /\ Len(a) \in Nat /\ Len(b) \in Nat /\ Len(a \o b) = Len(a) + Len(b)
      /\ \A i \in 1 .. Len(a) + Len(b) : (a \o b)[i] = IF i <= Len(a) THEN a[i] ELSE b[i - Len(a)]
  BY ConcatProperties DEF WriteSeq
<1>3. /\ DOMAIN a = 1 .. Len(a) /\ DOMAIN b = 1 .. Len(b) /\ DOMAIN (a \o b) = 1 .. Len(a) + Len(b)
  BY <1>1, <1>2 DEF WriteSeq
<1>4. PICK z : z = a \o b
  OBVIOUS
<1>5. ASSUME NEW i \in 1 .. Len(a) PROVE i \in Overwrites(z) <=> i \in Overwrites(a)
  BY <1>2, <1>3, <1>4 DEF Overwrites
<1>6. ASSUME NEW i \in Len(a) + 1 .. Len(a) + Len(b)
      PROVE  i \in Overwrites(z) <=> i - Len(a) \in Overwrites(b)
  <2>1. i - Len(a) \in 1 .. Len(b) /\ i \in 1 .. Len(a) + Len(b) /\ ~(i <= Len(a))
    BY <1>2
  <2> QED BY <1>2, <1>3, <1>4, <2>1 DEF Overwrites
<1>7. /\ Overwrites(z) \subseteq 1 .. Len(a) + Len(b) /\ Overwrites(a) \subseteq 1 .. Len(a)
      /\ Overwrites(b) \subseteq 1 .. Len(b)
  BY <1>3, <1>4 DEF Overwrites
<1>8. ASSUME NEW i
      PROVE  i \in Overwrites(z) <=> i \in Overwrites(a) \/ (i - Len(a) \in Overwrites(b) /\ i \in Nat)
  <2>1. CASE i \in 1 .. Len(a)
    <3>1. ~(i - Len(a) \in 1 .. Len(b))
      BY <1>2, <2>1
    <3> QED BY <1>5, <1>7, <2>1, <3>1
  <2>2. CASE i \in Len(a) + 1 .. Len(a) + Len(b)
    <3>1. i \notin 1 .. Len(a) /\ i \in Nat
      BY <1>2, <2>2
    <3> QED BY <1>6, <1>7, <2>2, <3>1
  <2>3. CASE i \notin 1 .. Len(a) /\ i \notin Len(a) + 1 .. Len(a) + Len(b)
    <3>1. i \notin 1 .. Len(a) + Len(b) /\ ~(i \in Nat /\ i - Len(a) \in 1 .. Len(b))
      BY <1>2, <2>3
    <3> QED BY <1>7, <2>3, <3>1
  <2> QED BY <2>1, <2>2, <2>3
<1> QED BY <1>4, <1>8

\* The replay of one more step: what it wrote is reduced, or its overwrite is the reset.
LEMMA ReplayStep ==
    ASSUME NEW base \in Seq(Values), NEW l \in Seq(WriteSeq), NEW w \in WriteSeq, ResetsLast(w)
    PROVE  /\ ReplayWrites(base, l) \in Seq(Values)
           /\ ReplayWrites(base, Append(l, w)) =
                 IF Overwrites(w) = {} THEN ReplayWrites(base, l) \o Vals(w)
                 ELSE <<w[FirstOf(Overwrites(w))].v>>
<1>1. PICK a, z : a = FlattenSeq(l) /\ z = a \o w
  OBVIOUS
<1>2. a \in WriteSeq /\ FlattenSeq(Append(l, w)) = z
  BY <1>1, FlattenTyped, FlattenAppend DEF WriteSeq
<1>3. /\ z \in WriteSeq /\ Len(a) \in Nat /\ Len(w) \in Nat /\ Len(z) = Len(a) + Len(w)
      /\ \A i \in 1 .. Len(a) + Len(w) : z[i] = IF i <= Len(a) THEN a[i] ELSE w[i - Len(a)]
  <2>1. a \o w \in WriteSeq
    BY <1>2, ConcatProperties DEF WriteSeq
  <2>2. /\ Len(a) \in Nat /\ Len(w) \in Nat /\ Len(a \o w) = Len(a) + Len(w)
        /\ \A i \in 1 .. Len(a) + Len(w) : (a \o w)[i] = IF i <= Len(a) THEN a[i] ELSE w[i - Len(a)]
    BY <1>2, ConcatProperties DEF WriteSeq
  <2> QED BY <1>1, <2>1, <2>2
<1>4. /\ ReplayWrites(base, l) = ReplayFrom(base, a)
      /\ ReplayWrites(base, Append(l, w)) = ReplayFrom(base, z)
  BY <1>1, <1>2 DEF ReplayWrites
<1>5. \A i : i \in Overwrites(z) <=> i \in Overwrites(a) \/ (i - Len(a) \in Overwrites(w) /\ i \in Nat)
  BY <1>1, <1>2, OverwritesConcat
<1>6. Overwrites(a) \subseteq 1 .. Len(a) /\ Overwrites(w) \subseteq 1 .. Len(w)
  BY <1>2, OverwriteFacts
<1>7. Vals(a) \in Seq(Values) /\ Vals(w) \in Seq(Values) /\ Vals(z) = Vals(a) \o Vals(w)
  BY <1>1, <1>2, ValsFacts, ValsConcat
<1>8. \A k \in 0 .. Len(a) : SubSeq(a, k + 1, Len(a)) \in WriteSeq
        /\ SubSeq(z, k + 1, Len(z)) = SubSeq(a, k + 1, Len(a)) \o w
  <2> SUFFICES ASSUME NEW k \in 0 .. Len(a)
               PROVE  /\ SubSeq(a, k + 1, Len(a)) \in WriteSeq
                      /\ SubSeq(z, k + 1, Len(z)) = SubSeq(a, k + 1, Len(a)) \o w
    OBVIOUS
  <2>1. PICK m : m = Len(a) - k
    OBVIOUS
  <2>2. m \in Nat /\ Len(a) = m + k
    BY <1>3, <2>1
  <2>3. PICK s, t : s = SubSeq(a, k + 1, Len(a)) /\ t = SubSeq(z, k + 1, Len(z))
    OBVIOUS
  <2>4. s \in WriteSeq /\ Len(s) = m /\ \A i \in 1 .. m : s[i] = a[k + i]
    <3>1. s \in WriteSeq
      BY <1>2, <1>3, <2>3, SubSeqProperties DEF WriteSeq
    <3>2. Len(s) = m /\ \A i \in 1 .. m : s[i] = a[k + i]
      <4>1. a \in Seq(Write) /\ Len(a) \in Nat /\ k + 1 \in Nat /\ s = SubSeq(a, k + 1, Len(a))
        BY <1>2, <1>3, <2>3 DEF WriteSeq
      <4>2. s = [i \in 1 .. m |-> a[i + k]]
        BY <2>2, <4>1
      <4> QED BY <2>2, <4>2
    <3> QED BY <3>1, <3>2
  <2>5. t \in WriteSeq /\ Len(t) = m + Len(w) /\ \A i \in 1 .. m + Len(w) : t[i] = z[k + i]
    <3>1. t \in WriteSeq
      BY <1>3, <2>3, SubSeqProperties DEF WriteSeq
    <3>2. Len(t) = m + Len(w) /\ \A i \in 1 .. m + Len(w) : t[i] = z[k + i]
      BY <1>3, <2>2, <2>3 DEF WriteSeq
    <3> QED BY <3>1, <3>2
  <2>6. /\ s \o w \in WriteSeq /\ Len(s \o w) = m + Len(w)
        /\ \A i \in 1 .. m + Len(w) : (s \o w)[i] = IF i <= m THEN s[i] ELSE w[i - m]
    <3>1. /\ s \o w \in WriteSeq /\ Len(s \o w) = Len(s) + Len(w)
          /\ \A i \in 1 .. Len(s) + Len(w) : (s \o w)[i] = IF i <= Len(s) THEN s[i] ELSE w[i - Len(s)]
      BY <2>4, ConcatProperties DEF WriteSeq
    <3> QED BY <2>4, <3>1
  <2>7. ASSUME NEW i \in 1 .. m + Len(w) PROVE t[i] = (s \o w)[i]
    <3>1. k + i \in 1 .. Len(a) + Len(w) /\ i \in Nat
      BY <1>3, <2>2
    <3>2. CASE i <= m
      <4>1. i \in 1 .. m /\ k + i <= Len(a)
        BY <2>2, <3>1, <3>2
      <4> QED BY <1>3, <2>4, <2>5, <2>6, <3>1, <3>2, <4>1
    <3>3. CASE ~(i <= m)
      <4>1. ~(k + i <= Len(a)) /\ (k + i) - Len(a) = i - m
        BY <1>3, <2>2, <3>1, <3>3
      <4> QED BY <1>3, <2>5, <2>6, <3>1, <3>3, <4>1
    <3> QED BY <3>2, <3>3
  <2>8. t = s \o w
    <3>1. t \in Seq(Write) /\ s \o w \in Seq(Write) /\ Len(t) = Len(s \o w)
      BY <2>5, <2>6 DEF WriteSeq
    <3>2. \A i \in 1 .. Len(t) : t[i] = (s \o w)[i]
      BY <2>5, <2>7
    <3> QED BY <3>1, <3>2, SeqEqual
  <2> QED BY <2>3, <2>4, <2>8
<1>9. CASE Overwrites(a) = {} /\ Overwrites(w) = {}
  <2>1. Overwrites(z) = {}
    BY <1>5, <1>9
  <2>2. ReplayFrom(base, a) = base \o Vals(a) /\ ReplayFrom(base, z) = base \o (Vals(a) \o Vals(w))
    BY <1>7, <1>9, <2>1 DEF ReplayFrom
  <2>3. base \o (Vals(a) \o Vals(w)) = (base \o Vals(a)) \o Vals(w)
    <3>1. PICK V, q, v : V = Values /\ q = Vals(a) /\ v = Vals(w)
      OBVIOUS
    <3>2. base \in Seq(V) /\ q \in Seq(V) /\ v \in Seq(V)
      BY <1>7, <3>1
    <3>3. (base \o q) \o v = base \o (q \o v)
      BY ONLY <3>2, ConcatAssociative, SMTT(30)
    <3> QED BY <3>1, <3>3
  <2>4. base \o Vals(a) \in Seq(Values)
    BY <1>7, ConcatProperties
  <2> QED BY <1>4, <1>9, <2>2, <2>3, <2>4
<1>10. ASSUME Overwrites(a) # {}
       PROVE  /\ ReplayFrom(base, a) \in Seq(Values)
              /\ Overwrites(w) = {} => ReplayFrom(base, z) = ReplayFrom(base, a) \o Vals(w)
  <2>1. PICK k : k = LastOf(Overwrites(a))
    OBVIOUS
  <2>2. k \in Overwrites(a) /\ k \in 1 .. Len(a) /\ k \in 0 .. Len(a) /\ \A j \in Overwrites(a) : k >= j
    <3>1. Overwrites(a) \subseteq 0 .. Len(a)
      BY <1>3, <1>6
    <3>2. k \in Overwrites(a) /\ \A j \in Overwrites(a) : k >= j
      BY <1>3, <1>10, <2>1, <3>1, LastOfMember
    <3> QED BY <1>6, <3>1, <3>2
  <2>3. PICK s, x : s = SubSeq(a, k + 1, Len(a)) /\ x = a[k].v
    OBVIOUS
  <2>4. s \in WriteSeq /\ SubSeq(z, k + 1, Len(z)) = s \o w /\ x \in Values
    BY <1>2, <1>8, <2>2, <2>3, OverwriteFacts
  <2>5. Vals(s) \in Seq(Values) /\ Vals(s \o w) = Vals(s) \o Vals(w)
    BY <2>4, ValsFacts, ValsConcat
  <2>6. ReplayFrom(base, a) = <<x>> \o Vals(s)
    BY <1>10, <2>1, <2>3 DEF ReplayFrom
  <2>7. <<x>> \in Seq(Values) /\ <<x>> \o Vals(s) \in Seq(Values)
    <3>1. <<x>> \in Seq(Values)
      BY <2>4
    <3> QED BY <2>5, <3>1, ConcatProperties
  <2>8. ASSUME Overwrites(w) = {} PROVE ReplayFrom(base, z) = ReplayFrom(base, a) \o Vals(w)
    <3>1. Overwrites(z) = Overwrites(a)
      BY <1>5, <2>8
    <3>2. z[k] = a[k]
      BY <1>3, <2>2
    <3>3. ReplayFrom(base, z) = <<x>> \o (Vals(s) \o Vals(w))
      BY <1>10, <2>1, <2>3, <2>4, <2>5, <3>1, <3>2 DEF ReplayFrom
    <3>4. <<x>> \o (Vals(s) \o Vals(w)) = (<<x>> \o Vals(s)) \o Vals(w)
      <4>1. PICK p, q, v : p = <<x>> /\ q = Vals(s) /\ v = Vals(w)
        OBVIOUS
      <4>2. p \in Seq(Values) /\ q \in Seq(Values) /\ v \in Seq(Values)
        BY <1>7, <2>5, <2>7, <4>1
      <4>3. (p \o q) \o v = p \o (q \o v)
        <5>1. PICK V : V = Values
          OBVIOUS
        <5>2. p \in Seq(V) /\ q \in Seq(V) /\ v \in Seq(V)
          BY <4>2, <5>1
        <5> QED BY ONLY <5>2, ConcatAssociative, SMTT(30)
      <4> QED BY <4>1, <4>3
    <3> QED BY <2>6, <3>3, <3>4
  <2> QED BY <2>6, <2>7, <2>8
<1>11. CASE Overwrites(w) # {}
  <2>1. Overwrites(w) = {Len(w)} /\ Len(w) \in 1 .. Len(w)
    BY <1>6, <1>11 DEF ResetsLast
  <2>2. FirstOf(Overwrites(w)) = Len(w)
    BY <1>11, <2>1, OverwriteFacts
  <2>3. LastOf(Overwrites(z)) = Len(z) /\ Overwrites(z) # {}
    <3>1. Len(z) \in Overwrites(z)
      <4>1. Len(z) - Len(a) = Len(w) /\ Len(z) \in Nat
        BY <1>3
      <4> QED BY <1>5, <2>1, <4>1
    <3>2. Overwrites(z) \subseteq 0 .. Len(z) /\ Len(z) \in Nat
      <4>1. Overwrites(z) \subseteq 1 .. Len(z) /\ Len(z) \in Nat
        BY <1>3, OverwriteFacts
      <4> QED BY <4>1
    <3>3. LastOf(Overwrites(z)) \in Overwrites(z) /\ LastOf(Overwrites(z)) >= Len(z)
      BY <3>1, <3>2, LastOfMember
    <3>4. LastOf(Overwrites(z)) \in 0 .. Len(z)
      BY <3>2, <3>3
    <3> QED BY <3>1, <3>2, <3>3, <3>4
  <2>4. z[Len(z)] = w[Len(w)]
    <3>1. Len(z) \in 1 .. Len(a) + Len(w) /\ ~(Len(z) <= Len(a)) /\ Len(z) - Len(a) = Len(w)
      BY <1>3, <2>1
    <3> QED BY <1>3, <3>1
  <2>5. SubSeq(z, Len(z) + 1, Len(z)) = <<>>
    BY <1>3 DEF WriteSeq
  <2>6. Vals(<<>>) = <<>>
    BY DEF Vals
  <2>7. PICK x : x = w[Len(w)].v
    OBVIOUS
  <2>8. ReplayFrom(base, z) = <<x>> \o <<>>
    BY <2>3, <2>4, <2>5, <2>6, <2>7 DEF ReplayFrom
  <2>9. <<x>> \o <<>> = <<x>>
    OBVIOUS
  <2>10. ReplayFrom(base, z) = <<w[FirstOf(Overwrites(w))].v>>
    BY <2>2, <2>7, <2>8, <2>9
  <2>11. ReplayFrom(base, a) \in Seq(Values)
    <3>1. CASE Overwrites(a) = {}
      <4>1. ReplayFrom(base, a) = base \o Vals(a)
        BY <3>1 DEF ReplayFrom
      <4> QED BY <1>7, <4>1, ConcatProperties
    <3>2. CASE Overwrites(a) # {}
      BY <1>10, <3>2
    <3> QED BY <3>1, <3>2
  <2> QED BY <1>4, <1>11, <2>10, <2>11
<1>12. CASE Overwrites(a) # {} /\ Overwrites(w) = {}
  BY <1>4, <1>10, <1>12
<1> QED BY <1>9, <1>11, <1>12

\* A new channel.
LEMMA NewChannelTyped == ASSUME NEW kind PROVE NewChannel(kind) \in Chan(kind)
<1>1. CASE kind \in Barriers
  <2>1. NewChannel(kind) = [value |-> {}, finished |-> FALSE]
    BY <1>1 DEF NewChannel
  <2> QED BY <1>1, <2>1 DEF Chan
<1>2. CASE kind \notin Barriers
  <2>1. NewChannel(kind) = [value |-> <<>>, finished |-> FALSE]
    BY <1>2 DEF NewChannel
  <2>2. <<>> \in Seq(Values)
    OBVIOUS
  <2> QED BY <1>2, <2>1, <2>2 DEF Chan
<1> QED BY <1>1, <1>2

\* The steps of a delta channel's history can be replayed if one more can.
LEMMA ReproducibleGrows ==
    ASSUME NEW h \in Seq(Event), NEW e \in Event, NEW g, g = Append(h, e), e.op = "update",
           Reproducible(g)
    PROVE  Reproducible(h) /\ ResetsLast(e.w)
<1>0. PICK n : n = Len(h) + 1
  OBVIOUS
<1>1. /\ g[n] = e /\ \A i \in 1 .. Len(h) : g[i] = h[i]
  BY <1>0, HistoryGrows
<1>2. Updates(g) = WithNew(Updates(h), n) /\ Updates(h) \subseteq 1 .. Len(h)
  <2>1. Updates(g) = WithNew(Updates(h), n)
    BY <1>0, UpdateGrows
  <2> QED BY <2>1, HistoryFacts
<1> QED BY <1>1, <1>2 DEF WithNew, Reproducible, ResetsLast

\* The start of a program.
LEMMA ChannelStart == ChannelInit => ChannelInv
<1> SUFFICES ASSUME ChannelInit PROVE ChannelInv
  OBVIOUS
<1>1. /\ chanKind \in Kinds /\ chan = NewChannel(chanKind) /\ chanFailed = FALSE /\ log = <<>>
      /\ hist = <<>>
      /\ disk = [snapshot |-> NewChannel(chanKind), base |-> <<>>, log |-> <<>>, hist |-> <<>>]
  BY DEF ChannelInit
<1>2. disk.snapshot = NewChannel(chanKind) /\ disk.base = <<>> /\ disk.log = <<>> /\ disk.hist = <<>>
  BY <1>1
<1>3. NewChannel(chanKind) \in Chan(chanKind)
  BY NewChannelTyped
<1>4. <<>> \in Seq(Event) /\ <<>> \in Seq(WriteSeq) /\ <<>> \in Seq(Values)
  OBVIOUS
<1>5. ChannelTypes
  BY <1>1, <1>3, <1>4 DEF ChannelTypes
<1>6. UpdatesOnly(chanKind, <<>>) /\ LogOf(<<>>, <<>>)
  BY DEF UpdatesOnly, LogOf
<1>7. HoldsHistory(chanKind, NewChannel(chanKind), <<>>)
  BY <1>1, HeldNothing
<1>8. ReplayWrites(<<>>, <<>>) = <<>>
  <2>1. Overwrites(<<>>) = {} /\ Vals(<<>>) = <<>>
    BY DEF Overwrites, Vals
  <2>2. <<>> \o <<>> = <<>>
    OBVIOUS
  <2> QED BY <2>1, <2>2, FlattenEmpty DEF ReplayWrites, ReplayFrom
<1>9. chanKind = "delta" => NewChannel(chanKind).value = <<>>
  BY DEF NewChannel, Barriers
<1>10. Restore(chanKind, disk) = NewChannel(chanKind)
  BY <1>2, <1>8, <1>9 DEF Restore, NewChannel
<1> QED BY <1>1, <1>2, <1>5, <1>6, <1>7, <1>8, <1>9, <1>10 DEF ChannelInv

\* A step of the caller.
LEMMA ChannelUpdateKeeps == ASSUME ChannelInv, NEW w \in ChannelWrites, Update(w) PROVE ChannelInv'
<1>1. /\ chanKind \notin Overwritable => Overwrites(w) = {}
      /\ ~chanFailed /\ chan' = UpdateOf(chan, w) /\ chanFailed' = UpdateFails(w)
      /\ log' = IF chanKind = "delta" THEN Append(log, w) ELSE log
      /\ hist' = Append(hist, [op |-> "update", w |-> w])
      /\ chanKind' = chanKind /\ disk' = disk
  BY DEF Update, Record
<1>2. ChannelTypes
  BY DEF ChannelInv
<1>3. w \in WriteSeq
  BY ChannelAssumption DEF WriteSeq, Write
<1>4. PICK e : e = [op |-> "update", w |-> w]
  OBVIOUS
<1>5. e \in Event /\ e.op = "update" /\ e.w = w /\ hist' = Append(hist, e)
  BY <1>1, <1>3, <1>4 DEF Event
<1>6. PICK h, c, l : h = hist /\ c = chan /\ l = log
  OBVIOUS
<1>7. chanKind \in Kinds /\ h \in Seq(Event) /\ c \in Chan(chanKind) /\ l \in Seq(WriteSeq)
  BY <1>2, <1>6 DEF ChannelTypes
<1>8. PICK g, r : g = Append(h, e) /\ r = UpdateOf(c, w)
  OBVIOUS
<1>9. hist' = g /\ chan' = r
  BY <1>1, <1>5, <1>6, <1>8
<1>10. r \in Chan(chanKind)
  BY <1>1, <1>3, <1>7, <1>8, UpdateTyped
<1>11. g \in Seq(Event) /\ UpdatesOnly(chanKind, g)
  <2>1. PICK n : n = Len(h) + 1
    OBVIOUS
  <2>2. /\ g \in Seq(Event) /\ g[n] = e /\ \A i \in 1 .. Len(h) : g[i] = h[i]
        /\ DOMAIN g = DOMAIN h \cup {n} /\ DOMAIN h = 1 .. Len(h)
    BY <1>5, <1>7, <1>8, <2>1, HistoryGrows
  <2>3. UpdatesOnly(chanKind, h)
    BY <1>6 DEF ChannelInv
  <2> QED BY <1>5, <2>2, <2>3 DEF UpdatesOnly
<1>12. log' \in Seq(WriteSeq)
  BY <1>1, <1>3, <1>6, <1>7
<1>13. UpdateFails(w) \in BOOLEAN
  BY DEF UpdateFails
<1>14. ChannelTypes'
  BY <1>1, <1>2, <1>9, <1>10, <1>11, <1>12, <1>13 DEF ChannelTypes
<1>15. ASSUME chanKind = "delta", Reproducible(g) PROVE Reproducible(h) /\ ResetsLast(w)
  BY <1>5, <1>7, <1>8, <1>15, ReproducibleGrows
<1>16. ASSUME chanKind = "delta" PROVE LogOf(log', g)
  <2>1. LogOf(l, h)
    BY <1>6, <1>16 DEF ChannelInv
  <2>2. log' = Append(l, w)
    BY <1>1, <1>6, <1>16
  <2>3. ASSUME Reproducible(g), NEW i \in 1 .. Len(Append(l, w)) PROVE ResetsLast(Append(l, w)[i])
    <3>1. CASE i = Len(l) + 1
      <4>1. Append(l, w)[i] = w
        BY <1>3, <1>7, <3>1
      <4> QED BY <1>15, <1>16, <2>3, <4>1
    <3>2. CASE i # Len(l) + 1
      <4>1. i \in 1 .. Len(l) /\ Append(l, w)[i] = l[i]
        BY <1>3, <1>7, <3>2
      <4> QED BY <1>15, <1>16, <2>1, <2>3, <4>1 DEF LogOf
    <3> QED BY <3>1, <3>2
  <2> QED BY <2>2, <2>3 DEF LogOf
<1>17. ASSUME ~UpdateFails(w), chanKind = "delta" => Reproducible(g) PROVE HoldsHistory(chanKind, r, g)
  <2>1. HoldsHistory(chanKind, c, h)
    BY <1>1, <1>6, <1>15, <1>17 DEF ChannelInv
  <2> QED BY <1>1, <1>3, <1>5, <1>7, <1>8, <1>17, <2>1, UpdateHeld
<1>18. ASSUME ~UpdateFails(w), chanKind = "delta", Reproducible(g)
       PROVE  r.value = ReplayWrites(disk.base, log')
  <2>1. c.value = ReplayWrites(disk.base, l) /\ ResetsLast(w)
    BY <1>1, <1>6, <1>15, <1>18 DEF ChannelInv
  <2>2. PICK b : b = disk.base
    OBVIOUS
  <2>3. b \in Seq(Values)
    BY <1>2, <2>2 DEF ChannelTypes
  <2>4. ReplayWrites(b, Append(l, w)) =
           IF Overwrites(w) = {} THEN ReplayWrites(b, l) \o Vals(w) ELSE <<w[FirstOf(Overwrites(w))].v>>
    BY ONLY <1>3, <1>7, <2>1, <2>3, ReplayStep
  <2>5. r.value = Left(c, w)
    BY <1>1, <1>3, <1>7, <1>8, <1>18, UpdateTyped
  <2>6. Left(c, w) = IF Overwrites(w) = {} THEN c.value \o Vals(w) ELSE <<w[FirstOf(Overwrites(w))].v>>
    BY <1>18 DEF Left, LatestKinds, StepKinds, Barriers
  <2>7. log' = Append(l, w)
    BY <1>1, <1>6, <1>18
  <2> QED BY <2>1, <2>2, <2>4, <2>5, <2>6, <2>7
<1> QED BY <1>1, <1>9, <1>11, <1>14, <1>16, <1>17, <1>18 DEF ChannelInv

\* Finish and Consume happen to the gated kinds only.
LEMMA ChannelGateKeeps == ASSUME ChannelInv, ChannelFinish \/ Consume PROVE ChannelInv'
<1>1. PICK op \in {"finish", "consume"} :
         /\ hist' = Append(hist, [op |-> op, w |-> <<>>])
         /\ op = "finish" => CanFinish(chan) /\ chan' = [chan EXCEPT !.finished = TRUE]
         /\ op = "consume" => CanConsume(chan) /\ chan' = NewChannel(chanKind)
  BY DEF ChannelFinish, Consume, Record
<1>2. ~chanFailed /\ chanKind' = chanKind /\ chanFailed' = chanFailed /\ log' = log /\ disk' = disk
  BY DEF ChannelFinish, Consume
<1>3. ChannelTypes
  BY DEF ChannelInv
<1>4. PICK e : e = [op |-> op, w |-> <<>>]
  OBVIOUS
<1>5. e \in Event /\ e.op = op
  BY <1>4 DEF Event, WriteSeq
<1>6. PICK h, c : h = hist /\ c = chan
  OBVIOUS
<1>7. chanKind \in Kinds /\ h \in Seq(Event) /\ c \in Chan(chanKind)
  BY <1>3, <1>6 DEF ChannelTypes
<1>8. PICK g, r : g = Append(h, e) /\ r = chan'
  OBVIOUS
<1>9. hist' = g
  BY <1>1, <1>4, <1>6, <1>8
<1>10. chanKind \in Gated /\ chanKind # "delta"
  BY <1>1 DEF CanFinish, CanConsume, Gated, Barriers
<1>11. r \in Chan(chanKind)
  <2>1. [c EXCEPT !.finished = TRUE] \in Chan(chanKind)
    BY <1>7 DEF Chan
  <2>2. NewChannel(chanKind) \in Chan(chanKind)
    BY NewChannelTyped
  <2> QED BY <1>1, <1>6, <1>8, <2>1, <2>2
<1>12. g \in Seq(Event)
  BY <1>5, <1>7, <1>8
<1>13. ChannelTypes'
  BY <1>2, <1>3, <1>8, <1>9, <1>11, <1>12 DEF ChannelTypes
<1>14. HoldsHistory(chanKind, c, h)
  BY <1>2, <1>6, <1>10 DEF ChannelInv
<1>15. HoldsHistory(chanKind, r, g)
  <2>1. e.op = "finish" /\ CanFinish(c) => HoldsHistory(chanKind, [c EXCEPT !.finished = TRUE], g)
    BY <1>5, <1>7, <1>8, <1>14, GatesHeld
  <2>2. e.op = "consume" /\ CanConsume(c) => HoldsHistory(chanKind, NewChannel(chanKind), g)
    BY <1>5, <1>7, <1>8, <1>14, GatesHeld
  <2>3. CASE op = "finish"
    BY <1>1, <1>5, <1>6, <1>8, <2>1, <2>3
  <2>4. CASE op = "consume"
    BY <1>1, <1>5, <1>6, <1>8, <2>2, <2>4
  <2> QED BY <2>3, <2>4
<1>16. UpdatesOnly(chanKind, g)
  BY <1>10 DEF UpdatesOnly
<1> QED BY <1>2, <1>8, <1>9, <1>10, <1>13, <1>15, <1>16 DEF ChannelInv

\* A channel without Finish is never finished.
LEMMA NeverFinished ==
    ASSUME NEW kind, kind \notin Gated, NEW h, UpdatesOnly(kind, h)
    PROVE  HeldFinished(kind, h) = FALSE
<1>1. \A i \in DOMAIN h : h[i].op # "finish"
  BY DEF UpdatesOnly
<1> QED BY <1>1 DEF HeldFinished, Ops

\* A step of the caller that saves.
LEMMA ChannelSaveKeeps == ASSUME ChannelInv, Save PROVE ChannelInv'
<1>1. PICK due \in BOOLEAN : due = (chanKind = "delta" /\ ShouldSnapshot(Len(log)))
  OBVIOUS
<1>2. /\ ~chanFailed /\ log' = IF due THEN <<>> ELSE log
      /\ disk' = [snapshot |-> Checkpoint(chan), base |-> IF due THEN chan.value ELSE disk.base,
                  log |-> log', hist |-> hist]
      /\ chanKind' = chanKind /\ chan' = chan /\ chanFailed' = chanFailed /\ hist' = hist
  BY <1>1 DEF Save
<1>3. ChannelTypes
  BY DEF ChannelInv
<1>4. PICK d, s, b, l : /\ d = disk' /\ s = Checkpoint(chan) /\ l = log'
                        /\ b = IF due THEN chan.value ELSE disk.base
  OBVIOUS
<1>5. d = [snapshot |-> s, base |-> b, log |-> l, hist |-> hist]
  BY <1>2, <1>4
<1>6. d.snapshot = s /\ d.base = b /\ d.log = l /\ d.hist = hist
  BY <1>5
<1>7. chanKind = "delta" => chan.value \in Seq(Values)
  BY <1>3 DEF ChannelTypes, Chan, Barriers
<1>8. due => chanKind = "delta"
  BY <1>1
<1>9. b \in Seq(Values)
  BY <1>3, <1>4, <1>7, <1>8 DEF ChannelTypes
<1>10. s \in Chan(chanKind)
  BY <1>3, <1>4, NewChannelTyped DEF ChannelTypes, Checkpoint
<1>11. l \in Seq(WriteSeq)
  <2>1. <<>> \in Seq(WriteSeq)
    OBVIOUS
  <2> QED BY <1>2, <1>3, <1>4, <2>1 DEF ChannelTypes
<1>12. hist \in Seq(Event)
  BY <1>3 DEF ChannelTypes
<1>13. d \in [snapshot: Chan(chanKind), base: Seq(Values), log: Seq(WriteSeq), hist: Seq(Event)]
  BY <1>5, <1>9, <1>10, <1>11, <1>12
<1>14. ChannelTypes'
  BY <1>2, <1>3, <1>4, <1>11, <1>13 DEF ChannelTypes
<1>15. UpdatesOnly(chanKind, hist)
  BY DEF ChannelInv
<1>16. ASSUME chanKind = "delta" PROVE LogOf(l, hist)
  <2>1. LogOf(<<>>, hist)
    BY DEF LogOf
  <2>2. LogOf(log, hist)
    BY <1>16 DEF ChannelInv
  <2> QED BY <1>2, <1>4, <2>1, <2>2
<1>17. chanKind \in Untracked => s = NewChannel(chanKind)
  BY <1>4 DEF Checkpoint
<1>18. ASSUME chanKind = "delta", Reproducible(hist) PROVE chan.value = ReplayWrites(b, l)
  <2>1. CASE due
    <3>1. ReplayWrites(b, <<>>) = b
      <4>1. Overwrites(<<>>) = {} /\ Vals(<<>>) = <<>>
        BY DEF Overwrites, Vals
      <4>2. b \o <<>> = b
        BY <1>9, ConcatEmptySeq
      <4> QED BY <4>1, <4>2, FlattenEmpty DEF ReplayWrites, ReplayFrom
    <3> QED BY <1>2, <1>4, <2>1, <3>1
  <2>2. CASE ~due
    BY <1>2, <1>4, <1>18, <2>2 DEF ChannelInv
  <2> QED BY <2>1, <2>2
<1>19. ASSUME chanKind \notin Untracked, chanKind = "delta" => Reproducible(hist)
       PROVE  HoldsHistory(chanKind, Restore(chanKind, d), hist)
  <2>1. HoldsHistory(chanKind, chan, hist)
    BY <1>2, <1>19 DEF ChannelInv
  <2>2. CASE chanKind = "delta"
    <3>1. PICK r : r = Restore(chanKind, d)
      OBVIOUS
    <3>2. r.value = ReplayWrites(b, l) /\ r.finished = FALSE
      BY <1>6, <2>2, <3>1 DEF Restore, NewChannel
    <3>3. HeldFinished(chanKind, hist) = FALSE
      BY <1>15, <2>2, NeverFinished DEF Gated, Barriers
    <3> QED BY <1>18, <1>19, <2>1, <2>2, <3>1, <3>2, <3>3 DEF HoldsHistory
  <2>3. CASE chanKind # "delta"
    <3>1. s = chan
      BY <1>4, <1>19, <2>3 DEF Checkpoint
    <3>2. Restore(chanKind, d) = s
      BY <1>6, <2>3 DEF Restore
    <3> QED BY <2>1, <3>1, <3>2
  <2> QED BY <2>2, <2>3
<1>20. HoldsHistory(chanKind, chan, hist) \/ ~(chanKind = "delta" => Reproducible(hist))
  BY <1>2 DEF ChannelInv
<1> QED BY <1>2, <1>4, <1>6, <1>14, <1>15, <1>16, <1>17, <1>18, <1>19, <1>20 DEF ChannelInv

\* A restart takes the channel back to what was saved.
LEMMA ChannelRestartKeeps == ASSUME ChannelInv, Restart PROVE ChannelInv'
<1>1. /\ chan' = Restore(chanKind, disk) /\ log' = disk.log /\ chanFailed' = FALSE
      /\ hist' = IF chanKind \in Untracked THEN <<>> ELSE disk.hist
      /\ chanKind' = chanKind /\ disk' = disk
  BY DEF Restart
<1>2. ChannelTypes
  BY DEF ChannelInv
<1>3. PICK r, h : r = chan' /\ h = hist'
  OBVIOUS
<1>4. chanKind \in Untracked => chanKind # "delta"
  BY DEF Untracked
<1>5. /\ disk.snapshot \in Chan(chanKind) /\ disk.base \in Seq(Values)
      /\ disk.log \in Seq(WriteSeq) /\ disk.hist \in Seq(Event)
  BY <1>2 DEF ChannelTypes
<1>6. h \in Seq(Event) /\ UpdatesOnly(chanKind, h)
  <2>1. <<>> \in Seq(Event) /\ UpdatesOnly(chanKind, <<>>)
    BY DEF UpdatesOnly
  <2>2. UpdatesOnly(chanKind, disk.hist)
    BY DEF ChannelInv
  <2> QED BY <1>1, <1>3, <1>5, <2>1, <2>2
<1>7. chanKind = "delta" =>
        r = [NewChannel(chanKind) EXCEPT !.value = ReplayWrites(disk.base, disk.log)]
  BY <1>1, <1>3 DEF Restore
<1>8. ReplayWrites(disk.base, disk.log) \in Seq(Values)
  <2>1. PICK b, l : b = disk.base /\ l = disk.log
    OBVIOUS
  <2>2. b \in Seq(Values) /\ l \in Seq(WriteSeq)
    BY <1>5, <2>1
  <2>3. <<>> \in WriteSeq /\ ResetsLast(<<>>)
    BY DEF WriteSeq, ResetsLast, Overwrites
  <2>4. ReplayWrites(b, l) \in Seq(Values)
    BY ONLY <2>2, <2>3, ReplayStep
  <2> QED BY <2>1, <2>4
<1>9. r \in Chan(chanKind)
  <2>1. CASE chanKind = "delta"
    <3>1. PICK v : v = ReplayWrites(disk.base, disk.log)
      OBVIOUS
    <3>2. chanKind \notin Barriers
      BY <2>1 DEF Barriers
    <3>3. r = [value |-> v, finished |-> FALSE]
      BY <1>7, <2>1, <3>1 DEF NewChannel
    <3> QED BY <1>8, <3>1, <3>2, <3>3 DEF Chan
  <2>2. CASE chanKind # "delta"
    BY <1>1, <1>3, <1>5, <2>2 DEF Restore
  <2> QED BY <2>1, <2>2
<1>10. ChannelTypes'
  BY <1>1, <1>2, <1>3, <1>5, <1>6, <1>9 DEF ChannelTypes
<1>11. ASSUME chanKind = "delta" => Reproducible(h) PROVE HoldsHistory(chanKind, r, h)
  <2>1. CASE chanKind \in Untracked
    <3>1. r = NewChannel(chanKind) /\ h = <<>>
      BY <1>1, <1>3, <1>4, <2>1 DEF ChannelInv, Restore
    <3>2. chanKind \in Kinds
      BY <1>2 DEF ChannelTypes
    <3> QED BY <3>1, <3>2, HeldNothing
  <2>2. CASE chanKind \notin Untracked
    <3>1. h = disk.hist
      BY <1>1, <1>3, <2>2
    <3> QED BY <1>1, <1>3, <1>11, <2>2, <3>1 DEF ChannelInv
  <2> QED BY <2>1, <2>2
<1>12. ASSUME chanKind = "delta" PROVE r.value = ReplayWrites(disk.base, log')
  BY <1>1, <1>7, <1>12 DEF NewChannel
<1>13. ASSUME chanKind = "delta" PROVE LogOf(log', h)
  BY <1>1, <1>3, <1>4, <1>13 DEF ChannelInv
<1> QED BY <1>1, <1>3, <1>6, <1>10, <1>11, <1>12, <1>13 DEF ChannelInv

\* Every step keeps what memory and disk hold.
LEMMA ChannelNextKeeps == ASSUME ChannelInv, [ChannelNext]_channelVars PROVE ChannelInv'
<1>1. CASE \E w \in ChannelWrites : Update(w)
  BY <1>1, ChannelUpdateKeeps
<1>2. CASE ReducerFails
  <2>1. chanFailed' = TRUE /\ UNCHANGED <<chanKind, chan, log, disk, hist>>
    BY <1>2 DEF ReducerFails
  <2>2. ChannelTypes'
    BY <2>1 DEF ChannelInv, ChannelTypes
  <2> QED BY <2>1, <2>2 DEF ChannelInv
<1>3. CASE ChannelFinish \/ Consume
  BY <1>3, ChannelGateKeeps
<1>4. CASE Save
  BY <1>4, ChannelSaveKeeps
<1>5. CASE Restart
  BY <1>5, ChannelRestartKeeps
<1>6. CASE UNCHANGED channelVars
  <2>1. UNCHANGED <<chanKind, chan, chanFailed, log, disk, hist>>
    BY <1>6 DEF channelVars
  <2>2. ChannelTypes'
    BY <2>1 DEF ChannelInv, ChannelTypes
  <2> QED BY <2>1, <2>2 DEF ChannelInv
<1> QED BY <1>1, <1>2, <1>3, <1>4, <1>5, <1>6 DEF ChannelNext

\* For every set of writes and names, every snapshot frequency and every number
\* of operations: whatever failed, was saved or was restored, a channel of any
\* kind holds what its history says, and a delta channel whose log was replayed
\* holds what it held before the restart (Update, Checkpoint, ReplayWrites,
\* Finish and Consume of the channels).
THEOREM ChannelsAreFaithful == ChannelSpec => []ChannelsFaithful
<1>1. ChannelInv => ChannelsFaithful
  BY DEF ChannelInv, ChannelsFaithful, HoldsHistory
<1> QED BY <1>1, ChannelStart, ChannelNextKeeps, PTL DEF ChannelSpec
=============================================================================
