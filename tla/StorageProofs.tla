---------------------------- MODULE StorageProofs ---------------------------
(***************************************************************************)
(* Proofs about ExitBuffer, Stores, NodeCache and IndexedStore. What a     *)
(* flush publishes is sound wherever it stops, a batch of a store takes    *)
(* effect at once, a cache returns nothing but what an execution of the    *)
(* task stored and no clear removed, and an index converges to its base    *)
(* store, for any number of checkpoints, clients, keys, runs, intents and  *)
(* clocks.                                                                 *)
(***************************************************************************)
EXTENDS ExitBuffer, Stores, NodeCache, IndexedStore,
        FiniteSetTheorems, SequenceTheorems, WellFoundedInduction, TLAPS

-----------------------------------------------------------------------------
(***************************************************************************)
(* ExitBuffer: what a flush publishes, wherever it stops.                  *)
(***************************************************************************)
(***************************************************************************)
(* The greatest ID of a set of IDs.                                        *)
(***************************************************************************)
\* A set of naturals that is not empty has a least member.
LEMMA LeastMember ==
    ASSUME NEW T, T \subseteq Nat, T # {} PROVE \E x \in T : \A y \in T : x <= y
<1>1. PICK x \in T : \A y \in T : ~(<<y, x>> \in OpToRel(<, Nat))
  BY NatLessThanWellFounded, WFMin, Zenon
<1>2. \A y \in T : ~(y < x)
  BY <1>1 DEF OpToRel
<1> QED
  BY <1>2

\* Max is the greatest member of a bounded set.
LEMMA MaxMember ==
    ASSUME NEW n \in Nat, NEW S, S \subseteq 0 .. n, S # {}
    PROVE  Max(S) \in S /\ \A y \in S : y <= Max(S)
<1> DEFINE T == {n - x : x \in S}
<1>0. \A x \in S : x \in Nat /\ x <= n /\ n - x \in Nat
  OBVIOUS
<1>1. T \subseteq Nat /\ T # {}
  BY <1>0
<1> HIDE DEF T
<1>2. PICK d \in T : \A e \in T : d <= e
  BY <1>1, LeastMember
<1>3. PICK x \in S : d = n - x
  BY DEF T
<1>4. \A y \in S : n - y \in T
  BY DEF T
<1>5. \A y \in S : x >= y
  BY <1>0, <1>2, <1>3, <1>4
<1>6. \E z \in S : \A y \in S : z >= y
  BY <1>5
<1>7. Max(S) \in S /\ \A y \in S : Max(S) >= y
  BY <1>6 DEF Max
<1> QED
  BY <1>7

\* A member that is not less than the others is Max.
LEMMA MaxIs ==
    ASSUME NEW n \in Nat, NEW S, S \subseteq 0 .. n, NEW x \in S, \A y \in S : y <= x
    PROVE  Max(S) = x
<1> DEFINE m == Max(S)
<1>1. m \in S /\ \A y \in S : y <= m
  BY MaxMember
<1> HIDE DEF m
<1>2. m \in Nat /\ x \in Nat
  BY <1>1
<1>3. m = x
  BY <1>1, <1>2
<1> QED
  BY <1>3 DEF m

-----------------------------------------------------------------------------
(***************************************************************************)
(* The inductive invariant.                                                *)
(***************************************************************************)
\* The scopes are in the order of their first Put, and each has its latest draft.
ScopesOrdered ==
    /\ scopeOrder \in Seq(Scopes)
    /\ \A s \in Scopes :
         IF s \in DOMAIN baseParent
         THEN latestID[s] \in DOMAIN drafts /\ drafts[latestID[s]].scope = s
         ELSE latestID[s] = None
    /\ \A id \in DOMAIN drafts : drafts[id].scope \in DOMAIN baseParent

\* IDs grow: no checkpoint of a namespace is newer than the run's latest draft.
IDsGrow ==
    /\ \A id \in DOMAIN base \cup DOMAIN drafts : id <= ids
    /\ \A id \in DOMAIN base, s \in DOMAIN baseParent :
         base[id].scope = s => id <= latestID[s]

\* What a flush publishes is the draft.
OneScope == \A id \in DOMAIN base \cap DOMAIN drafts : base[id].scope = drafts[id].scope

\* A run is at checkpoints that its saver finds: a draft of the namespace, or one
\* of the base saver.
RunFound ==
    phase \in {"idle", "running"} =>
      \A s \in Scopes : cur[s] # None =>
        \/ cur[s] \in DOMAIN base
        \/ cur[s] \in DOMAIN drafts /\ drafts[cur[s]].scope = s

\* The parent of the first checkpoint a run put in a scope is stored, and so is
\* the parent of what is stored.
ParentsStored ==
    /\ \A s \in DOMAIN baseParent : baseParent[s] \in DOMAIN base \cup {None}
    /\ \A id \in DOMAIN base : base[id].parent \in DOMAIN base \cup {None}

\* A flush has published a scope, or has still to.
Published(s) ==
    /\ latestID[s] \in DOMAIN base
    /\ base[latestID[s]].scope = s
    /\ writes[latestID[s]] \subseteq baseWrites[latestID[s]]
FlushRest ==
    /\ boundaries \in Seq([id: IDs, parent: IDs \cup {None}, writes: SUBSET Write])
    /\ phase \in {"idle", "running", "flushed"} => boundaries = <<>>
    /\ \A i \in DOMAIN boundaries : \E s \in DOMAIN baseParent : boundaries[i] = BoundaryOf(s, writes)
    /\ phase \in {"flushing", "flushed"} =>
         \A s \in DOMAIN baseParent :
           Published(s) \/ \E i \in DOMAIN boundaries : boundaries[i] = BoundaryOf(s, writes)

EInv == /\ TypeOK /\ ScopesOrdered /\ IDsGrow /\ OneScope
        /\ RunFound /\ ParentsStored /\ FlushRest

-----------------------------------------------------------------------------
(***************************************************************************)
(* What the savers return.                                                 *)
(***************************************************************************)
\* The base saver's latest checkpoint of a namespace is one of that namespace.
LEMMA LatestFound ==
    ASSUME TypeOK, NEW s \in Scopes
    PROVE  /\ Latest(s) \in DOMAIN base \cup {None} /\ Latest(s) \in IDs \cup {None}
           /\ Latest(s) # None => base[Latest(s)].scope = s
<1> DEFINE S == {id \in DOMAIN base : base[id].scope = s} \cup {None}
<1>1. MaxID \in Nat /\ S \subseteq 0 .. MaxID /\ S # {}
  BY ExitAssumption DEF TypeOK, IDs, None
<1>2. Max(S) \in S
  BY <1>1, MaxMember
<1>3. Latest(s) = Max(S)
  BY DEF Latest
<1> QED
  BY <1>2, <1>3 DEF TypeOK

\* A checkpoint of a namespace that is not older than any other is its latest.
LEMMA LatestIs ==
    ASSUME TypeOK, NEW s \in Scopes, NEW x \in DOMAIN base, base[x].scope = s,
           \A id \in DOMAIN base : base[id].scope = s => id <= x
    PROVE  Latest(s) = x
<1> DEFINE S == {id \in DOMAIN base : base[id].scope = s} \cup {None}
<1>1. MaxID \in Nat /\ S \subseteq 0 .. MaxID /\ x \in S
  BY ExitAssumption DEF TypeOK, IDs, None
<1>2. \A y \in S : y <= x
  BY ExitAssumption DEF TypeOK, IDs, None
<1>3. Max(S) = x
  <2> HIDE DEF S
  <2> QED
    BY <1>1, <1>2, MaxIs
<1> QED
  BY <1>3 DEF Latest

\* What the run's saver returns is a draft of the namespace, or a stored one.
LEMMA SeenFound ==
    ASSUME TypeOK, ScopesOrdered, NEW s \in Scopes
    PROVE  /\ LatestSeen(s) \in IDs \cup {None}
           /\ LatestSeen(s) # None =>
                \/ LatestSeen(s) \in DOMAIN base
                \/ LatestSeen(s) \in DOMAIN drafts /\ drafts[LatestSeen(s)].scope = s
  BY LatestFound DEF LatestSeen, ScopesOrdered, TypeOK

-----------------------------------------------------------------------------
(***************************************************************************)
(* The operations keep the invariant.                                      *)
(***************************************************************************)
\* There are two namespaces.
LEMMA ScopesCount == Cardinality(Scopes) = 2
<1>1. IsFiniteSet({Root}) /\ Cardinality({Root}) = 1
  BY FS_Singleton
<1>2. Child \notin {Root} /\ Scopes = {Root} \cup {Child}
  BY ExitAssumption DEF Scopes
<1>3. Cardinality({Root} \cup {Child}) = Cardinality({Root}) + 1
  BY <1>1, <1>2, FS_AddElement
<1> QED
  BY <1>1, <1>2, <1>3

\* A run puts in these namespaces only.
LEMMA ScopesOnly == ASSUME TypeOK, ScopesOrdered PROVE DOMAIN baseParent \subseteq Scopes
  BY DEF TypeOK, ScopesOrdered, ToSet

\* The state a program starts in.
LEMMA InitEInv == ASSUME Init PROVE EInv
<1> USE ExitAssumption DEF Init
<1>1. TypeOK
  BY ScopesCount DEF TypeOK, ToSet, IsInjective
<1>2. ScopesOrdered /\ IDsGrow /\ OneScope /\ RunFound /\ ParentsStored
  BY DEF ScopesOrdered, IDsGrow, OneScope, RunFound, ParentsStored
<1>3. FlushRest
  BY DEF FlushRest
<1> QED
  BY <1>1, <1>2, <1>3 DEF EInv

\* Put of a fresh ID, whose parent is stored when it is the first of its scope.
LEMMA PutEInv ==
    ASSUME EInv, NEW s \in Scopes, NEW parent \in IDs \cup {None}, NEW inv \in IDs \cup {None},
           Put(s, parent, inv), s \notin DOMAIN baseParent => parent \in DOMAIN base \cup {None},
           phase \in {"idle", "running"}, phase' = "running",
           UNCHANGED <<base, baseWrites, boundaries, runs>>
    PROVE  EInv'
<1> USE ExitAssumption DEF None, IDs
<1> DEFINE n == ids + 1
           r == [scope |-> s, parent |-> parent, inv |-> inv]
<1>0. PICK k \in IDs : k = ids + 1 /\ ids' = k /\ k > ids
  BY DEF Put, EInv, TypeOK
<1>d. /\ DOMAIN drafts' = DOMAIN drafts \cup {k}
      /\ drafts'[k] = r
      /\ \A id \in DOMAIN drafts : id # k /\ drafts'[id] = drafts[id]
  <2>1. drafts' = [id \in DOMAIN drafts \cup {k} |-> IF id = k THEN r ELSE drafts[id]]
    BY <1>0 DEF Put
  <2>2. k \notin DOMAIN drafts
    BY <1>0 DEF EInv, IDsGrow, TypeOK
  <2> QED
    BY <2>1, <2>2
<1>r. r \in Stored /\ r.scope = s
  BY DEF Stored
<1>l. /\ latestID' \in [Scopes -> IDs \cup {None}] /\ latestID'[s] = k
      /\ \A x \in Scopes \ {s} : latestID'[x] = latestID[x]
  BY <1>0 DEF Put, EInv, TypeOK
<1>b. /\ DOMAIN baseParent' = DOMAIN baseParent \cup {s}
      /\ \A x \in DOMAIN baseParent : baseParent'[x] = baseParent[x]
      /\ s \notin DOMAIN baseParent => baseParent'[s] = parent
  BY DEF Put, FirstParent
<1>c. /\ cur' \in [Scopes -> IDs \cup {None}] /\ cur'[s] = k
      /\ \A x \in Scopes \ {s} : cur'[x] \in {None, cur[x]}
  BY <1>0 DEF Put, EInv, TypeOK
<1>o. /\ scopeOrder' \in Seq(Scopes) /\ ToSet(scopeOrder') = DOMAIN baseParent'
      /\ IsInjective(scopeOrder')
  <2>1. scopeOrder \in Seq(Scopes) /\ ToSet(scopeOrder) = DOMAIN baseParent /\ IsInjective(scopeOrder)
    BY DEF EInv, ScopesOrdered, TypeOK
  <2>2. CASE s \in DOMAIN baseParent
    <3>1. scopeOrder' = scopeOrder /\ DOMAIN baseParent' = DOMAIN baseParent
      BY <2>2, <1>b DEF Put, NextScopeOrder
    <3> QED
      BY <3>1, <2>1
  <2>3. CASE s \notin DOMAIN baseParent
    <3>1. scopeOrder' = Append(scopeOrder, s)
      BY <2>3 DEF Put, NextScopeOrder
    <3>2. /\ scopeOrder' \in Seq(Scopes) /\ DOMAIN scopeOrder' = 1 .. Len(scopeOrder) + 1
          /\ scopeOrder'[Len(scopeOrder) + 1] = s
          /\ \A i \in 1 .. Len(scopeOrder) : scopeOrder'[i] = scopeOrder[i]
          /\ DOMAIN scopeOrder = 1 .. Len(scopeOrder) /\ Len(scopeOrder) \in Nat
      BY <3>1, <2>1
    <3>3. ToSet(scopeOrder') = ToSet(scopeOrder) \cup {s}
      BY <3>2 DEF ToSet
    <3>4. \A i \in 1 .. Len(scopeOrder) : scopeOrder[i] # s
      BY <3>2, <2>1, <2>3 DEF ToSet
    <3>5. IsInjective(scopeOrder')
      BY <3>2, <3>4, <2>1 DEF IsInjective
    <3> QED
      BY <3>2, <3>3, <3>5, <2>1, <1>b
  <2> QED
    BY <2>2, <2>3
<1>w. writes' = writes
  BY DEF Put
<1> HIDE DEF r
<1>1. TypeOK'
  <2>1. DOMAIN drafts' \subseteq IDs /\ drafts' \in [DOMAIN drafts' -> Stored]
    <3>1. drafts' = [id \in DOMAIN drafts' |-> drafts'[id]]
      BY DEF Put
    <3>2. \A id \in DOMAIN drafts' : id \in IDs /\ drafts'[id] \in Stored
      BY <1>d, <1>r DEF EInv, TypeOK
    <3> QED
      BY <3>1, <3>2
  <2>2. \A x \in DOMAIN baseParent' : baseParent'[x] \in IDs \cup {None}
    BY <1>b DEF EInv, TypeOK
  <2>3. /\ DOMAIN base' \subseteq IDs /\ base' \in [DOMAIN base' -> Stored]
        /\ baseWrites' \in [IDs -> SUBSET Write] /\ writes' \in [IDs -> SUBSET Write]
        /\ Len(boundaries') <= Cardinality(Scopes) /\ runs' \in 0 .. MaxRuns
    BY <1>w DEF EInv, TypeOK
  <2>4. ids' \in 0 .. MaxID
    BY <1>0
  <2> QED
    BY <2>1, <2>2, <2>3, <2>4, <1>l, <1>o, <1>c DEF TypeOK
<1>2. ScopesOrdered'
  BY <1>d, <1>r, <1>l, <1>b, <1>o DEF EInv, ScopesOrdered
<1>3. IDsGrow'
  <2>1. \A id \in DOMAIN base \cup DOMAIN drafts : id \in Nat /\ id <= ids /\ id < k
    BY <1>0 DEF EInv, IDsGrow, TypeOK
  <2>2. \A id \in DOMAIN base', x \in DOMAIN baseParent' : base'[id].scope = x => id <= latestID'[x]
    <3> SUFFICES ASSUME NEW id \in DOMAIN base, NEW x \in DOMAIN baseParent \cup {s},
                        base[id].scope = x
                 PROVE  id <= latestID'[x]
      BY <1>b
    <3>1. CASE x = s
      BY <3>1, <2>1, <1>l, <1>0
    <3>2. CASE x # s
      <4>1. x \in DOMAIN baseParent /\ x \in Scopes
        BY <3>2, ScopesOnly DEF EInv
      <4> QED
        BY <4>1, <3>2, <1>l DEF EInv, IDsGrow
    <3> QED
      BY <3>1, <3>2
  <2> QED
    BY <2>1, <2>2, <1>0, <1>d DEF IDsGrow
<1>s. OneScope'
  <2>1. k \notin DOMAIN base
    BY <1>0 DEF EInv, IDsGrow, TypeOK
  <2> QED
    BY <2>1, <1>d DEF EInv, OneScope
<1>4. RunFound'
  BY <1>c, <1>d, <1>r DEF EInv, RunFound
<1>5. ParentsStored'
  BY <1>b DEF EInv, ParentsStored
<1>6. FlushRest'
  BY DEF EInv, FlushRest
<1> QED
  BY <1>1, <1>2, <1>3, <1>s, <1>4, <1>5, <1>6 DEF EInv

\* A run returns with the writes ws: the boundaries are those of its scopes.
LEMMA ReturnEInv ==
    ASSUME EInv, NEW ws \in [IDs -> SUBSET Write], writes' = ws, boundaries' = FlushOrder(ws),
           phase' = "flushing",
           UNCHANGED <<base, baseWrites, ids, drafts, latestID, baseParent, scopeOrder, cur, runs>>
    PROVE  EInv'
<1> USE ExitAssumption DEF EInv
<1> DEFINE m == Len(scopeOrder)
<1>1. /\ scopeOrder \in Seq(Scopes) /\ m \in Nat /\ DOMAIN scopeOrder = 1 .. m
      /\ DOMAIN baseParent = {scopeOrder[i] : i \in 1 .. m}
      /\ \A i, j \in 1 .. m : scopeOrder[i] = scopeOrder[j] => i = j
  BY DEF ScopesOrdered, TypeOK, ToSet, IsInjective
<1>2. m <= 2
  <2>1. \A i \in 1 .. m : scopeOrder[i] = Root \/ scopeOrder[i] = Child
    BY <1>1 DEF Scopes
  <2>2. ASSUME m > 2 PROVE FALSE
    <3>1. 1 \in 1 .. m /\ 2 \in 1 .. m /\ 3 \in 1 .. m
      BY <2>2, <1>1
    <3> QED
      BY <3>1, <2>1, <1>1
  <2> QED
    BY <2>2, <1>1
<1>3. \A x \in DOMAIN baseParent :
        BoundaryOf(x, ws) \in [id: IDs, parent: IDs \cup {None}, writes: SUBSET Write]
  <2> SUFFICES ASSUME NEW x \in DOMAIN baseParent
               PROVE  BoundaryOf(x, ws) \in [id: IDs, parent: IDs \cup {None}, writes: SUBSET Write]
    OBVIOUS
  <2>1. latestID[x] \in IDs /\ baseParent[x] \in IDs \cup {None}
    BY ScopesOnly DEF ScopesOrdered, TypeOK
  <2> QED
    BY <2>1 DEF BoundaryOf
<1>4. /\ boundaries' = [i \in 1 .. m |-> BoundaryOf(scopeOrder[m + 1 - i], ws)]
      /\ \A i \in 1 .. m : m + 1 - i \in 1 .. m /\ scopeOrder[m + 1 - i] \in DOMAIN baseParent
  BY <1>1 DEF FlushOrder
<1>5. /\ boundaries' \in Seq([id: IDs, parent: IDs \cup {None}, writes: SUBSET Write])
      /\ Len(boundaries') = m /\ DOMAIN boundaries' = 1 .. m
      /\ \A i \in 1 .. m : boundaries'[i] = BoundaryOf(scopeOrder[m + 1 - i], ws)
  <2> DEFINE b == [i \in 1 .. m |-> BoundaryOf(scopeOrder[m + 1 - i], ws)]
  <2>1. \A i \in 1 .. m : BoundaryOf(scopeOrder[m + 1 - i], ws)
          \in [id: IDs, parent: IDs \cup {None}, writes: SUBSET Write]
    BY <1>3, <1>4
  <2>2. m \in Nat
    BY <1>1
  <2> HIDE DEF m
  <2>3. b \in Seq([id: IDs, parent: IDs \cup {None}, writes: SUBSET Write]) /\ Len(b) = m
    BY <2>1, <2>2
  <2> QED
    BY <2>3, <1>4
<1>6. \A x \in DOMAIN baseParent : BoundaryOf(x, ws)' = BoundaryOf(x, ws)
  BY DEF BoundaryOf
<1>7. TypeOK'
  BY <1>2, <1>5, <1>1, ScopesCount DEF TypeOK
<1>8. ScopesOrdered' /\ IDsGrow' /\ OneScope' /\ RunFound' /\ ParentsStored'
  BY DEF ScopesOrdered, IDsGrow, OneScope, RunFound, ParentsStored
<1>9. FlushRest'
  <2>1. \A i \in DOMAIN boundaries' : \E x \in DOMAIN baseParent' :
          boundaries'[i] = BoundaryOf(x, writes)'
    BY <1>4, <1>5 DEF BoundaryOf
  <2>2. \A x \in DOMAIN baseParent' : \E i \in DOMAIN boundaries' :
          boundaries'[i] = BoundaryOf(x, writes)'
    <3> SUFFICES ASSUME NEW x \in DOMAIN baseParent
                 PROVE  \E i \in 1 .. m : boundaries'[i] = BoundaryOf(x, writes)'
      BY <1>5
    <3>1. PICK j \in 1 .. m : scopeOrder[j] = x
      BY <1>1
    <3>2. m + 1 - j \in 1 .. m /\ m + 1 - (m + 1 - j) = j
      BY <1>1
    <3> QED
      BY <3>1, <3>2, <1>5 DEF BoundaryOf
  <2> QED
    BY <2>1, <2>2, <1>5 DEF FlushRest
<1> QED
  BY <1>7, <1>8, <1>9

\* A write is buffered as a set of writes.
LEMMA BufferedOK ==
    ASSUME TypeOK, NEW id, NEW w \in Write PROVE Buffered(id, w) \in [IDs -> SUBSET Write]
  BY DEF Buffered, TypeOK

\* A new saver has an empty buffer (newExitBufferSaver).
LEMMA NewSaverEInv == ASSUME EInv, NewSaver PROVE EInv'
<1> USE ExitAssumption DEF EInv, NewSaver, NewBuffer
<1>1. TypeOK'
  BY ScopesCount DEF TypeOK, ToSet, IsInjective
<1>2. ScopesOrdered' /\ OneScope' /\ RunFound'
  BY DEF ScopesOrdered, OneScope, RunFound
<1>3. IDsGrow' /\ ParentsStored'
  BY DEF IDsGrow, ParentsStored
<1>4. FlushRest'
  BY DEF FlushRest
<1> QED
  BY <1>1, <1>2, <1>3, <1>4

\* A run that puts nothing moves to a checkpoint its saver finds.
LEMMA MoveEInv ==
    ASSUME EInv, cur' \in [Scopes -> IDs \cup {None}],
           phase \in {"idle", "running"}, phase' = "running",
           UNCHANGED <<base, baseWrites, ids, buffer, boundaries, runs>>,
           \A s \in Scopes : cur'[s] # None =>
             \/ cur'[s] = cur[s]
             \/ cur'[s] \in DOMAIN base
             \/ cur'[s] \in DOMAIN drafts /\ drafts[cur'[s]].scope = s
    PROVE  EInv'
<1> USE DEF EInv, buffer
<1>1. TypeOK'
  BY DEF TypeOK
<1>2. ScopesOrdered' /\ IDsGrow' /\ OneScope' /\ ParentsStored'
  BY DEF ScopesOrdered, IDsGrow, OneScope, ParentsStored
<1>3. RunFound'
  BY DEF RunFound
<1>4. FlushRest'
  BY DEF FlushRest
<1> QED
  BY <1>1, <1>2, <1>3, <1>4

\* The first checkpoint of a run, and the latest of a thread (initializeRun).
LEMMA StartEInv == ASSUME EInv, StartWithInput \/ InvokeAtLatest PROVE EInv'
<1>1. /\ TypeOK /\ Root \in Scopes /\ Child \in Scopes /\ Root # Child /\ None \in IDs \cup {None}
      /\ Latest(Root) \in DOMAIN base \cup {None} /\ Latest(Root) \in IDs \cup {None}
  BY ExitAssumption, LatestFound DEF EInv, Scopes
<1>2. CASE StartWithInput
  BY <1>1, <1>2, PutEInv DEF StartWithInput
<1>3. CASE InvokeAtLatest
  <2>1. /\ cur' \in [Scopes -> IDs \cup {None}] /\ cur'[Root] = Latest(Root)
        /\ \A s \in Scopes \ {Root} : cur'[s] = cur[s]
    BY <1>1, <1>3 DEF InvokeAtLatest, TypeOK
  <2> QED
    BY <2>1, <1>1, <1>3, MoveEInv DEF InvokeAtLatest
<1> QED
  BY <1>2, <1>3

\* A resumed run is at the root's latest checkpoint and at the child checkpoint
\* that the walk over its controls found (Resume).
LEMMA ResumeEInv == ASSUME EInv, Resume PROVE EInv'
<1> DEFINE controls == {w \in baseWrites[Latest(Root)] : w.kind # "result"}
           named == {w.ref : w \in controls} \ {None}
<1>1. /\ TypeOK /\ Root \in Scopes /\ Child \in Scopes /\ Root # Child
      /\ Latest(Root) \in DOMAIN base \cup {None} /\ Latest(Root) \in IDs \cup {None}
  BY ExitAssumption, LatestFound DEF EInv, Scopes
<1>2. named \subseteq DOMAIN base
  BY DEF Resume
<1>3. Max(named \cup {None}) \in named \cup {None}
  <2>1. MaxID \in Nat /\ named \cup {None} \subseteq 0 .. MaxID /\ named \cup {None} # {}
    <3> HIDE DEF named
    <3> QED
      BY <1>1, <1>2, ExitAssumption DEF TypeOK, IDs, None
  <2> QED
    BY <2>1, MaxMember
<1>4. /\ cur' \in [Scopes -> IDs \cup {None}]
      /\ cur'[Root] = Latest(Root) /\ cur'[Child] = Max(named \cup {None})
  <2>1. Max(named \cup {None}) \in IDs \cup {None}
    BY <1>1, <1>2, <1>3 DEF TypeOK
  <2>2. cur' = [cur EXCEPT ![Root] = Latest(Root), ![Child] = Max(named \cup {None})]
    BY DEF Resume
  <2> HIDE DEF named
  <2> QED
    BY <2>1, <2>2, <1>1 DEF TypeOK
<1>5. \A s \in Scopes : cur'[s] # None => cur'[s] \in DOMAIN base
  <2> HIDE DEF named
  <2> QED
    BY <1>1, <1>2, <1>3, <1>4 DEF Scopes
<1> QED
  BY <1>4, <1>5, MoveEInv DEF Resume

\* The subgraph node runs: its checkpoint is one that the run's saver lists
\* (stateful subgraphs, invoke).
LEMMA ChildStartEInv == ASSUME EInv, ChildStart PROVE EInv'
<1> DEFINE latest == LatestSeen(Child)
           children == {id \in DOMAIN drafts \cup DOMAIN base : TupleAt(id).scope = Child}
           earlier == {id \in children : id < cur[Root]} \cup {None}
           previous == Max(earlier)
           selected == IF previous # None THEN previous ELSE latest
<1> DEFINE Found(id) == \/ id \in DOMAIN base
                        \/ id \in DOMAIN drafts /\ drafts[id].scope = Child
<1>1. TypeOK /\ ScopesOrdered /\ Root \in Scopes /\ Child \in Scopes /\ Root # Child
  BY ExitAssumption DEF EInv, Scopes
<1>2. latest \in IDs \cup {None} /\ (latest # None => Found(latest))
  BY <1>1, SeenFound
<1>3. previous \in earlier
  <2>1. MaxID \in Nat /\ earlier \subseteq 0 .. MaxID /\ earlier # {}
    BY <1>1, ExitAssumption DEF TypeOK, IDs, None
  <2> QED
    BY <2>1, MaxMember
<1>4. selected \in IDs \cup {None} /\ (selected # None => Found(selected))
  <2>1. previous # None => previous \in IDs /\ Found(previous)
    BY <1>1, <1>3 DEF TypeOK, TupleAt
  <2> HIDE DEF previous, latest
  <2> QED
    BY <2>1, <1>2
<1>5. Child \notin DOMAIN baseParent => \A id : Found(id) => id \in DOMAIN base
  BY <1>1 DEF ScopesOrdered
<1>6. cur[Root] \in IDs \cup {None} /\ phase = "running" /\ phase' = "running"
  BY <1>1 DEF TypeOK, ChildStart
<1>7. UNCHANGED <<base, baseWrites, boundaries, runs>>
  BY DEF ChildStart
<1>8. \/ Put(Child, selected, cur[Root])
      \/ \E id \in {latest, selected} :
           id # None /\ cur' = [cur EXCEPT ![Child] = id] /\ UNCHANGED <<ids, buffer>>
  BY DEF ChildStart
<1> HIDE DEF latest, selected, Found
<1>9. CASE Put(Child, selected, cur[Root])
  <2>1. Child \notin DOMAIN baseParent => selected \in DOMAIN base \cup {None}
    BY <1>4, <1>5
  <2> QED
    BY <2>1, <1>1, <1>4, <1>6, <1>7, <1>9, PutEInv
<1>10. ASSUME NEW id \in {latest, selected}, id # None,
              cur' = [cur EXCEPT ![Child] = id], UNCHANGED <<ids, buffer>>
       PROVE  EInv'
  <2>1. id \in IDs /\ Found(id)
    BY <1>2, <1>4, <1>10
  <2>2. /\ cur' \in [Scopes -> IDs \cup {None}] /\ cur'[Child] = id
        /\ \A s \in Scopes \ {Child} : cur'[s] = cur[s]
    BY <2>1, <1>1, <1>10 DEF TypeOK
  <2> QED
    BY <2>1, <2>2, <1>1, <1>6, <1>7, <1>10, MoveEInv DEF Found
<1> QED
  BY <1>8, <1>9, <1>10

\* A super-step is committed under the checkpoint of the run: the first one of a
\* scope under a stored one.
LEMMA CommitEInv == ASSUME EInv, ChildCommit \/ RootCommit PROVE EInv'
<1>1. /\ TypeOK /\ Root \in Scopes /\ Child \in Scopes /\ Root # Child /\ None \in IDs \cup {None}
      /\ phase = "running" /\ phase' = "running"
  BY ExitAssumption DEF EInv, Scopes, ChildCommit, RootCommit
<1>2. \A s \in Scopes : /\ cur[s] \in IDs \cup {None}
                        /\ s \notin DOMAIN baseParent => cur[s] \in DOMAIN base \cup {None}
  BY <1>1 DEF EInv, RunFound, ScopesOrdered, TypeOK
<1>3. CASE ChildCommit
  BY <1>1, <1>2, <1>3, PutEInv DEF ChildCommit
<1>4. CASE RootCommit
  BY <1>1, <1>2, <1>4, PutEInv DEF RootCommit
<1> QED
  BY <1>3, <1>4

\* A result is buffered for the checkpoint of a run (PutWrites).
LEMMA RecordEInv == ASSUME EInv, NEW s \in Scopes, RecordResult(s) PROVE EInv'
<1> USE DEF EInv, RecordResult
<1>1. Plain("result") \in Write
  BY DEF Plain, Write
<1>2. writes' \in [IDs -> SUBSET Write]
  BY <1>1, BufferedOK
<1>3. TypeOK'
  BY <1>2 DEF TypeOK
<1>4. ScopesOrdered' /\ IDsGrow' /\ OneScope' /\ RunFound' /\ ParentsStored'
  BY DEF ScopesOrdered, IDsGrow, OneScope, RunFound, ParentsStored
<1>5. FlushRest'
  BY DEF FlushRest
<1> QED
  BY <1>3, <1>4, <1>5

\* A run returns with the writes it has buffered, an interrupt among them or not.
LEMMA EndEInv == ASSUME EInv, ReturnFromRun \/ Interrupt \/ InterruptChild PROVE EInv'
<1>1. TypeOK /\ ScopesOrdered /\ Child \in Scopes
  BY DEF EInv, Scopes
<1>2. Plain("interrupt") \in Write /\ Control(LatestSeen(Child)) \in Write
  BY <1>1, SeenFound DEF Plain, Control, Write
<1>3. CASE ReturnFromRun
  <2>1. writes \in [IDs -> SUBSET Write] /\ writes' = writes
    BY <1>1, <1>3 DEF TypeOK, ReturnFromRun, buffer
  <2> QED
    BY <2>1, <1>3, ReturnEInv DEF ReturnFromRun, buffer
<1>4. CASE Interrupt
  <2>1. writes' \in [IDs -> SUBSET Write]
    BY <1>1, <1>2, <1>4, BufferedOK DEF Interrupt
  <2>2. PICK ws \in [IDs -> SUBSET Write] : ws = writes'
    BY <2>1
  <2>3. writes' = ws /\ boundaries' = FlushOrder(ws)
    BY <2>2, <1>4 DEF Interrupt
  <2> QED
    BY <2>3, <1>4, ReturnEInv DEF Interrupt
<1>5. CASE InterruptChild
  <2>1. Buffered(cur[Child], Plain("interrupt")) \in [IDs -> SUBSET Write]
    BY <1>1, <1>2, BufferedOK
  <2>2. writes' \in [IDs -> SUBSET Write]
    BY <2>1, <1>2, <1>5 DEF InterruptChild
  <2>3. PICK ws \in [IDs -> SUBSET Write] : ws = writes'
    BY <2>2
  <2>4. writes' = ws /\ boundaries' = FlushOrder(ws)
    BY <2>3, <1>5 DEF InterruptChild
  <2> QED
    BY <2>4, <1>5, ReturnEInv DEF InterruptChild
<1> QED
  BY <1>3, <1>4, <1>5

\* What the head of the boundaries is.
LEMMA HeadBoundary ==
    ASSUME EInv, phase = "flushing", boundaries # <<>>
    PROVE  /\ Len(boundaries) \in Nat \ {0} /\ DOMAIN boundaries = 1 .. Len(boundaries)
           /\ Head(boundaries) = boundaries[1]
           /\ \E s \in DOMAIN baseParent : Head(boundaries) = BoundaryOf(s, writes)
           /\ Tail(boundaries) \in Seq([id: IDs, parent: IDs \cup {None}, writes: SUBSET Write])
           /\ Len(Tail(boundaries)) = Len(boundaries) - 1
           /\ \A i \in DOMAIN Tail(boundaries) :
                i + 1 \in DOMAIN boundaries /\ Tail(boundaries)[i] = boundaries[i + 1]
           /\ \A i \in DOMAIN boundaries :
                i = 1 \/ (i - 1 \in DOMAIN Tail(boundaries) /\ Tail(boundaries)[i - 1] = boundaries[i])
<1>1. boundaries \in Seq([id: IDs, parent: IDs \cup {None}, writes: SUBSET Write])
  BY DEF EInv, FlushRest
<1>2. /\ Len(boundaries) \in Nat \ {0} /\ DOMAIN boundaries = 1 .. Len(boundaries)
      /\ Head(boundaries) = boundaries[1]
      /\ Tail(boundaries) \in Seq([id: IDs, parent: IDs \cup {None}, writes: SUBSET Write])
      /\ Len(Tail(boundaries)) = Len(boundaries) - 1
      /\ DOMAIN Tail(boundaries) = 1 .. Len(boundaries) - 1
      /\ \A i \in 1 .. Len(boundaries) - 1 : Tail(boundaries)[i] = boundaries[i + 1]
  BY <1>1
<1>3. \E s \in DOMAIN baseParent : boundaries[1] = BoundaryOf(s, writes)
  BY <1>2 DEF EInv, FlushRest
<1> QED
  BY <1>2, <1>3

\* A flush goes on to the next boundary when it has published the head's scope.
LEMMA FlushGoesOn ==
    ASSUME EInv, phase = "flushing", boundaries # <<>>,
           NEW s \in DOMAIN baseParent, Head(boundaries) = BoundaryOf(s, writes),
           phase' = phase, UNCHANGED buffer,
           boundaries' = boundaries \/ (boundaries' = Tail(boundaries) /\ Published(s)'),
           \A x \in DOMAIN baseParent : Published(x) => Published(x)'
    PROVE  FlushRest' /\ Len(boundaries') <= Cardinality(Scopes)
<1> USE DEF buffer
<1>1. \A x \in DOMAIN baseParent : BoundaryOf(x, writes)' = BoundaryOf(x, writes)
  BY DEF BoundaryOf
<1>2. CASE boundaries' = boundaries
  <2>1. FlushRest'
    BY <1>1, <1>2 DEF EInv, FlushRest
  <2> QED
    BY <2>1, <1>2 DEF EInv, TypeOK
<1>3. CASE boundaries' = Tail(boundaries) /\ Published(s)'
  <2>h. /\ Len(boundaries) \in Nat \ {0} /\ DOMAIN boundaries = 1 .. Len(boundaries)
        /\ Head(boundaries) = boundaries[1]
        /\ boundaries' \in Seq([id: IDs, parent: IDs \cup {None}, writes: SUBSET Write])
        /\ Len(boundaries') = Len(boundaries) - 1
        /\ \A i \in DOMAIN boundaries' :
             i + 1 \in DOMAIN boundaries /\ boundaries'[i] = boundaries[i + 1]
        /\ \A i \in DOMAIN boundaries :
             i = 1 \/ (i - 1 \in DOMAIN boundaries' /\ boundaries'[i - 1] = boundaries[i])
    BY <1>3, HeadBoundary
  <2>1. \A i \in DOMAIN boundaries' : \E x \in DOMAIN baseParent' :
          boundaries'[i] = BoundaryOf(x, writes)'
    BY <2>h, <1>1 DEF EInv, FlushRest
  <2>2. \A x \in DOMAIN baseParent' :
          Published(x)' \/ \E i \in DOMAIN boundaries' : boundaries'[i] = BoundaryOf(x, writes)'
    <3> SUFFICES ASSUME NEW x \in DOMAIN baseParent
                 PROVE  Published(x)' \/ \E i \in DOMAIN boundaries' :
                            boundaries'[i] = BoundaryOf(x, writes)'
      OBVIOUS
    <3>1. CASE Published(x)
      BY <3>1
    <3>2. CASE ~Published(x)
      <4>1. PICK i \in DOMAIN boundaries : boundaries[i] = BoundaryOf(x, writes)
        BY <3>2 DEF EInv, FlushRest
      <4>2. CASE i = 1
        <5>1. latestID[x] = latestID[s]
          BY <4>1, <4>2, <2>h DEF BoundaryOf
        <5>2. x \in Scopes /\ s \in Scopes
          BY ScopesOnly DEF EInv
        <5>3. x = s
          BY <5>1, <5>2 DEF EInv, ScopesOrdered
        <5> QED
          BY <5>3, <1>3
      <4>3. CASE i # 1
        BY <4>1, <4>3, <2>h, <1>1
      <4> QED
        BY <4>2, <4>3
    <3> QED
      BY <3>1, <3>2
  <2>3. Len(boundaries') <= Cardinality(Scopes)
    BY <2>h, ScopesCount DEF EInv, TypeOK
  <2> QED
    BY <2>1, <2>2, <2>3, <2>h DEF FlushRest
<1> QED
  BY <1>2, <1>3

\* A boundary's checkpoint is published under the parent of its scope, and is the
\* latest of its namespace (Flush, Put).
LEMMA FlushPutEInv == ASSUME EInv, FlushPut PROVE EInv'
<1>1. PICK s \in DOMAIN baseParent : Head(boundaries) = BoundaryOf(s, writes)
  BY HeadBoundary DEF FlushPut
<1>0. PICK k : k = latestID[s]
  OBVIOUS
<1>2. /\ s \in Scopes /\ k \in IDs /\ k \in DOMAIN drafts /\ drafts[k].scope = s
      /\ drafts[k] \in Stored /\ k <= ids
  BY <1>0, ScopesOnly DEF EInv, ScopesOrdered, TypeOK, IDsGrow
<1>3. /\ Head(boundaries).id = k /\ Head(boundaries).parent = baseParent[s]
      /\ Head(boundaries).writes = writes[k]
  BY <1>0, <1>1 DEF BoundaryOf
<1> DEFINE r == [drafts[k] EXCEPT !.parent = baseParent[s]]
<1>4. /\ k \notin DOMAIN base /\ baseParent[s] \in DOMAIN base \cup {None}
      /\ base' = [id \in DOMAIN base \cup {k} |-> IF id = k THEN r ELSE base[id]]
      /\ boundaries' = IF writes[k] = {} THEN Tail(boundaries) ELSE boundaries
  BY <1>3 DEF FlushPut
<1>5. /\ phase = "flushing" /\ boundaries # <<>> /\ phase' = phase
      /\ UNCHANGED <<baseWrites, ids, buffer, cur, runs>>
  BY DEF FlushPut
<1>6. r \in Stored /\ r.scope = s /\ r.parent = baseParent[s]
  <2>1. baseParent[s] \in IDs \cup {None}
    BY DEF EInv, TypeOK
  <2> QED
    BY <2>1, <1>2 DEF Stored
<1>7. /\ DOMAIN base' = DOMAIN base \cup {k} /\ base'[k] = r
      /\ \A id \in DOMAIN base : base'[id] = base[id]
      /\ base' \in [DOMAIN base' -> Stored] /\ DOMAIN base' \subseteq IDs
  <2> HIDE DEF r
  <2>1. /\ DOMAIN base' = DOMAIN base \cup {k} /\ base'[k] = r
        /\ \A id \in DOMAIN base : base'[id] = base[id]
    BY <1>4
  <2>2. \A id \in DOMAIN base' : base'[id] \in Stored
    BY <2>1, <1>6 DEF EInv, TypeOK
  <2> QED
    BY <2>1, <2>2, <1>2, <1>4 DEF EInv, TypeOK
<1> HIDE DEF r
<1>8. FlushRest' /\ Len(boundaries') <= Cardinality(Scopes)
  <2>1. \A x \in DOMAIN baseParent : Published(x) => Published(x)'
    BY <1>5, <1>7 DEF Published, buffer
  <2>2. writes[k] = {} => Published(s)'
    BY <1>0, <1>5, <1>6, <1>7 DEF Published, buffer
  <2> QED
    BY <2>1, <2>2, <1>1, <1>4, <1>5, FlushGoesOn
<1>9. TypeOK'
  BY <1>5, <1>7, <1>8 DEF EInv, TypeOK, buffer
<1>10. ScopesOrdered' /\ RunFound'
  BY <1>5 DEF EInv, ScopesOrdered, RunFound, buffer
<1>11. IDsGrow'
  <2>1. \A id \in DOMAIN base' \cup DOMAIN drafts' : id <= ids'
    BY <1>2, <1>5, <1>7 DEF EInv, IDsGrow, buffer
  <2>2. \A id \in DOMAIN base', x \in DOMAIN baseParent' : base'[id].scope = x => id <= latestID'[x]
    BY <1>0, <1>2, <1>5, <1>6, <1>7 DEF EInv, IDsGrow, buffer, IDs
  <2> QED
    BY <2>1, <2>2 DEF IDsGrow
<1>s. OneScope'
  BY <1>2, <1>5, <1>6, <1>7 DEF EInv, OneScope, buffer
<1>12. ParentsStored'
  BY <1>4, <1>5, <1>6, <1>7 DEF EInv, ParentsStored, buffer
<1> QED
  BY <1>8, <1>9, <1>10, <1>11, <1>s, <1>12 DEF EInv

\* The writes of a boundary follow its checkpoint (Flush, PutWrites).
LEMMA FlushWritesEInv == ASSUME EInv, FlushWrites PROVE EInv'
<1>1. PICK s \in DOMAIN baseParent : Head(boundaries) = BoundaryOf(s, writes)
  BY HeadBoundary DEF FlushWrites
<1>0. PICK k : k = latestID[s]
  OBVIOUS
<1>2. /\ s \in Scopes /\ k \in IDs /\ k \in DOMAIN drafts /\ drafts[k].scope = s
  BY <1>0, ScopesOnly DEF EInv, ScopesOrdered, TypeOK
<1>3. Head(boundaries).id = k /\ Head(boundaries).writes = writes[k]
  BY <1>0, <1>1 DEF BoundaryOf
<1>4. /\ k \in DOMAIN base /\ baseWrites' = [baseWrites EXCEPT ![k] = @ \cup writes[k]]
      /\ boundaries' = Tail(boundaries)
  BY <1>3 DEF FlushWrites
<1>5. /\ phase = "flushing" /\ boundaries # <<>> /\ phase' = phase
      /\ UNCHANGED <<base, ids, buffer, cur, runs>>
  BY DEF FlushWrites
<1>6. /\ baseWrites' \in [IDs -> SUBSET Write] /\ writes[k] \subseteq baseWrites'[k]
      /\ \A id \in IDs : baseWrites[id] \subseteq baseWrites'[id]
  BY <1>2, <1>4 DEF EInv, TypeOK
<1>7. base[k].scope = s
  BY <1>2, <1>4 DEF EInv, OneScope
<1>8. FlushRest' /\ Len(boundaries') <= Cardinality(Scopes)
  <2>1. \A x \in DOMAIN baseParent : Published(x) => Published(x)'
    <3>1. \A x \in DOMAIN baseParent : latestID[x] \in IDs
      BY ScopesOnly DEF EInv, ScopesOrdered, TypeOK
    <3> QED
      BY <3>1, <1>5, <1>6 DEF Published, buffer
  <2>2. Published(s)'
    BY <1>0, <1>4, <1>5, <1>6, <1>7 DEF Published, buffer
  <2> QED
    BY <2>1, <2>2, <1>1, <1>4, <1>5, FlushGoesOn
<1>9. TypeOK'
  BY <1>5, <1>6, <1>8 DEF EInv, TypeOK, buffer
<1>10. ScopesOrdered' /\ RunFound' /\ IDsGrow' /\ OneScope' /\ ParentsStored'
  BY <1>5 DEF EInv, ScopesOrdered, RunFound, IDsGrow, OneScope, ParentsStored, buffer
<1> QED
  BY <1>8, <1>9, <1>10 DEF EInv

\* A flush ends with every scope published, or fails (Flush).
LEMMA FlushEndEInv == ASSUME EInv, FlushDone \/ Fail PROVE EInv'
<1>1. /\ UNCHANGED <<base, baseWrites, ids, buffer, cur, boundaries, runs>>
      /\ phase' \in {"flushed", "failed"}
      /\ phase' = "flushed" => phase = "flushing" /\ boundaries = <<>>
  BY DEF FlushDone, Fail
<1>2. TypeOK'
  BY <1>1 DEF EInv, TypeOK, buffer
<1>3. ScopesOrdered' /\ RunFound' /\ IDsGrow' /\ OneScope' /\ ParentsStored'
  BY <1>1 DEF EInv, ScopesOrdered, RunFound, IDsGrow, OneScope, ParentsStored, buffer
<1>4. FlushRest'
  <2>1. \A x \in DOMAIN baseParent : /\ BoundaryOf(x, writes)' = BoundaryOf(x, writes)
                                     /\ Published(x) => Published(x)'
    BY <1>1 DEF BoundaryOf, Published, buffer
  <2> QED
    BY <2>1, <1>1 DEF EInv, FlushRest, buffer
<1> QED
  BY <1>2, <1>3, <1>4 DEF EInv

\* Every step keeps the invariant.
LEMMA NextEInv == ASSUME EInv, [Next]_vars PROVE EInv'
<1>1. CASE NewSaver
  BY <1>1, NewSaverEInv
<1>2. CASE StartWithInput \/ InvokeAtLatest
  BY <1>2, StartEInv
<1>3. CASE Resume
  BY <1>3, ResumeEInv
<1>4. CASE ChildStart
  BY <1>4, ChildStartEInv
<1>5. CASE ChildCommit \/ RootCommit
  BY <1>5, CommitEInv
<1>6. ASSUME NEW s \in Scopes, RecordResult(s) PROVE EInv'
  BY <1>6, RecordEInv
<1>7. CASE ReturnFromRun \/ Interrupt \/ InterruptChild
  BY <1>7, EndEInv
<1>8. CASE FlushPut
  BY <1>8, FlushPutEInv
<1>9. CASE FlushWrites
  BY <1>9, FlushWritesEInv
<1>10. CASE FlushDone \/ Fail
  BY <1>10, FlushEndEInv
<1>11. CASE UNCHANGED vars
  <2>1. UNCHANGED <<base, baseWrites, ids, buffer, phase, cur, boundaries, runs>>
    BY <1>11 DEF vars
  <2>2. TypeOK'
    BY <2>1 DEF EInv, TypeOK, buffer
  <2>3. ScopesOrdered' /\ RunFound' /\ IDsGrow' /\ OneScope' /\ ParentsStored'
    BY <2>1 DEF EInv, ScopesOrdered, RunFound, IDsGrow, OneScope, ParentsStored, buffer
  <2>4. FlushRest'
    BY <2>1 DEF EInv, FlushRest, BoundaryOf, Published, buffer
  <2> QED
    BY <2>2, <2>3, <2>4 DEF EInv
<1> QED
  BY <1>1, <1>2, <1>3, <1>4, <1>5, <1>6, <1>7, <1>8, <1>9, <1>10, <1>11 DEF Next

\* The invariant says that a flush is sound.
LEMMA EInvSound == ASSUME EInv PROVE FlushSound
<1>1. BoundaryPublished
  <2> SUFFICES ASSUME phase = "flushed", NEW s \in ToSet(scopeOrder)
               PROVE  /\ latestID[s] = Latest(s)
                      /\ writes[latestID[s]] \subseteq baseWrites[latestID[s]]
    BY DEF BoundaryPublished
  <2>1. s \in DOMAIN baseParent /\ s \in Scopes
    BY ScopesOnly DEF EInv, TypeOK
  <2>2. Published(s)
    BY <2>1 DEF EInv, FlushRest
  <2>3. Latest(s) = latestID[s]
    BY <2>1, <2>2, LatestIs DEF EInv, IDsGrow, Published
  <2> QED
    BY <2>2, <2>3 DEF Published
<1>2. FlushFindsParents
  <2>1. ASSUME NEW i \in DOMAIN boundaries PROVE boundaries[i].parent \in DOMAIN base \cup {None}
    <3>1. PICK s \in DOMAIN baseParent : boundaries[i] = BoundaryOf(s, writes)
      BY DEF EInv, FlushRest
    <3> QED
      BY <3>1 DEF EInv, ParentsStored, BoundaryOf
  <2> QED
    BY <2>1 DEF EInv, ParentsStored, FlushFindsParents
<1> QED
  BY <1>1, <1>2 DEF EInv, FlushSound

\* Whatever an earlier flush published before it failed, a flush without error
\* leaves the base saver's latest checkpoint of every namespace of the run at the
\* run's own, with its writes, and no flush or reader misses a parent: for any number
\* of checkpoints and runs (exitBufferSaver.Put, Flush).
THEOREM FlushIsSound == Spec => []FlushSound
<1>1. Init => EInv
  BY InitEInv
<1>2. EInv /\ [Next]_vars => EInv'
  BY NextEInv
<1>3. EInv => FlushSound
  BY EInvSound
<1> QED
  BY <1>1, <1>2, <1>3, PTL DEF Spec

-----------------------------------------------------------------------------
(***************************************************************************)
(* Stores: batches and sweeps of concurrent clients.                       *)
(***************************************************************************)
Item == [val : STRING \cup {"none"}, created : Nat, exp : Nat, ttl : Nat]
PutOp == [key : StoreKeys, val : STRING, ttl : Nat, set : BOOLEAN]
Snapshots == [StoreKeys -> Item]

ClientStates ==
    [at : {"idle", "began", "watching"}, batch : StoreBatches \cup {NoBatch},
     snap : Snapshots \cup {<<>>},
     seen : Nat, dirty : BOOLEAN, attempt : Nat]

StoreTypeOK ==
    /\ storeKind \in StoreKinds /\ storeTime \in Nat /\ issuedBatches \in Nat
    /\ items \in Snapshots
    /\ client \in [StoreClients -> ClientStates]
    /\ sweeper \in [at : {"idle", "watching"}, keys : SUBSET StoreKeys, dirty : BOOLEAN, attempt : Nat]
    /\ DOMAIN readings = StoreClients

\* A client that has begun holds a batch and a snapshot; while Redis has not noticed a
\* change, the snapshot is the store.
SnapshotsCurrent ==
    \A c \in StoreClients :
      /\ client[c].at # "idle" => client[c].batch \in StoreBatches /\ client[c].snap \in Snapshots
      /\ client[c].at = "began" => storeKind = "postgres"
      /\ client[c].at = "watching" => storeKind = "redis" /\ (client[c].dirty \/ client[c].snap = items)

\* While Redis has not noticed a change, what the sweep is about to remove has expired.
SweepCurrent ==
    sweeper.at = "watching" =>
      /\ storeKind = "redis"
      /\ sweeper.dirty \/ \A k \in sweeper.keys : Exists(items[k]) /\ ItemExpired(items[k], storeTime)

StoreInv == StoreTypeOK /\ SnapshotsCurrent /\ SweepCurrent

-----------------------------------------------------------------------------
\* A batch is gets and puts.
LEMMA BatchTyped ==
    ASSUME NEW b \in StoreBatches
    PROVE  /\ b.puts \in Seq(PutOp)
           /\ \A g \in b.gets : g.key \in StoreKeys
BY StoreAssumption DEF PutOp

\* A put with the default time to live is a put.
LEMMA DefaultsTyped ==
    ASSUME NEW p \in PutOp PROVE WithDefaults(p) \in PutOp
BY StoreAssumption DEF PutOp, WithDefaults

\* The put that counts is one of the batch's own, with the manager's default.
LEMMA LastPutTyped ==
    ASSUME NEW b \in StoreBatches, NEW k, LastPut(b, k) # <<>>
    PROVE  LastPut(b, k)[1] \in PutOp
<1> DEFINE ps == {i \in DOMAIN b.puts : b.puts[i].key = k}
<1>1. b.puts \in Seq(PutOp)
  BY BatchTyped
<1>2. Len(b.puts) \in Nat /\ DOMAIN b.puts = 1 .. Len(b.puts)
  BY <1>1
<1>3. ps # {} /\ LastPut(b, k) = <<WithDefaults(b.puts[Max(ps)])>>
  BY DEF LastPut
<1>4. ps \subseteq 0 .. Len(b.puts)
  BY <1>2
<1>5. Max(ps) \in ps
  BY <1>2, <1>3, <1>4, MaxMember
<1>6. Max(ps) \in 1 .. Len(b.puts)
  BY <1>2, <1>5
<1> HIDE DEF ps
<1>7. b.puts[Max(ps)] \in PutOp
  BY <1>1, <1>6
<1> QED BY <1>3, <1>7, DefaultsTyped

\* An absent item, as an item.
LEMMA NoItemTyped == NoItem \in Item
BY DEF NoItem, Item

\* What a read finds: the item, or nothing when it has expired.
LEMMA VisibleTyped ==
    ASSUME NEW x \in Item, NEW t PROVE Visible(x, t) \in Item
BY NoItemTyped DEF Visible

\* A refresh moves the expiry and keeps the value.
LEMMA RefreshedTyped ==
    ASSUME NEW x \in Item, NEW t \in Nat
    PROVE  Refreshed(x, t) \in Item /\ Refreshed(x, t).val = x.val
BY DEF Item, Refreshed

\* What a put stores.
LEMMA StoredTyped ==
    ASSUME NEW p \in PutOp, NEW x \in Item, NEW t \in Nat
    PROVE  StoredItem(p, x, t) \in Item
BY NoItemTyped DEF PutOp, Item, StoredItem

\* What a batch leaves.
LEMMA AfterTyped ==
    ASSUME NEW b \in StoreBatches, NEW snap \in Snapshots, NEW t, NEW later \in Nat, NEW k \in StoreKeys
    PROVE  ItemsAfter(b, snap, t, later)[k] \in Item
<1> DEFINE shown == Visible(snap[k], t)
<1>1. shown \in Item
  BY VisibleTyped DEF Snapshots
<1>2. Refreshed(shown, later) \in Item
  BY <1>1, RefreshedTyped
<1>3. LastPut(b, k) # <<>> => StoredItem(LastPut(b, k)[1], shown, later) \in Item
  BY <1>1, LastPutTyped, StoredTyped
<1> QED BY <1>1, <1>2, <1>3 DEF ItemsAfter

-----------------------------------------------------------------------------
\* An empty store.
LEMMA StoreInitInv == StoreInit => StoreInv
<1> SUFFICES ASSUME StoreInit PROVE StoreInv
  OBVIOUS
<1> USE DEF StoreInit
<1>1. items \in Snapshots
  BY NoItemTyped DEF Snapshots
<1>2. \A c \in StoreClients : client[c] = IdleClient
  OBVIOUS
<1>3. StoreTypeOK
  BY <1>1 DEF StoreTypeOK, ClientStates, StoreKinds, IdleClient
<1>4. SnapshotsCurrent /\ SweepCurrent
  BY <1>2 DEF SnapshotsCurrent, SweepCurrent, IdleClient
<1> QED BY <1>3, <1>4 DEF StoreInv

\* A client that noticed a change, or did not, is a client.
LEMMA DirtyTyped == ASSUME NEW r \in ClientStates, NEW d \in BOOLEAN
                    PROVE  [r EXCEPT !.dirty = d] \in ClientStates
BY DEF ClientStates

\* Installing a batch keeps the invariant: who watches the store notices the change.
LEMMA InstallKeeps ==
    ASSUME StoreInv, NEW c \in StoreClients, NEW written, NEW after, NEW read,
           \A k \in StoreKeys : after[k] \in Item, Install(written, after, read, c),
           UNCHANGED <<storeKind, storeTime>>, issuedBatches' \in Nat
    PROVE  StoreInv'
<1> USE DEF StoreInv
<1>1. items' \in Snapshots
  BY DEF Install, Snapshots, StoreTypeOK
<1>2. /\ client' = [x \in StoreClients |->
                     IF x = c THEN IdleClient
                     ELSE [client[x] EXCEPT !.dirty = @ \/ (client[x].at # "idle" /\ items' # items)]]
      /\ sweeper' = [sweeper EXCEPT !.dirty = @ \/ (sweeper.at # "idle" /\ items' # items)]
      /\ readings' = [readings EXCEPT ![c] = read]
  BY DEF Install
<1>3. StoreTypeOK'
  <2>1. ASSUME NEW x \in StoreClients, NEW d \in BOOLEAN
        PROVE  [client[x] EXCEPT !.dirty = d] \in ClientStates
    BY DirtyTyped DEF StoreTypeOK
  <2>2. IdleClient \in ClientStates
    BY DEF IdleClient, ClientStates
  <2>3. client' \in [StoreClients -> ClientStates]
    BY <1>2, <2>1, <2>2
  <2>4. sweeper' \in [at : {"idle", "watching"}, keys : SUBSET StoreKeys, dirty : BOOLEAN, attempt : Nat]
    BY <1>2 DEF StoreTypeOK
  <2>5. DOMAIN readings' = StoreClients
    BY <1>2 DEF StoreTypeOK
  <2> QED
    BY <1>1, <2>3, <2>4, <2>5 DEF StoreTypeOK
<1>4. SnapshotsCurrent'
  <2> SUFFICES ASSUME NEW x \in StoreClients, x # c, client[x].at # "idle"
               PROVE  /\ client'[x].batch \in StoreBatches /\ client'[x].snap \in Snapshots
                      /\ client'[x].at = "began" => storeKind' = "postgres"
                      /\ client'[x].at = "watching" =>
                           storeKind' = "redis" /\ (client'[x].dirty \/ client'[x].snap = items')
    <3>1. client'[c].at = "idle"
      BY <1>2 DEF IdleClient
    <3>2. ASSUME NEW x \in StoreClients, x # c PROVE client'[x].at = client[x].at
      BY <1>2, <3>2, SMTT(30) DEF StoreTypeOK, ClientStates
    <3> QED BY <3>1, <3>2 DEF SnapshotsCurrent
  <2>1. /\ client'[x].at = client[x].at /\ client'[x].batch = client[x].batch
        /\ client'[x].snap = client[x].snap
        /\ client'[x].dirty = (client[x].dirty \/ items' # items)
    BY <1>2 DEF StoreTypeOK, ClientStates
  <2> QED BY <2>1 DEF SnapshotsCurrent
<1>5. SweepCurrent'
  <2>1. /\ sweeper'.at = sweeper.at /\ sweeper'.keys = sweeper.keys
        /\ sweeper'.dirty = (sweeper.dirty \/ (sweeper.at # "idle" /\ items' # items))
    BY <1>2 DEF StoreTypeOK, ClientStates
  <2> QED BY <2>1 DEF SweepCurrent
<1> QED BY <1>3, <1>4, <1>5

\* So does what a batch leaves of what it read.
LEMMA InstallBatchKeeps ==
    ASSUME StoreInv, NEW c \in StoreClients, NEW b \in StoreBatches, NEW snap \in Snapshots, NEW t,
           NEW later \in Nat, InstallBatch(b, snap, t, later, c),
           UNCHANGED <<storeKind, storeTime>>, issuedBatches' \in Nat
    PROVE  StoreInv'
<1>1. \A k \in StoreKeys : ItemsAfter(b, snap, t, later)[k] \in Item
  BY AfterTyped
<1> QED BY <1>1, InstallKeeps DEF InstallBatch

\* Removing keys keeps it too, for the clients; the sweep has ended or is not Redis'.
LEMMA RemoveKeeps ==
    ASSUME StoreInv, NEW ks, RemoveItems(ks), UNCHANGED <<storeKind, storeTime, issuedBatches,
                                                          readings>>,
           \/ sweeper' = sweeper /\ storeKind # "redis"
           \/ sweeper' = [at |-> "idle", keys |-> sweeper.keys, dirty |-> FALSE, attempt |-> 0]
    PROVE  StoreInv'
<1> USE DEF StoreInv
<1>1. items' \in Snapshots
  BY NoItemTyped DEF RemoveItems, Snapshots, StoreTypeOK
<1>2. client' = [x \in StoreClients |-> [client[x] EXCEPT !.dirty = @
        \/ (client[x].at # "idle" /\ ks # {})]]
  BY DEF RemoveItems
<1>3. StoreTypeOK'
  <2>1. ASSUME NEW x \in StoreClients, NEW d \in BOOLEAN
        PROVE  [client[x] EXCEPT !.dirty = d] \in ClientStates
    BY DirtyTyped DEF StoreTypeOK
  <2>2. client' \in [StoreClients -> ClientStates]
    BY <1>2, <2>1
  <2>3. sweeper' \in [at : {"idle", "watching"}, keys : SUBSET StoreKeys, dirty : BOOLEAN, attempt : Nat]
    <3>1. CASE sweeper' = sweeper
      BY <3>1 DEF StoreTypeOK
    <3>2. CASE sweeper' = [at |-> "idle", keys |-> sweeper.keys, dirty |-> FALSE, attempt |-> 0]
      BY <3>2 DEF StoreTypeOK
    <3> QED BY <3>1, <3>2
  <2> QED BY <1>1, <2>2, <2>3 DEF StoreTypeOK
<1>4. ks = {} => items' = items
  BY DEF RemoveItems, StoreTypeOK, Snapshots
<1>5. SnapshotsCurrent'
  <2> SUFFICES ASSUME NEW x \in StoreClients
               PROVE  /\ client'[x].at # "idle" => client'[x].batch \in StoreBatches
                           /\ client'[x].snap \in Snapshots
                      /\ client'[x].at = "began" => storeKind' = "postgres"
                      /\ client'[x].at = "watching" =>
                           storeKind' = "redis" /\ (client'[x].dirty \/ client'[x].snap = items')
    BY DEF SnapshotsCurrent
  <2>1. /\ client'[x].at = client[x].at /\ client'[x].batch = client[x].batch
        /\ client'[x].snap = client[x].snap
        /\ client'[x].dirty = (client[x].dirty \/ (client[x].at # "idle" /\ ks # {}))
    BY <1>2 DEF StoreTypeOK, ClientStates
  <2> QED BY <1>4, <2>1 DEF SnapshotsCurrent
<1>6. SweepCurrent'
  BY DEF SweepCurrent, StoreTypeOK
<1> QED BY <1>3, <1>5, <1>6

\* A batch under a mutex, in one transaction, begun, watched, executed or failed.
LEMMA BatchStep ==
    ASSUME StoreInv, NEW c \in StoreClients, NEW b \in StoreBatches,
           MemoryBatch(c, b) \/ SqliteBatch(c, b) \/ PostgresBegin(c, b) \/ RedisWatch(c, b)
    PROVE  StoreInv'
<1> USE DEF StoreInv
<1>0. items \in Snapshots /\ storeTime \in Nat /\ issuedBatches + 1 \in Nat
  BY DEF StoreTypeOK
<1>1. CASE MemoryBatch(c, b) \/ SqliteBatch(c, b)
  BY <1>0, <1>1, InstallBatchKeeps DEF MemoryBatch, SqliteBatch, IssueBatch
<1>2. CASE PostgresBegin(c, b) \/ RedisWatch(c, b)
  <2>1. /\ UNCHANGED <<storeKind, storeTime, items, sweeper, readings>>
        /\ issuedBatches' = issuedBatches + 1
        /\ \E w \in {"began", "watching"} :
             /\ w = "began" => storeKind = "postgres"
             /\ w = "watching" => storeKind = "redis"
             /\ client' = [client EXCEPT ![c] =
                            [IdleClient EXCEPT !.at = w, !.batch = b, !.snap = items,
                             !.seen = storeTime]]
    BY <1>2 DEF PostgresBegin, RedisWatch, IssueBatch
  <2>2. PICK w \in {"began", "watching"} :
             /\ w = "began" => storeKind = "postgres"
             /\ w = "watching" => storeKind = "redis"
             /\ client' = [client EXCEPT ![c] =
                            [IdleClient EXCEPT !.at = w, !.batch = b, !.snap = items,
                             !.seen = storeTime]]
    BY <2>1
  <2> DEFINE new == [IdleClient EXCEPT !.at = w, !.batch = b, !.snap = items, !.seen = storeTime]
  <2>3. new \in ClientStates /\ new.at = w /\ new.batch = b /\ new.snap = items
    BY <1>0 DEF IdleClient, ClientStates
  <2>4. client'[c] = new /\ \A x \in StoreClients : x # c => client'[x] = client[x]
    BY <2>2 DEF StoreTypeOK
  <2> HIDE DEF new
  <2>5. StoreTypeOK'
    BY <1>0, <2>1, <2>2, <2>3, <2>4 DEF StoreTypeOK, new
  <2>6. SnapshotsCurrent'
    BY <1>0, <2>1, <2>2, <2>3, <2>4 DEF SnapshotsCurrent
  <2>7. SweepCurrent'
    BY <2>1 DEF SweepCurrent
  <2> QED BY <2>5, <2>6, <2>7
<1> QED BY <1>1, <1>2

\* A client whose batch ends without effect leaves the store alone.
LEMMA GiveUpKeeps ==
    ASSUME StoreInv, NEW c \in StoreClients, client' = [client EXCEPT ![c] = IdleClient],
           UNCHANGED <<storeKind, storeTime, items, sweeper, readings, issuedBatches>>
    PROVE  StoreInv'
<1> USE DEF StoreInv
<1>1. IdleClient \in ClientStates /\ IdleClient.at = "idle"
  BY DEF IdleClient, ClientStates
<1>2. StoreTypeOK'
  BY <1>1 DEF StoreTypeOK
<1>3. client'[c] = IdleClient /\ \A x \in StoreClients : x # c => client'[x] = client[x]
  BY DEF StoreTypeOK
<1>4. SnapshotsCurrent'
  BY <1>1, <1>3 DEF SnapshotsCurrent
<1>5. SweepCurrent'
  BY DEF SweepCurrent
<1> QED BY <1>2, <1>4, <1>5

\* A transaction commits, an EXEC succeeds or fails, and a batch gives up.
LEMMA ClientStep ==
    ASSUME StoreInv, NEW c \in StoreClients,
           PostgresCommit(c) \/ RedisExec(c) \/ RedisRetry(c) \/ RedisGetRefresh(c) \/ FailBatch(c)
    PROVE  StoreInv'
<1> USE DEF StoreInv
<1>0. /\ items \in Snapshots /\ storeTime \in Nat /\ client[c].seen \in Nat /\ issuedBatches \in Nat
      /\ client[c].at # "idle" => client[c].batch \in StoreBatches /\ client[c].snap \in Snapshots
  BY DEF StoreTypeOK, ClientStates, SnapshotsCurrent
<1>1. CASE PostgresCommit(c)
  <2> DEFINE after == ItemsAfter(client[c].batch, items, storeTime, storeTime)
  <2>1. \A k \in StoreKeys : client[c].batch \in StoreBatches => after[k] \in Item
    BY <1>0, AfterTyped
  <2>2. client[c].batch \in StoreBatches
    BY <1>0, <1>1 DEF PostgresCommit
  <2> HIDE DEF after
  <2>3. CASE \E written, read : Install(written, after, read, c)
    BY <1>0, <1>1, <2>1, <2>2, <2>3, InstallKeeps DEF PostgresCommit
  <2>4. CASE client' = [client EXCEPT ![c] = IdleClient] /\ UNCHANGED <<items, sweeper, readings>>
    BY <1>1, <2>4, GiveUpKeeps DEF PostgresCommit
  <2> QED BY <1>1, <2>3, <2>4 DEF PostgresCommit, after
<1>2. CASE RedisExec(c)
  BY <1>0, <1>2, InstallBatchKeeps DEF RedisExec
<1>3. CASE RedisGetRefresh(c)
  BY <1>0, <1>3, InstallBatchKeeps DEF RedisGetRefresh
<1>4. CASE FailBatch(c)
  BY <1>4, GiveUpKeeps DEF FailBatch
<1>5. CASE RedisRetry(c)
  <2> DEFINE again == [client[c] EXCEPT !.attempt = @ + 1, !.snap = items, !.seen = storeTime,
          !.dirty = FALSE]
  <2>1. CASE client' = [client EXCEPT ![c] = IdleClient]
    BY <1>5, <2>1, GiveUpKeeps DEF RedisRetry
  <2>2. CASE client' = [client EXCEPT ![c] = again]
    <3>1. /\ again \in ClientStates /\ again.at = client[c].at /\ again.batch = client[c].batch
          /\ again.snap = items
      <4>1. client[c] \in ClientStates
        BY DEF StoreTypeOK
      <4>2. client[c].attempt + 1 \in Nat
        BY <4>1 DEF ClientStates
      <4> QED BY <1>0, <4>1, <4>2 DEF ClientStates
    <3>2. client'[c] = again /\ \A x \in StoreClients : x # c => client'[x] = client[x]
      BY <2>2 DEF StoreTypeOK
    <3>3. UNCHANGED <<storeKind, storeTime, items, sweeper, readings, issuedBatches>>
      BY <1>5 DEF RedisRetry
    <3>4. StoreTypeOK'
      BY <2>2, <3>1, <3>3 DEF StoreTypeOK
    <3> HIDE DEF again
    <3>5. SnapshotsCurrent'
      BY <1>0, <3>1, <3>2, <3>3 DEF SnapshotsCurrent
    <3>6. SweepCurrent'
      BY <3>3 DEF SweepCurrent
    <3> QED BY <3>4, <3>5, <3>6
  <2> QED BY <1>5, <2>1, <2>2 DEF RedisRetry
<1> QED BY <1>1, <1>2, <1>3, <1>4, <1>5

\* The sweep of expired items, in one statement or watched.
LEMMA SweepStep ==
    ASSUME StoreInv,
           \/ SqliteSweepExpiredItems \/ PostgresSweepExpiredItems
           \/ RedisSweepWatch \/ RedisSweepExpiredItems \/ RedisSweepRetry \/ RedisSweepFails
    PROVE  StoreInv'
<1> USE DEF StoreInv
<1>1. CASE SqliteSweepExpiredItems \/ PostgresSweepExpiredItems
  BY <1>1, RemoveKeeps DEF SqliteSweepExpiredItems, PostgresSweepExpiredItems
<1>2. CASE RedisSweepExpiredItems
  BY <1>2, RemoveKeeps DEF RedisSweepExpiredItems, SweepReturns
<1>3. CASE RedisSweepWatch \/ RedisSweepRetry \/ RedisSweepFails
  <2>1. UNCHANGED <<storeKind, storeTime, items, client, readings, issuedBatches>>
    BY <1>3 DEF RedisSweepWatch, RedisSweepRetry, RedisSweepFails
  <2>2. DueItems \in SUBSET StoreKeys
    BY DEF DueItems
  <2>3. \A k \in DueItems : Exists(items[k]) /\ ItemExpired(items[k], storeTime)
    BY DEF DueItems
  <2>4. storeKind = "redis"
    BY <1>3 DEF RedisSweepWatch, RedisSweepRetry, RedisSweepFails, SweepCurrent
  <2>5. \/ \E ks \in SUBSET StoreKeys :
                sweeper' = [at |-> "idle", keys |-> ks, dirty |-> FALSE, attempt |-> 0]
        \/ \E a \in Nat : sweeper' = [at |-> "watching", keys |-> DueItems, dirty |-> FALSE,
                                      attempt |-> a]
    <3> sweeper \in [at : {"idle", "watching"}, keys : SUBSET StoreKeys, dirty : BOOLEAN, attempt : Nat]
      BY DEF StoreTypeOK
    <3>1. CASE RedisSweepWatch
      BY <3>1 DEF RedisSweepWatch
    <3>2. CASE RedisSweepFails
      BY <3>2 DEF RedisSweepFails, SweepReturns
    <3>3. CASE RedisSweepRetry
      <4>1. sweeper.keys \in SUBSET StoreKeys /\ {} \in SUBSET StoreKeys /\ sweeper.attempt + 1 \in Nat
        OBVIOUS
      <4> QED BY <3>3, <4>1, Zenon DEF RedisSweepRetry, SweepReturns
    <3> QED BY <1>3, <3>1, <3>2, <3>3
  <2>6. StoreTypeOK'
    <3>1. sweeper' \in [at : {"idle", "watching"}, keys : SUBSET StoreKeys, dirty : BOOLEAN,
                        attempt : Nat]
      <4>1. \A ks \in SUBSET StoreKeys, a \in Nat :
              [at |-> "watching", keys |-> ks, dirty |-> FALSE, attempt |-> a]
                \in [at : {"idle", "watching"}, keys : SUBSET StoreKeys, dirty : BOOLEAN, attempt : Nat]
        OBVIOUS
      <4>2. \A ks \in SUBSET StoreKeys : [at |-> "idle", keys |-> ks, dirty |-> FALSE, attempt |-> 0]
                \in [at : {"idle", "watching"}, keys : SUBSET StoreKeys, dirty : BOOLEAN, attempt : Nat]
        OBVIOUS
      <4> QED BY <2>2, <2>5, <4>1, <4>2
    <3> QED BY <2>1, <3>1 DEF StoreTypeOK
  <2>7. SnapshotsCurrent'
    BY <2>1 DEF SnapshotsCurrent
  <2>8. SweepCurrent'
    BY <2>1, <2>3, <2>4, <2>5 DEF SweepCurrent
  <2> QED BY <2>6, <2>7, <2>8
<1> QED BY <1>1, <1>2, <1>3

\* Time passes: what has expired stays expired.
LEMMA StoreTickStep == ASSUME StoreInv, StoreTick PROVE StoreInv'
<1> USE DEF StoreInv, StoreTick
<1>1. StoreTypeOK'
  BY DEF StoreTypeOK
<1>2. SnapshotsCurrent'
  BY DEF SnapshotsCurrent
<1>3. \A k \in StoreKeys : ItemExpired(items[k], storeTime) => ItemExpired(items[k], storeTime + 1)
  BY DEF ItemExpired, StoreTypeOK, Snapshots, Item
<1>4. SweepCurrent'
  BY <1>3 DEF SweepCurrent, StoreTypeOK
<1> QED BY <1>1, <1>2, <1>4

\* Every step of the stores keeps the invariant.
LEMMA StoreNextKeeps == StoreInv /\ [StoreNext]_storeVars => StoreInv'
<1> SUFFICES ASSUME StoreInv, [StoreNext]_storeVars PROVE StoreInv'
  OBVIOUS
<1>1. CASE UNCHANGED storeVars
  BY <1>1 DEF StoreInv, StoreTypeOK, SnapshotsCurrent, SweepCurrent, storeVars
<1>2. CASE StoreNext
  BY <1>2, BatchStep, ClientStep, SweepStep, StoreTickStep DEF StoreNext
<1> QED BY <1>1, <1>2

-----------------------------------------------------------------------------
\* A client's batch, of which it read snap, writes these keys over the store as it is.
WritesOver(c, snap, t, later, written, after) ==
    /\ client[c].batch \in StoreBatches /\ written \in SUBSET StoreKeys
    /\ Install(written, after, ReadBy(client[c].batch, snap, t), c)
    /\ storeKind = "redis" => t = client[c].seen
    /\ \A k \in written :
         /\ after[k] = ItemsAfter(client[c].batch, items, t, later)[k]
         /\ LastPut(client[c].batch, k) # <<>> => ~DeletesNothing(c, k)
         /\ LastPut(client[c].batch, k) = <<>> => Visible(items[k], t).ttl > 0
    /\ \A k \in StoreKeys : LastPut(client[c].batch, k) # <<>> => k \in written \/ DeletesNothing(c, k)
    /\ storeKind = "redis" /\ (\E k \in StoreKeys : LastPut(client[c].batch, k) # <<>>) => snap = items

\* What such a batch leaves.
LEMMA InstallEffect ==
    ASSUME StoreInv, NEW c \in StoreClients, NEW snap, NEW t, NEW later \in Nat, NEW written, NEW after,
           WritesOver(c, snap, t, later, written, after)
    PROVE  TakesEffectAtOnce(c)
<1> DEFINE b == client[c].batch
<1>1. /\ items' = [k \in StoreKeys |-> IF k \in written THEN after[k] ELSE items[k]]
      /\ readings'[c] = ReadBy(b, snap, t)
  BY DEF Install, StoreInv, StoreTypeOK, WritesOver
<1> HIDE DEF b
<1>2. ASSUME storeKind = "redis", \E k \in StoreKeys : LastPut(b, k) # <<>>, NEW g \in b.gets
      PROVE  readings'[c][g.key] = Visible(items[g.key], client[c].seen).val
  <2>1. g.key \in StoreKeys
    BY BatchTyped DEF b, WritesOver
  <2> QED BY <1>1, <1>2, <2>1 DEF ReadBy, b, WritesOver
<1>3. ASSUME NEW k \in StoreKeys, LastPut(b, k) # <<>>, ~DeletesNothing(c, k)
      PROVE  LET p == LastPut(b, k) IN
             /\ items'[k].val = IF p[1].val = "delete" THEN "none" ELSE p[1].val
             /\ Exists(items[k]) /\ Exists(items'[k]) /\ ~ItemExpired(items[k], client[c].seen)
                  => items'[k].created = items[k].created
  <2>1. k \in written
    BY <1>3 DEF b, WritesOver
  <2>2. items'[k] = ItemsAfter(b, items, t, later)[k]
    BY <1>1, <2>1 DEF b, WritesOver
  <2>3. items'[k] = StoredItem(LastPut(b, k)[1], Visible(items[k], t), later)
    BY <1>3, <2>2 DEF ItemsAfter
  <2>4. items'[k].val = IF LastPut(b, k)[1].val = "delete" THEN "none" ELSE LastPut(b, k)[1].val
    BY <2>3 DEF StoredItem, NoItem
  <2>5. ASSUME Exists(items[k]), Exists(items'[k]), ~ItemExpired(items[k], client[c].seen)
        PROVE  items'[k].created = items[k].created
    <3>1. Visible(items[k], t) = items[k]
      BY <2>5 DEF Visible, WritesOver
    <3>2. LastPut(b, k)[1].val # "delete"
      BY <2>3, <2>5 DEF StoredItem, Exists
    <3> QED BY <2>3, <2>5, <3>1, <3>2 DEF StoredItem
  <2> QED BY <2>4, <2>5
<1>4. ASSUME NEW k \in StoreKeys, LastPut(b, k) = <<>> \/ DeletesNothing(c, k)
      PROVE  items'[k].val = items[k].val
  <2>1. CASE k \notin written
    BY <1>1, <2>1
  <2>2. CASE k \in written
    <3>1. items[k] \in Item
      BY DEF StoreInv, StoreTypeOK, Snapshots
    <3>2. LastPut(b, k) = <<>> /\ Visible(items[k], t).ttl > 0
      BY <1>4, <2>2 DEF b, WritesOver
    <3>3. Visible(items[k], t) = items[k]
      BY <3>2 DEF Visible, NoItem
    <3>5. items'[k] = ItemsAfter(b, items, t, later)[k]
      BY <1>1, <2>2 DEF b, WritesOver
    <3>4. items'[k] \in {items[k], Refreshed(items[k], later)}
      BY <3>2, <3>3, <3>5 DEF ItemsAfter
    <3> QED BY <3>1, <3>4, RefreshedTyped
  <2> QED BY <2>1, <2>2
<1> QED BY <1>2, <1>3, <1>4 DEF TakesEffectAtOnce, b

\* When a client's batch takes effect, it does so at once.
LEMMA EffectStep ==
    ASSUME StoreInv, StoreNext, NEW c \in StoreClients, BatchApplied(c)
    PROVE  TakesEffectAtOnce(c)
<1>0. /\ client[c].at # "idle" /\ client'[c].at = "idle"
      /\ (items' # items \/ readings'[c] # readings[c])
      /\ client[c].batch \in StoreBatches /\ client[c].snap \in Snapshots
      /\ client[c] \in ClientStates /\ storeTime \in Nat /\ client[c].seen \in Nat
  BY DEF BatchApplied, StoreInv, SnapshotsCurrent, StoreTypeOK, ClientStates
<1>1. PICK d \in StoreClients : PostgresCommit(d) \/ RedisExec(d) \/ RedisGetRefresh(d)
  <2>1. ASSUME NEW d \in StoreClients, NEW b \in StoreBatches,
               MemoryBatch(d, b) \/ SqliteBatch(d, b) \/ PostgresBegin(d, b) \/ RedisWatch(d, b)
        PROVE  FALSE
    <3>1. client[d].at = "idle" /\ d # c
      BY <1>0, <2>1 DEF MemoryBatch, SqliteBatch, PostgresBegin, RedisWatch, IssueBatch
    <3>2. client'[c].at = client[c].at
      BY <1>0, <2>1, <3>1
         DEF MemoryBatch, SqliteBatch, PostgresBegin, RedisWatch, InstallBatch, Install, ClientStates,
             StoreInv, StoreTypeOK
    <3> QED BY <1>0, <3>2
  <2>2. ASSUME NEW d \in StoreClients, RedisRetry(d) \/ FailBatch(d) PROVE FALSE
    BY <1>0, <2>2 DEF RedisRetry, FailBatch
  <2>3. ASSUME SqliteSweepExpiredItems \/ PostgresSweepExpiredItems \/ RedisSweepExpiredItems PROVE FALSE
    BY <1>0, <2>3
       DEF SqliteSweepExpiredItems, PostgresSweepExpiredItems, RedisSweepExpiredItems, RemoveItems,
           ClientStates
  <2>4. ASSUME RedisSweepWatch \/ RedisSweepRetry \/ RedisSweepFails \/ StoreTick PROVE FALSE
    BY <1>0, <2>4 DEF RedisSweepWatch, RedisSweepRetry, RedisSweepFails, StoreTick
  <2> QED BY <2>1, <2>2, <2>3, <2>4 DEF StoreNext
<1>2. d = c
  <2>1. d # c => client'[c].at = client[c].at
    BY <1>0, <1>1 DEF PostgresCommit, RedisExec, RedisGetRefresh, InstallBatch, Install, ClientStates,
       StoreInv, StoreTypeOK
  <2> QED BY <1>0, <2>1
<1> DEFINE b == client[c].batch
           snap == client[c].snap
<1>3. CASE PostgresCommit(c)
  <2>1. storeKind = "postgres"
    BY <1>3 DEF PostgresCommit, StoreInv, SnapshotsCurrent
  <2> DEFINE written == PostgresWritten(b, snap, storeTime)
  <2>2. /\ Install(written, ItemsAfter(b, items, storeTime, storeTime), ReadBy(b, snap, storeTime), c)
        /\ \A k \in written : items[k] = snap[k] \/ PutsBack(b, snap, k)
    BY <1>0, <1>3 DEF PostgresCommit
  <2>3. \A k \in written :
           LastPut(b, k) # <<>> /\ LastPut(b, k)[1].val = "delete" => Exists(snap[k])
    BY DEF PostgresWritten
  <2>4. ASSUME NEW k \in written, LastPut(b, k) = <<>> PROVE Visible(items[k], storeTime).ttl > 0
    <3>1. items[k] = snap[k]
      BY <2>2, <2>4 DEF PutsBack
    <3>2. Visible(snap[k], storeTime).ttl > 0
      BY <2>4 DEF PostgresWritten, WrittenBy
    <3> QED BY <3>1, <3>2
  <2>5. written \in SUBSET StoreKeys
    BY DEF PostgresWritten, WrittenBy
  <2>6. \A k \in StoreKeys : LastPut(b, k) # <<>> => k \in written \/ DeletesNothing(c, k)
    BY <2>1 DEF PostgresWritten, WrittenBy, DeletesNothing
  <2>7. \A k \in written : LastPut(b, k) # <<>> => ~DeletesNothing(c, k)
    BY <2>3 DEF DeletesNothing
  <2> HIDE DEF written, b, snap
  <2>8. WritesOver(c, snap, storeTime, storeTime, written, ItemsAfter(b, items, storeTime, storeTime))
    BY <1>0, <2>1, <2>2, <2>4, <2>5, <2>6, <2>7 DEF b, WritesOver
  <2> QED BY <1>0, <2>8, InstallEffect
<1>4. CASE RedisExec(c) \/ RedisGetRefresh(c)
  <2>1. client[c].dirty \/ snap = items
    BY <1>4 DEF RedisExec, RedisGetRefresh, StoreInv, SnapshotsCurrent
  <2>2. WrittenBy(b, snap, client[c].seen) = {} \/ snap = items
    BY <1>4, <2>1 DEF RedisExec, RedisGetRefresh
  <2>3. (\E k \in StoreKeys : LastPut(b, k) # <<>>) => snap = items
    BY <2>2 DEF WrittenBy
  <2>4. PICK later \in Nat : InstallBatch(b, snap, client[c].seen, later, c)
    BY <1>0, <1>4 DEF RedisExec, RedisGetRefresh
  <2> HIDE DEF b, snap
  <2>5. storeKind = "redis" /\ \A k \in StoreKeys : ~DeletesNothing(c, k)
    BY <1>0, <1>4 DEF RedisExec, RedisGetRefresh, StoreInv, SnapshotsCurrent, DeletesNothing
  <2>6. PICK written, after : /\ written = WrittenBy(b, snap, client[c].seen)
                              /\ after = ItemsAfter(b, snap, client[c].seen, later)
    OBVIOUS
  <2>7. written \in SUBSET StoreKeys /\ \A k \in StoreKeys : LastPut(b, k) # <<>> => k \in written
    BY <2>6 DEF WrittenBy
  <2>8. Install(written, after, ReadBy(b, snap, client[c].seen), c)
    BY <2>4, <2>6 DEF InstallBatch
  <2>9. \A k \in written : /\ after[k] = ItemsAfter(b, items, client[c].seen, later)[k]
                           /\ LastPut(b, k) # <<>> => ~DeletesNothing(c, k)
                           /\ LastPut(b, k) = <<>> => Visible(items[k], client[c].seen).ttl > 0
    BY <2>2, <2>5, <2>6 DEF WrittenBy
  <2>10. WritesOver(c, snap, client[c].seen, later, written, after)
    BY <1>0, <2>3, <2>5, <2>7, <2>8, <2>9 DEF b, WritesOver
  <2> QED BY <1>0, <2>10, InstallEffect
<1> QED BY <1>1, <1>2, <1>3, <1>4

\* A live item disappears only by a batch: what a sweep removes has expired.
LEMMA LiveItemStep ==
    ASSUME StoreInv, StoreNext, NEW k \in StoreKeys
    PROVE  LiveItemKept(k)
<1> SUFFICES ASSUME Exists(items[k]), ~ItemExpired(items[k], storeTime), ~Exists(items'[k])
             PROVE  \/ issuedBatches' # issuedBatches
                    \/ \E c \in StoreClients : client[c].at # "idle" /\ client'[c].at = "idle"
  BY DEF LiveItemKept
<1>0. items' # items /\ issuedBatches \in Nat
  BY DEF StoreInv, StoreTypeOK
<1>1. ASSUME NEW c \in StoreClients, NEW b \in StoreBatches,
             MemoryBatch(c, b) \/ SqliteBatch(c, b) \/ PostgresBegin(c, b) \/ RedisWatch(c, b)
      PROVE  issuedBatches' # issuedBatches
  BY <1>0, <1>1 DEF MemoryBatch, SqliteBatch, PostgresBegin, RedisWatch, IssueBatch
<1>2. ASSUME NEW c \in StoreClients,
             PostgresCommit(c) \/ RedisExec(c) \/ RedisRetry(c) \/ RedisGetRefresh(c) \/ FailBatch(c)
      PROVE  client[c].at # "idle" /\ client'[c].at = "idle"
  <2>1. client[c].at # "idle"
    BY <1>2 DEF PostgresCommit, RedisExec, RedisRetry, RedisGetRefresh, FailBatch
  <2>2. client'[c] = IdleClient
    BY <1>0, <1>2
       DEF PostgresCommit, RedisExec, RedisRetry, RedisGetRefresh, FailBatch, InstallBatch, Install,
           StoreInv, StoreTypeOK
  <2> QED BY <2>1, <2>2 DEF IdleClient
<1>3. ASSUME SqliteSweepExpiredItems \/ PostgresSweepExpiredItems PROVE FALSE
  BY <1>3 DEF SqliteSweepExpiredItems, PostgresSweepExpiredItems, RemoveItems, DueItems
<1>4. ASSUME RedisSweepExpiredItems PROVE FALSE
  BY <1>4 DEF RedisSweepExpiredItems, RemoveItems, StoreInv, SweepCurrent
<1>5. ASSUME RedisSweepWatch \/ RedisSweepRetry \/ RedisSweepFails \/ StoreTick PROVE FALSE
  BY <1>0, <1>5 DEF RedisSweepWatch, RedisSweepRetry, RedisSweepFails, StoreTick
<1> QED BY <1>1, <1>2, <1>3, <1>4, <1>5 DEF StoreNext

\* Only the sweep that EXEC ends removes anything, and it removes what it reports.
LEMMA ReportStep == ASSUME StoreInv, StoreNext PROVE ReportsRemoved
<1> SUFFICES ASSUME sweeper.at = "watching", sweeper'.at = "idle", items' # items
             PROVE  sweeper'.keys = {k \in StoreKeys : Exists(items[k]) /\ ~Exists(items'[k])}
  BY DEF ReportsRemoved
<1> USE DEF StoreInv
<1>0. sweeper \in [at : {"idle", "watching"}, keys : SUBSET StoreKeys, dirty : BOOLEAN, attempt : Nat]
  BY DEF StoreTypeOK
<1>1. ASSUME NEW c \in StoreClients, NEW written, NEW after, NEW read, Install(written, after, read, c)
      PROVE  FALSE
  BY <1>0, <1>1 DEF Install
<1>2. CASE RedisSweepExpiredItems
  BY <1>0, <1>2 DEF RedisSweepExpiredItems, RemoveItems, SweepCurrent, Exists, SweepReturns
<1>3. ~RedisSweepWatch /\ ~RedisSweepRetry /\ ~RedisSweepFails /\ ~StoreTick
      /\ ~SqliteSweepExpiredItems /\ ~PostgresSweepExpiredItems
  BY DEF RedisSweepWatch, RedisSweepRetry, RedisSweepFails, StoreTick, SqliteSweepExpiredItems,
     PostgresSweepExpiredItems
<1>4. ASSUME NEW c \in StoreClients, NEW b \in StoreBatches,
             MemoryBatch(c, b) \/ SqliteBatch(c, b) \/ PostgresBegin(c, b) \/ RedisWatch(c, b)
      PROVE  FALSE
  BY <1>1, <1>4 DEF MemoryBatch, SqliteBatch, PostgresBegin, RedisWatch, InstallBatch
<1>5. ASSUME NEW c \in StoreClients,
             PostgresCommit(c) \/ RedisExec(c) \/ RedisRetry(c) \/ RedisGetRefresh(c) \/ FailBatch(c)
      PROVE  FALSE
  BY <1>1, <1>5 DEF PostgresCommit, RedisExec, RedisRetry, RedisGetRefresh, FailBatch, InstallBatch
<1> QED BY <1>2, <1>3, <1>4, <1>5 DEF StoreNext

\* A step that changes nothing applies no batch and removes no item.
LEMMA StoreStutter ==
    ASSUME UNCHANGED storeVars
    PROVE  /\ \A c \in StoreClients : ~BatchApplied(c)
           /\ \A k \in StoreKeys : LiveItemKept(k)
           /\ ReportsRemoved
BY DEF storeVars, BatchApplied, LiveItemKept, ReportsRemoved

\* Batches are atomic, but for PostgreSQL's DELETE of what its snapshot lacks, live
\* items are kept and a sweep reports what it removed, in every store, for any number
\* of clients, keys and batches and every default time to live (Batch,
\* SweepExpiredItems).
THEOREM BatchesAreAtomic == StoreSpec => BatchesAtomic
<1>1. StoreInv /\ [StoreNext]_storeVars =>
        [/\ \A c \in StoreClients : BatchApplied(c) => TakesEffectAtOnce(c)
         /\ \A k \in StoreKeys : LiveItemKept(k)
         /\ ReportsRemoved]_storeVars
  BY EffectStep, LiveItemStep, ReportStep, StoreStutter
<1> QED BY StoreInitInv, StoreNextKeeps, <1>1, PTL DEF StoreSpec, BatchesAtomic

-----------------------------------------------------------------------------
(***************************************************************************)
(* NodeCache: what a step finds in the cache.                              *)
(***************************************************************************)
\* The result of a task that this step executed and has not yet put into the cache.
Pending(r, k) == cacheRun[r].at = "running" /\ recorded[r][k] # 0 /\ cacheRun[r].hits[k] # 0

Entries == [CacheKeys -> [val : Nat, exp : Nat]]
StepStates == [at : {"idle", "running", "filled"}, hits : [CacheKeys -> Nat]]
CacheTypeOK ==
    /\ cacheTime \in Nat /\ executions \in Nat
    /\ entries \in Entries
    /\ keyIndex \in SUBSET CacheKeys /\ keyLists \in [CachedNodes -> SUBSET CacheKeys]
    /\ cacheRun \in [CacheRuns -> StepStates]
    /\ recorded \in [CacheRuns -> [CacheKeys -> Nat]]
    /\ clear \in [at : {"idle", "listed"}, scope : SUBSET CachedNodes, found : SUBSET CacheKeys,
                  due : SUBSET Nat]
    /\ cleared \in SUBSET Nat

\* A Get saw the row that it is about to delete, in the past.
EvictionPast ==
    \/ evicting = NotEvicting
    \/ evicting \in [key : CacheKeys, at : Nat] /\ evicting.at <= cacheTime

\* Every value in sight was returned by an execution.
ValuesKnown ==
    /\ \A v \in cleared \cup clear.due : v # 0 /\ v <= executions
    /\ \A k \in CacheKeys : entries[k].val <= executions
    /\ \A r \in CacheRuns, k \in CacheKeys : Pending(r, k) => cacheRun[r].hits[k] <= executions

\* A value enters the cache once, under one key.
ValuesOnce ==
    /\ \A r \in CacheRuns, k \in CacheKeys :
         Pending(r, k) => /\ cacheRun[r].hits[k] \notin cleared \cup clear.due
                          /\ \A x \in CacheKeys : entries[x].val # cacheRun[r].hits[k]
    /\ \A r, q \in CacheRuns, k, x \in CacheKeys :
         Pending(r, k) /\ Pending(q, x) /\ cacheRun[r].hits[k] = cacheRun[q].hits[x] => r = q /\ k = x
    /\ \A k, x \in CacheKeys : entries[k].val # 0 /\ entries[k].val = entries[x].val => k = x

\* A cleared value is in the cache only without a name.
ClearedGone == \A k \in CacheKeys : entries[k].val \in cleared => OrphanEntry(k)

\* A Redis Clear has listed what it must remove, but for what had no name.
ClearListed ==
    /\ clear.at = "idle" => clear.due = {}
    /\ clear.at = "listed" => cacheKind = "redis"
    /\ \A k \in CacheKeys : entries[k].val \in clear.due => k \in clear.found \/ OrphanEntry(k)

CacheInv == CacheTypeOK /\ EvictionPast /\ ValuesKnown /\ ValuesOnce /\ ClearedGone /\ ClearListed

-----------------------------------------------------------------------------
\* An empty cache.
LEMMA CacheInitInv == CacheInit => CacheInv
<1> SUFFICES ASSUME CacheInit PROVE CacheInv
  OBVIOUS
<1> USE DEF CacheInit, IdleClear
<1>1. CacheTypeOK
  BY DEF CacheTypeOK, Entries, StepStates, NoEntry, IdleStep, NoHits
<1>2. \A k \in CacheKeys : entries[k].val = 0
  BY DEF NoEntry
<1>3. \A r \in CacheRuns, k \in CacheKeys : ~Pending(r, k)
  BY DEF Pending, IdleStep
<1>4. EvictionPast
  BY DEF EvictionPast
<1>5. ValuesKnown /\ ValuesOnce /\ ClearedGone /\ ClearListed
  BY <1>2, <1>3 DEF ValuesKnown, ValuesOnce, ClearedGone, ClearListed
<1> QED BY <1>1, <1>4, <1>5 DEF CacheInv

\* Entries that disappear, and results that are no longer pending, disturb nothing.
LEMMA FewerKeeps ==
    ASSUME CacheInv, CacheTypeOK', EvictionPast',
           UNCHANGED <<cacheKind, keyIndex, keyLists, clear, cleared, executions>>,
           \A k \in CacheKeys : entries'[k] = entries[k] \/ entries'[k].val = 0,
           \A r \in CacheRuns, k \in CacheKeys :
              Pending(r, k)' => Pending(r, k) /\ cacheRun'[r].hits[k] = cacheRun[r].hits[k]
    PROVE  CacheInv'
<1> USE DEF CacheInv
<1>1. ValuesKnown'
  <2>1. \A v \in cleared' \cup clear'.due : v # 0 /\ v <= executions'
    BY DEF ValuesKnown
  <2>2. \A k \in CacheKeys : entries'[k].val <= executions'
    BY DEF ValuesKnown, CacheTypeOK
  <2>3. \A r \in CacheRuns, k \in CacheKeys : Pending(r, k)' => cacheRun'[r].hits[k] <= executions'
    BY DEF ValuesKnown
  <2> QED BY <2>1, <2>2, <2>3 DEF ValuesKnown
<1>2. ValuesOnce'
  BY DEF ValuesOnce, Pending
<1>3. \A k \in CacheKeys : OrphanEntry(k) /\ entries'[k] = entries[k] => OrphanEntry(k)'
  BY DEF OrphanEntry
<1>4. 0 \notin cleared \cup clear.due
  BY DEF ValuesKnown
<1>5. ClearedGone' /\ ClearListed'
  BY <1>3, <1>4 DEF ClearedGone, ClearListed
<1> QED BY <1>1, <1>2, <1>5

\* The entries, names and lists without some keys.
LEMMA WithoutTyped ==
    ASSUME CacheTypeOK, NEW ks
    PROVE  /\ WithoutEntries(ks) \in Entries
           /\ \A k \in CacheKeys : WithoutEntries(ks)[k] = IF k \in ks THEN NoEntry ELSE entries[k]
BY DEF CacheTypeOK, Entries, WithoutEntries, NoEntry

\* Get removes only what has expired; the step has nothing pending.
LEMMA PrefetchStep == ASSUME CacheInv, NEW r \in CacheRuns, Prefetch(r) PROVE CacheInv'
<1> DEFINE ks == {k \in CacheKeys : recorded[r][k] = 0}
           new == [at |-> "running", hits |-> FoundValues(ks)]
<1> USE DEF CacheInv
<1>1. /\ MemoryGet(ks) \/ SqliteGet(ks) \/ PostgresGet(ks) \/ RedisGet(ks)
      /\ cacheRun' = [cacheRun EXCEPT ![r] = new]
      /\ UNCHANGED <<cacheKind, cacheTime, keyIndex, keyLists, recorded, clear, cleared, executions>>
  BY DEF Prefetch
<1>2. entries' = entries \/ entries' = WithoutEntries(DeadEntries(ks))
  BY <1>1 DEF MemoryGet, SqliteGet, PostgresGet, RedisGet
<1>3. entries' \in Entries /\ \A k \in CacheKeys : entries'[k] = entries[k] \/ entries'[k].val = 0
  BY <1>2, WithoutTyped DEF CacheTypeOK, NoEntry
<1>4. new \in StepStates
  BY DEF StepStates, FoundValues, CacheTypeOK, Entries
<1>5. CacheTypeOK'
  BY <1>1, <1>3, <1>4 DEF CacheTypeOK
<1>6. EvictionPast'
  <2>1. evicting' = evicting \/ evicting' = NotEvicting
          \/ \E k \in DeadEntries(ks) : evicting' = [key |-> k, at |-> cacheTime]
    BY <1>1 DEF MemoryGet, SqliteGet, PostgresGet, RedisGet
  <2>2. DeadEntries(ks) \subseteq CacheKeys
    BY DEF DeadEntries
  <2>3. \A k \in CacheKeys : [key |-> k, at |-> cacheTime] \in [key : CacheKeys, at : Nat]
          /\ cacheTime <= cacheTime
    BY DEF CacheTypeOK
  <2> QED BY <1>1, <2>1, <2>2, <2>3 DEF EvictionPast
<1>7. ASSUME NEW q \in CacheRuns, NEW k \in CacheKeys, Pending(q, k)'
      PROVE  Pending(q, k) /\ cacheRun'[q].hits[k] = cacheRun[q].hits[k]
  <2>1. CASE q = r
    <3>1. recorded[r][k] # 0 /\ cacheRun'[r] = new
      BY <1>1, <1>7, <2>1 DEF Pending, CacheTypeOK
    <3>2. new.hits[k] = 0
      BY <3>1 DEF FoundValues
    <3> QED BY <1>7, <2>1, <3>1, <3>2 DEF Pending
  <2>2. CASE q # r
    BY <1>1, <1>7, <2>2 DEF Pending, CacheTypeOK
  <2> QED BY <2>1, <2>2
<1> HIDE DEF new, ks
<1> QED BY <1>1, <1>3, <1>5, <1>6, <1>7, FewerKeeps

\* A late deletion of PostgreSQL looks at the row again.
LEMMA EvictStep == ASSUME CacheInv, PostgresEvict PROVE CacheInv'
<1> USE DEF CacheInv
<1>1. /\ entries' = entries \/ entries' = WithoutEntries({evicting.key})
      /\ evicting' = NotEvicting
      /\ UNCHANGED <<cacheKind, cacheTime, keyIndex, keyLists, cacheRun, recorded, clear, cleared,
                     executions>>
  BY DEF PostgresEvict
<1>2. entries' \in Entries /\ \A k \in CacheKeys : entries'[k] = entries[k] \/ entries'[k].val = 0
  BY <1>1, WithoutTyped DEF CacheTypeOK, NoEntry
<1>3. CacheTypeOK' /\ EvictionPast'
  BY <1>1, <1>2 DEF CacheTypeOK, EvictionPast
<1>4. \A q \in CacheRuns, k \in CacheKeys :
         Pending(q, k)' => Pending(q, k) /\ cacheRun'[q].hits[k] = cacheRun[q].hits[k]
  BY <1>1 DEF Pending
<1> QED BY <1>1, <1>2, <1>3, <1>4, FewerKeeps

\* A step that ends leaves nothing pending.
LEMMA EndKeeps ==
    ASSUME CacheInv, NEW r \in CacheRuns, cacheRun' = [cacheRun EXCEPT ![r] = IdleStep],
           recorded' \in [CacheRuns -> [CacheKeys -> Nat]],
           \A q \in CacheRuns : q # r => recorded'[q] = recorded[q],
           UNCHANGED <<cacheKind, cacheTime, entries, keyIndex, keyLists, evicting, clear, cleared,
                       executions>>
    PROVE  CacheInv'
<1> USE DEF CacheInv
<1>1. IdleStep \in StepStates /\ IdleStep.at = "idle"
  BY DEF IdleStep, StepStates, NoHits
<1>2. CacheTypeOK' /\ EvictionPast'
  BY <1>1 DEF CacheTypeOK, EvictionPast
<1>3. \A q \in CacheRuns, k \in CacheKeys :
         Pending(q, k)' => Pending(q, k) /\ cacheRun'[q].hits[k] = cacheRun[q].hits[k]
  BY <1>1 DEF Pending, CacheTypeOK
<1> QED BY <1>2, <1>3, FewerKeeps

\* A step that commits or dies.
LEMMA EndStep == ASSUME CacheInv, NEW r \in CacheRuns, CommitStep(r) \/ CrashStep(r) PROVE CacheInv'
<1>1. recorded \in [CacheRuns -> [CacheKeys -> Nat]] /\ NoHits \in [CacheKeys -> Nat]
  BY DEF CacheInv, CacheTypeOK, NoHits
<1>2. /\ recorded' \in [CacheRuns -> [CacheKeys -> Nat]]
      /\ \A q \in CacheRuns : q # r => recorded'[q] = recorded[q]
  BY <1>1 DEF CommitStep, CrashStep
<1> QED BY <1>2, EndKeeps DEF CommitStep, CrashStep

\* Time passes: an eviction that was begun is older still.
LEMMA CacheTickStep == ASSUME CacheInv, CacheTick PROVE CacheInv'
<1> USE DEF CacheInv, CacheTick
<1>1. CacheTypeOK'
  BY DEF CacheTypeOK
<1>2. EvictionPast'
  BY DEF EvictionPast, CacheTypeOK
<1>3. \A q \in CacheRuns, k \in CacheKeys :
         Pending(q, k)' => Pending(q, k) /\ cacheRun'[q].hits[k] = cacheRun[q].hits[k]
  BY DEF Pending
<1> QED BY <1>1, <1>2, <1>3, FewerKeeps

\* An execution returns a value that nobody has seen.
LEMMA ExecuteStep ==
    ASSUME CacheInv, NEW r \in CacheRuns, NEW k \in CacheKeys, ExecuteTask(r, k) PROVE CacheInv'
<1> USE DEF CacheInv
<1> DEFINE v == executions + 1
<1>1. /\ cacheRun[r].hits[k] = 0 /\ executions' = v /\ v \in Nat /\ executions < v
      /\ recorded' = [recorded EXCEPT ![r][k] = v]
      /\ cacheRun' = [cacheRun EXCEPT ![r].hits[k] = v]
      /\ UNCHANGED <<cacheKind, cacheTime, entries, keyIndex, keyLists, evicting, clear, cleared>>
  BY DEF ExecuteTask, CacheTypeOK
<1> HIDE DEF v
<1>2. /\ cacheRun'[r].at = cacheRun[r].at /\ cacheRun'[r].hits[k] = v /\ recorded'[r][k] = v
      /\ \A q \in CacheRuns, x \in CacheKeys : q # r \/ x # k =>
           /\ cacheRun'[q].at = cacheRun[q].at /\ cacheRun'[q].hits[x] = cacheRun[q].hits[x]
           /\ recorded'[q][x] = recorded[q][x]
  BY <1>1 DEF CacheTypeOK, StepStates
<1>3. CacheTypeOK'
  <2>1. [cacheRun[r] EXCEPT !.hits[k] = v] \in StepStates
    BY <1>1 DEF CacheTypeOK, StepStates
  <2>2. [recorded[r] EXCEPT ![k] = v] \in [CacheKeys -> Nat]
    BY <1>1 DEF CacheTypeOK
  <2> QED BY <1>1, <2>1, <2>2 DEF CacheTypeOK
<1>4. EvictionPast'
  BY <1>1 DEF EvictionPast
<1>5. \A q \in CacheRuns, x \in CacheKeys : (q # r \/ x # k) /\ Pending(q, x)' =>
         Pending(q, x) /\ cacheRun'[q].hits[x] = cacheRun[q].hits[x]
  BY <1>2 DEF Pending
<1>6. \A q \in CacheRuns, x \in CacheKeys : Pending(q, x) => cacheRun[q].hits[x] \in Nat
        /\ cacheRun[q].hits[x] # v
  BY <1>1 DEF ValuesKnown, CacheTypeOK, StepStates
<1>7. /\ v \notin cleared \cup clear.due
      /\ \A x \in CacheKeys : entries[x].val # v
  BY <1>1 DEF ValuesKnown, CacheTypeOK, Entries
<1>8. ValuesKnown'
  <2>1. \A u \in cleared' \cup clear'.due : u # 0 /\ u <= executions'
    BY <1>1 DEF ValuesKnown, CacheTypeOK
  <2>2. \A x \in CacheKeys : entries'[x].val <= executions'
    BY <1>1 DEF ValuesKnown, CacheTypeOK, Entries
  <2>3. ASSUME NEW q \in CacheRuns, NEW x \in CacheKeys, Pending(q, x)'
        PROVE  cacheRun'[q].hits[x] <= executions'
    <3>1. CASE q = r /\ x = k
      BY <1>1, <1>2, <3>1
    <3>2. CASE ~(q = r /\ x = k)
      BY <1>1, <1>5, <1>6, <2>3, <3>2 DEF ValuesKnown, CacheTypeOK
    <3> QED BY <3>1, <3>2
  <2> QED BY <2>1, <2>2, <2>3 DEF ValuesKnown
<1>9. ValuesOnce'
  <2>1. ASSUME NEW q \in CacheRuns, NEW x \in CacheKeys, Pending(q, x)'
        PROVE  /\ cacheRun'[q].hits[x] \notin cleared' \cup clear'.due
               /\ \A y \in CacheKeys : entries'[y].val # cacheRun'[q].hits[x]
    <3>1. CASE q = r /\ x = k
      BY <1>1, <1>2, <1>7, <3>1
    <3>2. CASE ~(q = r /\ x = k)
      BY <1>1, <1>5, <2>1, <3>2 DEF ValuesOnce
    <3> QED BY <3>1, <3>2
  <2>2. ASSUME NEW q \in CacheRuns, NEW p \in CacheRuns, NEW x \in CacheKeys, NEW y \in CacheKeys,
               Pending(q, x)', Pending(p, y)', cacheRun'[q].hits[x] = cacheRun'[p].hits[y]
        PROVE  q = p /\ x = y
    <3>1. CASE q = r /\ x = k
      BY <1>2, <1>5, <1>6, <2>2, <3>1
    <3>2. CASE p = r /\ y = k
      BY <1>2, <1>5, <1>6, <2>2, <3>2
    <3>3. CASE ~(q = r /\ x = k) /\ ~(p = r /\ y = k)
      BY <1>5, <2>2, <3>3 DEF ValuesOnce
    <3> QED BY <3>1, <3>2, <3>3
  <2>3. \A x, y \in CacheKeys : entries'[x].val # 0 /\ entries'[x].val = entries'[y].val => x = y
    BY <1>1 DEF ValuesOnce
  <2> QED BY <2>1, <2>2, <2>3 DEF ValuesOnce
<1>10. ClearedGone' /\ ClearListed'
  BY <1>1 DEF ClearedGone, ClearListed, OrphanEntry
<1> QED BY <1>3, <1>4, <1>8, <1>9, <1>10

\* What a step puts into the cache was pending, and no other key gets a name.
LEMMA FillEffect ==
    ASSUME CacheInv, NEW r \in CacheRuns, cacheRun[r].at = "running", FillCache(r)
    PROVE  /\ entries' \in Entries
           /\ keyIndex' \in SUBSET CacheKeys /\ keyLists' \in [CachedNodes -> SUBSET CacheKeys]
           /\ \A k \in CacheKeys : Pending(r, k) => entries'[k].val = cacheRun[r].hits[k]
           /\ \A k \in CacheKeys : ~Pending(r, k) =>
                /\ entries'[k] = entries[k]
                /\ k \in keyIndex' <=> k \in keyIndex
                /\ k \in keyLists'[NodeOf[k]] <=> k \in keyLists[NodeOf[k]]
<1> DEFINE new == [k \in CacheKeys |-> IF recorded[r][k] # 0 THEN cacheRun[r].hits[k] ELSE 0]
<1>1. new \in [CacheKeys -> Nat] /\ \A k \in CacheKeys : new[k] # 0 <=> Pending(r, k)
  BY DEF CacheInv, CacheTypeOK, StepStates, Pending
<1>2. \A k \in CacheKeys : Pending(r, k) => new[k] = cacheRun[r].hits[k]
  BY DEF Pending
<1>3. MemorySet(new) \/ SqliteSet(new) \/ PostgresSet(new) \/ RedisSet(new)
  BY DEF FillCache
<1> HIDE DEF new
<1>4. entries' = StoredEntries(new)
  BY <1>3 DEF MemorySet, SqliteSet, PostgresSet, RedisSet
<1>5. /\ entries' \in Entries
      /\ \A k \in CacheKeys : IF new[k] = 0 THEN entries'[k] = entries[k] ELSE entries'[k].val = new[k]
  BY <1>1, <1>4, CacheAssumption DEF StoredEntries, CacheInv, CacheTypeOK, Entries
<1> DEFINE ks == {k \in CacheKeys : new[k] # 0}
<1>6. \/ UNCHANGED <<keyIndex, keyLists>>
      \/ /\ keyIndex' = keyIndex \cup ks
         /\ keyLists' = [n \in CachedNodes |-> keyLists[n] \cup {k \in ks : NodeOf[k] = n}]
  BY <1>3 DEF MemorySet, SqliteSet, PostgresSet, RedisSet
<1>7. keyIndex' \in SUBSET CacheKeys /\ keyLists' \in [CachedNodes -> SUBSET CacheKeys]
  BY <1>6 DEF CacheInv, CacheTypeOK
<1>8. ASSUME NEW k \in CacheKeys, new[k] = 0
      PROVE  /\ k \in keyIndex' <=> k \in keyIndex
             /\ k \in keyLists'[NodeOf[k]] <=> k \in keyLists[NodeOf[k]]
  BY <1>6, <1>8, CacheAssumption DEF CacheInv, CacheTypeOK
<1> QED BY <1>1, <1>2, <1>5, <1>7, <1>8

\* A step's results enter the cache for the first time.
LEMMA FillKeeps ==
    ASSUME CacheInv, NEW r \in CacheRuns, cacheRun[r].at = "running", FillCache(r),
           NEW new \in StepStates, new.at # "running", cacheRun' = [cacheRun EXCEPT ![r] = new],
           UNCHANGED <<cacheKind, cacheTime, recorded, evicting, clear, cleared, executions>>
    PROVE  CacheInv'
<1> USE DEF CacheInv
<1>1. /\ entries' \in Entries
      /\ keyIndex' \in SUBSET CacheKeys /\ keyLists' \in [CachedNodes -> SUBSET CacheKeys]
      /\ \A k \in CacheKeys : Pending(r, k) => entries'[k].val = cacheRun[r].hits[k]
      /\ \A k \in CacheKeys : ~Pending(r, k) =>
           /\ entries'[k] = entries[k]
           /\ k \in keyIndex' <=> k \in keyIndex
           /\ k \in keyLists'[NodeOf[k]] <=> k \in keyLists[NodeOf[k]]
  BY FillEffect
<1>2. CacheTypeOK' /\ EvictionPast'
  BY <1>1 DEF CacheTypeOK, EvictionPast
<1>3. \A q \in CacheRuns, k \in CacheKeys :
         Pending(q, k)' => q # r /\ Pending(q, k) /\ cacheRun'[q].hits[k] = cacheRun[q].hits[k]
  BY DEF Pending, CacheTypeOK
<1>4. ValuesKnown'
  <2>1. \A k \in CacheKeys : entries'[k].val <= executions'
    BY <1>1 DEF ValuesKnown
  <2> QED BY <1>3, <2>1 DEF ValuesKnown
<1>5. ValuesOnce'
  <2>1. ASSUME NEW q \in CacheRuns, NEW k \in CacheKeys, Pending(q, k)'
        PROVE  /\ cacheRun'[q].hits[k] \notin cleared' \cup clear'.due
               /\ \A x \in CacheKeys : entries'[x].val # cacheRun'[q].hits[k]
    BY <1>1, <1>3, <2>1 DEF ValuesOnce
  <2>2. \A q, p \in CacheRuns, k, x \in CacheKeys :
          Pending(q, k)' /\ Pending(p, x)' /\ cacheRun'[q].hits[k] = cacheRun'[p].hits[x] => q = p
            /\ k = x
    BY <1>3 DEF ValuesOnce
  <2>3. ASSUME NEW k \in CacheKeys, NEW x \in CacheKeys, entries'[k].val # 0,
               entries'[k].val = entries'[x].val
        PROVE  k = x
    <3>1. CASE Pending(r, k) /\ Pending(r, x)
      BY <1>1, <2>3, <3>1 DEF ValuesOnce
    <3>2. CASE Pending(r, k) /\ ~Pending(r, x)
      BY <1>1, <2>3, <3>2 DEF ValuesOnce
    <3>3. CASE ~Pending(r, k) /\ Pending(r, x)
      BY <1>1, <2>3, <3>3 DEF ValuesOnce
    <3>4. CASE ~Pending(r, k) /\ ~Pending(r, x)
      BY <1>1, <2>3, <3>4 DEF ValuesOnce
    <3> QED BY <3>1, <3>2, <3>3, <3>4
  <2> QED BY <2>1, <2>2, <2>3 DEF ValuesOnce
<1>6. \A k \in CacheKeys : Pending(r, k) => entries'[k].val \notin cleared \cup clear.due
  BY <1>1 DEF ValuesOnce
<1>7. \A k \in CacheKeys : ~Pending(r, k) /\ OrphanEntry(k) => OrphanEntry(k)'
  BY <1>1 DEF OrphanEntry
<1>8. ClearedGone' /\ ClearListed'
  BY <1>1, <1>6, <1>7 DEF ClearedGone, ClearListed
<1> QED BY <1>2, <1>4, <1>5, <1>8

\* A step stores its results in the cache, or fails to.
LEMMA FillStep == ASSUME CacheInv, NEW r \in CacheRuns, Fill(r) \/ FillFailed(r) PROVE CacheInv'
<1>1. IdleStep \in StepStates /\ IdleStep.at = "idle"
  BY DEF IdleStep, StepStates, NoHits
<1>2. StepResults(r) \in [CacheKeys -> Nat]
  BY DEF StepResults, CacheInv, CacheTypeOK, StepStates
<1> DEFINE full == [at |-> "filled", hits |-> StepResults(r)]
<1>3. full \in StepStates /\ full.at = "filled"
  BY <1>2 DEF StepStates
<1>4. CASE Fill(r)
  BY <1>3, <1>4, FillKeeps DEF Fill
<1>5. CASE FillFailed(r)
  BY <1>1, <1>5, FillKeeps DEF FillFailed
<1> QED BY <1>4, <1>5

-----------------------------------------------------------------------------
\* The values of a scope are those of its keys.
LEMMA DueOf ==
    ASSUME CacheInv, NEW scope
    PROVE  /\ \A k \in CacheKeys : entries[k].val \in DueValues(scope) <=> entries[k].val # 0
                /\ NodeOf[k] \in scope
           /\ \A v \in DueValues(scope) : v \in Nat /\ v # 0 /\ v <= executions
           /\ \A v \in DueValues(scope) : \E k \in CacheKeys : v = entries[k].val
<1>1. \A v : v \in DueValues(scope) <=> v # 0 /\ \E k \in CacheKeys : NodeOf[k] \in scope
        /\ v = entries[k].val
  BY DEF DueValues
<1> QED BY <1>1 DEF CacheInv, CacheTypeOK, Entries, ValuesKnown, ValuesOnce

\* Memory, SQLite and PostgreSQL remove what they must at once.
LEMMA ClearNowStep ==
    ASSUME CacheInv, NEW store, NEW scope, store # "redis", ClearNow(store, scope) PROVE CacheInv'
<1> USE DEF CacheInv
<1>1. /\ cacheKind # "redis" /\ cleared' = cleared \cup DueValues(scope)
      /\ entries' = WithoutEntries({k \in CacheKeys : NodeOf[k] \in scope})
      /\ UNCHANGED <<cacheKind, cacheTime, keyIndex, keyLists, cacheRun, recorded, evicting, clear,
                     executions>>
  BY DEF ClearNow
<1>2. entries' \in Entries
      /\ \A k \in CacheKeys : IF NodeOf[k] \in scope THEN entries'[k].val = 0
                              ELSE entries'[k] = entries[k]
  BY <1>1, WithoutTyped DEF NoEntry
<1>3. /\ \A k \in CacheKeys : entries[k].val \in DueValues(scope) <=> entries[k].val # 0
           /\ NodeOf[k] \in scope
      /\ \A v \in DueValues(scope) : v \in Nat /\ v # 0 /\ v <= executions
      /\ \A v \in DueValues(scope) : \E k \in CacheKeys : v = entries[k].val
  BY DueOf
<1>4. CacheTypeOK' /\ EvictionPast'
  BY <1>1, <1>2, <1>3 DEF CacheTypeOK, EvictionPast
<1>5. \A q \in CacheRuns, k \in CacheKeys : Pending(q, k)' <=> Pending(q, k)
  BY <1>1 DEF Pending
<1>6. ValuesKnown'
  <2>1. \A v \in cleared' \cup clear'.due : v # 0 /\ v <= executions'
    BY <1>1, <1>3 DEF ValuesKnown
  <2>2. \A k \in CacheKeys : entries'[k].val <= executions'
    BY <1>1, <1>2 DEF ValuesKnown, CacheTypeOK
  <2>3. \A r \in CacheRuns, k \in CacheKeys : Pending(r, k)' => cacheRun'[r].hits[k] <= executions'
    BY <1>1, <1>5 DEF ValuesKnown
  <2> QED BY <2>1, <2>2, <2>3 DEF ValuesKnown
<1>7. \A q \in CacheRuns, k \in CacheKeys : Pending(q, k) => cacheRun[q].hits[k] \notin DueValues(scope)
  BY <1>3 DEF ValuesOnce
<1>8. ValuesOnce'
  BY <1>1, <1>2, <1>5, <1>7 DEF ValuesOnce, Pending
<1>9. \A k \in CacheKeys : ~OrphanEntry(k)
  BY <1>1 DEF OrphanEntry
<1>10. ClearedGone'
  BY <1>1, <1>2, <1>3, <1>9 DEF ClearedGone, ValuesKnown
<1>11. ClearListed'
  BY <1>1, <1>9 DEF ClearListed, CacheTypeOK
<1> QED BY <1>4, <1>6, <1>8, <1>10, <1>11

\* SMEMBERS finds every key of the scope that has its names.
LEMMA ClearListStep ==
    ASSUME CacheInv, NEW scope \in ClearScopes, RedisClearList(scope) PROVE CacheInv'
<1> USE DEF CacheInv
<1> DEFINE names == IF scope = CachedNodes THEN keyIndex ELSE UNION {keyLists[n] : n \in scope}
<1>1. /\ cacheKind = "redis"
      /\ clear' = [at |-> "listed", scope |-> scope, due |-> DueValues(scope), found |-> names]
      /\ UNCHANGED <<cacheKind, cacheTime, entries, keyIndex, keyLists, cacheRun, recorded, evicting,
                     cleared, executions>>
  BY DEF RedisClearList
<1>2. scope \in SUBSET CachedNodes
  BY DEF ClearScopes
<1>3. names \in SUBSET CacheKeys
  BY <1>2 DEF CacheTypeOK
<1>4. \A k \in CacheKeys : NodeOf[k] \in scope /\ entries[k].val # 0 => k \in names \/ OrphanEntry(k)
  BY <1>1, <1>2, CacheAssumption DEF OrphanEntry
<1>5. /\ \A k \in CacheKeys : entries[k].val \in DueValues(scope) <=> entries[k].val # 0
           /\ NodeOf[k] \in scope
      /\ \A v \in DueValues(scope) : v \in Nat /\ v # 0 /\ v <= executions
      /\ \A v \in DueValues(scope) : \E k \in CacheKeys : v = entries[k].val
  BY DueOf
<1> HIDE DEF names
<1>6. clear'.at = "listed" /\ clear'.due = DueValues(scope) /\ clear'.found = names
  BY <1>1
<1>7. CacheTypeOK' /\ EvictionPast'
  <2>1. clear' \in [at : {"idle", "listed"}, scope : SUBSET CachedNodes, found : SUBSET CacheKeys,
                    due : SUBSET Nat]
    BY <1>1, <1>2, <1>3, <1>5
  <2> QED BY <1>1, <2>1 DEF CacheTypeOK, EvictionPast
<1>8. \A q \in CacheRuns, k \in CacheKeys : Pending(q, k)' <=> Pending(q, k)
  BY <1>1 DEF Pending
<1>9. ValuesKnown'
  BY <1>1, <1>5, <1>6, <1>8 DEF ValuesKnown
<1>10. \A q \in CacheRuns, k \in CacheKeys : Pending(q, k) => cacheRun[q].hits[k] \notin DueValues(scope)
  BY <1>5 DEF ValuesOnce
<1>11. ValuesOnce'
  BY <1>1, <1>6, <1>8, <1>10 DEF ValuesOnce
<1>12. \A k \in CacheKeys : OrphanEntry(k)' <=> OrphanEntry(k)
  BY <1>1 DEF OrphanEntry
<1>13. ClearedGone'
  BY <1>1, <1>12 DEF ClearedGone
<1>14. ClearListed'
  BY <1>1, <1>4, <1>5, <1>6, <1>12 DEF ClearListed
<1> QED BY <1>7, <1>9, <1>11, <1>13, <1>14

\* DEL removes what was found; what keeps its value had no name, and gets none.
LEMMA RedisClearStep == ASSUME CacheInv, RedisClear PROVE CacheInv'
<1> USE DEF CacheInv
<1>1. /\ clear.at = "listed" /\ entries' = WithoutEntries(clear.found)
      /\ keyIndex' = IF clear.scope = CachedNodes THEN {} ELSE keyIndex \ clear.found
      /\ keyLists' = [n \in CachedNodes |-> IF n \in clear.scope THEN {} ELSE keyLists[n]]
      /\ cleared' = cleared \cup clear.due /\ clear' = IdleClear
      /\ UNCHANGED <<cacheKind, cacheTime, cacheRun, recorded, evicting, executions>>
  BY DEF RedisClear
<1>2. entries' \in Entries
      /\ \A k \in CacheKeys : IF k \in clear.found THEN entries'[k].val = 0 ELSE entries'[k] = entries[k]
  BY <1>1, WithoutTyped DEF NoEntry
<1>3. keyIndex' \subseteq keyIndex /\ \A n \in CachedNodes : keyLists'[n] \subseteq keyLists[n]
  BY <1>1
<1>4. /\ clear'.at = "idle" /\ clear'.due = {}
      /\ clear' \in [at : {"idle", "listed"}, scope : SUBSET CachedNodes, found : SUBSET CacheKeys,
                     due : SUBSET Nat]
  BY <1>1 DEF IdleClear
<1>5. CacheTypeOK'
  <2>1. keyIndex' \in SUBSET CacheKeys /\ keyLists' \in [CachedNodes -> SUBSET CacheKeys]
    BY <1>1 DEF CacheTypeOK
  <2>2. cleared' \in SUBSET Nat
    BY <1>1 DEF CacheTypeOK
  <2> QED BY <1>1, <1>2, <1>4, <2>1, <2>2 DEF CacheTypeOK
<1>6. EvictionPast'
  BY <1>1 DEF EvictionPast
<1>7. \A q \in CacheRuns, k \in CacheKeys : Pending(q, k)' <=> Pending(q, k)
  BY <1>1 DEF Pending
<1>8. ValuesKnown'
  BY <1>1, <1>2, <1>4, <1>7 DEF ValuesKnown, CacheTypeOK
<1>9. ValuesOnce'
  BY <1>1, <1>2, <1>4, <1>7 DEF ValuesOnce, Pending
<1>10. \A k \in CacheKeys : OrphanEntry(k) /\ entries'[k] = entries[k] => OrphanEntry(k)'
  BY <1>1, <1>3, CacheAssumption DEF OrphanEntry
<1>11. 0 \notin cleared \cup clear.due
  BY DEF ValuesKnown
<1>12. ClearedGone'
  BY <1>1, <1>2, <1>10, <1>11 DEF ClearedGone, ClearListed
<1>13. ClearListed'
  BY <1>4 DEF ClearListed
<1> QED BY <1>5, <1>6, <1>8, <1>9, <1>12, <1>13

\* Every step of the caches keeps the invariant.
LEMMA CacheNextKeeps == CacheInv /\ [CacheNext]_cacheVars => CacheInv'
<1> SUFFICES ASSUME CacheInv, [CacheNext]_cacheVars PROVE CacheInv'
  OBVIOUS
<1>1. CASE UNCHANGED cacheVars
  BY <1>1
     DEF CacheInv, CacheTypeOK, EvictionPast, ValuesKnown, ValuesOnce, ClearedGone, ClearListed,
         OrphanEntry,
         Pending, cacheVars
<1>2. ASSUME NEW scope \in ClearScopes, MemoryClear(scope) \/ SqliteClear(scope) \/ PostgresClear(scope)
      PROVE  CacheInv'
  BY <1>2, ClearNowStep DEF MemoryClear, SqliteClear, PostgresClear
<1>3. CASE CacheNext
  BY <1>2, <1>3, PrefetchStep, FillStep, EndStep, ExecuteStep, ClearListStep, RedisClearStep, EvictStep,
     CacheTickStep
     DEF CacheNext
<1> QED BY <1>1, <1>3

-----------------------------------------------------------------------------
\* A live entry disappears only by Clear.
LEMMA LiveEntryStep ==
    ASSUME CacheInv, CacheNext, NEW k \in CacheKeys, LiveEntry(k), entries'[k].val = 0
    PROVE  cleared' # cleared \/ clear' # clear
<1>0. entries[k].val # 0 /\ ~EntryExpired(entries[k]) /\ entries'[k] # entries[k]
  BY DEF LiveEntry
<1>1. ASSUME NEW r \in CacheRuns, Prefetch(r) PROVE FALSE
  <2>1. \E ks \in SUBSET CacheKeys : entries' = entries \/ entries' = WithoutEntries(DeadEntries(ks))
    BY <1>1 DEF Prefetch, MemoryGet, SqliteGet, PostgresGet, RedisGet
  <2> QED BY <1>0, <2>1 DEF WithoutEntries, DeadEntries
<1>2. ASSUME NEW r \in CacheRuns, Fill(r) \/ FillFailed(r) PROVE FALSE
  <2>1. cacheRun[r].at = "running" /\ FillCache(r)
    BY <1>2 DEF Fill, FillFailed
  <2>2. Pending(r, k) => entries'[k].val = cacheRun[r].hits[k]
    BY <2>1, FillEffect
  <2>3. ~Pending(r, k) => entries'[k] = entries[k]
    BY <2>1, FillEffect
  <2> QED BY <1>0, <2>2, <2>3 DEF Pending
<1>3. ASSUME NEW r \in CacheRuns, CommitStep(r) \/ CrashStep(r) \/ \E x \in CacheKeys : ExecuteTask(r, x)
      PROVE  FALSE
  BY <1>0, <1>3 DEF CommitStep, CrashStep, ExecuteTask
<1>4. ASSUME NEW scope \in ClearScopes, NEW store, store # "redis", ClearNow(store, scope)
      PROVE  cleared' # cleared
  <2>1. cacheKind # "redis" /\ entries' = WithoutEntries({x \in CacheKeys : NodeOf[x] \in scope})
        /\ cleared' = cleared \cup DueValues(scope)
    BY <1>4 DEF ClearNow
  <2>2. NodeOf[k] \in scope
    BY <1>0, <2>1 DEF WithoutEntries
  <2>3. entries[k].val \in DueValues(scope)
    BY <1>0, <2>2, DueOf
  <2>4. entries[k].val \notin cleared
    BY <2>1 DEF CacheInv, ClearedGone, OrphanEntry
  <2> QED BY <2>1, <2>3, <2>4
<1>5. ASSUME NEW scope \in ClearScopes, RedisClearList(scope) PROVE FALSE
  BY <1>0, <1>5 DEF RedisClearList
<1>6. ASSUME RedisClear PROVE clear' # clear
  BY <1>6 DEF RedisClear, IdleClear
<1>7. ASSUME PostgresEvict PROVE FALSE
  <2>1. k = evicting.key /\ entries[k].exp > 0 /\ entries[k].exp <= evicting.at
    BY <1>0, <1>7 DEF PostgresEvict, WithoutEntries
  <2>2. evicting.at <= cacheTime /\ evicting.at \in Nat
    BY <1>7 DEF PostgresEvict, CacheInv, EvictionPast
  <2> QED BY <1>0, <2>1, <2>2 DEF EntryExpired, CacheInv, CacheTypeOK, Entries
<1>8. ASSUME CacheTick PROVE FALSE
  BY <1>0, <1>8 DEF CacheTick
<1> QED BY <1>1, <1>2, <1>3, <1>4, <1>5, <1>6, <1>7, <1>8
           DEF CacheNext, MemoryClear, SqliteClear, PostgresClear

\* A lookup returns no cleared value, but for one without a name.
LEMMA LookupStep ==
    ASSUME CacheInv, CacheNext, NEW r \in CacheRuns, NEW k \in CacheKeys,
           cacheRun[r].at = "idle", cacheRun'[r].at = "running", cacheRun'[r].hits[k] \in cleared
    PROVE  OrphanEntry(k)
<1>0. cacheRun \in [CacheRuns -> StepStates] /\ 0 \notin cleared
  BY DEF CacheInv, CacheTypeOK, ValuesKnown
<1>1. Prefetch(r)
  <2>1. ASSUME NEW q \in CacheRuns, Fill(q) \/ FillFailed(q) \/ CommitStep(q) \/ CrashStep(q) PROVE FALSE
    BY <1>0, <2>1 DEF Fill, FillFailed, CommitStep, CrashStep, IdleStep
  <2>2. ASSUME NEW q \in CacheRuns, NEW x \in CacheKeys, ExecuteTask(q, x) PROVE FALSE
    BY <1>0, <2>2 DEF ExecuteTask, StepStates
  <2>3. ASSUME NEW q \in CacheRuns, Prefetch(q) PROVE q = r
    BY <1>0, <2>3 DEF Prefetch
  <2>4. UNCHANGED cacheRun => FALSE
    OBVIOUS
  <2>5. (\E scope \in ClearScopes :
           MemoryClear(scope) \/ SqliteClear(scope) \/ PostgresClear(scope) \/ RedisClearList(scope))
         \/ RedisClear \/ PostgresEvict \/ CacheTick => UNCHANGED cacheRun
    BY DEF MemoryClear, SqliteClear, PostgresClear, ClearNow, RedisClearList, RedisClear, PostgresEvict,
       CacheTick
  <2> QED BY <2>1, <2>2, <2>3, <2>4, <2>5 DEF CacheNext
<1>2. PICK ks \in SUBSET CacheKeys : cacheRun' = [cacheRun EXCEPT ![r] = [at |-> "running",
          hits |-> FoundValues(ks)]]
  BY <1>1 DEF Prefetch
<1>3. cacheRun'[r].hits[k] = FoundValues(ks)[k]
  BY <1>0, <1>2
<1>4. cacheRun'[r].hits[k] \in {0, entries[k].val}
  BY <1>3 DEF FoundValues
<1> QED BY <1>0, <1>4 DEF CacheInv, ClearedGone

\* The caches are honest, for every store behind them and any number of runs, keys,
\* nodes and times to live (Get, Set and Clear of the stores).
THEOREM CachesHonest == CacheSpec => CacheHonest
<1>1. CacheInv /\ [CacheNext]_cacheVars =>
        [/\ \A k \in CacheKeys :
              LiveEntry(k) /\ entries'[k].val = 0 => cleared' # cleared \/ clear' # clear
         /\ \A r \in CacheRuns, k \in CacheKeys :
              cacheRun[r].at = "idle" /\ cacheRun'[r].at = "running" /\ cacheRun'[r].hits[k] \in cleared
                => OrphanEntry(k)]_cacheVars
  BY LiveEntryStep, LookupStep
<1> QED BY CacheInitInv, CacheNextKeeps, <1>1, PTL DEF CacheSpec, CacheHonest

-----------------------------------------------------------------------------
(***************************************************************************)
(* IndexedStore: the index follows the base store.                         *)
(***************************************************************************)
Docs == Documents \cup {NoDocument}
Intent == [id: Nat, key: IndexKeys, val: Docs, doc: Docs]
IndexCall == [at: {"idle", "base", "delete", "upsert", "ack", "inspect", "repair", "settle", "sweep",
                   "clean"},
              writes: Seq(FinalWrite), ids: SUBSET Nat, todo: SUBSET Intent]

IndexTypeOK ==
    /\ truth \in [IndexKeys -> Docs] /\ want \in [IndexKeys -> Docs] /\ index \in [IndexKeys -> Docs]
    /\ outbox \subseteq Intent /\ sequence \in Nat
    /\ exposed \subseteq IndexKeys
    /\ call \in IndexCall

\* Intents are numbered apart, up to the last number.
OutboxOK ==
    /\ \A m \in outbox : m.id <= sequence
    /\ \A m, n \in outbox : m.id = n.id => m = n

\* An intent whose repair brings the index of its key up to date.
Repairs(m, k) == m.key = k /\ (truth[k] = NoDocument \/ (m.val = truth[k] /\ m.doc = want[k]))
\* The intents that the next step of the call does not remove.
Spared ==
    {m \in outbox : /\ call.at \in {"base", "ack"} => m.id \notin call.ids
                    /\ call.at = "settle" => ~Oldest(m)}
\* The index of a key is up to date, or an intent that is left will bring it up to date.
Cared(k) == index[k] = want[k] \/ \E m \in Spared : Repairs(m, k)

\* What a call has done for the keys that it writes.
CallKeeps(k) ==
    /\ call.at = "base" =>
           \E m \in outbox : /\ m.key = k /\ m.val = Written(call.writes, k).val
                             /\ m.doc = Document(Written(call.writes, k))
    /\ call.at \in {"delete", "upsert"} =>
           /\ want[k] = Document(Written(call.writes, k))
           /\ \E m \in outbox : Repairs(m, k)
    /\ call.at \in {"sweep", "clean"} => truth[k] = NoDocument
    /\ call.at = "clean" => \E m \in outbox : Repairs(m, k)

CallOK ==
    /\ call.at = "idle" <=> call = NoIndexCall
    /\ call.at \in {"inspect", "repair", "settle"} => call.todo \subseteq outbox /\ call.writes = <<>>
    /\ call.at = "repair" =>
           \A m \in call.todo : Oldest(m) => Matches(m) /\ (m.key \in exposed \/ m.doc = want[m.key])
    /\ call.at \in {"base", "delete", "upsert", "clean", "ack"} =>
           \A m \in outbox : m.id \in call.ids => m.key \in KeysOf(call.writes)
    /\ \A k \in KeysOf(call.writes) : CallKeeps(k)

IndexInv ==
    /\ IndexTypeOK
    /\ OutboxOK
    /\ \A k \in IndexKeys : truth[k] = NoDocument => want[k] = NoDocument
    /\ CallOK
    /\ \A k \in IndexKeys \ exposed : Cared(k)

\* The write of a key is one of the writes.
LEMMA WrittenFacts ==
    ASSUME NEW ws \in Seq(FinalWrite), NEW k \in KeysOf(ws)
    PROVE  /\ k \in IndexKeys
           /\ \E i \in DOMAIN ws : ws[i] = Written(ws, k) /\ ws[i].key = k
           /\ Written(ws, k) \in FinalWrite /\ Written(ws, k).key = k
           /\ Written(ws, k).val \in Docs /\ Document(Written(ws, k)) \in Docs
           /\ Written(ws, k).val = NoDocument => Document(Written(ws, k)) = NoDocument
<1>1. PICK i \in DOMAIN ws : i = CHOOSE j \in DOMAIN ws : ws[j].key = k
  BY DEF KeysOf
<1>2. ws[i].key = k /\ Written(ws, k) = ws[i]
  BY <1>1 DEF KeysOf, Written
<1>3. ws[i] \in FinalWrite
  OBVIOUS
<1>4. /\ Written(ws, k).val \in Docs /\ Document(Written(ws, k)) \in Docs
      /\ Written(ws, k).val = NoDocument => Document(Written(ws, k)) = NoDocument
  BY <1>2, <1>3 DEF Document, FinalWrite, Docs
<1>5. k \in IndexKeys
  BY <1>2, <1>3 DEF FinalWrite
<1> QED BY <1>2, <1>3, <1>4, <1>5

\* The keys of writes are keys.
LEMMA KeysTyped == ASSUME NEW ws \in Seq(FinalWrite) PROVE KeysOf(ws) \subseteq IndexKeys
BY WrittenFacts

\* No write, no key.
LEMMA NoKeys == KeysOf(<<>>) = {}
BY DEF KeysOf

\* A call that is not running, and the fields of a running one.
LEMMA IdleCall ==
    /\ NoIndexCall \in IndexCall
    /\ NoIndexCall.at = "idle" /\ NoIndexCall.writes = <<>> /\ NoIndexCall.ids = {}
    /\ NoIndexCall.todo = {}
BY DEF NoIndexCall, IndexCall

\* Every call that ends leaves the invariant to what is in the outbox.
LEMMA CallEnds ==
    ASSUME IndexTypeOK', OutboxOK', call' = NoIndexCall,
           \A k \in IndexKeys : truth'[k] = NoDocument => want'[k] = NoDocument,
           \A k \in IndexKeys \ exposed' : index'[k] = want'[k] \/ \E m \in outbox' : Repairs(m, k)'
    PROVE  IndexInv'
<1>1. call'.at = "idle" /\ KeysOf(call'.writes) = {}
  BY IdleCall, NoKeys
<1>2. CallOK'
  BY <1>1 DEF CallOK
<1>3. Spared' = outbox'
  BY <1>1 DEF Spared
<1>4. \A k \in IndexKeys \ exposed' : Cared(k)'
  BY <1>3 DEF Cared
<1> QED BY <1>2, <1>4 DEF IndexInv

\* The initial state.
LEMMA IndexStart == IndexInit => IndexInv
<1> SUFFICES ASSUME IndexInit PROVE IndexInv
  OBVIOUS
<1>1. IndexTypeOK
  <2>1. truth \in [IndexKeys -> Docs] /\ want \in [IndexKeys -> Docs] /\ index \in [IndexKeys -> Docs]
    BY DEF IndexInit, Docs
  <2> QED BY <2>1, IdleCall DEF IndexInit, IndexTypeOK
<1>2. call.at = "idle" /\ KeysOf(call.writes) = {} /\ call = NoIndexCall
  BY IdleCall, NoKeys DEF IndexInit
<1>3. CallOK
  BY <1>2 DEF CallOK
<1>4. \A k \in IndexKeys : index[k] = want[k] /\ want[k] = NoDocument
  BY DEF IndexInit
<1> QED BY <1>1, <1>3, <1>4 DEF IndexInv, IndexInit, OutboxOK, Cared

\* The intents of new writes: numbered after the ones before them.
LEMMA EnqueueAdds ==
    ASSUME IndexTypeOK, OutboxOK, NEW ws \in Seq(FinalWrite), Enqueue(ws)
    PROVE  /\ outbox' \subseteq Intent /\ sequence' \in Nat /\ OutboxOK'
           /\ EnqueuedIDs(ws) \subseteq Nat
           /\ outbox \subseteq outbox'
           /\ \A m \in outbox : m.id \notin EnqueuedIDs(ws)
           /\ \A m \in outbox' : m.id \in EnqueuedIDs(ws) => m.key \in KeysOf(ws)
           /\ \A k \in KeysOf(ws) : \E m \in outbox' : /\ m.key = k /\ m.val = Written(ws, k).val
                                                       /\ m.doc = Document(Written(ws, k))
<1>1. /\ Len(ws) \in Nat /\ DOMAIN ws = 1 .. Len(ws) /\ sequence \in Nat /\ outbox \subseteq Intent
      /\ \A i \in DOMAIN ws : ws[i] \in FinalWrite
  BY DEF IndexTypeOK
<1>2. outbox' = outbox \cup Enqueued(ws) /\ sequence' = sequence + Len(ws)
  BY DEF Enqueue
<1>3. ASSUME NEW i \in DOMAIN ws
      PROVE  /\ Mutation(ws[i], sequence + i) \in Intent
             /\ Mutation(ws[i], sequence + i).id = sequence + i
             /\ Mutation(ws[i], sequence + i).key = ws[i].key
             /\ Mutation(ws[i], sequence + i).val = ws[i].val
             /\ Mutation(ws[i], sequence + i).doc = Document(ws[i])
  <2>1. ws[i] \in FinalWrite /\ sequence + i \in Nat
    BY <1>1
  <2>2. ws[i].key \in IndexKeys /\ ws[i].val \in Docs /\ Document(ws[i]) \in Docs
    BY <2>1 DEF FinalWrite, Docs, Document
  <2> QED BY <2>1, <2>2 DEF Mutation, Intent
<1>4. ASSUME NEW m \in Enqueued(ws)
      PROVE  \E i \in DOMAIN ws : m = Mutation(ws[i], sequence + i)
  BY DEF Enqueued
<1>5. outbox' \subseteq Intent
  BY <1>1, <1>2, <1>3, <1>4
<1>6. \A m \in outbox : m.id \in Nat /\ m.id <= sequence
  BY <1>1 DEF OutboxOK, Intent
<1>7. ASSUME NEW m \in Enqueued(ws)
      PROVE  m.id \in Nat /\ m.id > sequence /\ m.id <= sequence + Len(ws) /\ m.key \in KeysOf(ws)
  BY <1>1, <1>3, <1>4 DEF KeysOf
<1>8. ASSUME NEW m \in Enqueued(ws), NEW n \in Enqueued(ws), m.id = n.id PROVE m = n
  <2>1. PICK i \in DOMAIN ws : m = Mutation(ws[i], sequence + i)
    BY <1>4
  <2>2. PICK j \in DOMAIN ws : n = Mutation(ws[j], sequence + j)
    BY <1>4
  <2>3. i = j
    BY <1>1, <1>3, <1>8, <2>1, <2>2
  <2> QED BY <2>1, <2>2, <2>3
<1>9. OutboxOK'
  <2>1. ASSUME NEW m \in outbox' PROVE m.id <= sequence'
    BY <1>1, <1>2, <1>6, <1>7
  <2>2. ASSUME NEW m \in outbox', NEW n \in outbox', m.id = n.id PROVE m = n
    <3>1. m \in outbox /\ n \in outbox => m = n
      BY <2>2 DEF OutboxOK
    <3>2. m \in outbox <=> n \in outbox
      BY <1>1, <1>2, <1>6, <1>7, <2>2
    <3> QED BY <1>2, <1>8, <2>2, <3>1, <3>2
  <2> QED BY <2>1, <2>2 DEF OutboxOK
<1>10. \A m \in outbox : m.id \notin EnqueuedIDs(ws)
  BY <1>1, <1>6 DEF EnqueuedIDs
<1>11. \A m \in outbox' : m.id \in EnqueuedIDs(ws) => m.key \in KeysOf(ws)
  BY <1>2, <1>7, <1>10
<1>12. ASSUME NEW k \in KeysOf(ws)
       PROVE  \E m \in outbox' : /\ m.key = k /\ m.val = Written(ws, k).val
                                 /\ m.doc = Document(Written(ws, k))
  <2>1. PICK i \in DOMAIN ws : ws[i] = Written(ws, k) /\ ws[i].key = k
    BY WrittenFacts
  <2>2. Mutation(ws[i], sequence + i) \in outbox'
    BY <1>2 DEF Enqueued
  <2> QED BY <1>3, <2>1, <2>2
<1>13. EnqueuedIDs(ws) \subseteq Nat /\ sequence' \in Nat
  BY <1>1, <1>2 DEF EnqueuedIDs
<1> QED BY <1>2, <1>5, <1>9, <1>10, <1>11, <1>12, <1>13

\* Acknowledging keeps the numbers apart.
LEMMA AckedFacts ==
    ASSUME IndexTypeOK, OutboxOK, NEW gone, outbox' = Acked(gone), sequence' = sequence
    PROVE  /\ outbox' \subseteq Intent /\ sequence' \in Nat /\ OutboxOK'
           /\ outbox' = {m \in outbox : m.id \notin gone}
<1>1. outbox' = {m \in outbox : m.id \notin gone}
  BY DEF Acked
<1> QED BY <1>1 DEF IndexTypeOK, OutboxOK

\* A batch records its intents: the ones before them are still to be repaired.
LEMMA BatchEnqueueKeeps == ASSUME IndexInv, NEW ws \in IndexBatches, BatchEnqueue(ws) PROVE IndexInv'
<1>1. /\ IndexTypeOK /\ OutboxOK /\ ws \in Seq(FinalWrite) /\ Enqueue(ws) /\ call = NoIndexCall
      /\ UNCHANGED <<truth, want, index, exposed>>
      /\ call' = [NoIndexCall EXCEPT !.at = "base", !.writes = ws, !.ids = EnqueuedIDs(ws)]
  BY IndexAssumption DEF IndexInv, BatchEnqueue
<1>2. /\ outbox' \subseteq Intent /\ sequence' \in Nat /\ OutboxOK'
      /\ EnqueuedIDs(ws) \subseteq Nat /\ outbox \subseteq outbox'
      /\ \A m \in outbox : m.id \notin EnqueuedIDs(ws)
      /\ \A m \in outbox' : m.id \in EnqueuedIDs(ws) => m.key \in KeysOf(ws)
      /\ \A k \in KeysOf(ws) : \E m \in outbox' : /\ m.key = k /\ m.val = Written(ws, k).val
                                                  /\ m.doc = Document(Written(ws, k))
  BY <1>1, EnqueueAdds
<1>3. call' = [at |-> "base", writes |-> ws, ids |-> EnqueuedIDs(ws), todo |-> {}]
  BY <1>1 DEF NoIndexCall
<1>4. call'.at = "base" /\ call'.writes = ws /\ call'.ids = EnqueuedIDs(ws) /\ call' # NoIndexCall
  BY <1>3, IdleCall
<1>5. IndexTypeOK'
  <2>1. call' \in IndexCall
    BY <1>1, <1>2, <1>3 DEF IndexCall
  <2> QED BY <1>1, <1>2, <2>1 DEF IndexTypeOK
<1>6. CallOK'
  BY <1>2, <1>4 DEF CallOK, CallKeeps
<1>7. ASSUME NEW k \in IndexKeys \ exposed' PROVE Cared(k)'
  <2>1. Cared(k)
    BY <1>1 DEF IndexInv
  <2>2. \A m \in Spared : m \in Spared'
    BY <1>2, <1>4 DEF Spared
  <2>3. \A m : Repairs(m, k) => Repairs(m, k)'
    BY <1>1 DEF Repairs
  <2> QED BY <1>1, <2>1, <2>2, <2>3 DEF Cared
<1> QED BY <1>1, <1>2, <1>5, <1>6, <1>7 DEF IndexInv

\* The base store commits: every written key has its intent in the outbox.
LEMMA CommitFacts ==
    ASSUME IndexInv, CommitBase(call.writes)
    PROVE  /\ truth' \in [IndexKeys -> Docs] /\ want' \in [IndexKeys -> Docs]
           /\ \A k \in IndexKeys : truth'[k] = NoDocument => want'[k] = NoDocument
           /\ KeysOf(call.writes) \subseteq IndexKeys
           /\ \A k \in KeysOf(call.writes) : /\ truth'[k] = Written(call.writes, k).val
                                             /\ want'[k] = Document(Written(call.writes, k))
           /\ \A k \in IndexKeys \ KeysOf(call.writes) : truth'[k] = truth[k] /\ want'[k] = want[k]
<1>1. call.writes \in Seq(FinalWrite) /\ truth \in [IndexKeys -> Docs] /\ want \in [IndexKeys -> Docs]
  BY DEF IndexInv, IndexTypeOK, IndexCall
<1>2. KeysOf(call.writes) \subseteq IndexKeys
  BY <1>1, KeysTyped
<1>3. \A k \in KeysOf(call.writes) : /\ Written(call.writes, k).val \in Docs
                                     /\ Document(Written(call.writes, k)) \in Docs
                                     /\ Written(call.writes, k).val = NoDocument
                                            => Document(Written(call.writes, k)) = NoDocument
  BY <1>1, WrittenFacts
<1>4. \A k \in IndexKeys : truth[k] = NoDocument => want[k] = NoDocument
  BY DEF IndexInv
<1>5. /\ truth' = [k \in IndexKeys |-> IF k \in KeysOf(call.writes) THEN Written(call.writes, k).val
                                       ELSE truth[k]]
      /\ want' = [k \in IndexKeys |-> IF k \in KeysOf(call.writes)
             THEN Document(Written(call.writes, k)) ELSE want[k]]
  BY DEF CommitBase
<1> QED BY <1>1, <1>2, <1>3, <1>4, <1>5

\* The base store has committed the batch: its intents say what the index is to hold.
LEMMA BatchBaseKeeps == ASSUME IndexInv, BatchBase PROVE IndexInv'
<1>1. /\ IndexTypeOK /\ OutboxOK /\ call \in IndexCall /\ call.at = "base" /\ CommitBase(call.writes)
      /\ call' = [call EXCEPT !.at = "delete"] /\ exposed' = exposed \ KeysOf(call.writes)
      /\ UNCHANGED <<index, outbox, sequence>>
  BY DEF IndexInv, IndexTypeOK, BatchBase
<1>2. /\ truth' \in [IndexKeys -> Docs] /\ want' \in [IndexKeys -> Docs]
      /\ \A k \in IndexKeys : truth'[k] = NoDocument => want'[k] = NoDocument
      /\ KeysOf(call.writes) \subseteq IndexKeys
      /\ \A k \in KeysOf(call.writes) : /\ truth'[k] = Written(call.writes, k).val
                                        /\ want'[k] = Document(Written(call.writes, k))
      /\ \A k \in IndexKeys \ KeysOf(call.writes) : truth'[k] = truth[k] /\ want'[k] = want[k]
  BY <1>1, CommitFacts
<1>3. /\ call' \in IndexCall /\ call'.at = "delete" /\ call'.writes = call.writes /\ call'.ids = call.ids
      /\ call' # NoIndexCall
  BY <1>1, IdleCall DEF IndexCall
<1>4. IndexTypeOK'
  BY <1>1, <1>2, <1>3 DEF IndexTypeOK
<1>5. OutboxOK'
  BY <1>1 DEF OutboxOK
<1>6. ASSUME NEW k \in KeysOf(call.writes)
      PROVE  \E m \in outbox : Repairs(m, k)'
  <2>1. CallKeeps(k)
    BY DEF IndexInv, CallOK
  <2>2. PICK m \in outbox : /\ m.key = k /\ m.val = Written(call.writes, k).val
                            /\ m.doc = Document(Written(call.writes, k))
    BY <1>1, <2>1 DEF CallKeeps
  <2>3. Repairs(m, k)'
    BY <1>2, <2>2 DEF Repairs
  <2> QED BY <2>3
<1>7. CallOK'
  <2>1. \A m \in outbox : m.id \in call.ids => m.key \in KeysOf(call.writes)
    BY <1>1 DEF IndexInv, CallOK
  <2>2. ASSUME NEW k \in KeysOf(call.writes) PROVE CallKeeps(k)'
    BY <1>1, <1>2, <1>3, <1>6 DEF CallKeeps
  <2> QED BY <1>1, <1>3, <2>1, <2>2 DEF CallOK
<1>8. ASSUME NEW k \in IndexKeys \ exposed' PROVE Cared(k)'
  <2>0. Spared' = outbox
    BY <1>1, <1>3 DEF Spared
  <2>1. CASE k \in KeysOf(call.writes)
    BY <1>6, <2>0, <2>1 DEF Cared
  <2>2. CASE k \notin KeysOf(call.writes)
    <3>1. Cared(k)
      BY <1>1, <2>2 DEF IndexInv
    <3>2. \A m : Repairs(m, k) => Repairs(m, k)'
      BY <1>2, <2>2 DEF Repairs
    <3>3. Spared \subseteq outbox
      BY DEF Spared
    <3> QED BY <1>1, <1>2, <2>0, <2>2, <3>1, <3>2, <3>3 DEF Cared
  <2> QED BY <2>1, <2>2
<1> QED BY <1>2, <1>4, <1>5, <1>7, <1>8 DEF IndexInv

\* The base store fails: its intents go, and with them the keys of a hidden commit.
LEMMA BatchFailedKeeps == ASSUME IndexInv, BatchFailed PROVE IndexInv'
<1>1. /\ IndexTypeOK /\ OutboxOK /\ call \in IndexCall /\ call.at = "base"
      /\ outbox' = Acked(call.ids) /\ call' = NoIndexCall
      /\ UNCHANGED <<index, sequence>>
  BY DEF IndexInv, IndexTypeOK, BatchFailed
<1>2. /\ outbox' \subseteq Intent /\ sequence' \in Nat /\ OutboxOK'
      /\ outbox' = {m \in outbox : m.id \notin call.ids}
  BY <1>1, AckedFacts
<1>3. Spared = outbox'
  BY <1>1, <1>2 DEF Spared
<1>4. CASE UNCHANGED <<truth, want, exposed>>
  <2>1. IndexTypeOK'
    BY <1>1, <1>2, <1>4, IdleCall DEF IndexTypeOK
  <2>2. ASSUME NEW k \in IndexKeys \ exposed'
        PROVE  index'[k] = want'[k] \/ \E m \in outbox' : Repairs(m, k)'
    <3>1. Cared(k)
      BY <1>4 DEF IndexInv
    <3>2. \A m : Repairs(m, k) => Repairs(m, k)'
      BY <1>4 DEF Repairs
    <3> QED BY <1>1, <1>3, <1>4, <3>1, <3>2 DEF Cared
  <2>3. \A k \in IndexKeys : truth'[k] = NoDocument => want'[k] = NoDocument
    BY <1>4 DEF IndexInv
  <2> QED BY <1>1, <1>2, <2>1, <2>2, <2>3, CallEnds
<1>5. CASE CommitBase(call.writes) /\ exposed' = exposed \cup KeysOf(call.writes)
  <2>0. /\ truth' \in [IndexKeys -> Docs] /\ want' \in [IndexKeys -> Docs]
        /\ \A k \in IndexKeys : truth'[k] = NoDocument => want'[k] = NoDocument
        /\ KeysOf(call.writes) \subseteq IndexKeys
        /\ \A k \in IndexKeys \ KeysOf(call.writes) : truth'[k] = truth[k] /\ want'[k] = want[k]
    BY <1>5, CommitFacts
  <2>1. IndexTypeOK'
    BY <1>1, <1>2, <1>5, <2>0, IdleCall DEF IndexTypeOK
  <2>2. ASSUME NEW k \in IndexKeys \ exposed'
        PROVE  index'[k] = want'[k] \/ \E m \in outbox' : Repairs(m, k)'
    <3>1. Cared(k) /\ k \notin KeysOf(call.writes)
      BY <1>5 DEF IndexInv
    <3>2. \A m : Repairs(m, k) => Repairs(m, k)'
      BY <2>0, <3>1 DEF Repairs
    <3> QED BY <1>1, <1>3, <2>0, <3>1, <3>2 DEF Cared
  <2> QED BY <1>1, <1>2, <2>0, <2>1, <2>2, CallEnds
<1> QED BY <1>4, <1>5 DEF BatchFailed

\* synchronize: the deletion is repaired by the intents of the call.
LEMMA DeletedTyped ==
    ASSUME index \in [IndexKeys -> Docs], NEW ks, index' = VectorDelete(ks)
    PROVE  /\ index' \in [IndexKeys -> Docs]
           /\ \A k \in IndexKeys : index'[k] = IF k \in ks THEN NoDocument ELSE index[k]
BY DEF VectorDelete, Docs

\* synchronize removes the old documents: the intents of the call still name them.
LEMMA SynchronizeDeleteKeeps == ASSUME IndexInv, SynchronizeDelete PROVE IndexInv'
<1>1. /\ IndexTypeOK /\ OutboxOK /\ call \in IndexCall /\ call.at = "delete"
      /\ index \in [IndexKeys -> Docs]
      /\ index' = VectorDelete(KeysOf(call.writes)) /\ call' = [call EXCEPT !.at = "upsert"]
      /\ UNCHANGED <<truth, want, outbox, sequence, exposed>>
  BY DEF IndexInv, IndexTypeOK, SynchronizeDelete
<1>2. /\ index' \in [IndexKeys -> Docs]
      /\ \A k \in IndexKeys : k \notin KeysOf(call.writes) => index'[k] = index[k]
  BY <1>1, DeletedTyped
<1>3. /\ call' \in IndexCall /\ call'.at = "upsert" /\ call'.writes = call.writes /\ call'.ids = call.ids
      /\ call' # NoIndexCall
  BY <1>1, IdleCall DEF IndexCall
<1>4. IndexTypeOK' /\ OutboxOK'
  BY <1>1, <1>2, <1>3 DEF IndexTypeOK, OutboxOK
<1>5. \A m, k : Repairs(m, k) => Repairs(m, k)'
  BY <1>1 DEF Repairs
<1>6. CallOK'
  <2>1. \A m \in outbox : m.id \in call.ids => m.key \in KeysOf(call.writes)
    BY <1>1 DEF IndexInv, CallOK
  <2>2. ASSUME NEW k \in KeysOf(call.writes) PROVE CallKeeps(k)'
    <3>1. CallKeeps(k)
      BY DEF IndexInv, CallOK
    <3> QED BY <1>1, <1>3, <1>5, <3>1 DEF CallKeeps
  <2> QED BY <1>1, <1>3, <2>1, <2>2 DEF CallOK
<1>7. Spared' = outbox /\ Spared = outbox
  BY <1>1, <1>3 DEF Spared
<1>8. ASSUME NEW k \in IndexKeys \ exposed' PROVE Cared(k)'
  <2>1. CASE k \in KeysOf(call.writes)
    <3>1. CallKeeps(k)
      BY <2>1 DEF IndexInv, CallOK
    <3> QED BY <1>1, <1>5, <1>7, <3>1 DEF CallKeeps, Cared
  <2>2. CASE k \notin KeysOf(call.writes)
    <3>1. Cared(k)
      BY <1>1 DEF IndexInv
    <3> QED BY <1>1, <1>2, <1>5, <1>7, <2>2, <3>1 DEF Cared
  <2> QED BY <2>1, <2>2
<1> QED BY <1>1, <1>4, <1>6, <1>8 DEF IndexInv

\* synchronize stores the new documents: every key of the call is up to date.
LEMMA SynchronizeKeeps == ASSUME IndexInv, Synchronize PROVE IndexInv'
<1>1. /\ IndexTypeOK /\ OutboxOK /\ call \in IndexCall /\ call.at = "upsert"
      /\ index \in [IndexKeys -> Docs]
      /\ call.writes \in Seq(FinalWrite)
      /\ index' = [k \in IndexKeys |-> IF k \in KeysOf(call.writes)
             THEN Document(Written(call.writes, k)) ELSE index[k]]
      /\ call' = [call EXCEPT !.at = "ack"]
      /\ UNCHANGED <<truth, want, outbox, sequence, exposed>>
  BY DEF IndexInv, IndexTypeOK, Synchronize, IndexCall
<1>2. \A k \in KeysOf(call.writes) : Document(Written(call.writes, k)) \in Docs
  BY <1>1, WrittenFacts
<1>3. /\ index' \in [IndexKeys -> Docs]
      /\ \A k \in IndexKeys : index'[k] = IF k \in KeysOf(call.writes)
             THEN Document(Written(call.writes, k)) ELSE index[k]
  BY <1>1, <1>2
<1>4. /\ call' \in IndexCall /\ call'.at = "ack" /\ call'.writes = call.writes /\ call'.ids = call.ids
      /\ call' # NoIndexCall
  BY <1>1, IdleCall DEF IndexCall
<1>5. IndexTypeOK' /\ OutboxOK'
  BY <1>1, <1>3, <1>4 DEF IndexTypeOK, OutboxOK
<1>6. \A m \in outbox : m.id \in call.ids => m.key \in KeysOf(call.writes)
  BY <1>1 DEF IndexInv, CallOK
<1>7. CallOK'
  BY <1>1, <1>4, <1>6 DEF CallOK, CallKeeps
<1>8. ASSUME NEW k \in IndexKeys \ exposed' PROVE Cared(k)'
  <2>1. CASE k \in KeysOf(call.writes)
    <3>1. CallKeeps(k)
      BY <2>1 DEF IndexInv, CallOK
    <3> QED BY <1>1, <1>3, <2>1, <3>1 DEF CallKeeps, Cared
  <2>2. CASE k \notin KeysOf(call.writes)
    <3>1. Cared(k)
      BY <1>1 DEF IndexInv
    <3>2. CASE index[k] = want[k]
      BY <1>1, <1>3, <2>2, <3>2 DEF Cared
    <3>3. ASSUME NEW m \in Spared, Repairs(m, k) PROVE m \in Spared' /\ Repairs(m, k)'
      BY <1>1, <1>4, <1>6, <2>2, <3>3 DEF Spared, Repairs
    <3> QED BY <3>1, <3>2, <3>3 DEF Cared
  <2> QED BY <2>1, <2>2
<1> QED BY <1>1, <1>5, <1>7, <1>8 DEF IndexInv

\* The intents of a finished call go; each key that it wrote is up to date.
LEMMA AckKeeps == ASSUME IndexInv, Ack PROVE IndexInv'
<1>1. /\ IndexTypeOK /\ OutboxOK /\ call \in IndexCall /\ call.at = "ack"
      /\ outbox' = Acked(call.ids) /\ call' = NoIndexCall
      /\ UNCHANGED <<truth, want, index, sequence, exposed>>
  BY DEF IndexInv, IndexTypeOK, Ack
<1>2. /\ outbox' \subseteq Intent /\ sequence' \in Nat /\ OutboxOK'
      /\ outbox' = {m \in outbox : m.id \notin call.ids}
  BY <1>1, AckedFacts
<1>3. Spared = outbox'
  BY <1>1, <1>2 DEF Spared
<1>4. IndexTypeOK'
  BY <1>1, <1>2, IdleCall DEF IndexTypeOK
<1>5. ASSUME NEW k \in IndexKeys \ exposed'
      PROVE  index'[k] = want'[k] \/ \E m \in outbox' : Repairs(m, k)'
  <2>1. Cared(k)
    BY <1>1 DEF IndexInv
  <2>2. \A m : Repairs(m, k) => Repairs(m, k)'
    BY <1>1 DEF Repairs
  <2> QED BY <1>1, <1>3, <2>1, <2>2 DEF Cared
<1>6. \A k \in IndexKeys : truth'[k] = NoDocument => want'[k] = NoDocument
  BY <1>1 DEF IndexInv
<1> QED BY <1>1, <1>2, <1>4, <1>5, <1>6, CallEnds

\* RepairPending lists intents that are in the outbox.
LEMMA RepairPendingKeeps == ASSUME IndexInv, NEW limit, RepairPending(limit) PROVE IndexInv'
<1>1. /\ IndexTypeOK /\ OutboxOK /\ call = NoIndexCall /\ outbox \subseteq Intent
      /\ UNCHANGED <<truth, want, index, outbox, sequence, exposed>>
  BY DEF IndexInv, IndexTypeOK, RepairPending
<1>2. PICK todo \in SUBSET outbox : call' = [at |-> "inspect", writes |-> <<>>, ids |-> {},
          todo |-> todo]
  BY <1>1 DEF RepairPending, NoIndexCall
<1>3. call'.at = "inspect" /\ call'.writes = <<>> /\ call'.todo \subseteq outbox /\ call' # NoIndexCall
  BY <1>2, IdleCall
<1>4. IndexTypeOK' /\ OutboxOK'
  <2>1. call' \in IndexCall
    BY <1>1, <1>2 DEF IndexCall
  <2> QED BY <1>1, <2>1 DEF IndexTypeOK, OutboxOK
<1>5. CallOK'
  BY <1>1, <1>3, NoKeys DEF CallOK
<1>6. Spared = outbox /\ Spared' = outbox
  BY <1>1, <1>3, IdleCall DEF Spared
<1>7. ASSUME NEW k \in IndexKeys \ exposed' PROVE Cared(k)'
  <2>1. Cared(k)
    BY <1>1 DEF IndexInv
  <2>2. \A m : Repairs(m, k) => Repairs(m, k)'
    BY <1>1 DEF Repairs
  <2> QED BY <1>1, <1>6, <2>1, <2>2 DEF Cared
<1> QED BY <1>1, <1>4, <1>5, <1>7 DEF IndexInv

\* A repair works on one intent of the outbox, the only one with the lowest number.
LEMMA OldestFacts ==
    ASSUME IndexInv, call.at \in {"inspect", "repair", "settle"}, NEW m, Oldest(m)
    PROVE  /\ m \in outbox /\ m \in Intent /\ m.key \in IndexKeys /\ m.val \in Docs /\ m.doc \in Docs
           /\ call.writes = <<>> /\ call.todo \subseteq outbox
           /\ \A n : Oldest(n) => n = m
<1>1. call.todo \subseteq outbox /\ outbox \subseteq Intent /\ call.writes = <<>>
  BY DEF IndexInv, IndexTypeOK, CallOK
<1>2. m \in call.todo /\ m \in outbox /\ m \in Intent
  BY <1>1 DEF Oldest
<1>3. m.id \in Nat /\ m.key \in IndexKeys /\ m.val \in Docs /\ m.doc \in Docs
  BY <1>2 DEF Intent
<1>4. ASSUME NEW n, Oldest(n) PROVE n = m
  <2>1. n \in call.todo /\ n \in outbox /\ n.id \in Nat
    BY <1>1, <1>4 DEF Oldest, Intent
  <2>2. n.id = m.id
    BY <1>2, <1>3, <1>4, <2>1 DEF Oldest
  <2> QED BY <1>2, <2>1, <2>2 DEF IndexInv, OutboxOK
<1> QED BY <1>1, <1>2, <1>3, <1>4

\* A repair that goes on: it keeps the outbox, and the key that it repairs is up to date,
\* or will be by the intent itself, or is cared for by another one.
LEMMA RepairGoesOn ==
    ASSUME IndexInv, call.at \in {"inspect", "repair"}, NEW m, Oldest(m),
           NEW at \in {"repair", "settle"}, call' = [call EXCEPT !.at = at],
           index' \in [IndexKeys -> Docs], \A k \in IndexKeys : k # m.key => index'[k] = index[k],
           UNCHANGED <<truth, want, outbox, sequence>>,
           exposed \subseteq exposed', exposed' \subseteq IndexKeys,
           at = "repair" => Matches(m) /\ (m.key \in exposed' \/ m.doc = want[m.key]),
           m.key \in IndexKeys \ exposed' => Cared(m.key)'
    PROVE  IndexInv'
<1>1. /\ IndexTypeOK /\ OutboxOK /\ call \in IndexCall
      /\ \A k \in IndexKeys : truth[k] = NoDocument => want[k] = NoDocument
  BY DEF IndexInv, IndexTypeOK
<1>2. /\ m \in outbox /\ call.writes = <<>> /\ call.todo \subseteq outbox
      /\ \A n : Oldest(n) => n = m
  BY OldestFacts
<1>3. /\ call' \in IndexCall /\ call'.at = at /\ call'.writes = call.writes /\ call'.todo = call.todo
      /\ call' # NoIndexCall /\ KeysOf(call'.writes) = {}
  BY <1>1, <1>2, IdleCall, NoKeys DEF IndexCall
<1>4. IndexTypeOK' /\ OutboxOK'
  BY <1>1, <1>3 DEF IndexTypeOK, OutboxOK
<1>5. \A n : Oldest(n)' => n = m
  BY <1>2, <1>3 DEF Oldest
<1>6. CallOK'
  <2>1. at = "repair" => \A n \in call'.todo : Oldest(n)' => Matches(n)'
          /\ (n.key \in exposed' \/ n.doc = want'[n.key])
    BY <1>5 DEF Matches
  <2> QED BY <1>2, <1>3, <2>1 DEF CallOK
<1>7. ASSUME NEW k \in IndexKeys \ exposed' PROVE Cared(k)'
  <2>1. CASE k # m.key
    <3>1. Cared(k)
      BY DEF IndexInv
    <3>2. ASSUME NEW n \in Spared, Repairs(n, k) PROVE n \in Spared' /\ Repairs(n, k)'
      BY <1>3, <1>5, <2>1, <3>2 DEF Spared, Repairs
    <3> QED BY <2>1, <3>1, <3>2 DEF Cared
  <2> QED BY <2>1
<1> QED BY <1>1, <1>4, <1>6, <1>7 DEF IndexInv

\* The inspection: an intent that no longer describes its item is not the one that cares for it.
LEMMA RepairInspectKeeps == ASSUME IndexInv, NEW m, RepairInspect(m) PROVE IndexInv'
<1>1. /\ IndexTypeOK /\ call \in IndexCall /\ call.at = "inspect" /\ Oldest(m)
      /\ index \in [IndexKeys -> Docs]
      /\ exposed \subseteq IndexKeys
      /\ UNCHANGED <<truth, want, outbox, sequence>>
      /\ exposed' = IF m.val = truth[m.key] /\ m.doc # want[m.key] THEN exposed \cup {m.key} ELSE exposed
  BY DEF IndexInv, IndexTypeOK, RepairInspect
<1>2. /\ m \in outbox /\ m.key \in IndexKeys
      /\ \A n : Oldest(n) => n = m
  BY <1>1, OldestFacts
<1>3. exposed \subseteq exposed' /\ exposed' \subseteq IndexKeys
  BY <1>1, <1>2
<1>4. truth[m.key] = NoDocument => want[m.key] = NoDocument
  BY <1>2 DEF IndexInv
<1>5. CASE Matches(m) \/ truth[m.key] = NoDocument
  <2>1. /\ index' = VectorDelete({m.key})
        /\ call' = [call EXCEPT !.at = IF Matches(m) /\ m.doc # NoDocument THEN "repair" ELSE "settle"]
    BY <1>5 DEF RepairInspect
  <2>2. /\ index' \in [IndexKeys -> Docs] /\ index'[m.key] = NoDocument
        /\ \A k \in IndexKeys : k # m.key => index'[k] = index[k]
    BY <1>1, <1>2, <2>1, DeletedTyped
  <2>3. CASE Matches(m) /\ m.doc # NoDocument
    <3>1. call' = [call EXCEPT !.at = "repair"]
      BY <2>1, <2>3
    <3>2. m.key \in exposed' \/ m.doc = want[m.key]
      BY <1>1, <2>3 DEF Matches
    <3>3. ASSUME m.key \in IndexKeys \ exposed' PROVE Cared(m.key)'
      <4>1. call'.at = "repair"
        BY <1>1, <3>1 DEF IndexCall
      <4>2. m \in Spared'
        BY <1>1, <1>2, <4>1 DEF Spared
      <4>3. Repairs(m, m.key)'
        BY <1>1, <2>3, <3>2, <3>3 DEF Repairs, Matches
      <4> QED BY <4>2, <4>3 DEF Cared
    <3> QED BY <1>1, <1>3, <2>2, <2>3, <3>1, <3>2, <3>3, RepairGoesOn
  <2>4. CASE ~(Matches(m) /\ m.doc # NoDocument)
    <3>1. call' = [call EXCEPT !.at = "settle"]
      BY <2>1, <2>4
    <3>2. ASSUME m.key \in IndexKeys \ exposed' PROVE Cared(m.key)'
      <4>1. want[m.key] = NoDocument
        BY <1>1, <1>4, <1>5, <2>4, <3>2 DEF Matches
      <4> QED BY <1>1, <2>2, <4>1 DEF Cared
    <3> QED BY <1>1, <1>3, <2>2, <3>1, <3>2, RepairGoesOn
  <2> QED BY <2>3, <2>4
<1>6. CASE ~(Matches(m) \/ truth[m.key] = NoDocument)
  <2>1. index' = index /\ call' = [call EXCEPT !.at = "settle"]
    BY <1>6 DEF RepairInspect
  <2>2. ASSUME m.key \in IndexKeys \ exposed' PROVE Cared(m.key)'
    <3>1. Cared(m.key)
      BY <1>3, <2>2 DEF IndexInv
    <3>2. /\ call'.at = "settle" /\ call'.todo = call.todo
      BY <1>1, <2>1 DEF IndexCall
    <3>3. ASSUME NEW n \in Spared, Repairs(n, m.key) PROVE n \in Spared' /\ Repairs(n, m.key)'
      <4>1. n # m /\ Repairs(n, m.key)'
        BY <1>1, <1>6, <3>3 DEF Repairs, Matches
      <4>2. ~Oldest(n)'
        BY <1>2, <3>2, <4>1 DEF Oldest
      <4> QED BY <1>1, <3>2, <3>3, <4>1, <4>2 DEF Spared
    <3> QED BY <1>1, <2>1, <3>1, <3>3 DEF Cared
  <2> QED BY <1>1, <1>3, <2>1, <2>2, RepairGoesOn
<1> QED BY <1>5, <1>6

\* The upsert brings the key up to date.
LEMMA RepairUpsertKeeps == ASSUME IndexInv, NEW m, RepairUpsert(m) PROVE IndexInv'
<1>1. /\ IndexTypeOK /\ call \in IndexCall /\ call.at = "repair" /\ Oldest(m)
      /\ index \in [IndexKeys -> Docs]
      /\ exposed \subseteq IndexKeys /\ call' = [call EXCEPT !.at = "settle"]
      /\ UNCHANGED <<truth, want, outbox, sequence, exposed>>
      /\ index' = [index EXCEPT ![m.key] = m.doc]
  BY DEF IndexInv, IndexTypeOK, RepairUpsert, VectorUpsert
<1>2. m.key \in IndexKeys /\ m.doc \in Docs
  BY <1>1, OldestFacts
<1>3. m.key \in exposed \/ m.doc = want[m.key]
  BY <1>1 DEF IndexInv, CallOK, Oldest
<1>4. /\ index' \in [IndexKeys -> Docs] /\ index'[m.key] = m.doc
      /\ \A k \in IndexKeys : k # m.key => index'[k] = index[k]
  BY <1>1, <1>2
<1>5. ASSUME m.key \in IndexKeys \ exposed' PROVE Cared(m.key)'
  BY <1>1, <1>3, <1>4, <1>5 DEF Cared
<1>6. exposed \subseteq exposed' /\ exposed' \subseteq IndexKeys
  BY <1>1
<1> QED BY <1>1, <1>4, <1>5, <1>6, RepairGoesOn

\* The intent that was repaired goes.
LEMMA RepairAckKeeps == ASSUME IndexInv, NEW m, RepairAck(m) PROVE IndexInv'
<1>1. /\ IndexTypeOK /\ OutboxOK /\ call \in IndexCall /\ call.at = "settle" /\ Oldest(m)
      /\ outbox' = Acked({m.id})
      /\ UNCHANGED <<truth, want, index, sequence, exposed>>
      /\ call' = IF call.todo = {m} THEN NoIndexCall
                 ELSE [call EXCEPT !.at = "inspect", !.todo = @ \ {m}]
  BY DEF IndexInv, IndexTypeOK, RepairAck
<1>2. /\ m \in outbox /\ call.writes = <<>> /\ call.todo \subseteq outbox
      /\ \A n : Oldest(n) => n = m
  BY <1>1, OldestFacts
<1>3. /\ outbox' \subseteq Intent /\ sequence' \in Nat /\ OutboxOK'
      /\ outbox' = {n \in outbox : n.id \notin {m.id}}
  BY <1>1, AckedFacts
<1>4. outbox' = outbox \ {m}
  BY <1>1, <1>2, <1>3 DEF OutboxOK
<1>5. Spared = outbox'
  BY <1>1, <1>2, <1>4 DEF Spared
<1>6. ASSUME NEW k \in IndexKeys \ exposed'
      PROVE  index'[k] = want'[k] \/ \E n \in outbox' : Repairs(n, k)'
  <2>1. Cared(k)
    BY <1>1 DEF IndexInv
  <2>2. \A n : Repairs(n, k) => Repairs(n, k)'
    BY <1>1 DEF Repairs
  <2> QED BY <1>1, <1>5, <2>1, <2>2 DEF Cared
<1>7. \A k \in IndexKeys : truth'[k] = NoDocument => want'[k] = NoDocument
  BY <1>1 DEF IndexInv
<1>8. CASE call.todo = {m}
  <2>1. call' = NoIndexCall
    BY <1>1, <1>8
  <2>2. IndexTypeOK'
    BY <1>1, <1>3, <2>1, IdleCall DEF IndexTypeOK
  <2> QED BY <1>3, <1>6, <1>7, <2>1, <2>2, CallEnds
<1>9. CASE call.todo # {m}
  <2>1. call' = [call EXCEPT !.at = "inspect", !.todo = call.todo \ {m}]
    BY <1>1, <1>9
  <2>2. /\ call' \in IndexCall /\ call'.at = "inspect" /\ call'.writes = <<>>
        /\ call'.todo = call.todo \ {m}
        /\ call' # NoIndexCall
    BY <1>1, <1>2, <2>1, IdleCall DEF IndexCall
  <2>3. IndexTypeOK'
    BY <1>1, <1>3, <2>2 DEF IndexTypeOK
  <2>4. CallOK'
    BY <1>2, <1>4, <2>2, NoKeys DEF CallOK
  <2>5. Spared' = outbox'
    BY <2>2 DEF Spared
  <2>6. \A k \in IndexKeys \ exposed' : Cared(k)'
    BY <1>6, <2>5 DEF Cared
  <2> QED BY <1>3, <1>7, <2>3, <2>4, <2>6 DEF IndexInv
<1> QED BY <1>8, <1>9

\* SetToSeq lists a finite set, each element once.
LEMMA ListsOnce ==
    ASSUME NEW S, IsFiniteSet(S)
    PROVE  /\ Cardinality(S) \in Nat /\ SetToSeq(S) \in [1 .. Cardinality(S) -> S]
           /\ \A x \in S : \E i \in 1 .. Cardinality(S) : SetToSeq(S)[i] = x
<1>1. Cardinality(S) \in Nat /\ ExistsBijection(1 .. Cardinality(S), S)
  BY FS_CardinalityType
<1>2. PICK n \in Nat : n = Cardinality(S)
  BY <1>1
<1>3. \E f \in [1 .. n -> S] : IsInjective(f)
  BY <1>1, <1>2 DEF ExistsBijection, Bijection, Injection
<1>4. PICK f : f = SetToSeq(S)
  OBVIOUS
<1>5. f \in [1 .. n -> S] /\ IsInjective(f)
  BY <1>2, <1>3, <1>4 DEF SetToSeq
<1>6. f \in Injection(1 .. n, S)
  BY <1>5 DEF Injection
<1>7. Cardinality(1 .. n) = n
  BY <1>2, FS_Interval
<1>8. f \in Surjection(1 .. n, S)
  BY <1>2, <1>6, <1>7, FS_Injection
<1> QED BY <1>1, <1>2, <1>4, <1>5, <1>8 DEF Surjection

\* A sweep that found expired items.
LEMMA SweepExpiredItemsKeeps == ASSUME IndexInv, NEW ks \in SUBSET IndexKeys, SweepExpiredItems(ks)
                                PROVE  IndexInv'
<1>1. /\ IndexTypeOK /\ OutboxOK /\ call = NoIndexCall
      /\ truth \in [IndexKeys -> Docs] /\ want \in [IndexKeys -> Docs] /\ exposed \subseteq IndexKeys
      /\ truth' = [k \in IndexKeys |-> IF k \in ks THEN NoDocument ELSE truth[k]]
      /\ want' = [k \in IndexKeys |-> IF k \in ks THEN NoDocument ELSE want[k]]
      /\ exposed' = exposed \cup ks
      /\ UNCHANGED <<index, outbox, sequence>>
  BY DEF IndexInv, IndexTypeOK, SweepExpiredItems
<1>2. NoDocument \in Docs
  BY DEF Docs
<1>3. /\ truth' \in [IndexKeys -> Docs] /\ want' \in [IndexKeys -> Docs]
      /\ \A k \in IndexKeys : truth'[k] = IF k \in ks THEN NoDocument ELSE truth[k]
      /\ \A k \in IndexKeys : want'[k] = IF k \in ks THEN NoDocument ELSE want[k]
  BY <1>1, <1>2
<1>4. IsFiniteSet(ks)
  BY IndexAssumption, FS_Subset
<1>5. PICK n : n = Cardinality(ks)
  OBVIOUS
<1>5a. PICK s : s = SetToSeq(ks) /\ n \in Nat /\ s \in [1 .. n -> ks]
  BY <1>4, <1>5, ListsOnce
<1>6. PICK ws : ws = [i \in 1 .. n |-> [key |-> s[i], val |-> NoDocument, indexed |-> TRUE]]
  OBVIOUS
<1>7. ws \in Seq(FinalWrite)
  <2>1. \A i \in 1 .. n : [key |-> s[i], val |-> NoDocument, indexed |-> TRUE] \in FinalWrite
    BY <1>5a DEF FinalWrite
  <2> QED BY <1>5a, <1>6, <2>1
<1>8. KeysOf(ws) \subseteq ks
  BY <1>5a, <1>6 DEF KeysOf
<1>9. call' = [at |-> "sweep", writes |-> ws, ids |-> {}, todo |-> {}]
  BY <1>5, <1>5a, <1>6 DEF SweepExpiredItems, NoIndexCall
<1>10. call'.at = "sweep" /\ call'.writes = ws /\ call' # NoIndexCall
  BY <1>9, IdleCall
<1>11. IndexTypeOK'
  <2>1. call' \in IndexCall
    BY <1>7, <1>9 DEF IndexCall
  <2> QED BY <1>1, <1>3, <2>1 DEF IndexTypeOK
<1>12. OutboxOK'
  BY <1>1 DEF OutboxOK
<1>13. CallOK'
  BY <1>3, <1>8, <1>10 DEF CallOK, CallKeeps
<1>14. \A k \in IndexKeys : truth'[k] = NoDocument => want'[k] = NoDocument
  BY <1>3 DEF IndexInv
<1>15. ASSUME NEW k \in IndexKeys \ exposed' PROVE Cared(k)'
  <2>1. Cared(k) /\ k \notin ks
    BY <1>1 DEF IndexInv
  <2>2. \A m : Repairs(m, k) => Repairs(m, k)'
    BY <1>3, <2>1 DEF Repairs
  <2>3. Spared = outbox /\ Spared' = outbox
    BY <1>1, <1>10, IdleCall DEF Spared
  <2> QED BY <1>1, <1>3, <2>1, <2>2, <2>3 DEF Cared
<1> QED BY <1>11, <1>12, <1>13, <1>14, <1>15 DEF IndexInv

\* The sweep records its intents: from here on the keys are cared for.
LEMMA SweepEnqueueKeeps == ASSUME IndexInv, SweepEnqueue PROVE IndexInv'
<1>1. /\ IndexTypeOK /\ OutboxOK /\ call \in IndexCall /\ call.at = "sweep" /\ Enqueue(call.writes)
      /\ exposed' = exposed \ KeysOf(call.writes)
      /\ UNCHANGED <<truth, want, index>>
      /\ call' = [call EXCEPT !.at = "clean", !.ids = EnqueuedIDs(call.writes)]
  BY DEF IndexInv, IndexTypeOK, SweepEnqueue
<1>2. PICK ws \in Seq(FinalWrite) : ws = call.writes
  BY <1>1 DEF IndexCall
<1>3. /\ outbox' \subseteq Intent /\ sequence' \in Nat /\ OutboxOK'
      /\ EnqueuedIDs(ws) \subseteq Nat /\ outbox \subseteq outbox'
      /\ \A m \in outbox' : m.id \in EnqueuedIDs(ws) => m.key \in KeysOf(ws)
      /\ \A k \in KeysOf(ws) : \E m \in outbox' : m.key = k
  <2>1. Enqueue(ws)
    BY <1>1, <1>2
  <2> QED BY <1>1, <2>1, EnqueueAdds
<1>4. /\ call' \in IndexCall /\ call'.at = "clean" /\ call'.writes = ws /\ call'.ids = EnqueuedIDs(ws)
      /\ call' # NoIndexCall
  BY <1>1, <1>2, <1>3, IdleCall DEF IndexCall
<1>5. IndexTypeOK'
  BY <1>1, <1>3, <1>4 DEF IndexTypeOK
<1>6. \A k \in KeysOf(ws) : truth[k] = NoDocument
  BY <1>1, <1>2 DEF IndexInv, CallOK, CallKeeps
<1>7. \A k \in KeysOf(ws) : \E m \in outbox' : Repairs(m, k)'
  BY <1>1, <1>3, <1>6 DEF Repairs
<1>8. CallOK'
  <2>1. \A k \in KeysOf(ws) : CallKeeps(k)'
    BY <1>1, <1>4, <1>6, <1>7 DEF CallKeeps
  <2> QED BY <1>3, <1>4, <2>1 DEF CallOK
<1>9. Spared' = outbox'
  BY <1>4 DEF Spared
<1>10. ASSUME NEW k \in IndexKeys \ exposed' PROVE Cared(k)'
  <2>1. CASE k \in KeysOf(ws)
    BY <1>7, <1>9, <2>1 DEF Cared
  <2>2. CASE k \notin KeysOf(ws)
    <3>1. Cared(k)
      BY <1>1, <1>2, <2>2 DEF IndexInv
    <3>2. \A m : Repairs(m, k) => Repairs(m, k)'
      BY <1>1 DEF Repairs
    <3>3. Spared \subseteq outbox'
      BY <1>3 DEF Spared
    <3> QED BY <1>1, <1>9, <3>1, <3>2, <3>3 DEF Cared
  <2> QED BY <2>1, <2>2
<1>11. \A k \in IndexKeys : truth'[k] = NoDocument => want'[k] = NoDocument
  BY <1>1 DEF IndexInv
<1> QED BY <1>3, <1>5, <1>8, <1>10, <1>11 DEF IndexInv

\* The expired items leave the index, as they left the base store.
LEMMA SweepDeleteKeeps == ASSUME IndexInv, SweepDelete PROVE IndexInv'
<1>1. /\ IndexTypeOK /\ OutboxOK /\ call \in IndexCall /\ call.at = "clean"
      /\ index \in [IndexKeys -> Docs]
      /\ index' = VectorDelete(KeysOf(call.writes)) /\ call' = [call EXCEPT !.at = "ack"]
      /\ UNCHANGED <<truth, want, outbox, sequence, exposed>>
  BY DEF IndexInv, IndexTypeOK, SweepDelete
<1>2. /\ index' \in [IndexKeys -> Docs]
      /\ \A k \in IndexKeys : index'[k] = IF k \in KeysOf(call.writes) THEN NoDocument ELSE index[k]
  BY <1>1, DeletedTyped
<1>3. /\ call' \in IndexCall /\ call'.at = "ack" /\ call'.writes = call.writes /\ call'.ids = call.ids
      /\ call' # NoIndexCall
  BY <1>1, IdleCall DEF IndexCall
<1>4. IndexTypeOK' /\ OutboxOK'
  BY <1>1, <1>2, <1>3 DEF IndexTypeOK, OutboxOK
<1>5. \A m \in outbox : m.id \in call.ids => m.key \in KeysOf(call.writes)
  BY <1>1 DEF IndexInv, CallOK
<1>6. CallOK'
  BY <1>1, <1>3, <1>5 DEF CallOK, CallKeeps
<1>7. \A k \in IndexKeys : truth[k] = NoDocument => want[k] = NoDocument
  BY DEF IndexInv
<1>8. \A k \in KeysOf(call.writes) : truth[k] = NoDocument
  BY <1>1 DEF IndexInv, CallOK, CallKeeps
<1>9. ASSUME NEW k \in IndexKeys \ exposed' PROVE Cared(k)'
  <2>1. CASE k \in KeysOf(call.writes)
    BY <1>1, <1>2, <1>7, <1>8, <2>1 DEF Cared
  <2>2. CASE k \notin KeysOf(call.writes)
    <3>1. Cared(k)
      BY <1>1 DEF IndexInv
    <3>2. CASE index[k] = want[k]
      BY <1>1, <1>2, <2>2, <3>2 DEF Cared
    <3>3. ASSUME NEW m \in Spared, Repairs(m, k) PROVE m \in Spared' /\ Repairs(m, k)'
      BY <1>1, <1>3, <1>5, <2>2, <3>3 DEF Spared, Repairs
    <3> QED BY <3>1, <3>2, <3>3 DEF Cared
  <2> QED BY <2>1, <2>2
<1> QED BY <1>1, <1>4, <1>6, <1>7, <1>9 DEF IndexInv

\* A call that dies leaves its intents, also for the keys that it deleted.
LEMMA AbortKeeps == ASSUME IndexInv, Abort PROVE IndexInv'
<1>1. /\ IndexTypeOK /\ OutboxOK /\ call \in IndexCall /\ index \in [IndexKeys -> Docs]
      /\ call' = NoIndexCall /\ UNCHANGED <<truth, want, outbox, sequence, exposed>>
  BY DEF IndexInv, IndexTypeOK, Abort
<1>2. PICK ks \in SUBSET KeysOf(call.writes) : (ks # {} => call.at \in {"delete", "clean"})
        /\ index' = VectorDelete(ks)
  BY DEF Abort
<1>3. /\ index' \in [IndexKeys -> Docs]
      /\ \A k \in IndexKeys : index'[k] = IF k \in ks THEN NoDocument ELSE index[k]
  BY <1>1, <1>2, DeletedTyped
<1>4. IndexTypeOK' /\ OutboxOK'
  BY <1>1, <1>3, IdleCall DEF IndexTypeOK, OutboxOK
<1>5. \A m, k : Repairs(m, k) => Repairs(m, k)'
  BY <1>1 DEF Repairs
<1>6. ASSUME NEW k \in IndexKeys \ exposed'
      PROVE  index'[k] = want'[k] \/ \E m \in outbox' : Repairs(m, k)'
  <2>1. CASE k \in ks
    <3>1. CallKeeps(k) /\ call.at \in {"delete", "clean"}
      BY <1>2, <2>1 DEF IndexInv, CallOK
    <3> QED BY <1>1, <1>5, <3>1 DEF CallKeeps
  <2>2. CASE k \notin ks
    <3>1. Cared(k)
      BY <1>1 DEF IndexInv
    <3>2. Spared \subseteq outbox
      BY DEF Spared
    <3> QED BY <1>1, <1>3, <1>5, <2>2, <3>1, <3>2 DEF Cared
  <2> QED BY <2>1, <2>2
<1>7. \A k \in IndexKeys : truth'[k] = NoDocument => want'[k] = NoDocument
  BY <1>1 DEF IndexInv
<1> QED BY <1>1, <1>4, <1>6, <1>7, CallEnds

\* Every step keeps the invariant.
LEMMA IndexStep == IndexInv /\ [IndexNext]_indexVars => IndexInv'
<1>1. CASE IndexInv /\ UNCHANGED indexVars
  <2>1. UNCHANGED <<truth, want, index, outbox, sequence, call, exposed>>
    BY <1>1 DEF indexVars
  <2>2. IndexTypeOK' /\ OutboxOK'
    BY <1>1, <2>1 DEF IndexInv, IndexTypeOK, OutboxOK
  <2>3. CallOK'
    BY <1>1, <2>1 DEF IndexInv, CallOK, CallKeeps, Repairs, Oldest, Matches
  <2>4. \A k \in IndexKeys \ exposed' : Cared(k)'
    BY <1>1, <2>1 DEF IndexInv, Cared, Spared, Repairs, Oldest
  <2> QED BY <1>1, <2>1, <2>2, <2>3, <2>4 DEF IndexInv
<1>2. CASE IndexInv /\ IndexNext
  BY <1>2, BatchEnqueueKeeps, BatchBaseKeeps, BatchFailedKeeps, SynchronizeDeleteKeeps, SynchronizeKeeps,
     AckKeeps, RepairPendingKeeps, RepairInspectKeeps, RepairUpsertKeeps, RepairAckKeeps,
     SweepExpiredItemsKeeps, SweepEnqueueKeeps, SweepDeleteKeeps, AbortKeeps DEF IndexNext
<1> QED BY <1>1, <1>2

\* mergeSearch: two pages are the whole list, and the list holds each item once.
LEMMA PagesExact ==
    LET pages == MergeSearch(0, 1) \o MergeSearch(1, Cardinality(IndexKeys)) IN
      /\ Range(pages) = {k \in IndexKeys : truth[k] # NoDocument}
      /\ Len(pages) = Cardinality(Range(pages))
<1>1. PICK C : C = {k \in IndexKeys : truth[k] # NoDocument}
  OBVIOUS
<1>2. PICK V : V = {k \in C : index[k] # NoDocument}
  OBVIOUS
<1>3. PICK O : O = {k \in C : index[k] = NoDocument}
  OBVIOUS
<1>4. IsFiniteSet(C) /\ IsFiniteSet(V) /\ IsFiniteSet(O) /\ C \subseteq IndexKeys
  <2>1. C \subseteq IndexKeys /\ V \subseteq IndexKeys /\ O \subseteq IndexKeys
    BY <1>1, <1>2, <1>3
  <2> QED BY <2>1, IndexAssumption, FS_Subset
<1>5. C = V \cup O /\ V \cap O = {}
  BY <1>2, <1>3
<1>6a. PICK a : a = Cardinality(V)
  OBVIOUS
<1>6. PICK v : /\ v = SetToSeq(V) /\ a \in Nat /\ a = Cardinality(V) /\ v \in [1 .. a -> V]
              /\ \A x \in V : \E i \in 1 .. a : v[i] = x
  BY <1>4, <1>6a, ListsOnce
<1>7a. PICK b : b = Cardinality(O)
  OBVIOUS
<1>7. PICK o : /\ o = SetToSeq(O) /\ b \in Nat /\ b = Cardinality(O) /\ o \in [1 .. b -> O]
              /\ \A x \in O : \E i \in 1 .. b : o[i] = x
  BY <1>4, <1>7a, ListsOnce
<1>8. v \in Seq(C) /\ o \in Seq(C) /\ Len(v) = a /\ Len(o) = b
  <2>1. v \in [1 .. a -> C] /\ o \in [1 .. b -> C]
    BY <1>5, <1>6, <1>7
  <2>2. v \in Seq(C) /\ Len(v) = a
    BY <1>6, <2>1
  <2>3. o \in Seq(C) /\ Len(o) = b
    BY <1>7, <2>1
  <2> QED BY <2>2, <2>3
<1>9. PICK all : all = v \o o
  OBVIOUS
<1>10. /\ all \in Seq(C) /\ Len(all) = a + b /\ DOMAIN all = 1 .. a + b
       /\ \A i \in 1 .. a : all[i] = v[i]
       /\ \A i \in 1 .. b : all[a + i] = o[i]
  <2>0. all \in Seq(C)
    BY <1>8, <1>9
  <2>1. Len(all) = a + b
    BY <1>6, <1>7, <1>8, <1>9
  <2>2. \A i \in 1 .. a : all[i] = v[i]
    BY <1>6, <1>7, <1>8, <1>9
  <2>3. ASSUME NEW i \in 1 .. b PROVE all[a + i] = o[i]
    <3>1. a + i \in 1 .. a + b /\ ~(a + i <= a) /\ (a + i) - a = i
      BY <1>6, <1>7
    <3>2. (v \o o)[a + i] = o[(a + i) - a]
      BY <1>8, <3>1, ConcatProperties
    <3> QED BY <1>9, <3>1, <3>2
  <2> QED BY <1>6, <1>7, <2>0, <2>1, <2>2, <2>3
<1>11. Range(all) = C
  <2>1. \A i \in DOMAIN all : all[i] \in C
    BY <1>10
  <2>2. ASSUME NEW x \in C PROVE \E i \in DOMAIN all : all[i] = x
    <3>1. CASE x \in V
      <4>1. PICK i \in 1 .. a : v[i] = x
        BY <1>6, <3>1
      <4>2. i \in DOMAIN all /\ all[i] = x
        BY <1>6, <1>7, <1>10, <4>1
      <4> QED BY <4>2
    <3>2. CASE x \in O
      <4>1. PICK i \in 1 .. b : o[i] = x
        BY <1>7, <3>2
      <4>2. a + i \in DOMAIN all /\ all[a + i] = x
        BY <1>6, <1>7, <1>10, <4>1
      <4> QED BY <4>2
    <3> QED BY <1>5, <3>1, <3>2
  <2> QED BY <2>1, <2>2 DEF Range
<1>12. Cardinality(C) = a + b
  <2>1. Cardinality(V \cup O) = Cardinality(V) + Cardinality(O) - Cardinality(V \cap O)
    BY <1>4, FS_Union
  <2>2. Cardinality(V \cap O) = 0
    BY <1>5, FS_EmptySet
  <2> QED BY <1>5, <1>6, <1>7, <2>1, <2>2
<1>13. PICK n \in Nat : n = Cardinality(IndexKeys)
  BY IndexAssumption, FS_CardinalityType
<1>14. a + b <= n
  BY <1>4, <1>12, <1>13, IndexAssumption, FS_Subset
<1>15. PICK len \in Nat : len = Len(all)
  BY <1>10
<1>16. /\ MergeSearch(0, 1) = SubSeq(all, (IF 0 < len THEN 0 ELSE len) + 1,
                                    IF (IF 0 < len THEN 0 ELSE len) + 1 < len
                                    THEN (IF 0 < len THEN 0 ELSE len) + 1 ELSE len)
       /\ MergeSearch(1, n) = SubSeq(all, (IF 1 < len THEN 1 ELSE len) + 1,
                                    IF (IF 1 < len THEN 1 ELSE len) + n < len
                                    THEN (IF 1 < len THEN 1 ELSE len) + n ELSE len)
  BY <1>1, <1>2, <1>3, <1>6, <1>7, <1>9, <1>15 DEF MergeSearch, VectorSearch
<1>17. MergeSearch(0, 1) \o MergeSearch(1, n) = all
  <2>1. CASE len = 0
    BY <1>10, <1>14, <1>15, <1>16, <2>1
  <2>2. CASE len = 1
    <3>1. MergeSearch(0, 1) = SubSeq(all, 1, 1)
      BY <1>15, <1>16, <2>2
    <3>2. MergeSearch(1, n) = SubSeq(all, 2, 1)
      BY <1>13, <1>15, <1>16, <2>2
    <3>3. SubSeq(all, 1, 1) = all /\ SubSeq(all, 2, 1) = <<>>
      BY <1>10, <1>15, <2>2
    <3> QED BY <1>10, <3>1, <3>2, <3>3
  <2>3. CASE len > 1
    <3>0. 0 < len /\ ~(len <= 1) /\ 0 + 1 = 1
      BY <1>15, <2>3
    <3>1. MergeSearch(0, 1) = SubSeq(all, 1, 1)
      BY <1>15, <1>16, <3>0
    <3>2. ~(1 + n < len)
      BY <1>10, <1>14, <1>15
    <3>3. MergeSearch(1, n) = SubSeq(all, 2, len)
      BY <1>15, <1>16, <2>3, <3>2
    <3>4. /\ SubSeq(all, 1, 1) = [i \in 1 .. 1 |-> all[i]]
          /\ SubSeq(all, 2, len) = [i \in 1 .. len - 1 |-> all[i + 1]]
      BY <1>10, <1>15, <2>3
    <3>5. PICK p, q : p = SubSeq(all, 1, 1) /\ q = SubSeq(all, 2, len)
      OBVIOUS
    <3>6. p \in Seq(C) /\ q \in Seq(C) /\ Len(p) = 1 /\ Len(q) = len - 1
      BY <1>10, <1>15, <2>3, <3>4, <3>5
    <3>7. ASSUME NEW i \in 1 .. len PROVE (p \o q)[i] = all[i]
      BY <1>10, <1>15, <2>3, <3>4, <3>5, <3>6
    <3>8. p \o q \in Seq(C)
      BY <3>6
    <3>9. Len(p \o q) = len
      <4>1. Len(p \o q) = Len(p) + Len(q)
        BY <3>6, ConcatProperties
      <4> QED BY <1>15, <3>6, <4>1
    <3>10. p \o q = all
      BY <1>10, <1>15, <3>7, <3>8, <3>9, SeqEqual
    <3> QED BY <3>1, <3>3, <3>5, <3>10
  <2> QED BY <2>1, <2>2, <2>3
<1> QED BY <1>1, <1>10, <1>11, <1>12, <1>13, <1>17

\* Batch, RepairPending, SweepExpired and Search: whatever fails in between, a key without
\* an intent is indexed by what the base store holds, and each item is on exactly one page.
THEOREM IndexesConverge == IndexSpec => []IndexConverges
<1>1. IndexInv => IndexConverges
  <2>1. ASSUME IndexInv, NEW k \in IndexKeys, Settled(k) PROVE index[k] = want[k]
    <3>1. Cared(k) /\ \A m \in outbox : m.key # k
      BY <2>1 DEF IndexInv, Settled
    <3> QED BY <3>1 DEF Cared, Spared, Repairs
  <2> QED BY <2>1, PagesExact DEF IndexConverges
<1> QED BY <1>1, IndexStart, IndexStep, PTL DEF IndexSpec
=============================================================================
