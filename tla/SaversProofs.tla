---------------------------- MODULE SaversProofs ----------------------------
(***************************************************************************)
(* Proofs about Savers: the checkpoints of a thread are whole, listed      *)
(* newest first, and the results stored for a task are stable, for every   *)
(* saver, any number of namespaces, channels and checkpoints, and          *)
(* deletions and retention beside a run.  Proofs about StoreQueries: the   *)
(* four stores find the page of exactly the items that satisfy a filter.   *)
(* Both rest on what a list sorted by InOrder holds.                       *)
(***************************************************************************)
EXTENDS Savers, StoreQueries, FiniteSetTheorems, WellFoundedInduction, TLAPS

-----------------------------------------------------------------------------
(***************************************************************************)
(* Sorted lists.                                                           *)
(***************************************************************************)
\* less orders S strictly and totally.
Orders(less, S) ==
    /\ \A x \in S : <<x, x>> \notin less
    /\ \A x, y, z \in S : <<x, y>> \in less /\ <<y, z>> \in less => <<x, z>> \in less
    /\ \A x, y \in S : x = y \/ <<x, y>> \in less \/ <<y, x>> \in less

\* The number of predecessors tells the elements of an ordered set apart.
LEMMA RanksDiffer ==
    ASSUME NEW S, IsFiniteSet(S), NEW less, Orders(less, S)
    PROVE  /\ \A x \in S : Cardinality(Predecessors(S, less, x)) \in 0 .. Cardinality(S) - 1
           /\ \A x, y \in S : <<x, y>> \in less =>
                 Cardinality(Predecessors(S, less, x)) < Cardinality(Predecessors(S, less, y))
<1> DEFINE P(x) == Predecessors(S, less, x)
<1>1. \A x : P(x) \subseteq S
  BY DEF Predecessors
<1>2. ASSUME NEW x \in S PROVE IsFiniteSet(P(x)) /\ Cardinality(P(x)) \in Nat
  <2> HIDE DEF P
  <2> QED BY <1>1, FS_Subset, FS_CardinalityType
<1>3. Cardinality(S) \in Nat
  BY FS_CardinalityType
<1>4. ASSUME NEW x \in S PROVE Cardinality(P(x)) \in 0 .. Cardinality(S) - 1
  <2>1. x \notin P(x)
    BY DEF Orders, Predecessors
  <2> HIDE DEF P
  <2>2. Cardinality(P(x)) <= Cardinality(S) /\ Cardinality(P(x)) # Cardinality(S)
    BY <1>1, <2>1, FS_Subset
  <2> QED BY <1>2, <1>3, <2>2
<1>5. ASSUME NEW x \in S, NEW y \in S, <<x, y>> \in less PROVE Cardinality(P(x)) < Cardinality(P(y))
  <2>1. P(x) \subseteq P(y) /\ x \in P(y) /\ x \notin P(x)
    BY <1>5 DEF Orders, Predecessors
  <2> HIDE DEF P
  <2>2. Cardinality(P(x)) <= Cardinality(P(y)) /\ Cardinality(P(x)) # Cardinality(P(y))
    BY <1>2, <2>1, FS_Subset
  <2> QED BY <1>2, <2>2
<1> QED BY <1>4, <1>5

\* The n elements of s are those of S, each at the position that the number of its
\* predecessors gives.
Lists(s, n, S, less) ==
    /\ n \in Nat /\ s \in [1 .. n -> S]
    /\ \A i \in 1 .. n : Cardinality(Predecessors(S, less, s[i])) = i - 1
    /\ \A x \in S : \E i \in 1 .. n : s[i] = x
    /\ \A i, j \in 1 .. n : i < j => <<s[i], s[j]>> \in less

\* InOrder lists each element once, in ascending order.
LEMMA InOrderFacts ==
    ASSUME NEW S, IsFiniteSet(S), NEW less, Orders(less, S), NEW s, s = InOrder(S, less),
           NEW n, n = Cardinality(S)
    PROVE  Lists(s, n, S, less)
<1> DEFINE R(x) == Cardinality(Predecessors(S, less, x))
<1>1. n \in Nat
  BY FS_CardinalityType
<1>2. \A x \in S : R(x) \in 0 .. n - 1
  BY RanksDiffer
<1>3. \A x, y \in S : <<x, y>> \in less => R(x) < R(y)
  BY RanksDiffer
<1>4. \A x, y \in S : R(x) = R(y) => x = y
  <2> SUFFICES ASSUME NEW x \in S, NEW y \in S, R(x) = R(y) PROVE x = y
    OBVIOUS
  <2>1. x = y \/ <<x, y>> \in less \/ <<y, x>> \in less
    BY DEF Orders
  <2> QED BY <1>2, <1>3, <2>1
<1>5. ASSUME NEW i \in 1 .. n PROVE \E x \in S : R(x) = i - 1
  <2> DEFINE f == [x \in S |-> R(x) + 1]
  <2>0. f \in [S -> 1 .. n]
    <3> HIDE DEF R
    <3> QED BY <1>1, <1>2
  <2>1. f \in Injection(S, 1 .. n)
    <3> HIDE DEF R
    <3>1. \A x, y \in S : f[x] = f[y] => x = y
      BY <1>2, <1>4
    <3> HIDE DEF f
    <3> QED BY <2>0, <3>1 DEF Injection, IsInjective
  <2>2. IsFiniteSet(1 .. n) /\ Cardinality(1 .. n) = n
    BY <1>1, FS_Interval
  <2> HIDE DEF f
  <2>3. f \in Surjection(S, 1 .. n)
    BY <2>1, <2>2, FS_Injection
  <2>4. PICK x \in S : f[x] = i
    BY <2>3 DEF Surjection
  <2>5. f[x] = R(x) + 1
    BY DEF f
  <2> QED BY <1>1, <1>2, <2>4, <2>5
<1>6. s = [i \in 1 .. n |-> CHOOSE x \in S : R(x) = i - 1]
  BY DEF InOrder
<1> HIDE DEF R
<1>7. ASSUME NEW i \in 1 .. n PROVE s[i] \in S /\ R(s[i]) = i - 1
  <2>1. s[i] = CHOOSE x \in S : R(x) = i - 1
    BY <1>6
  <2>2. \E x : x \in S /\ R(x) = i - 1
    BY <1>5
  <2> QED BY <2>1, <2>2
<1>8. s \in [1 .. n -> S]
  BY <1>6, <1>7
<1>9. ASSUME NEW x \in S PROVE \E i \in 1 .. n : s[i] = x
  <2>1. R(x) + 1 \in 1 .. n /\ (R(x) + 1) - 1 = R(x)
    BY <1>1, <1>2
  <2>2. s[R(x) + 1] \in S /\ R(s[R(x) + 1]) = R(x)
    BY <1>7, <2>1
  <2> QED BY <1>4, <2>1, <2>2
<1>10. ASSUME NEW i \in 1 .. n, NEW j \in 1 .. n, i < j PROVE <<s[i], s[j]>> \in less
  <2>1. s[i] = s[j] \/ <<s[i], s[j]>> \in less \/ <<s[j], s[i]>> \in less
    BY <1>7 DEF Orders
  <2>2. R(s[i]) = i - 1 /\ R(s[j]) = j - 1 /\ s[i] \in S /\ s[j] \in S
    BY <1>7
  <2> QED BY <1>1, <1>3, <1>10, <2>1, <2>2
<1> QED BY <1>1, <1>7, <1>8, <1>9, <1>10 DEF R, Lists

\* The n elements of t are those of s at the positions at, which ascend through I.
Selects(t, s, I, n, at) ==
    /\ n \in Nat /\ at \in [1 .. n -> I]
    /\ t = [i \in 1 .. n |-> s[at[i]]]
    /\ \A k \in I : \E i \in 1 .. n : at[i] = k
    /\ \A i, j \in 1 .. n : i < j => at[i] < at[j]

\* Scan selects the positions that it is given.
LEMMA ScanFacts ==
    ASSUME NEW m \in Nat, NEW s, DOMAIN s = 1 .. m, NEW I, I \subseteq 1 .. m
    PROVE  \E at : Selects(Scan(s, I), s, I, Cardinality(I), at)
<1> DEFINE less == {p \in I \X I : p[1] < p[2]}
<1>0. IsFiniteSet(1 .. m)
  BY FS_Interval
<1>1. IsFiniteSet(I)
  BY <1>0, FS_Subset
<1>2. \A x, y \in I : <<x, y>> \in less <=> x < y
  OBVIOUS
<1>3. I \subseteq Nat
  OBVIOUS
<1> HIDE DEF less
<1>4. Orders(less, I)
  BY <1>2, <1>3 DEF Orders
<1>5. PICK at, n : at = InOrder(I, less) /\ n = Cardinality(I)
  OBVIOUS
<1>6. /\ n \in Nat /\ at \in [1 .. n -> I]
      /\ \A k \in I : \E i \in 1 .. n : at[i] = k
      /\ \A i, j \in 1 .. n : i < j => <<at[i], at[j]>> \in less
  BY <1>1, <1>4, <1>5, InOrderFacts DEF Lists
<1>7. Scan(s, I) = [i \in 1 .. n |-> s[at[i]]]
  BY <1>5, <1>6 DEF Scan, less
<1>8. \A i, j \in 1 .. n : i < j => at[i] < at[j]
  BY <1>2, <1>6
<1>9. Selects(Scan(s, I), s, I, n, at)
  BY <1>6, <1>7, <1>8 DEF Selects
<1> QED BY <1>5, <1>9

\* The first elements of a descending list are those that few others exceed.
Descending(t, n, M) ==
    /\ n \in Nat /\ t \in [1 .. n -> M]
    /\ \A k \in M : k[2] \in Nat
    /\ \A k \in M : \E i \in 1 .. n : t[i] = k
    /\ \A i, j \in 1 .. n : i < j => t[i][2] > t[j][2]

LEMMA NewerCounted ==
    ASSUME NEW t, NEW n, NEW M, Descending(t, n, M), NEW i \in 1 .. n
    PROVE  Cardinality({k \in M : k[2] > t[i][2]}) = i - 1
<1> DEFINE N == {k \in M : k[2] > t[i][2]}
           f == [j \in 1 .. i - 1 |-> t[j]]
<1>1. n \in Nat /\ i \in Nat /\ i >= 1
  BY DEF Descending
<1>2. \A j, m \in 1 .. n : t[j][2] = t[m][2] => j = m
  BY DEF Descending
<1>3. \A j \in 1 .. i - 1 : t[j] \in N
  BY <1>1 DEF Descending
<1>4. ASSUME NEW k \in N PROVE \E j \in 1 .. i - 1 : t[j] = k
  <2>1. PICK j \in 1 .. n : t[j] = k
    BY DEF Descending
  <2>2. t[j][2] > t[i][2] /\ t[j][2] \in Nat /\ t[i][2] \in Nat
    BY <2>1 DEF Descending
  <2>3. j < i
    <3>1. j = i \/ i < j \/ j < i
      BY <1>1
    <3> QED BY <2>2, <3>1 DEF Descending
  <2> QED BY <1>1, <2>1, <2>3
<1> HIDE DEF N
<1>5. f \in Bijection(1 .. i - 1, N)
  <2>1. f \in [1 .. i - 1 -> N]
    BY <1>3
  <2>2. \A a, b \in 1 .. i - 1 : f[a] = f[b] => a = b
    BY <1>1, <1>2
  <2>3. \A k \in N : \E a \in 1 .. i - 1 : f[a] = k
    BY <1>4
  <2> HIDE DEF f
  <2> QED BY <2>1, <2>2, <2>3 DEF Bijection, Injection, Surjection, IsInjective
<1>6. IsFiniteSet(1 .. i - 1) /\ Cardinality(1 .. i - 1) = i - 1
  BY <1>1, FS_Interval
<1>7. ExistsBijection(1 .. i - 1, N)
  BY <1>5 DEF ExistsBijection
<1>8. Cardinality(N) = i - 1
  BY <1>6, <1>7, FS_Bijection
<1> QED BY <1>8 DEF N

-----------------------------------------------------------------------------
(***************************************************************************)
(* The invariant of the savers.                                            *)
(***************************************************************************)
\* Records of the savers.
CheckpointRow ==
    [parent: Nat, versions: [StateChannels -> Nat], vals: SUBSET StateChannels, source: Sources]
StoredWrite == [key: RecordKeys, idx: {"result", "control"}, val: 1 .. 2]
HeldState == [id: Nat, versions: [StateChannels -> Nat], got: SUBSET StateChannels]
RunStates ==
    [at: {"idle", "loading", "running", "checked"}, ns: Namespaces \cup {"none"}, held: HeldState,
     torn: BOOLEAN, key: RecordKeys \cup {<<>>}, batch: WriteBatches \cup {<<>>}]
OpStates ==
    [at: {"idle", "writes", "rows", "members", "aged", "prune"}, rows: SUBSET RecordKeys,
     writes: SUBSET StoredWrite, aged: BOOLEAN, policy: BOOLEAN]
IndexStates == [all: SUBSET RecordKeys, thread: SUBSET RecordKeys, namespace: SUBSET RecordKeys]

RowsTyped == DOMAIN rows \subseteq RecordKeys /\ \A k \in DOMAIN rows : rows[k] \in CheckpointRow
SaverTypeOK ==
    /\ saverKind \in SaverKinds
    /\ RowsTyped
    /\ pending \subseteq StoredWrite
    /\ recordIndex \in IndexStates
    /\ lastID \in Nat /\ stale \in BOOLEAN
    /\ threadRun \in RunStates
    /\ op \in OpStates

\* A checkpoint ID is used once, and what refers to a record refers to one that
\* was put.
IDsUsedOnce ==
    /\ IsFiniteSet(DOMAIN rows)
    /\ \A j, k \in DOMAIN rows : j[2] = k[2] => j = k
    /\ \A k \in DOMAIN rows : k[2] <= lastID
    /\ \A w \in pending \cup op.writes : w.key[2] <= lastID
    /\ threadRun.at = "checked" => threadRun.key \in RecordKeys /\ threadRun.key[2] <= lastID

\* The values of a version are stored: in blobs, or in Redis in the record.
Versioned(n, versions) == \A c \in StateChannels : <<n, c, versions[c]>> \in blobs
RowsWhole ==
    \A k \in DOMAIN rows \ orphans :
       IF saverKind = "redis" THEN rows[k].vals = StateChannels ELSE Versioned(k[1], rows[k].versions)

\* What an undisturbed run holds can be stored as a checkpoint.
Sound == ~threadRun.torn /\ <<threadRun.ns, threadRun.held.id>> \notin orphans
HeldWhole ==
    threadRun.at # "idle" =>
       /\ threadRun.ns \in Namespaces
       /\ threadRun.held.id # NoID /\ Sound =>
             /\ saverKind # "redis" => Versioned(threadRun.ns, threadRun.held.versions)
             /\ threadRun.at # "loading" => threadRun.held.got = StateChannels

\* A run beside a deletion is torn, and what it puts then is an orphan.
DeletesSeen ==
    /\ Deleting /\ threadRun.at # "idle" => threadRun.torn
    /\ op.at = "rows" =>
          /\ DOMAIN rows \ op.rows \subseteq orphans
          /\ \A w \in op.writes : w.key \in DOMAIN rows => w.key \in op.rows
    /\ op.at = "members" => DOMAIN rows \ orphans \subseteq op.rows

\* Which saver has which intermediate states.
KindStates ==
    /\ op.at \in {"writes", "rows"} => saverKind = "postgres"
    /\ op.at = "members" => saverKind = "redis"
    /\ threadRun.at = "loading" => saverKind = "postgres"
    /\ threadRun.at = "checked" => ~Serialised /\ threadRun.batch \in WriteBatches

\* In Redis the indexes name every record, and no ID twice.
RecordsIndexed ==
    saverKind = "redis" =>
       /\ DOMAIN rows \subseteq recordIndex.all \cap recordIndex.namespace
       /\ recordIndex.thread \subseteq recordIndex.all
       /\ IsFiniteSet(recordIndex.all \cup recordIndex.namespace)
       /\ \A j, k \in recordIndex.all \cup recordIndex.namespace : j[2] = k[2] => j = k
       /\ \A k \in recordIndex.all \cup recordIndex.namespace : k[2] <= lastID

SaversInv ==
    /\ SaverTypeOK /\ IDsUsedOnce /\ RowsWhole /\ HeldWhole /\ DeletesSeen /\ KindStates
    /\ ThreadIndexComplete

USE SaversAssumption

-----------------------------------------------------------------------------
(***************************************************************************)
(* Records.                                                                *)
(***************************************************************************)
LEMMA IdleTyped ==
    /\ NoRun \in RunStates /\ NoRun.at = "idle" /\ NothingHeld \in HeldState
    /\ NoOperation \in OpStates /\ NoOperation.at = "idle" /\ NoOperation.writes = {}
    /\ NothingHeld.id = NoID /\ NoID = 0
<1>1. NothingHeld \in HeldState /\ NothingHeld.id = NoID /\ NoID = 0
  BY DEF NothingHeld, HeldState, NoID
<1>2. NoRun \in RunStates /\ NoRun.at = "idle"
  BY <1>1 DEF NoRun, RunStates
<1>3. NoOperation \in OpStates /\ NoOperation.at = "idle" /\ NoOperation.writes = {}
  BY DEF NoOperation, OpStates
<1> QED
  BY <1>1, <1>2, <1>3

\* The first write of a batch is one that the saver takes.
LEMMA FirstOfBatch ==
    ASSUME NEW b \in WriteBatches
    PROVE  b[1] \in PendingWrite /\ b[1].idx \in {"result", "control"} /\ b[1].val \in 1 .. 2
<1>1. b[1] \in PendingWrite
  BY DEF WriteBatches
<1> QED
  BY <1>1 DEF PendingWrite

\* Records that are not touched keep what they had.
LEMMA StoredKept ==
    ASSUME SaversInv, UNCHANGED <<saverKind, rows, blobs, recordIndex, lastID, orphans>>
    PROVE  /\ RowsTyped' /\ RowsWhole' /\ ThreadIndexComplete'
           /\ IsFiniteSet(DOMAIN rows')
           /\ \A j, k \in DOMAIN rows' : j[2] = k[2] => j = k
           /\ \A k \in DOMAIN rows' : k[2] <= lastID'
BY DEF SaversInv, SaverTypeOK, RowsTyped, RowsWhole, Versioned, ThreadIndexComplete, IDsUsedOnce

\* The savers of a new program.
LEMMA SaversStart == SaverInit => SaversInv
<1> SUFFICES ASSUME SaverInit PROVE SaversInv
  OBVIOUS
<1>1. /\ DOMAIN rows = {} /\ pending = {} /\ threadRun = NoRun /\ op = NoOperation
      /\ recordIndex \in IndexStates /\ saverKind \in SaverKinds /\ lastID = 0 /\ stale = FALSE
  BY DEF SaverInit, IndexStates
<1>2. SaverTypeOK
  BY <1>1, IdleTyped DEF SaverTypeOK, RowsTyped
<1>3. IDsUsedOnce
  BY <1>1, IdleTyped, FS_EmptySet DEF IDsUsedOnce
<1>4. RowsWhole /\ ThreadIndexComplete
  BY <1>1 DEF RowsWhole, ThreadIndexComplete
<1>5. HeldWhole /\ DeletesSeen /\ KindStates
  BY <1>1, IdleTyped DEF HeldWhole, DeletesSeen, KindStates, Deleting
<1> QED
  BY <1>2, <1>3, <1>4, <1>5 DEF SaversInv

-----------------------------------------------------------------------------
(***************************************************************************)
(* Lists of records.                                                       *)
(***************************************************************************)
\* Records with different IDs are listed newest first.
LEMMA NewestFirstDescends ==
    ASSUME NEW ks, IsFiniteSet(ks), ks \subseteq RecordKeys, \A j, k \in ks : j[2] = k[2] => j = k
    PROVE  Descending(NewestFirst(ks), Cardinality(ks), ks)
<1> DEFINE less == {p \in ks \X ks : p[1][2] > p[2][2]}
<1>1. \A k \in ks : k[2] \in Nat
  BY DEF RecordKeys, CheckpointIDs
<1>2. \A j, k \in ks : <<j, k>> \in less <=> j[2] > k[2]
  OBVIOUS
<1>3. NewestFirst(ks) = InOrder(ks, less)
  BY DEF NewestFirst
<1> HIDE DEF less
<1>4. Orders(less, ks)
  <2>1. \A x \in ks : <<x, x>> \notin less
    BY <1>1, <1>2
  <2>2. ASSUME NEW x \in ks, NEW y \in ks, NEW z \in ks, <<x, y>> \in less, <<y, z>> \in less
        PROVE  <<x, z>> \in less
    <3>1. x[2] > y[2] /\ y[2] > z[2]
      BY <1>2, <2>2
    <3>2. x[2] > z[2]
      BY <1>1, <3>1
    <3> QED BY <1>2, <3>2
  <2>3. ASSUME NEW x \in ks, NEW y \in ks PROVE x = y \/ <<x, y>> \in less \/ <<y, x>> \in less
    <3>1. x[2] = y[2] \/ x[2] > y[2] \/ y[2] > x[2]
      BY <1>1
    <3> QED BY <1>2, <3>1
  <2> QED BY <2>1, <2>2, <2>3 DEF Orders
<1>5. PICK s, n : s = NewestFirst(ks) /\ n = Cardinality(ks)
  OBVIOUS
<1>6. /\ n \in Nat /\ s \in [1 .. n -> ks]
      /\ \A x \in ks : \E i \in 1 .. n : s[i] = x
      /\ \A i, j \in 1 .. n : i < j => <<s[i], s[j]>> \in less
  <2>1. s = InOrder(ks, less)
    BY <1>3, <1>5
  <2>2. Lists(s, n, ks, less)
    BY <1>4, <1>5, <2>1, InOrderFacts
  <2> QED BY <2>2 DEF Lists
<1>7. \A i, j \in 1 .. n : i < j => s[i][2] > s[j][2]
  BY <1>2, <1>6
<1> QED BY <1>1, <1>5, <1>6, <1>7 DEF Descending

\* A scan of a descending list descends.
LEMMA ScanDescends ==
    ASSUME NEW s, NEW m, NEW ks, Descending(s, m, ks), NEW I, I \subseteq 1 .. m
    PROVE  Descending(Scan(s, I), Cardinality(I), {s[i] : i \in I})
<1>1. m \in Nat /\ DOMAIN s = 1 .. m /\ \A i \in 1 .. m : s[i] \in ks /\ s[i][2] \in Nat
  BY DEF Descending
<1>2. PICK n : n = Cardinality(I)
  OBVIOUS
<1>3. PICK at : Selects(Scan(s, I), s, I, n, at)
  BY <1>1, <1>2, ScanFacts
<1>4. PICK t, M : t = Scan(s, I) /\ M = {s[i] : i \in I}
  OBVIOUS
<1>5. t \in [1 .. n -> M]
  BY <1>3, <1>4 DEF Selects
<1>6. \A k \in M : k[2] \in Nat
  BY <1>1, <1>4
<1>7. \A k \in M : \E i \in 1 .. n : t[i] = k
  BY <1>3, <1>4 DEF Selects
<1>8. ASSUME NEW i \in 1 .. n, NEW j \in 1 .. n, i < j PROVE t[i][2] > t[j][2]
  <2>1. t[i] = s[at[i]] /\ t[j] = s[at[j]] /\ at[i] \in 1 .. m /\ at[j] \in 1 .. m /\ at[i] < at[j]
    BY <1>3, <1>4, <1>8 DEF Selects
  <2> QED BY <2>1 DEF Descending
<1> QED BY <1>2, <1>3, <1>4, <1>5, <1>6, <1>7, <1>8 DEF Descending, Selects

\* The list that is cut at the limit holds the newest records.
NewestOf(listed, M, limit) ==
    /\ {listed[i] : i \in DOMAIN listed} =
         {k \in M : limit = 0 \/ Cardinality({j \in M : j[2] > k[2]}) < limit}
    /\ \A i, j \in DOMAIN listed : i < j => listed[i][2] > listed[j][2]

LEMMA CutNewest ==
    ASSUME NEW t, NEW n, NEW M, Descending(t, n, M), NEW limit \in Nat, NEW listed, listed = CutTo(t, limit)
    PROVE  NewestOf(listed, M, limit)
<1> DEFINE c == IF limit > 0 /\ n > limit THEN limit ELSE n
           Newer(k) == {j \in M : j[2] > k[2]}
<1>1. n \in Nat /\ t \in Seq(M) /\ Len(t) = n
  BY DEF Descending
<1>2. c \in Nat /\ c <= n /\ DOMAIN listed = 1 .. c /\ \A i \in 1 .. c : listed[i] = t[i]
  BY <1>1 DEF CutTo
<1>3. \A i \in 1 .. n : Cardinality(Newer(t[i])) = i - 1
  BY NewerCounted
<1> HIDE DEF Newer
<1>4. \A i \in 1 .. n : i <= c <=> (limit = 0 \/ Cardinality(Newer(t[i])) < limit)
  BY <1>1, <1>3
<1>5. \A k \in M : \E i \in 1 .. n : t[i] = k
  BY DEF Descending
<1>6. \A i \in 1 .. n : t[i] \in M
  BY DEF Descending
<1> HIDE DEF c
<1>7. {listed[i] : i \in DOMAIN listed} = {k \in M : limit = 0 \/ Cardinality(Newer(k)) < limit}
  <2>1. ASSUME NEW i \in DOMAIN listed
        PROVE  listed[i] \in M /\ (limit = 0 \/ Cardinality(Newer(listed[i])) < limit)
    <3>1. i \in 1 .. n /\ i <= c /\ listed[i] = t[i]
      BY <1>1, <1>2
    <3> QED BY <1>4, <1>6, <3>1
  <2>2. ASSUME NEW k \in M, limit = 0 \/ Cardinality(Newer(k)) < limit
        PROVE  \E i \in DOMAIN listed : listed[i] = k
    <3>1. PICK i \in 1 .. n : t[i] = k
      BY <1>5
    <3>2. i <= c
      BY <1>4, <2>2, <3>1
    <3> QED BY <1>1, <1>2, <3>1, <3>2
  <2> QED BY <2>1, <2>2
<1>8. ASSUME NEW i \in DOMAIN listed, NEW j \in DOMAIN listed, i < j PROVE listed[i][2] > listed[j][2]
  <2>1. i \in 1 .. c /\ j \in 1 .. c
    BY <1>2
  <2>2. i \in 1 .. n /\ j \in 1 .. n
    BY <1>1, <1>2, <2>1
  <2>3. t[i][2] > t[j][2]
    BY <1>8, <2>2 DEF Descending
  <2> QED BY <1>2, <2>1, <2>3
<1> QED BY <1>7, <1>8 DEF Newer, NewestOf

-----------------------------------------------------------------------------
(***************************************************************************)
(* Calls that change no record.                                            *)
(***************************************************************************)
\* The run and the operator as they were, or back at rest.
LEMMA BothRest ==
    ASSUME SaversInv, UNCHANGED <<saverKind, stored, lastID, orphans>>, stale' \in BOOLEAN,
           UNCHANGED <<threadRun, op>> \/ (threadRun' = NoRun /\ op' = NoOperation)
    PROVE  SaversInv'
<1>1. UNCHANGED <<saverKind, rows, blobs, recordIndex, pending, lastID, orphans>>
  BY DEF stored
<1>2. threadRun' \in RunStates /\ op' \in OpStates
  BY IdleTyped DEF SaversInv, SaverTypeOK
<1>3. SaverTypeOK'
  BY <1>1, <1>2, StoredKept DEF SaversInv, SaverTypeOK
<1>4. IDsUsedOnce'
  BY <1>1, StoredKept, IdleTyped DEF SaversInv, IDsUsedOnce
<1>5. HeldWhole'
  BY <1>1, IdleTyped DEF SaversInv, HeldWhole, Versioned, Sound
<1>6. DeletesSeen' /\ KindStates'
  BY <1>1, IdleTyped DEF SaversInv, DeletesSeen, KindStates, Deleting, Serialised
<1> QED
  BY <1>1, <1>3, <1>4, <1>5, <1>6, StoredKept DEF SaversInv

\* Opening, closing, ageing, and the steps of the policy that only decide.
LEMMA LifecycleKeeps ==
    ASSUME SaversInv, SqliteSetup \/ PostgresSetup \/ CloseSaver \/ OpenSaver \/ Age
    PROVE  SaversInv'
<1>1. /\ UNCHANGED <<saverKind, stored, lastID, orphans>>
      /\ UNCHANGED <<threadRun, op>> \/ (threadRun' = NoRun /\ op' = NoOperation)
      /\ stale' = stale \/ stale' = TRUE
  BY DEF SqliteSetup, PostgresSetup, CloseSaver, OpenSaver, Age
<1>2. stale' \in BOOLEAN
  BY <1>1 DEF SaversInv, SaverTypeOK
<1> QED
  BY <1>1, <1>2, BothRest

\* A step of the operator that only looks.
LEMMA OperatorMoves ==
    ASSUME SaversInv, op' \in OpStates, op'.at \in {"idle", "aged", "prune"},
           op'.writes \subseteq op.writes,
           UNCHANGED <<saverKind, stored, lastID, stale, threadRun, orphans>>
    PROVE  SaversInv'
<1>1. UNCHANGED <<saverKind, rows, blobs, recordIndex, pending, lastID, orphans>>
  BY DEF stored
<1>2. SaverTypeOK'
  BY <1>1, StoredKept DEF SaversInv, SaverTypeOK
<1>3. IDsUsedOnce'
  BY <1>1, StoredKept DEF SaversInv, IDsUsedOnce
<1>4. HeldWhole'
  BY <1>1 DEF SaversInv, HeldWhole, Versioned, Sound
<1>5. DeletesSeen' /\ KindStates'
  BY <1>1 DEF SaversInv, DeletesSeen, KindStates, Deleting, Serialised
<1> QED
  BY <1>1, <1>2, <1>3, <1>4, <1>5, StoredKept DEF SaversInv

\* What follows a deletion: the rest of the policy, or nothing.
LEMMA AfterDeleteTyped ==
    ASSUME op \in OpStates
    PROVE  AfterDelete \in OpStates /\ AfterDelete.at \in {"idle", "prune"} /\ AfterDelete.writes = {}
BY IdleTyped DEF AfterDelete, OpStates

\* A retention policy judges the thread by its age; these steps remove nothing.
LEMMA PolicyKeeps ==
    ASSUME SaversInv, Apply \/ ApplyYoung \/ ApplyUnpruned
    PROVE  SaversInv'
<1>1. op \in OpStates /\ stale \in BOOLEAN
  BY DEF SaversInv, SaverTypeOK
<1>2. UNCHANGED <<saverKind, stored, lastID, stale, threadRun, orphans>>
  BY DEF Apply, ApplyYoung, ApplyUnpruned
<1>3. op' \in OpStates /\ op'.at \in {"idle", "aged", "prune"} /\ op'.writes \subseteq op.writes
  <2>1. CASE Apply
    <3>1. op' = [op EXCEPT !.at = "aged", !.policy = TRUE, !.aged = stale]
      BY <2>1 DEF Apply
    <3> QED
      BY <3>1, <1>1 DEF OpStates
  <2>2. CASE ApplyYoung
    BY <2>2, <1>1, IdleTyped, AfterDeleteTyped DEF ApplyYoung
  <2>3. CASE ApplyUnpruned
    BY <2>3, IdleTyped DEF ApplyUnpruned
  <2> QED
    BY <2>1, <2>2, <2>3
<1> QED
  BY <1>2, <1>3, OperatorMoves

-----------------------------------------------------------------------------
(***************************************************************************)
(* The run.                                                                *)
(***************************************************************************)
\* A step of the run that changes no record.
LEMMA RunMoves ==
    ASSUME SaversInv, UNCHANGED <<saverKind, stored, lastID, stale, op, orphans>>,
           threadRun' \in RunStates, HeldWhole', Deleting /\ threadRun'.at # "idle" => threadRun'.torn,
           threadRun'.at = "loading" => saverKind = "postgres",
           threadRun'.at = "checked" =>
              /\ ~Serialised /\ threadRun'.batch \in WriteBatches
              /\ threadRun'.key \in RecordKeys /\ threadRun'.key[2] <= lastID
    PROVE  SaversInv'
<1>1. UNCHANGED <<saverKind, rows, blobs, recordIndex, pending, lastID, orphans, op>>
  BY DEF stored
<1>2. SaverTypeOK'
  BY <1>1, StoredKept DEF SaversInv, SaverTypeOK
<1>3. IDsUsedOnce'
  BY <1>1, StoredKept DEF SaversInv, IDsUsedOnce
<1>4. DeletesSeen' /\ KindStates'
  BY <1>1 DEF SaversInv, DeletesSeen, KindStates, Deleting, Serialised
<1> QED
  BY <1>1, <1>2, <1>3, <1>4, StoredKept DEF SaversInv

\* The values that a saver loads for a record that is whole.
LEMMA WholeLoads ==
    ASSUME SaversInv, NEW k \in DOMAIN rows
    PROVE  /\ LoadedValues(k) \subseteq StateChannels
           /\ k \notin orphans => LoadedValues(k) = StateChannels
           /\ k \notin orphans /\ saverKind # "redis" => Versioned(k[1], rows[k].versions)
<1>1. saverKind \in {"memory", "sqlite", "postgres", "redis"} /\ rows[k].vals \subseteq StateChannels
  BY DEF SaversInv, SaverTypeOK, SaverKinds, RowsTyped, CheckpointRow
<1>2. k \notin orphans => IF saverKind = "redis" THEN rows[k].vals = StateChannels
                          ELSE Versioned(k[1], rows[k].versions)
  BY DEF SaversInv, RowsWhole
<1>3. CASE saverKind = "redis"
  BY <1>1, <1>2, <1>3 DEF LoadedValues, RedisValues
<1>4. CASE saverKind # "redis"
  <2>1. LoadedValues(k) = {c \in StateChannels : <<k[1], c, rows[k].versions[c]>> \in blobs}
    BY <1>1, <1>4 DEF LoadedValues, MemoryValues, HydrateSqlite, HydratePostgres
  <2> QED
    BY <2>1, <1>2, <1>4 DEF Versioned
<1> QED
  BY <1>3, <1>4

\* GetTuple: there is at most one latest record of a namespace.
LEMMA LatestUnique ==
    ASSUME NEW n, NEW ks \in SUBSET RecordKeys, NEW j \in LatestOf(n, ks), NEW k \in LatestOf(n, ks)
    PROVE  j = k /\ k[1] = n /\ k = <<n, k[2]>>
<1>1. j \in RecordKeys /\ k \in RecordKeys /\ j[1] = n /\ k[1] = n /\ j[2] <= k[2] /\ k[2] <= j[2]
  BY DEF LatestOf
<1>2. j = <<j[1], j[2]>> /\ k = <<k[1], k[2]>> /\ j[2] \in Nat /\ k[2] \in Nat
  BY <1>1 DEF RecordKeys, CheckpointIDs
<1>3. j[2] = k[2]
  BY <1>1, <1>2
<1> QED
  BY <1>1, <1>2, <1>3

\* A run loads the latest checkpoint of its namespace, with the row and the blobs or the row
\* first.
LEMMA StartKeeps ==
    ASSUME SaversInv, NEW n \in Namespaces, StartRun(n)
    PROVE  SaversInv'
<1> DEFINE ks == IF saverKind = "redis" THEN recordIndex.namespace ELSE DOMAIN rows
           latest == LatestOf(n, ks)
           pick == CHOOSE k \in latest : TRUE
           loaded == [id |-> pick[2], versions |-> rows[pick].versions,
                      got |-> IF saverKind = "postgres" THEN {} ELSE LoadedValues(pick)]
           h == IF latest \cap DOMAIN rows = {} THEN NothingHeld ELSE loaded
           stage == IF saverKind = "postgres" THEN "loading" ELSE "running"
<1>1. /\ threadRun' = [threadRun EXCEPT !.at = stage, !.ns = n, !.torn = Deleting, !.held = h]
      /\ UNCHANGED <<saverKind, stored, lastID, stale, op, orphans>>
  BY DEF StartRun
<1>2. ks \subseteq RecordKeys /\ threadRun \in RunStates /\ saverKind \in SaverKinds
  BY DEF SaversInv, SaverTypeOK, RowsTyped, IndexStates
<1>3. ASSUME latest \cap DOMAIN rows # {}
      PROVE  pick \in DOMAIN rows /\ pick = <<n, pick[2]>> /\ pick[1] = n /\ pick \in RecordKeys
  <2>1. PICK k \in latest : k \in DOMAIN rows
    BY <1>3
  <2>2. pick \in latest
    BY <2>1
  <2>3. pick = k /\ pick[1] = n /\ pick = <<n, pick[2]>>
    BY <2>1, <2>2, <1>2, LatestUnique
  <2> QED
    BY <2>1, <2>3 DEF SaversInv, SaverTypeOK, RowsTyped
<1> HIDE DEF pick, latest, ks
<1>4. h \in HeldState
  <2>1. CASE latest \cap DOMAIN rows = {}
    BY <2>1, IdleTyped
  <2>2. CASE latest \cap DOMAIN rows # {}
    <3>1. pick[2] \in Nat
      BY <1>3, <2>2 DEF RecordKeys, CheckpointIDs
    <3>2. rows[pick].versions \in [StateChannels -> Nat]
      BY <1>3, <2>2 DEF SaversInv, SaverTypeOK, RowsTyped, CheckpointRow
    <3>3. LoadedValues(pick) \subseteq StateChannels
      BY <1>3, <2>2, WholeLoads
    <3> QED
      BY <2>2, <3>1, <3>2, <3>3 DEF HeldState
  <2> QED
    BY <2>1, <2>2
<1>5. h.id # NoID => latest \cap DOMAIN rows # {} /\ h = loaded
  BY IdleTyped
<1>6. /\ h.id # NoID /\ <<n, h.id>> \notin orphans =>
            /\ saverKind # "redis" => Versioned(n, h.versions)
            /\ stage # "loading" => h.got = StateChannels
  <2> SUFFICES ASSUME h.id # NoID, <<n, h.id>> \notin orphans
               PROVE  /\ saverKind # "redis" => Versioned(n, h.versions)
                      /\ stage # "loading" => h.got = StateChannels
    OBVIOUS
  <2>1. /\ pick \in DOMAIN rows /\ pick = <<n, pick[2]>> /\ pick[1] = n
        /\ h.id = pick[2] /\ h.versions = rows[pick].versions
        /\ h.got = IF saverKind = "postgres" THEN {} ELSE LoadedValues(pick)
    BY <1>3, <1>5
  <2>2. pick \notin orphans
    BY <2>1
  <2> QED
    BY <2>1, <2>2, WholeLoads
<1> HIDE DEF h
<1>7. /\ threadRun' \in RunStates /\ threadRun'.at = stage /\ threadRun'.ns = n
      /\ threadRun'.torn = Deleting /\ threadRun'.held = h
  <2>1. Deleting \in BOOLEAN /\ stage \in {"loading", "running"}
    BY DEF Deleting
  <2> HIDE DEF stage
  <2> QED
    BY <1>1, <1>2, <1>4, <2>1 DEF RunStates
<1>8. UNCHANGED <<saverKind, blobs, orphans, op>>
  BY <1>1 DEF stored
<1>9. HeldWhole'
  BY <1>6, <1>7, <1>8 DEF HeldWhole, Sound, Versioned
<1> QED
  BY <1>1, <1>7, <1>9, RunMoves

\* PostgreSQL loads the blobs of the row after the row.
LEMMA LoadKeeps == ASSUME SaversInv, LoadBlobs PROVE SaversInv'
<1> DEFINE got == IF threadRun.held.id = NoID THEN {} ELSE HydratePostgres(threadRun.held, threadRun.ns)
<1>1. /\ threadRun.at = "loading" /\ threadRun' = [threadRun EXCEPT !.at = "running", !.held.got = got]
      /\ UNCHANGED <<saverKind, stored, lastID, stale, op, orphans>>
  BY DEF LoadBlobs
<1>2. threadRun \in RunStates /\ threadRun.held \in HeldState /\ saverKind = "postgres"
  BY <1>1 DEF SaversInv, SaverTypeOK, RunStates, KindStates
<1>3. got \subseteq StateChannels
  BY DEF HydratePostgres
<1>4. threadRun.held.id # NoID => got = {c \in StateChannels :
          <<threadRun.ns, c, threadRun.held.versions[c]>> \in blobs}
  BY DEF HydratePostgres
<1> HIDE DEF got
<1>5. [threadRun.held EXCEPT !.got = got] \in HeldState
  BY <1>2, <1>3 DEF HeldState
<1>6. threadRun' = [threadRun EXCEPT !.at = "running", !.held = [threadRun.held EXCEPT !.got = got]]
  BY <1>1, <1>2 DEF RunStates
<1>7. /\ threadRun' \in RunStates /\ threadRun'.at = "running" /\ threadRun'.ns = threadRun.ns
      /\ threadRun'.torn = threadRun.torn /\ threadRun'.held = [threadRun.held EXCEPT !.got = got]
  BY <1>2, <1>5, <1>6 DEF RunStates
<1>8. /\ threadRun'.held.got = got /\ threadRun'.held.id = threadRun.held.id
      /\ threadRun'.held.versions = threadRun.held.versions
  BY <1>2, <1>7 DEF HeldState
<1>9. UNCHANGED <<saverKind, blobs, orphans>>
  BY <1>1 DEF stored
<1>10. HeldWhole'
  BY <1>1, <1>2, <1>4, <1>7, <1>8, <1>9 DEF SaversInv, HeldWhole, Sound, Versioned
<1>11. Deleting => threadRun'.torn
  BY <1>1, <1>7 DEF SaversInv, DeletesSeen
<1> QED
  BY <1>1, <1>7, <1>10, <1>11, RunMoves

\* A run ends.
LEMMA EndKeeps == ASSUME SaversInv, EndRun PROVE SaversInv'
<1>1. threadRun' = NoRun /\ UNCHANGED <<saverKind, stored, lastID, stale, op, orphans>>
  BY DEF EndRun
<1>2. HeldWhole'
  BY <1>1, IdleTyped DEF HeldWhole
<1> QED
  BY <1>1, <1>2, IdleTyped, RunMoves

\* PutWrites of PostgreSQL and Redis looks for the checkpoint first.
LEMMA CheckKeeps ==
    ASSUME SaversInv, NEW k \in DOMAIN rows, NEW batch \in WriteBatches, CheckWrites(k, batch)
    PROVE  SaversInv'
<1>1. /\ threadRun.at = "running" /\ ~Serialised
      /\ threadRun' = [threadRun EXCEPT !.at = "checked", !.key = k, !.batch = batch]
      /\ UNCHANGED <<saverKind, stored, lastID, stale, op, orphans>>
  BY DEF CheckWrites
<1>2. threadRun \in RunStates /\ k \in RecordKeys /\ k[2] <= lastID
  BY DEF SaversInv, SaverTypeOK, RowsTyped, IDsUsedOnce
<1>3. /\ threadRun' \in RunStates /\ threadRun'.at = "checked" /\ threadRun'.ns = threadRun.ns
      /\ threadRun'.torn = threadRun.torn /\ threadRun'.held = threadRun.held
      /\ threadRun'.key = k /\ threadRun'.batch = batch
  BY <1>1, <1>2 DEF RunStates
<1>5. UNCHANGED <<saverKind, blobs, orphans>>
  BY <1>1 DEF stored
<1>6. HeldWhole'
  BY <1>1, <1>3, <1>5 DEF SaversInv, HeldWhole, Sound, Versioned
<1>7. Deleting => threadRun'.torn
  BY <1>1, <1>3 DEF SaversInv, DeletesSeen
<1> QED
  BY <1>1, <1>2, <1>3, <1>6, <1>7, RunMoves

-----------------------------------------------------------------------------
(***************************************************************************)
(* PutWrites.                                                              *)
(***************************************************************************)
\* What was stored as a result stays, and what is added names its record.
LEMMA AddWriteKeeps ==
    ASSUME NEW ws \in SUBSET StoredWrite, NEW k \in RecordKeys, NEW batch \in WriteBatches
    PROVE  /\ AddWrite(ws, k, batch[1]) \subseteq StoredWrite
           /\ \A w \in AddWrite(ws, k, batch[1]) : w \in ws \/ w.key = k
           /\ \A w \in ws : w.idx = "result" => w \in AddWrite(ws, k, batch[1])
<1> DEFINE b == batch[1]
           same == {x \in ws : x.key = k /\ x.idx = b.idx}
           new == [key |-> k, idx |-> b.idx, val |-> b.val]
<1>1. b.idx \in {"result", "control"} /\ b.val \in 1 .. 2
  BY FirstOfBatch
<1>2. new \in StoredWrite /\ new.key = k
  BY <1>1 DEF StoredWrite
<1>3. AddWrite(ws, k, b) = IF b.idx = "result" /\ same # {} THEN ws ELSE (ws \ same) \cup {new}
  BY DEF AddWrite
<1> HIDE DEF b, new
<1> QED
  BY <1>1, <1>2, <1>3 DEF b

\* A step that adds writes of a record and lets the run go on.
LEMMA WritesAdded ==
    ASSUME SaversInv, NEW k \in RecordKeys, k[2] <= lastID, NEW batch \in WriteBatches,
           pending' \in {pending, AddWrite(pending, k, batch[1])},
           threadRun' \in RunStates, threadRun'.at = "running", threadRun.at # "idle",
           threadRun.at # "loading",
           threadRun'.ns = threadRun.ns, threadRun'.torn = threadRun.torn,
           threadRun'.held = threadRun.held,
           UNCHANGED <<saverKind, schema, saver, rows, blobs, recordIndex, lastID, stale, op, orphans>>
    PROVE  SaversInv' /\ \A w \in pending : w.idx = "result" => w \in pending'
<1>1. pending \subseteq StoredWrite
  BY DEF SaversInv, SaverTypeOK
<1>2. /\ pending' \subseteq StoredWrite /\ \A w \in pending' : w \in pending \/ w.key = k
      /\ \A w \in pending : w.idx = "result" => w \in pending'
  BY <1>1, AddWriteKeeps
<1>3. SaverTypeOK'
  BY <1>2, StoredKept DEF SaversInv, SaverTypeOK
<1>4. IDsUsedOnce'
  BY <1>2, StoredKept DEF SaversInv, IDsUsedOnce
<1>5. HeldWhole'
  BY DEF SaversInv, HeldWhole, Sound, Versioned
<1>6. DeletesSeen' /\ KindStates'
  BY DEF SaversInv, DeletesSeen, KindStates, Deleting, Serialised
<1> QED
  BY <1>2, <1>3, <1>4, <1>5, <1>6, StoredKept DEF SaversInv

\* PutWrites stores what was not stored for its task before.
LEMMA PutWritesKeeps ==
    ASSUME SaversInv,
           \/ \E k \in DOMAIN rows, batch \in WriteBatches : PutWrites(k, batch)
           \/ PostgresPutWrites \/ RedisPutWrites
    PROVE  SaversInv' /\ \A w \in pending : w.idx = "result" => w \in pending'
<1>0. threadRun \in RunStates
  BY DEF SaversInv, SaverTypeOK
<1>1. ASSUME NEW k \in DOMAIN rows, NEW batch \in WriteBatches, PutWrites(k, batch)
      PROVE  SaversInv' /\ \A w \in pending : w.idx = "result" => w \in pending'
  <2>1. k \in RecordKeys /\ k[2] <= lastID
    BY DEF SaversInv, SaverTypeOK, RowsTyped, IDsUsedOnce
  <2>2. /\ threadRun.at = "running" /\ pending' \in {pending, AddWrite(pending, k, batch[1])}
        /\ UNCHANGED <<saverKind, schema, saver, rows, blobs, recordIndex, lastID, stale, threadRun, op,
                       orphans>>
    BY <1>1 DEF PutWrites, MemoryPutWrites, SqlitePutWrites
  <2> QED
    BY <1>0, <2>1, <2>2, WritesAdded
<1>2. CASE PostgresPutWrites \/ RedisPutWrites
  <2>1. /\ threadRun.at = "checked" /\ pending' = AddWrite(pending, threadRun.key, threadRun.batch[1])
        /\ threadRun' = [threadRun EXCEPT !.at = "running", !.key = <<>>, !.batch = <<>>]
        /\ UNCHANGED <<saverKind, schema, saver, rows, blobs, recordIndex, lastID, stale, op, orphans>>
    BY <1>2 DEF PostgresPutWrites, RedisPutWrites
  <2>2. threadRun.key \in RecordKeys /\ threadRun.key[2] <= lastID /\ threadRun.batch \in WriteBatches
    BY <2>1 DEF SaversInv, IDsUsedOnce, KindStates
  <2>3. /\ threadRun' \in RunStates /\ threadRun'.at = "running" /\ threadRun'.ns = threadRun.ns
        /\ threadRun'.torn = threadRun.torn /\ threadRun'.held = threadRun.held
    BY <1>0, <2>1 DEF RunStates
  <2> QED
    BY <2>1, <2>2, <2>3, WritesAdded
<1> QED
  BY <1>1, <1>2

-----------------------------------------------------------------------------
(***************************************************************************)
(* Put.                                                                    *)
(***************************************************************************)
\* The versions that a checkpoint names.
NewVersions(id, changed) ==
    [c \in StateChannels |-> IF c \in changed THEN id ELSE threadRun.held.versions[c]]

\* The row that a run puts, as each saver stores it.
LEMMA NewRowTyped ==
    ASSUME SaversInv, NEW n \in Namespaces, NEW id \in Nat, NEW changed \in SUBSET StateChannels
    PROVE  /\ NewRow(n, id, changed) \in CheckpointRow
           /\ [NewRow(n, id, changed) EXCEPT !.vals = {}] \in CheckpointRow
           /\ NewRow(n, id, changed).vals = changed \cup threadRun.held.got
           /\ NewRow(n, id, changed).versions = NewVersions(id, changed)
           /\ [NewRow(n, id, changed) EXCEPT !.vals = {}].versions = NewVersions(id, changed)
<1>1. threadRun.held \in HeldState
  BY DEF SaversInv, SaverTypeOK, RunStates
<1>2. /\ threadRun.held.id \in Nat /\ threadRun.held.versions \in [StateChannels -> Nat]
      /\ threadRun.held.got \subseteq StateChannels
  BY <1>1 DEF HeldState
<1>3. NewVersions(id, changed) \in [StateChannels -> Nat]
  BY <1>2 DEF NewVersions
<1>4. changed \cup threadRun.held.got \subseteq StateChannels
  BY <1>2
<1>5. (IF threadRun.held.id = NoID THEN "input" ELSE "loop") \in Sources
  BY DEF Sources
<1> DEFINE r == NewRow(n, id, changed)
           vs == NewVersions(id, changed)
<1>6. r = [parent |-> threadRun.held.id, versions |-> vs, vals |-> changed \cup threadRun.held.got,
           source |-> IF threadRun.held.id = NoID THEN "input" ELSE "loop"]
  BY DEF NewRow, NewVersions
<1> HIDE DEF vs, r
<1>7. r \in CheckpointRow
  BY <1>2, <1>3, <1>4, <1>5, <1>6 DEF CheckpointRow, vs
<1>8. r.versions = vs /\ r.vals = changed \cup threadRun.held.got
  BY <1>6
<1>9. [r EXCEPT !.vals = {}] \in CheckpointRow /\ [r EXCEPT !.vals = {}].versions = vs
  BY <1>7, <1>8 DEF CheckpointRow
<1> QED
  BY <1>7, <1>8, <1>9 DEF r, vs

\* Put stores a new record and the blobs of the channels that changed.
LEMMA PutKeeps ==
    ASSUME SaversInv, NEW changed \in SUBSET StateChannels, PutCheckpoint(changed)
    PROVE  SaversInv' /\ pending' = pending
<1> DEFINE id == lastID + 1
           n == threadRun.ns
           key == <<n, id>>
           vs == NewVersions(id, changed)
           hold == [id |-> id, versions |-> rows'[key].versions, got |-> changed \cup threadRun.held.got]
<1>1. /\ threadRun.at = "running" /\ id \in CheckpointIDs
      /\ threadRun.held.id = NoID => changed = StateChannels
      /\ lastID' = id /\ stale' = FALSE /\ threadRun' = [threadRun EXCEPT !.held = hold]
      /\ orphans' = IF threadRun.torn \/ <<n, threadRun.held.id>> \in orphans
                    THEN orphans \cup {key} ELSE orphans
      /\ UNCHANGED <<saverKind, schema, saver, op>>
  BY DEF PutCheckpoint
<1>2. /\ threadRun \in RunStates /\ n \in Namespaces /\ lastID \in Nat /\ id \in Nat
      /\ threadRun.held \in HeldState /\ threadRun.held.got \subseteq StateChannels
      /\ saverKind \in {"memory", "sqlite", "postgres", "redis"}
  BY <1>1 DEF SaversInv, SaverTypeOK, RunStates, HeldState, HeldWhole, SaverKinds
<1>3. key \in RecordKeys /\ key[1] = n /\ key[2] = id
  BY <1>1, <1>2 DEF RecordKeys
<1>4. PICK row \in CheckpointRow :
         /\ rows' = With(rows, key, row)
         /\ row.versions = vs
         /\ saverKind = "redis" => row.vals = changed \cup threadRun.held.got
  <2>1. CASE saverKind = "redis"
    <3>1. rows' = With(rows, key, NewRow(n, id, changed))
      BY <2>1 DEF PutCheckpoint, RedisPut
    <3>2. NewRow(n, id, changed) \in CheckpointRow /\ NewRow(n, id, changed).versions = vs
          /\ NewRow(n, id, changed).vals = changed \cup threadRun.held.got
      BY <1>2, NewRowTyped, ZenonT(40)
    <3> QED
      BY <3>1, <3>2
  <2>2. CASE saverKind # "redis"
    <3>1. rows' = With(rows, key, [NewRow(n, id, changed) EXCEPT !.vals = {}])
      BY <2>2, <1>2 DEF PutCheckpoint, MemoryPut, SqlitePut, PostgresPut
    <3>2. [NewRow(n, id, changed) EXCEPT !.vals = {}] \in CheckpointRow
      BY <1>2, NewRowTyped
    <3>3. [NewRow(n, id, changed) EXCEPT !.vals = {}].versions = vs
      BY <1>2, NewRowTyped, ZenonT(40)
    <3> QED
      BY <3>1, <3>2, <3>3, <2>2
  <2> QED
    BY <2>1, <2>2
<1>5. /\ pending' = pending
      /\ saverKind # "redis" => blobs' = blobs \cup {<<n, c, id>> : c \in changed}
      /\ recordIndex' = IF saverKind = "redis"
             THEN [x \in DOMAIN recordIndex |-> recordIndex[x] \cup {key}] ELSE recordIndex
  BY <1>2 DEF PutCheckpoint, MemoryPut, SqlitePut, PostgresPut, RedisPut, NewBlobs
<1>6. key \notin DOMAIN rows /\ \A k \in DOMAIN rows : k[2] # id
  BY <1>2, <1>3 DEF SaversInv, IDsUsedOnce, SaverTypeOK, RowsTyped, RecordKeys, CheckpointIDs
<1> HIDE DEF key, id, n, vs
<1>7. /\ DOMAIN rows' = DOMAIN rows \cup {key} /\ rows'[key] = row
      /\ \A k \in DOMAIN rows : rows'[k] = rows[k]
  BY <1>4, <1>6 DEF With
<1>8. RowsTyped'
  BY <1>3, <1>7 DEF RowsTyped, SaversInv, SaverTypeOK
<1>9. /\ recordIndex' \in IndexStates
      /\ (saverKind = "redis" => recordIndex'.thread = recordIndex.thread \cup {key})
  <2>1. recordIndex \in IndexStates
    BY DEF SaversInv, SaverTypeOK
  <2>2. CASE saverKind # "redis"
    BY <2>1, <2>2, <1>5
  <2>3. CASE saverKind = "redis"
    <3>1. recordIndex' = [x \in {"all", "thread", "namespace"} |-> recordIndex[x] \cup {key}]
      BY <2>1, <2>3, <1>5 DEF IndexStates
    <3>2. recordIndex' = [all |-> recordIndex.all \cup {key}, thread |-> recordIndex.thread \cup {key},
                          namespace |-> recordIndex.namespace \cup {key}]
      BY <3>1
    <3> QED
      BY <2>1, <3>2, <1>3 DEF IndexStates
  <2> QED
    BY <2>2, <2>3
<1>10. /\ threadRun' \in RunStates /\ threadRun'.held = hold /\ threadRun'.at = "running"
       /\ threadRun'.ns = threadRun.ns /\ threadRun'.torn = threadRun.torn
       /\ hold.id = id /\ hold.versions = vs /\ hold.got = changed \cup threadRun.held.got
  <2>1. /\ hold \in HeldState /\ hold.id = id /\ hold.versions = vs
        /\ hold.got = changed \cup threadRun.held.got
    <3>1. rows'[key].versions \in [StateChannels -> Nat] /\ rows'[key].versions = vs
      BY <1>4, <1>7 DEF CheckpointRow
    <3> QED
      BY <3>1, <1>2 DEF HeldState
  <2> HIDE DEF hold
  <2> QED
    BY <2>1, <1>1, <1>2 DEF RunStates
<1>11. SaverTypeOK'
  BY <1>1, <1>2, <1>5, <1>8, <1>9, <1>10 DEF SaversInv, SaverTypeOK, id
<1>12. IDsUsedOnce'
  <2>1. IsFiniteSet(DOMAIN rows')
    BY <1>7, FS_AddElement DEF SaversInv, IDsUsedOnce
  <2>2. \A j, k \in DOMAIN rows' : j[2] = k[2] => j = k
    BY <1>3, <1>6, <1>7 DEF SaversInv, IDsUsedOnce
  <2>3. \A k \in DOMAIN rows' : k[2] <= lastID'
    <3> SUFFICES ASSUME NEW k \in DOMAIN rows' PROVE k[2] <= lastID'
      OBVIOUS
    <3>1. CASE k = key
      BY <3>1, <1>1, <1>2, <1>3 DEF id
    <3>2. CASE k \in DOMAIN rows
      <4>1. k[2] \in Nat /\ k[2] <= lastID
        BY <3>2 DEF SaversInv, IDsUsedOnce, SaverTypeOK, RowsTyped, RecordKeys, CheckpointIDs
      <4> QED
        BY <4>1, <1>1, <1>2 DEF id
    <3> QED
      BY <3>1, <3>2, <1>7
  <2>4. \A w \in pending' \cup op'.writes : w.key[2] <= lastID'
    <3> SUFFICES ASSUME NEW w \in pending \cup op.writes PROVE w.key[2] <= lastID'
      BY <1>1, <1>5
    <3>1. w \in StoredWrite /\ w.key[2] <= lastID
      BY DEF SaversInv, SaverTypeOK, OpStates, IDsUsedOnce
    <3>2. w.key[2] \in Nat
      BY <3>1 DEF StoredWrite, RecordKeys, CheckpointIDs
    <3> QED
      BY <3>1, <3>2, <1>1, <1>2 DEF id
  <2> QED
    BY <2>1, <2>2, <2>3, <2>4, <1>10 DEF IDsUsedOnce
<1>13. key \notin orphans' => ~threadRun.torn /\ <<n, threadRun.held.id>> \notin orphans
  BY <1>1
<1>14. ~threadRun.torn /\ <<n, threadRun.held.id>> \notin orphans =>
          /\ saverKind # "redis" => \A c \in StateChannels : <<n, c, vs[c]>> \in blobs'
          /\ changed \cup threadRun.held.got = StateChannels
  <2> SUFFICES ASSUME ~threadRun.torn, <<n, threadRun.held.id>> \notin orphans
               PROVE  /\ saverKind # "redis" => \A c \in StateChannels : <<n, c, vs[c]>> \in blobs'
                      /\ changed \cup threadRun.held.got = StateChannels
    OBVIOUS
  <2>1. CASE threadRun.held.id = NoID
    BY <2>1, <1>1, <1>2, <1>5 DEF vs, NewVersions
  <2>2. CASE threadRun.held.id # NoID
    <3>1. /\ saverKind # "redis" => Versioned(n, threadRun.held.versions)
          /\ threadRun.held.got = StateChannels
      BY <2>2, <1>1 DEF SaversInv, HeldWhole, Sound, n
    <3>2. saverKind # "redis" => \A c \in StateChannels : <<n, c, vs[c]>> \in blobs'
      BY <3>1, <1>5 DEF vs, NewVersions, Versioned
    <3> QED
      BY <3>1, <3>2
  <2> QED
    BY <2>1, <2>2
<1>15. RowsWhole'
  <2> SUFFICES ASSUME NEW k \in DOMAIN rows' \ orphans'
               PROVE  /\ saverKind = "redis" => rows'[k].vals = StateChannels
                      /\ saverKind # "redis" => \A c \in StateChannels :
                             <<k[1], c, rows'[k].versions[c]>> \in blobs'
    BY <1>1 DEF RowsWhole, Versioned
  <2>1. CASE k = key
    BY <2>1, <1>3, <1>4, <1>7, <1>13, <1>14
  <2>2. CASE k \in DOMAIN rows
    <3>1. k \notin orphans /\ rows'[k] = rows[k]
      BY <2>2, <1>1, <1>7
    <3>2. IF saverKind = "redis" THEN rows[k].vals = StateChannels ELSE Versioned(k[1], rows[k].versions)
      BY <2>2, <3>1 DEF SaversInv, RowsWhole
    <3> QED
      BY <3>1, <3>2, <1>5 DEF Versioned
  <2> QED
    BY <2>1, <2>2, <1>7
<1>16. HeldWhole'
  <2>1. Sound' => ~threadRun.torn /\ <<n, threadRun.held.id>> \notin orphans
    BY <1>10, <1>13 DEF Sound, key, n
  <2> QED
    BY <2>1, <1>1, <1>2, <1>10, <1>14 DEF HeldWhole, Versioned, n
<1>17. DeletesSeen'
  <2>1. Deleting => threadRun.torn
    BY <1>1 DEF SaversInv, DeletesSeen
  <2>2. Deleting => key \in orphans'
    BY <2>1, <1>1
  <2>3. Deleting' => threadRun'.torn
    BY <2>1, <1>1, <1>10 DEF Deleting
  <2>4. orphans \subseteq orphans'
    BY <1>1
  <2>5. op.at = "rows" =>
          /\ DOMAIN rows' \ op.rows \subseteq orphans'
          /\ \A w \in op.writes : w.key \in DOMAIN rows' => w.key \in op.rows
    <3> SUFFICES ASSUME op.at = "rows"
                 PROVE  /\ DOMAIN rows' \ op.rows \subseteq orphans'
                        /\ \A w \in op.writes : w.key \in DOMAIN rows' => w.key \in op.rows
      OBVIOUS
    <3>1. DOMAIN rows' \ op.rows \subseteq orphans'
      BY <2>2, <2>4, <1>7 DEF SaversInv, DeletesSeen, Deleting
    <3>2. ASSUME NEW w \in op.writes, w.key = key PROVE FALSE
      <4>1. w.key[2] <= lastID
        BY DEF SaversInv, IDsUsedOnce
      <4> QED
        BY <4>1, <3>2, <1>2, <1>3 DEF id
    <3> QED
      BY <3>1, <3>2, <1>7 DEF SaversInv, DeletesSeen
  <2>6. op.at = "members" => DOMAIN rows' \ orphans' \subseteq op.rows
    BY <2>2, <2>4, <1>7 DEF SaversInv, DeletesSeen, Deleting
  <2> QED
    BY <2>3, <2>5, <2>6, <1>1 DEF DeletesSeen
<1>18. KindStates'
  BY <1>1, <1>10 DEF SaversInv, KindStates
<1>19. ThreadIndexComplete'
  BY <1>1, <1>7, <1>9 DEF SaversInv, ThreadIndexComplete
<1> QED
  BY <1>5, <1>11, <1>12, <1>15, <1>16, <1>17, <1>18, <1>19 DEF SaversInv

-----------------------------------------------------------------------------
(***************************************************************************)
(* Deleting and pruning.                                                   *)
(***************************************************************************)
\* The run beside a deletion.
LEMMA InterruptedTyped ==
    ASSUME threadRun \in RunStates
    PROVE  /\ RunInterrupted \in RunStates /\ RunInterrupted.at = threadRun.at
           /\ RunInterrupted.ns = threadRun.ns /\ RunInterrupted.held = threadRun.held
           /\ RunInterrupted.key = threadRun.key /\ RunInterrupted.batch = threadRun.batch
           /\ RunInterrupted.torn = (threadRun.at # "idle")
<1> DEFINE t == threadRun.at # "idle"
<1>1. t \in BOOLEAN /\ RunInterrupted = [threadRun EXCEPT !.torn = t]
  BY DEF RunInterrupted
<1> HIDE DEF t
<1>2. /\ RunInterrupted \in RunStates /\ RunInterrupted.at = threadRun.at
      /\ RunInterrupted.ns = threadRun.ns /\ RunInterrupted.held = threadRun.held
      /\ RunInterrupted.key = threadRun.key /\ RunInterrupted.batch = threadRun.batch
      /\ RunInterrupted.torn = t
  BY <1>1 DEF RunStates
<1> QED
  BY <1>2 DEF t

\* A step that removes records and ends the deletion or the pruning.
LEMMA RecordsRemoved ==
    ASSUME SaversInv, DOMAIN rows' \subseteq DOMAIN rows, \A k \in DOMAIN rows' : rows'[k] = rows[k],
           pending' \subseteq pending, recordIndex' \in IndexStates, ThreadIndexComplete',
           op' \in OpStates, op'.at \in {"idle", "prune"}, op'.writes = {},
           threadRun' = threadRun \/ threadRun' = RunInterrupted,
           \/ blobs' = blobs
           \/ DOMAIN rows' \subseteq orphans /\ (threadRun'.at # "idle" => threadRun'.torn)
                /\ saverKind # "redis",
           UNCHANGED <<saverKind, lastID, stale, orphans>>
    PROVE  SaversInv'
<1>1. /\ threadRun' \in RunStates /\ threadRun'.at = threadRun.at /\ threadRun'.ns = threadRun.ns
      /\ threadRun'.held = threadRun.held /\ threadRun'.key = threadRun.key
      /\ threadRun'.batch = threadRun.batch
      /\ threadRun.at # "idle" /\ ~threadRun'.torn => ~threadRun.torn
  BY InterruptedTyped DEF SaversInv, SaverTypeOK
<1>2. RowsTyped'
  BY DEF SaversInv, SaverTypeOK, RowsTyped
<1>3. SaverTypeOK'
  BY <1>1, <1>2 DEF SaversInv, SaverTypeOK
<1>4. IDsUsedOnce'
  <2>1. IsFiniteSet(DOMAIN rows')
    BY FS_Subset DEF SaversInv, IDsUsedOnce
  <2> QED
    BY <2>1, <1>1 DEF SaversInv, IDsUsedOnce
<1>5. RowsWhole'
  BY DEF SaversInv, RowsWhole, Versioned
<1>6. HeldWhole'
  BY <1>1 DEF SaversInv, HeldWhole, Sound, Versioned
<1>7. DeletesSeen' /\ KindStates'
  BY <1>1 DEF SaversInv, DeletesSeen, KindStates, Deleting, Serialised
<1> QED
  BY <1>3, <1>4, <1>5, <1>6, <1>7 DEF SaversInv

\* A result goes only with its checkpoint.
ResultsKept ==
    \A w \in pending : w.idx = "result" /\ w.key \in DOMAIN rows \cap DOMAIN rows' => w \in pending'

\* DeleteThread of the serialised savers removes everything in one step.
LEMMA SerialDeleteKeeps ==
    ASSUME SaversInv, MemoryDeleteThread \/ SqliteDeleteThread
    PROVE  SaversInv' /\ ResultsKept
<1>1. /\ DOMAIN rows' = {} /\ pending' \subseteq pending /\ threadRun' = RunInterrupted
      /\ op' = AfterDelete /\ saverKind # "redis"
      /\ UNCHANGED <<saverKind, recordIndex, lastID, stale, orphans>>
  BY DEF MemoryDeleteThread, SqliteDeleteThread
<1>2. /\ op \in OpStates /\ threadRun \in RunStates /\ recordIndex' \in IndexStates
  BY <1>1 DEF SaversInv, SaverTypeOK
<1>3. threadRun'.at # "idle" => threadRun'.torn
  BY <1>1, <1>2, InterruptedTyped
<1>4. ThreadIndexComplete'
  BY <1>1 DEF ThreadIndexComplete
<1>5. SaversInv'
  BY <1>1, <1>2, <1>3, <1>4, AfterDeleteTyped, RecordsRemoved
<1> QED
  BY <1>1, <1>5 DEF ResultsKept

\* A step that begins a deletion tears the run and removes nothing yet.
LEMMA DeletionBegins ==
    ASSUME SaversInv, UNCHANGED <<saverKind, stored, lastID, stale, orphans>>,
           threadRun' = RunInterrupted, op' \in OpStates, op'.writes \subseteq pending \cup op.writes,
           \/ op'.at = "writes" /\ saverKind = "postgres"
           \/ op'.at = "members" /\ saverKind = "redis" /\ op'.rows = recordIndex.thread
    PROVE  SaversInv'
<1>1. UNCHANGED <<saverKind, rows, blobs, recordIndex, pending, lastID, orphans>>
  BY DEF stored
<1>2. /\ threadRun' \in RunStates /\ threadRun'.at = threadRun.at /\ threadRun'.ns = threadRun.ns
      /\ threadRun'.held = threadRun.held /\ threadRun'.key = threadRun.key
      /\ threadRun'.batch = threadRun.batch
      /\ threadRun'.at # "idle" => threadRun'.torn
  BY InterruptedTyped DEF SaversInv, SaverTypeOK
<1>3. SaverTypeOK'
  BY <1>1, <1>2, StoredKept DEF SaversInv, SaverTypeOK
<1>4. IDsUsedOnce'
  BY <1>1, <1>2, StoredKept DEF SaversInv, IDsUsedOnce
<1>5. HeldWhole'
  BY <1>2 DEF SaversInv, HeldWhole, Sound
<1>6. DeletesSeen' /\ KindStates'
  BY <1>1, <1>2 DEF SaversInv, DeletesSeen, KindStates, Deleting, Serialised, ThreadIndexComplete
<1> QED
  BY <1>1, <1>3, <1>4, <1>5, <1>6, StoredKept DEF SaversInv

\* DeleteThread of PostgreSQL: the rows that its second statement misses were
\* put by a torn run.
LEMMA PostgresDeleteKeeps ==
    ASSUME SaversInv, PostgresDeleteWrites \/ PostgresDeleteRows \/ PostgresDeleteThread
    PROVE  SaversInv' /\ ResultsKept
<1>0. /\ op \in OpStates /\ threadRun \in RunStates /\ pending \subseteq StoredWrite
      /\ DOMAIN rows \subseteq RecordKeys
  BY DEF SaversInv, SaverTypeOK, RowsTyped
<1>1. CASE PostgresDeleteWrites
  <2>1. /\ op' = [op EXCEPT !.at = "writes", !.writes = pending] /\ threadRun' = RunInterrupted
        /\ saverKind = "postgres" /\ UNCHANGED <<saverKind, stored, lastID, stale, orphans>>
    BY <1>1 DEF PostgresDeleteWrites
  <2>2. op' \in OpStates /\ op'.at = "writes" /\ op'.writes = pending
    BY <2>1, <1>0 DEF OpStates
  <2>3. SaversInv'
    BY <2>1, <2>2, DeletionBegins
  <2> QED
    BY <2>1, <2>3 DEF stored, ResultsKept
<1>2. CASE PostgresDeleteRows
  <2>1. /\ op.at = "writes" /\ op' = [op EXCEPT !.at = "rows", !.rows = DOMAIN rows]
        /\ UNCHANGED <<saverKind, rows, blobs, pending, recordIndex, lastID, stale, threadRun, orphans>>
    BY <1>2 DEF PostgresDeleteRows, stored
  <2>2. op' \in OpStates /\ op'.at = "rows" /\ op'.rows = DOMAIN rows /\ op'.writes = op.writes
    BY <2>1, <1>0 DEF OpStates
  <2>3. SaverTypeOK'
    BY <2>1, <2>2, StoredKept DEF SaversInv, SaverTypeOK
  <2>4. IDsUsedOnce'
    BY <2>1, <2>2, StoredKept DEF SaversInv, IDsUsedOnce
  <2>5. HeldWhole'
    BY <2>1 DEF SaversInv, HeldWhole, Sound, Versioned
  <2>6. DeletesSeen' /\ KindStates'
    BY <2>1, <2>2 DEF SaversInv, DeletesSeen, KindStates, Deleting, Serialised
  <2>7. SaversInv'
    BY <2>1, <2>3, <2>4, <2>5, <2>6, StoredKept DEF SaversInv
  <2> QED
    BY <2>1, <2>7 DEF ResultsKept
<1>3. CASE PostgresDeleteThread
  <2>1. /\ op.at = "rows" /\ rows' = Without(rows, op.rows) /\ pending' = pending \ op.writes
        /\ op' = AfterDelete /\ UNCHANGED <<saverKind, recordIndex, lastID, stale, threadRun, orphans>>
    BY <1>3 DEF PostgresDeleteThread
  <2>2. DOMAIN rows' = DOMAIN rows \ op.rows /\ \A k \in DOMAIN rows' : rows'[k] = rows[k]
    BY <2>1 DEF Without
  <2>3. /\ DOMAIN rows' \subseteq orphans /\ (threadRun.at # "idle" => threadRun.torn)
        /\ saverKind = "postgres" /\ \A w \in op.writes : w.key \in DOMAIN rows => w.key \in op.rows
    BY <2>1, <2>2 DEF SaversInv, DeletesSeen, KindStates, Deleting
  <2>4. recordIndex' \in IndexStates /\ ThreadIndexComplete'
    BY <2>1, <2>3 DEF SaversInv, SaverTypeOK, ThreadIndexComplete
  <2>5. SaversInv'
    BY <1>0, <2>1, <2>2, <2>3, <2>4, AfterDeleteTyped, RecordsRemoved
  <2> QED
    BY <2>1, <2>2, <2>3, <2>5 DEF ResultsKept
<1> QED
  BY <1>1, <1>2, <1>3

\* DeleteThread of Redis: a record that its index did not name was put by a torn
\* run.
LEMMA RedisDeleteKeeps ==
    ASSUME SaversInv, RedisMembers \/ RedisDeleteThread
    PROVE  SaversInv' /\ ResultsKept
<1>0. op \in OpStates /\ recordIndex \in IndexStates /\ recordIndex.thread \subseteq RecordKeys
      /\ op.rows \subseteq RecordKeys
  BY DEF SaversInv, SaverTypeOK, IndexStates, OpStates
<1>1. CASE RedisMembers
  <2>1. /\ op' = [op EXCEPT !.at = "members", !.rows = recordIndex.thread] /\ threadRun' = RunInterrupted
        /\ saverKind = "redis" /\ MayDelete /\ UNCHANGED <<saverKind, stored, lastID, stale, orphans>>
    BY <1>1 DEF RedisMembers
  <2>2. op' \in OpStates /\ op'.at = "members" /\ op'.rows = recordIndex.thread /\ op'.writes = op.writes
    BY <2>1, <1>0 DEF OpStates
  <2>3. SaversInv'
    BY <2>1, <2>2, DeletionBegins
  <2> QED
    BY <2>1, <2>3 DEF stored, ResultsKept
<1>2. CASE RedisDeleteThread
  <2>1. /\ op.at = "members" /\ rows' = Without(rows, op.rows)
        /\ pending' = {w \in pending : w.key \notin op.rows}
        /\ recordIndex' = [all |-> recordIndex.all \ op.rows, thread |-> {},
                           namespace |-> recordIndex.namespace \ op.rows]
        /\ op' = AfterDelete /\ UNCHANGED <<saverKind, blobs, lastID, stale, threadRun, orphans>>
    BY <1>2 DEF RedisDeleteThread
  <2>2. DOMAIN rows' = DOMAIN rows \ op.rows /\ \A k \in DOMAIN rows' : rows'[k] = rows[k]
    BY <2>1 DEF Without
  <2>3. DOMAIN rows' \subseteq orphans
    BY <2>1, <2>2 DEF SaversInv, DeletesSeen
  <2>4. recordIndex' \in IndexStates /\ ThreadIndexComplete'
    BY <1>0, <2>1, <2>3 DEF IndexStates, ThreadIndexComplete
  <2>5. SaversInv'
    BY <1>0, <2>1, <2>2, <2>4, AfterDeleteTyped, RecordsRemoved
  <2> QED
    BY <2>1, <2>2, <2>5 DEF ResultsKept
<1> QED
  BY <1>1, <1>2

\* Keeping nothing drops every record: each has its place in the order.
LEMMA BeyondNothing == ASSUME SaversInv PROVE DOMAIN rows \subseteq Beyond(0)
<1> DEFINE ks == DOMAIN rows
           ordered == NewestFirst(ks)
           n == Cardinality(ks)
<1>1. IsFiniteSet(ks) /\ ks \subseteq RecordKeys /\ \A j, k \in ks : j[2] = k[2] => j = k
  BY DEF SaversInv, IDsUsedOnce, SaverTypeOK, RowsTyped
<1>2. Descending(ordered, n, ks)
  BY <1>1, NewestFirstDescends
<1>3. Beyond(0) = {ordered[i] : i \in {j \in DOMAIN ordered : j > 0}}
  BY DEF Beyond
<1> SUFFICES ASSUME NEW k \in ks PROVE k \in Beyond(0)
  OBVIOUS
<1> HIDE DEF ks, ordered, n
<1>4. PICK i \in 1 .. n : ordered[i] = k
  BY <1>2 DEF Descending
<1>5. i \in DOMAIN ordered /\ i > 0
  BY <1>2 DEF Descending
<1> QED
  BY <1>3, <1>4, <1>5

\* PruneThread keeps the blobs of the checkpoints that it keeps.
LEMMA PruneKeeps ==
    ASSUME SaversInv, NEW keep, PruneThread(keep)
    PROVE  SaversInv' /\ ResultsKept
<1>1. /\ Serialised /\ op' = NoOperation /\ threadRun' = IF keep = 0 THEN RunInterrupted ELSE threadRun
      /\ rows' = Without(rows, Beyond(keep)) /\ pending' = {w \in pending : w.key \notin Beyond(keep)}
      /\ blobs' = blobs \/ keep = 0
      /\ UNCHANGED <<saverKind, recordIndex, lastID, stale, orphans>>
  BY DEF PruneThread, MemoryPruneThread, SqlitePruneThread
<1>2. DOMAIN rows' = DOMAIN rows \ Beyond(keep) /\ \A k \in DOMAIN rows' : rows'[k] = rows[k]
  BY <1>1 DEF Without
<1>3. saverKind # "redis"
  BY <1>1 DEF Serialised
<1>4. recordIndex' \in IndexStates /\ ThreadIndexComplete' /\ threadRun \in RunStates
  BY <1>1, <1>3 DEF SaversInv, SaverTypeOK, ThreadIndexComplete
<1>5. keep = 0 => DOMAIN rows' \subseteq orphans /\ (threadRun'.at # "idle" => threadRun'.torn)
  BY <1>1, <1>2, <1>4, BeyondNothing, InterruptedTyped
<1>6. op' \in OpStates /\ op'.at = "idle" /\ op'.writes = {}
  BY <1>1, IdleTyped
<1>7. SaversInv'
  BY <1>1, <1>2, <1>3, <1>4, <1>5, <1>6, RecordsRemoved
<1>8. ResultsKept
  BY <1>1, <1>2 DEF ResultsKept
<1> QED
  BY <1>7, <1>8

-----------------------------------------------------------------------------
(***************************************************************************)
(* The specification.                                                      *)
(***************************************************************************)
\* Every call of every saver keeps the invariant and the stored results.
LEMMA SaversStep ==
    ASSUME SaversInv, [SaverNext]_saverVars
    PROVE  SaversInv' /\ ResultsKept
<1>1. CASE UNCHANGED saverVars
  <2>1. UNCHANGED <<saverKind, stored, lastID, stale, threadRun, op, orphans>>
    BY <1>1 DEF saverVars, stored
  <2>2. stale' \in BOOLEAN
    BY <2>1 DEF SaversInv, SaverTypeOK
  <2> QED
    BY <2>1, <2>2, BothRest DEF ResultsKept, stored
<1>2. CASE SqliteSetup \/ PostgresSetup \/ CloseSaver \/ OpenSaver \/ Age
  <2>1. pending' = pending
    BY <1>2 DEF SqliteSetup, PostgresSetup, CloseSaver, OpenSaver, Age, stored
  <2> QED
    BY <1>2, <2>1, LifecycleKeeps DEF ResultsKept
<1>3. CASE Apply \/ ApplyYoung \/ ApplyUnpruned
  <2>1. pending' = pending
    BY <1>3 DEF Apply, ApplyYoung, ApplyUnpruned, stored
  <2> QED
    BY <1>3, <2>1, PolicyKeeps DEF ResultsKept
<1>4. ASSUME NEW n \in Namespaces, StartRun(n) PROVE SaversInv' /\ ResultsKept
  <2>1. pending' = pending
    BY <1>4 DEF StartRun, stored
  <2> QED
    BY <1>4, <2>1, StartKeeps DEF ResultsKept
<1>5. CASE LoadBlobs \/ EndRun
  <2>1. pending' = pending
    BY <1>5 DEF LoadBlobs, EndRun, stored
  <2> QED
    BY <1>5, <2>1, LoadKeeps, EndKeeps DEF ResultsKept
<1>6. ASSUME NEW changed \in SUBSET StateChannels, PutCheckpoint(changed) PROVE SaversInv' /\ ResultsKept
  BY <1>6, PutKeeps DEF ResultsKept
<1>7. ASSUME NEW k \in DOMAIN rows, NEW batch \in WriteBatches, CheckWrites(k, batch)
      PROVE  SaversInv' /\ ResultsKept
  <2>1. pending' = pending
    BY <1>7 DEF CheckWrites, stored
  <2> QED
    BY <1>7, <2>1, CheckKeeps DEF ResultsKept
<1>8. CASE \/ \E k \in DOMAIN rows, batch \in WriteBatches : PutWrites(k, batch)
           \/ PostgresPutWrites \/ RedisPutWrites
  BY <1>8, PutWritesKeeps DEF ResultsKept
<1>9. CASE \/ MemoryDeleteThread \/ SqliteDeleteThread
           \/ PostgresDeleteWrites \/ PostgresDeleteRows \/ PostgresDeleteThread
           \/ RedisMembers \/ RedisDeleteThread
  BY <1>9, SerialDeleteKeeps, PostgresDeleteKeeps, RedisDeleteKeeps
<1>10. ASSUME NEW keep, PruneThread(keep) PROVE SaversInv' /\ ResultsKept
  BY <1>10, PruneKeeps
<1> QED
  BY <1>1, <1>2, <1>3, <1>4, <1>5, <1>6, <1>7, <1>8, <1>9, <1>10 DEF SaverNext

\* The indexes of Redis: a Put adds its key to each, DeleteThread takes out of them
\* what it takes out of the records.
LEMMA IndexesKept ==
    ASSUME SaversInv, RecordsIndexed, [SaverNext]_saverVars
    PROVE  RecordsIndexed'
<1> SUFFICES ASSUME saverKind' = "redis"
             PROVE  /\ DOMAIN rows' \subseteq recordIndex'.all \cap recordIndex'.namespace
                    /\ recordIndex'.thread \subseteq recordIndex'.all
                    /\ IsFiniteSet(recordIndex'.all \cup recordIndex'.namespace)
                    /\ \A j, k \in recordIndex'.all \cup recordIndex'.namespace : j[2] = k[2] => j = k
                    /\ \A k \in recordIndex'.all \cup recordIndex'.namespace : k[2] <= lastID'
  BY DEF RecordsIndexed
<1>0. saverKind = "redis"
  BY DEF SaverNext, saverVars, stored, SqliteSetup, PostgresSetup, CloseSaver, OpenSaver, Age, Apply,
     ApplyYoung, ApplyUnpruned, StartRun, LoadBlobs, EndRun, PutCheckpoint, CheckWrites, PutWrites,
     PostgresPutWrites, RedisPutWrites, MemoryDeleteThread, SqliteDeleteThread, PostgresDeleteWrites,
     PostgresDeleteRows, PostgresDeleteThread, RedisMembers, RedisDeleteThread, PruneThread
<1>1. \/ UNCHANGED <<rows, recordIndex, lastID>>
      \/ \E changed \in SUBSET StateChannels : PutCheckpoint(changed)
      \/ RedisDeleteThread
  <2>1. ~SQL /\ ~Serialised /\ op.at \notin {"writes", "rows"}
    BY <1>0 DEF SQL, Serialised, SaversInv, KindStates
  <2> QED
    BY <1>0, <2>1 DEF SaverNext, saverVars, stored, SqliteSetup, PostgresSetup, CloseSaver, OpenSaver,
     Age, Apply, ApplyYoung, ApplyUnpruned, StartRun, LoadBlobs, EndRun, CheckWrites, PutWrites,
     PostgresPutWrites, RedisPutWrites, MemoryDeleteThread, SqliteDeleteThread, PostgresDeleteWrites,
     PostgresDeleteRows, PostgresDeleteThread, RedisMembers, PruneThread
<1>2. CASE UNCHANGED <<rows, recordIndex, lastID>>
  BY <1>0, <1>2 DEF RecordsIndexed
<1> DEFINE K == recordIndex.all \cup recordIndex.namespace
<1>3. recordIndex \in IndexStates /\ lastID \in Nat /\ K \subseteq RecordKeys /\ IsFiniteSet(K)
  BY <1>0 DEF SaversInv, SaverTypeOK, IndexStates, RecordsIndexed
<1>4. ASSUME NEW changed \in SUBSET StateChannels, PutCheckpoint(changed)
      PROVE  /\ DOMAIN rows' \subseteq recordIndex'.all \cap recordIndex'.namespace
             /\ recordIndex'.thread \subseteq recordIndex'.all
             /\ IsFiniteSet(recordIndex'.all \cup recordIndex'.namespace)
             /\ \A j, k \in recordIndex'.all \cup recordIndex'.namespace : j[2] = k[2] => j = k
             /\ \A k \in recordIndex'.all \cup recordIndex'.namespace : k[2] <= lastID'
  <2>1. PICK key : key = <<threadRun.ns, lastID + 1>>
    OBVIOUS
  <2>2. /\ recordIndex' = [x \in DOMAIN recordIndex |-> recordIndex[x] \cup {key}]
        /\ DOMAIN rows' = DOMAIN rows \cup {key} /\ lastID' = lastID + 1
    BY <1>0, <1>4, <2>1 DEF PutCheckpoint, RedisPut, With
  <2>3. /\ recordIndex'.all = recordIndex.all \cup {key}
        /\ recordIndex'.namespace = recordIndex.namespace \cup {key}
        /\ recordIndex'.thread = recordIndex.thread \cup {key}
    <3>1. DOMAIN recordIndex = {"all", "thread", "namespace"}
      BY <1>3 DEF IndexStates
    <3> QED BY <2>2, <3>1
  <2>4. recordIndex'.all \cup recordIndex'.namespace = K \cup {key}
    BY <2>3
  <2>5. IsFiniteSet(K \cup {key})
    BY <1>3, FS_AddElement
  <2>6. key[2] = lastID + 1 /\ \A k \in K : k[2] \in Nat /\ k[2] <= lastID
    BY <1>0, <1>3, <2>1 DEF RecordsIndexed, RecordKeys, CheckpointIDs
  <2>7. \A j, k \in K \cup {key} : j[2] = k[2] => j = k
    BY <1>0, <1>3, <2>6 DEF RecordsIndexed
  <2>8. \A k \in K \cup {key} : k[2] <= lastID'
    BY <1>3, <2>2, <2>6
  <2>9. /\ DOMAIN rows' \subseteq recordIndex'.all \cap recordIndex'.namespace
        /\ recordIndex'.thread \subseteq recordIndex'.all
    BY <1>0, <2>2, <2>3 DEF RecordsIndexed
  <2> QED BY <2>4, <2>5, <2>7, <2>8, <2>9
<1>5. CASE RedisDeleteThread
  <2>1. /\ recordIndex'.all = recordIndex.all \ op.rows
        /\ recordIndex'.namespace = recordIndex.namespace \ op.rows
        /\ recordIndex'.thread = {}
        /\ DOMAIN rows' = DOMAIN rows \ op.rows /\ lastID' = lastID
    BY <1>5 DEF RedisDeleteThread, Without
  <2>2. recordIndex'.all \cup recordIndex'.namespace \subseteq K
    BY <2>1
  <2>3. IsFiniteSet(recordIndex'.all \cup recordIndex'.namespace)
    BY <1>3, <2>2, FS_Subset
  <2> QED BY <1>0, <2>1, <2>2, <2>3 DEF RecordsIndexed
<1> QED BY <1>1, <1>2, <1>4, <1>5

\* The invariant of the savers holds in every reachable state.
LEMMA SaversSound == SaverSpec => [](SaversInv /\ RecordsIndexed)
<1>1. SaverInit => RecordsIndexed
  <2> SUFFICES ASSUME SaverInit PROVE RecordsIndexed
    OBVIOUS
  <2>1. /\ DOMAIN rows = {} /\ recordIndex.all = {} /\ recordIndex.namespace = {}
        /\ recordIndex.thread = {}
    BY DEF SaverInit
  <2>2. IsFiniteSet({} \cup {})
    BY FS_EmptySet
  <2> QED BY <2>1, <2>2 DEF RecordsIndexed
<1>2. SaversInv /\ RecordsIndexed /\ [SaverNext]_saverVars => SaversInv' /\ RecordsIndexed'
  BY SaversStep, IndexesKept
<1> QED
  BY SaversStart, <1>1, <1>2, PTL DEF SaverSpec

\* List of each saver returns the newest matching checkpoints, newest first, whatever
\* the options are: a sorted selection, a filtered scan, or a scan of an index that
\* skips the keys whose record is gone.
LEMMA ListsExact ==
    ASSUME SaversInv, RecordsIndexed, NEW o, o.limit \in Nat, NEW M,
           M = {k \in DOMAIN rows \ Unlisted(o) : InScope(k, o) /\ MetadataMatches(k, o)}
    PROVE  \E t, n : Descending(t, n, M) /\ ListCheckpoints(o) = CutTo(t, o.limit)
<1>1. /\ IsFiniteSet(DOMAIN rows) /\ DOMAIN rows \subseteq RecordKeys
      /\ \A j, k \in DOMAIN rows : j[2] = k[2] => j = k
      /\ saverKind \in SaverKinds
  BY DEF SaversInv, IDsUsedOnce, SaverTypeOK, RowsTyped
<1>u. saverKind # "redis" => M = {k \in DOMAIN rows : InScope(k, o) /\ MetadataMatches(k, o)}
  BY DEF Unlisted
<1>2. CASE saverKind = "memory"
  <2>1. M \subseteq DOMAIN rows
    OBVIOUS
  <2>2. IsFiniteSet(M)
    BY <1>1, <2>1, FS_Subset
  <2>3. Descending(NewestFirst(M), Cardinality(M), M)
    BY <1>1, <2>1, <2>2, NewestFirstDescends
  <2>4. ListCheckpoints(o) = CutTo(NewestFirst(M), o.limit)
    BY <1>2, <1>u DEF ListCheckpoints, MemoryList
  <2> QED BY <2>3, <2>4
<1>3. CASE saverKind \in {"sqlite", "postgres"}
  <2>1. PICK ks : ks = {k \in DOMAIN rows : InScope(k, o)}
    OBVIOUS
  <2>2. PICK s, m : s = NewestFirst(ks) /\ m = Cardinality(ks)
    OBVIOUS
  <2>3. IsFiniteSet(ks)
    BY <1>1, <2>1, FS_Subset
  <2>4. Descending(s, m, ks)
    BY <1>1, <2>1, <2>2, <2>3, NewestFirstDescends
  <2>5. PICK I : I = {i \in DOMAIN s : MetadataMatches(s[i], o)}
    OBVIOUS
  <2>6. I \subseteq 1 .. m /\ \A i \in 1 .. m : i \in I <=> MetadataMatches(s[i], o)
    BY <2>4, <2>5 DEF Descending
  <2>7. M = {s[i] : i \in I}
    BY <1>3, <1>u, <2>1, <2>4, <2>6 DEF Descending
  <2>8. ListCheckpoints(o) = CutTo(Scan(s, I), o.limit)
    BY <1>3, <2>1, <2>2, <2>5 DEF ListCheckpoints, SqliteList, PostgresList, ScanRows
  <2>9. Descending(Scan(s, I), Cardinality(I), {s[i] : i \in I})
    BY <2>4, <2>6, ScanDescends
  <2> QED BY <2>7, <2>8, <2>9
<1>4. CASE saverKind = "redis"
  <2>1. PICK members : members = CASE o.ns = "all" -> recordIndex.all
                                   [] o.ns = "thread" -> recordIndex.thread
                                   [] OTHER -> {k \in recordIndex.namespace : k[1] = o.ns}
    OBVIOUS
  <2>2. PICK ks : ks = {k \in members : InScope(k, o)}
    OBVIOUS
  <2>3. /\ ks \subseteq recordIndex.all \cup recordIndex.namespace
        /\ ks \subseteq RecordKeys
        /\ \A k \in DOMAIN rows \ Unlisted(o) : InScope(k, o) => k \in ks
        /\ ks \cap Unlisted(o) = {}
    <3>1. /\ recordIndex \in IndexStates /\ DOMAIN rows \subseteq recordIndex.all \cap recordIndex.namespace
          /\ recordIndex.thread \subseteq recordIndex.all
          /\ DOMAIN rows \ orphans \subseteq recordIndex.thread
      BY <1>4 DEF SaversInv, SaverTypeOK, RecordsIndexed, ThreadIndexComplete
    <3>2. CASE o.ns = "thread"
      <4>1. members = recordIndex.thread /\ Unlisted(o) = orphans \ recordIndex.thread
        BY <1>4, <2>1, <3>2 DEF Unlisted
      <4> QED BY <2>2, <3>1, <4>1 DEF IndexStates
    <3>3. CASE o.ns # "thread"
      <4>1. Unlisted(o) = {}
        BY <3>3 DEF Unlisted
      <4>2. members = IF o.ns = "all" THEN recordIndex.all
                      ELSE {k \in recordIndex.namespace : k[1] = o.ns}
        BY <2>1, <3>3
      <4> QED BY <2>2, <3>1, <3>3, <4>1, <4>2 DEF IndexStates, InScope
    <3> QED BY <3>2, <3>3
  <2>4. IsFiniteSet(ks) /\ \A j, k \in ks : j[2] = k[2] => j = k
    <3>1. IsFiniteSet(recordIndex.all \cup recordIndex.namespace)
      BY <1>4 DEF RecordsIndexed
    <3>2. IsFiniteSet(ks)
      BY <2>3, <3>1, FS_Subset
    <3> QED BY <1>4, <2>3, <3>2 DEF RecordsIndexed
  <2>5. PICK s, m : s = NewestFirst(ks) /\ m = Cardinality(ks)
    OBVIOUS
  <2>6. Descending(s, m, ks)
    BY <2>3, <2>4, <2>5, NewestFirstDescends
  <2>7. PICK I : I = {i \in DOMAIN s : s[i] \in DOMAIN rows /\ MetadataMatches(s[i], o)}
    OBVIOUS
  <2>8. I \subseteq 1 .. m
        /\ \A i \in 1 .. m : i \in I <=> s[i] \in DOMAIN rows /\ MetadataMatches(s[i], o)
    BY <2>6, <2>7 DEF Descending
  <2>9. M = {s[i] : i \in I}
    <3>1. \A k \in M : \E i \in I : s[i] = k
      BY <2>3, <2>6, <2>8 DEF Descending
    <3>2. \A i \in I : s[i] \in M
      BY <2>2, <2>3, <2>6, <2>8 DEF Descending
    <3> QED BY <3>1, <3>2
  <2>10. ListCheckpoints(o) = CutTo(Scan(s, I), o.limit)
    BY <1>4, <2>1, <2>2, <2>5, <2>7 DEF ListCheckpoints, RedisList
  <2>11. Descending(Scan(s, I), Cardinality(I), {s[i] : i \in I})
    BY <2>6, <2>8, ScanDescends
  <2> QED BY <2>9, <2>10, <2>11
<1> QED BY <1>1, <1>2, <1>3, <1>4 DEF SaverKinds

\* For any number of checkpoints, channels and namespaces, in each of the four
\* savers: whatever was pruned, forked or deleted, a stored checkpoint loads with
\* all of its values and a run holds all of them, unless the thread was deleted
\* beside a run, the index that DeleteThread reads names every record, and List
\* returns the newest matching checkpoints in order; a thread's listing in Redis misses
\* only records that were put beside its deletion, or their descendants.
THEOREM CheckpointsAreWhole == SaverSpec => []CheckpointsWhole
<1>1. ASSUME SaversInv, RecordsIndexed PROVE CheckpointsWhole
  <2>1. \A k \in DOMAIN rows \ orphans : LoadedValues(k) = StateChannels
    BY <1>1, WholeLoads
  <2>2. threadRun.at \in {"running", "checked"} /\ threadRun.held.id # NoID /\ ~threadRun.torn
          => threadRun.held.got = StateChannels \/ <<threadRun.ns, threadRun.held.id>> \in orphans
    BY <1>1 DEF SaversInv, HeldWhole, Sound
  <2>3. ListsNewestFirst
    <3> SUFFICES ASSUME NEW o \in ListOptions, NEW M, NEW listed,
                        M = {k \in DOMAIN rows \ Unlisted(o) : InScope(k, o) /\ MetadataMatches(k, o)},
                        listed = ListCheckpoints(o)
                 PROVE  /\ {listed[i] : i \in DOMAIN listed} =
                             {k \in M : o.limit = 0 \/ Cardinality({j \in M : j[2] > k[2]}) < o.limit}
                        /\ \A i, j \in DOMAIN listed : i < j => listed[i][2] > listed[j][2]
      BY DEF ListsNewestFirst
    <3>1. o.limit \in Nat
      BY DEF ListOptions
    <3>2. PICK t, n : Descending(t, n, M) /\ listed = CutTo(t, o.limit)
      BY <1>1, <3>1, ListsExact
    <3>3. PICK c \in Nat : c = o.limit
      BY <3>1
    <3>4. NewestOf(listed, M, c)
      BY <3>2, <3>3, CutNewest
    <3> QED BY <3>3, <3>4 DEF NewestOf
  <2> QED
    BY <1>1, <2>1, <2>2, <2>3 DEF SaversInv, CheckpointsWhole, LoadsWhole
<1>2. SaversInv /\ RecordsIndexed => CheckpointsWhole
  BY <1>1
<1> QED
  BY SaversSound, <1>2, PTL

\* A result that a saver stored is never replaced while its checkpoint stays,
\* however calls of PutWrites repeat or interleave with deletions and pruning.
THEOREM ResultsAreStable == SaverSpec => ResultsStable
<1>1. SaversInv /\ [SaverNext]_saverVars => ResultsKept
  BY SaversStep
<1>2. SaversInv /\ [SaverNext]_saverVars =>
        [\A w \in pending :
           w.idx = "result" /\ w.key \in DOMAIN rows \cap DOMAIN rows' => w \in pending']_saverVars
  BY <1>1 DEF ResultsKept
<1> QED
  BY SaversSound, <1>2, PTL DEF SaverSpec, ResultsStable

-----------------------------------------------------------------------------
(***************************************************************************)
(* StoreQueries: the order of items and namespaces.                        *)
(***************************************************************************)
\* A set of naturals that is not empty has a least member.
LEMMA LeastNumber ==
    ASSUME NEW T, T \subseteq Nat, T # {} PROVE \E x \in T : \A y \in T : x <= y
<1>1. PICK x \in T : \A y \in T : ~(<<y, x>> \in OpToRel(<, Nat))
  BY NatLessThanWellFounded, WFMin, Zenon
<1>2. \A y \in T : ~(y < x)
  BY <1>1 DEF OpToRel
<1> QED BY <1>2

\* The end of a namespace counts as its smallest label.
LEMMA Labels ==
    ASSUME NEW a \in Seq(Nat)
    PROVE  /\ Len(a) \in Nat
           /\ \A i \in Nat \ {0} : LabelAt(a, i) \in Nat /\ (LabelAt(a, i) > 0 <=> i \in 1 .. Len(a))
BY DEF LabelAt

\* A position has a label exactly within the namespace.
LEMMA LabelInside ==
    ASSUME NEW a \in Seq(Nat), NEW i \in Nat \ {0}
    PROVE  /\ LabelAt(a, i) > 0 => i \in 1 .. Len(a)
           /\ i \in 1 .. Len(a) => LabelAt(a, i) > 0
BY DEF LabelAt

\* Namespaces are ordered strictly and totally.
LEMMA NamespacesOrdered ==
    /\ \A a \in Seq(Nat) : ~Precedes(a, a)
    /\ \A a, b, c \in Seq(Nat) : Precedes(a, b) /\ Precedes(b, c) => Precedes(a, c)
    /\ \A a, b \in Seq(Nat) : a = b \/ Precedes(a, b) \/ Precedes(b, a)
<1>1. ASSUME NEW a \in Seq(Nat) PROVE ~Precedes(a, a)
  <2>1. \A i \in 1 .. Len(a) : LabelAt(a, i) \in Nat
    BY Labels
  <2> QED BY <2>1 DEF Precedes
<1>2. ASSUME NEW a \in Seq(Nat), NEW b \in Seq(Nat), NEW c \in Seq(Nat), Precedes(a, b), Precedes(b, c)
      PROVE  Precedes(a, c)
  <2>1. PICK i \in 1 .. Len(b) : /\ LabelAt(a, i) < LabelAt(b, i)
                                 /\ \A j \in 1 .. i - 1 : LabelAt(a, j) = LabelAt(b, j)
    BY <1>2 DEF Precedes
  <2>2. PICK k \in 1 .. Len(c) : /\ LabelAt(b, k) < LabelAt(c, k)
                                 /\ \A j \in 1 .. k - 1 : LabelAt(b, j) = LabelAt(c, j)
    BY <1>2 DEF Precedes
  <2>3. /\ Len(b) \in Nat /\ Len(c) \in Nat
        /\ \A j \in Nat \ {0} : LabelAt(a, j) \in Nat /\ LabelAt(b, j) \in Nat /\ LabelAt(c, j) \in Nat
        /\ \A j \in Nat \ {0} : LabelAt(c, j) > 0 => j \in 1 .. Len(c)
    BY Labels
  <2>4. PICK m \in Nat \ {0} : m <= i /\ m <= k /\ (m = i \/ m = k)
    <3>0. Len(b) \in Nat /\ Len(c) \in Nat
      OBVIOUS
    <3>1. i \in Nat \ {0} /\ k \in Nat \ {0} /\ i <= i /\ k <= k /\ (i <= k \/ k <= i)
      BY <3>0
    <3>2. CASE i <= k
      BY <3>1, <3>2
    <3>3. CASE k <= i
      BY <3>1, <3>3
    <3> QED BY <3>1, <3>2, <3>3
  <2>5. LabelAt(a, m) < LabelAt(c, m)
    <3>0. Len(b) \in Nat /\ Len(c) \in Nat
      OBVIOUS
    <3>1. i \in Nat \ {0} /\ k \in Nat \ {0}
      BY <3>0
    <3>2. CASE m = i /\ m = k
      <4>1. LabelAt(a, m) < LabelAt(b, m) /\ LabelAt(b, m) < LabelAt(c, m)
        BY <2>1, <2>2, <3>2
      <4> QED BY <2>3, <4>1
    <3>3. CASE m = i /\ m < k
      <4>1. LabelAt(b, m) = LabelAt(c, m)
        BY <2>2, <3>1, <3>3
      <4> QED BY <2>1, <3>3, <4>1
    <3>4. CASE m = k /\ m < i
      <4>1. LabelAt(a, m) = LabelAt(b, m)
        BY <2>1, <3>1, <3>4
      <4> QED BY <2>2, <3>4, <4>1
    <3> QED BY <2>4, <3>1, <3>2, <3>3, <3>4
  <2>6. m \in 1 .. Len(c)
    BY <2>3, <2>5
  <2>7. ASSUME NEW j \in 1 .. m - 1 PROVE LabelAt(a, j) = LabelAt(c, j)
    <3>1. j \in 1 .. i - 1 /\ j \in 1 .. k - 1
      BY <2>3, <2>4
    <3> QED BY <2>1, <2>2, <3>1
  <2> QED BY <2>5, <2>6, <2>7 DEF Precedes
<1>3. ASSUME NEW a \in Seq(Nat), NEW b \in Seq(Nat), a # b PROVE Precedes(a, b) \/ Precedes(b, a)
  <2> DEFINE D == {j \in Nat \ {0} : LabelAt(a, j) # LabelAt(b, j)}
  <2>1. /\ Len(a) \in Nat /\ Len(b) \in Nat
        /\ \A j \in Nat \ {0} : LabelAt(a, j) \in Nat /\ LabelAt(b, j) \in Nat
        /\ \A j \in Nat \ {0} : /\ LabelAt(a, j) > 0 <=> j \in 1 .. Len(a)
                               /\ LabelAt(b, j) > 0 <=> j \in 1 .. Len(b)
    BY Labels
  <2>2. D # {}
    <3> SUFFICES ASSUME \A j \in Nat \ {0} : LabelAt(a, j) = LabelAt(b, j) PROVE FALSE
      OBVIOUS
    <3>1. Len(a) = Len(b)
      <4>1. ~(Len(a) < Len(b))
        <5> SUFFICES ASSUME Len(a) < Len(b) PROVE FALSE
          OBVIOUS
        <5>1. PICK j \in Nat \ {0} : j = Len(b)
          BY <2>1
        <5>2. j \in 1 .. Len(b) /\ j \notin 1 .. Len(a)
          BY <2>1, <5>1
        <5>3. LabelAt(b, j) > 0 /\ ~(LabelAt(a, j) > 0)
          BY <5>1, <5>2, LabelInside
        <5> QED BY <5>1, <5>3
      <4>2. ~(Len(b) < Len(a))
        <5> SUFFICES ASSUME Len(b) < Len(a) PROVE FALSE
          OBVIOUS
        <5>1. PICK j \in Nat \ {0} : j = Len(a)
          BY <2>1
        <5>2. j \in 1 .. Len(a) /\ j \notin 1 .. Len(b)
          BY <2>1, <5>1
        <5>3. LabelAt(a, j) > 0 /\ ~(LabelAt(b, j) > 0)
          BY <5>1, <5>2, LabelInside
        <5> QED BY <5>1, <5>3
      <4> QED BY <2>1, <4>1, <4>2
    <3>2. \A j \in 1 .. Len(a) : a[j] = b[j]
      BY <2>1, <3>1 DEF LabelAt
    <3> QED BY <1>3, <3>1, <3>2
  <2>3. PICK m \in D : \A j \in D : m <= j
    <3>1. D \subseteq Nat
      OBVIOUS
    <3> HIDE DEF D
    <3> QED BY <2>2, <3>1, LeastNumber
  <2>4. /\ m \in Nat \ {0} /\ LabelAt(a, m) # LabelAt(b, m)
        /\ \A j \in 1 .. m - 1 : LabelAt(a, j) = LabelAt(b, j)
    BY <2>3
  <2>5. CASE LabelAt(a, m) < LabelAt(b, m)
    <3>0. LabelAt(b, m) \in Nat /\ LabelAt(a, m) \in Nat
      BY <2>1, <2>4
    <3>1. m \in 1 .. Len(b)
      <4>1. LabelAt(b, m) > 0
        BY <2>5, <3>0
      <4> QED BY <2>4, <4>1, LabelInside
    <3> QED BY <2>4, <2>5, <3>1 DEF Precedes
  <2>6. CASE LabelAt(b, m) < LabelAt(a, m)
    <3>0. LabelAt(a, m) \in Nat /\ LabelAt(b, m) \in Nat
      BY <2>1, <2>4
    <3>1. m \in 1 .. Len(a)
      <4>1. LabelAt(a, m) > 0
        BY <2>6, <3>0
      <4> QED BY <2>4, <4>1, LabelInside
    <3> QED BY <2>4, <2>6, <3>1 DEF Precedes
  <2> QED BY <2>1, <2>4, <2>5, <2>6
<1> QED BY <1>1, <1>2, <1>3

\* So are items, by namespace and key.
LEMMA ItemsOrdered ==
    ASSUME NEW S, S \subseteq Seq(Nat) \X Nat,
           NEW less, less = {p \in S \X S : ItemPrecedes(p[1], p[2])}
    PROVE  Orders(less, S)
<1>1. \A x, y \in S : <<x, y>> \in less <=> ItemPrecedes(x, y)
  OBVIOUS
<1>2. \A x \in S : x[1] \in Seq(Nat) /\ x[2] \in Nat /\ x = <<x[1], x[2]>>
  OBVIOUS
<1>3. \A x \in S : <<x, x>> \notin less
  BY <1>1, <1>2, NamespacesOrdered DEF ItemPrecedes
<1>4. ASSUME NEW x \in S, NEW y \in S, NEW z \in S, <<x, y>> \in less, <<y, z>> \in less
      PROVE  <<x, z>> \in less
  <2>1. ItemPrecedes(x, y) /\ ItemPrecedes(y, z)
    BY <1>1, <1>4
  <2>2. Precedes(x[1], y[1]) /\ Precedes(y[1], z[1]) => Precedes(x[1], z[1])
    BY <1>2, NamespacesOrdered
  <2>3. ItemPrecedes(x, z)
    BY <1>2, <2>1, <2>2 DEF ItemPrecedes
  <2> QED BY <1>1, <2>3
<1>5. ASSUME NEW x \in S, NEW y \in S PROVE x = y \/ <<x, y>> \in less \/ <<y, x>> \in less
  <2>1. x[1] = y[1] \/ Precedes(x[1], y[1]) \/ Precedes(y[1], x[1])
    BY <1>2, NamespacesOrdered
  <2>2. x[2] = y[2] \/ x[2] < y[2] \/ y[2] < x[2]
    BY <1>2
  <2>3. x[1] = y[1] /\ x[2] = y[2] => x = y
    BY <1>2
  <2> QED BY <1>1, <2>1, <2>2, <2>3 DEF ItemPrecedes
<1> QED BY <1>3, <1>4, <1>5 DEF Orders

-----------------------------------------------------------------------------
(***************************************************************************)
(* StoreQueries: pages and searches.                                       *)
(***************************************************************************)
PageSize(limit, default) == IF limit = 0 THEN default ELSE limit

\* page holds the positions of s after the offset, as many as its size and the n
\* elements of s allow.
Cuts(page, s, n, S, offset, size) ==
    /\ size \in Nat \ {0}
    /\ DOMAIN page = {i \in 1 .. size : offset + i <= n}
    /\ \A i \in DOMAIN page : offset + i \in 1 .. n /\ page[i] = s[offset + i]
    /\ page \in Seq(S)

LEMMA PageFacts ==
    ASSUME NEW n \in Nat, NEW S, NEW s \in [1 .. n -> S], NEW offset \in Nat, NEW limit \in Nat,
           NEW default \in Nat \ {0}, NEW page, page = Page(s, offset, limit, default),
           NEW size, size = PageSize(limit, default)
    PROVE  Cuts(page, s, n, S, offset, size)
<1>1. size \in Nat \ {0}
  BY DEF PageSize
<1>2. s \in Seq(S) /\ Len(s) = n
  OBVIOUS
<1>3. PICK first \in Nat : first = IF offset < n THEN offset ELSE n
  OBVIOUS
<1>4. PICK last \in Nat : last = IF first + size < n THEN first + size ELSE n
  BY <1>1
<1>5. page = SubSeq(s, first + 1, last)
  BY <1>2, <1>3, <1>4 DEF Page, Smaller, PageSize
<1>6. last <= n /\ first <= last
  BY <1>1, <1>3, <1>4
<1>7. page \in Seq(S) /\ DOMAIN page = 1 .. last - first /\ \A i \in 1 .. last - first : page[i] = s[first + i]
  BY <1>2, <1>5, <1>6
<1>8. CASE offset < n
  <2>1. 1 .. last - first = {i \in 1 .. size : offset + i <= n}
    BY <1>1, <1>3, <1>4, <1>8
  <2> QED BY <1>1, <1>3, <1>6, <1>7, <1>8, <2>1 DEF Cuts
<1>9. CASE ~(offset < n)
  <2>1. last - first = 0
    BY <1>1, <1>3, <1>4, <1>9
  <2>2. {i \in 1 .. size : offset + i <= n} = {} /\ 1 .. 0 = {}
    BY <1>1, <1>9
  <2> QED BY <1>1, <1>7, <2>1, <2>2 DEF Cuts
<1> QED BY <1>8, <1>9

\* A page of an ordered set: the elements whose number of predecessors lies in it.
PageOf(page, S, less, offset, size) ==
    /\ page \in Seq(S)
    /\ {page[i] : i \in DOMAIN page} =
         {x \in S : Cardinality(Predecessors(S, less, x)) \in offset .. offset + size - 1}
    /\ \A i \in DOMAIN page : Cardinality(Predecessors(S, less, page[i])) = offset + i - 1
    /\ \A i, j \in DOMAIN page : i < j => <<page[i], page[j]>> \in less
    /\ DOMAIN page = {i \in 1 .. size : offset + i <= Cardinality(S)}

LEMMA PageOfOrdered ==
    ASSUME NEW S, IsFiniteSet(S), NEW less, Orders(less, S), NEW offset \in Nat, NEW limit \in Nat,
           NEW default \in Nat \ {0}, NEW page, page = Page(InOrder(S, less), offset, limit, default)
    PROVE  PageOf(page, S, less, offset, PageSize(limit, default))
<1>1. PICK s, n : s = InOrder(S, less) /\ n = Cardinality(S)
  OBVIOUS
<1>2. /\ n \in Nat /\ s \in [1 .. n -> S]
      /\ \A i \in 1 .. n : Cardinality(Predecessors(S, less, s[i])) = i - 1
      /\ \A x \in S : \E i \in 1 .. n : s[i] = x
      /\ \A i, j \in 1 .. n : i < j => <<s[i], s[j]>> \in less
  <2>1. Lists(s, n, S, less)
    BY <1>1, InOrderFacts
  <2> QED BY <2>1 DEF Lists
<1>3. PICK size : size = PageSize(limit, default)
  OBVIOUS
<1>4. /\ size \in Nat \ {0}
      /\ DOMAIN page = {i \in 1 .. size : offset + i <= n}
      /\ \A i \in DOMAIN page : offset + i \in 1 .. n /\ page[i] = s[offset + i]
      /\ page \in Seq(S)
  <2>1. Cuts(page, s, n, S, offset, size)
    BY <1>1, <1>2, <1>3, PageFacts
  <2> QED BY <2>1 DEF Cuts
<1>5. ASSUME NEW i \in DOMAIN page
      PROVE  /\ page[i] \in S /\ i \in 1 .. size
             /\ Cardinality(Predecessors(S, less, page[i])) = offset + i - 1
  BY <1>2, <1>4
<1>6. ASSUME NEW x \in S, Cardinality(Predecessors(S, less, x)) \in offset .. offset + size - 1
      PROVE  \E i \in DOMAIN page : page[i] = x
  <2>1. PICK k \in 1 .. n : s[k] = x
    BY <1>2
  <2>2. k - 1 \in offset .. offset + size - 1
    BY <1>2, <1>6, <2>1
  <2>3. PICK i \in Int : i = k - offset
    BY <1>2
  <2>4. i \in 1 .. size /\ offset + i = k /\ k <= n
    BY <1>2, <1>4, <2>2, <2>3
  <2>5. i \in DOMAIN page
    BY <1>4, <2>4
  <2> QED BY <1>4, <2>1, <2>4, <2>5
<1>7. {page[i] : i \in DOMAIN page} =
        {x \in S : Cardinality(Predecessors(S, less, x)) \in offset .. offset + size - 1}
  <2>1. ASSUME NEW i \in DOMAIN page
        PROVE  Cardinality(Predecessors(S, less, page[i])) \in offset .. offset + size - 1
    BY <1>4, <1>5
  <2> QED BY <1>5, <1>6, <2>1
<1>8. ASSUME NEW i \in DOMAIN page, NEW j \in DOMAIN page, i < j PROVE <<page[i], page[j]>> \in less
  <2>1. offset + i \in 1 .. n /\ offset + j \in 1 .. n /\ offset + i < offset + j
    BY <1>4, <1>8
  <2> QED BY <1>2, <1>4, <2>1
<1> QED BY <1>1, <1>3, <1>4, <1>5, <1>7, <1>8 DEF PageOf

\* A search finds the page of the items that match.
FindsPage(found, M, offset, size) ==
    /\ {found[i] : i \in DOMAIN found} =
         {s \in M : Cardinality({x \in M : ItemPrecedes(x, s)}) \in offset .. offset + size - 1}
    /\ \A i \in DOMAIN found : Cardinality({x \in M : ItemPrecedes(x, found[i])}) = offset + i - 1

LEMMA SearchExact ==
    ASSUME NEW matches, IsFiniteSet(DOMAIN matches), DOMAIN matches \subseteq Seq(Nat) \X Nat,
           NEW q, q.offset \in Nat, q.limit \in Nat,
           NEW M, M = {s \in DOMAIN matches : IsPrefix(q.prefix, s[1]) /\ "yes" \in matches[s]},
           NEW found, found = Evaluate(matches, q).found
    PROVE  FindsPage(found, M, q.offset, PageSize(q.limit, DefaultLimit))
<1>1. PICK less : less = {p \in M \X M : ItemPrecedes(p[1], p[2])}
  OBVIOUS
<1>2. M \subseteq Seq(Nat) \X Nat /\ M \subseteq DOMAIN matches
  OBVIOUS
<1>3. IsFiniteSet(M)
  BY <1>2, FS_Subset
<1>4. Orders(less, M)
  BY <1>1, <1>2, ItemsOrdered
<1>5. found = Page(InOrder(M, less), q.offset, q.limit, DefaultLimit)
  <2>1. M = {s \in {x \in DOMAIN matches : HasPrefix(x[1], q.prefix)} : "yes" \in matches[s]}
    BY DEF HasPrefix
  <2> QED BY <1>1, <2>1 DEF Evaluate, SortedItems
<1>6. \A s \in M : Predecessors(M, less, s) = {x \in M : ItemPrecedes(x, s)}
  BY <1>1 DEF Predecessors
<1>7. PICK offset \in Nat, limit \in Nat : offset = q.offset /\ limit = q.limit
  OBVIOUS
<1>8. DefaultLimit \in Nat \ {0}
  BY QueryAssumption
<1>9. /\ found \in Seq(M)
      /\ {found[i] : i \in DOMAIN found} =
           {x \in M : Cardinality(Predecessors(M, less, x)) \in
                         offset .. offset + PageSize(limit, DefaultLimit) - 1}
      /\ \A i \in DOMAIN found : Cardinality(Predecessors(M, less, found[i])) = offset + i - 1
  <2>1. found = Page(InOrder(M, less), offset, limit, DefaultLimit)
    BY <1>5, <1>7
  <2>2. PageOf(found, M, less, offset, PageSize(limit, DefaultLimit))
    BY <1>3, <1>4, <1>8, <2>1, PageOfOrdered
  <2> QED BY <2>2 DEF PageOf
<1>10. \A i \in DOMAIN found : found[i] \in M
  BY <1>9
<1>11. {x \in M : Cardinality(Predecessors(M, less, x)) \in
                     offset .. offset + PageSize(limit, DefaultLimit) - 1}
       = {s \in M : Cardinality({x \in M : ItemPrecedes(x, s)}) \in
                      q.offset .. q.offset + PageSize(q.limit, DefaultLimit) - 1}
  BY <1>6, <1>7
<1>12. \A i \in DOMAIN found : Cardinality({x \in M : ItemPrecedes(x, found[i])}) = q.offset + i - 1
  BY <1>6, <1>7, <1>9, <1>10
<1> QED BY <1>9, <1>11, <1>12 DEF FindsPage

-----------------------------------------------------------------------------
(***************************************************************************)
(* StoreQueries: filters, and what the SQL stores leave to the database.   *)
(***************************************************************************)
\* What a filter may come to.
LEMMA FilterOutcomes ==
    ASSUME NEW v, NEW filter
    PROVE  /\ "yes" \in MatchesFilter(v, filter) <=>
                \A f \in DOMAIN filter : CompareValues(v[f], filter[f]) = "yes"
           /\ "error" \in MatchesFilter(v, filter) <=>
                \E f \in DOMAIN filter : CompareValues(v[f], filter[f]) = "error"
<1> DEFINE C(f) == CompareValues(v[f], filter[f])
           O == {C(f) : f \in DOMAIN filter}
<1>1. MatchesFilter(v, filter) = IF O \subseteq {"yes"} THEN {"yes"} ELSE O \ {"yes"}
  BY DEF MatchesFilter
<1> HIDE DEF C
<1>2. O \subseteq {"yes"} <=> \A f \in DOMAIN filter : C(f) = "yes"
  OBVIOUS
<1>3. "error" \in O <=> \E f \in DOMAIN filter : C(f) = "error"
  OBVIOUS
<1>4. "yes" # "error"
  OBVIOUS
<1> HIDE DEF O
<1>5. "yes" \in MatchesFilter(v, filter) <=> \A f \in DOMAIN filter : C(f) = "yes"
  BY <1>1, <1>2
<1>6. "error" \in MatchesFilter(v, filter) <=> \E f \in DOMAIN filter : C(f) = "error"
  BY <1>1, <1>3, <1>4
<1> QED BY <1>5, <1>6 DEF C

\* Numbers that were written as JSON: same number, and a float became an integer.
LEMMA Normalized ==
    ASSUME NEW x \in Scalars
    PROVE  /\ NormalizeNumber(x) \in Scalars /\ NormalizeNumber(x).n = x.n
           /\ NormalizeNumber(x).t = IF x.t = "float" THEN "int" ELSE x.t
           /\ x.t # "float" => NormalizeNumber(x) = x
           /\ NormalizeNumber(NormalizeNumber(x)) = NormalizeNumber(x)
           /\ Numeric(NormalizeNumber(x)) <=> Numeric(x)
BY DEF NormalizeNumber, Scalars, Numeric

LEMMA NormalizedEach ==
    ASSUME NEW x \in FieldValues
    PROVE  /\ x.t # "obj" => x \in Scalars /\ NormalizeNumbers(x) = NormalizeNumber(x)
                             /\ NormalizeNumbers(x).t # "obj"
           /\ x.t = "obj" => x.field \in Scalars /\ NormalizeNumbers(x).t = "obj"
                             /\ NormalizeNumbers(x).field = NormalizeNumber(x.field)
<1>1. CASE x.t = "obj"
  <2>1. x \in [t : {"obj"}, field : Scalars]
    BY <1>1 DEF FieldValues, Scalars
  <2> QED BY <1>1, <2>1 DEF NormalizeNumbers
<1>2. CASE x.t # "obj"
  <2>1. x \in Scalars
    BY <1>2 DEF FieldValues
  <2>2. NormalizeNumbers(x) = NormalizeNumber(x)
    BY <1>2 DEF NormalizeNumbers
  <2>3. NormalizeNumber(x).t # "obj"
    BY <1>2, <2>1, Normalized
  <2> QED BY <1>2, <2>1, <2>2, <2>3
<1> QED BY <1>1, <1>2

\* The outcomes of one comparison.
LEMMA Compared ==
    ASSUME NEW x, NEW cond \in Comparisons
    PROVE  /\ cond.op \in {"is", "eq"} => (ApplyOperator(x, cond) = "yes" <=> x = cond.arg)
           /\ ApplyOperator(x, cond) = "error" <=>
                \/ cond.op = "gt" /\ (~Numeric(x) \/ ~Numeric(cond.arg))
                \/ cond.op = "unsupported"
<1>1. cond.op \in {"is", "eq", "ne", "gt", "unsupported"}
  BY DEF Comparisons
<1>2. CASE cond.op \in {"is", "eq"}
  BY <1>2 DEF ApplyOperator
<1>3. CASE cond.op = "ne"
  BY <1>3 DEF ApplyOperator
<1>4. CASE cond.op = "gt"
  BY <1>4 DEF ApplyOperator
<1>5. CASE cond.op = "unsupported"
  BY <1>5 DEF ApplyOperator
<1> QED BY <1>1, <1>2, <1>3, <1>4, <1>5

\* A condition is plain or nested.
LEMMA ConditionKinds ==
    ASSUME NEW cond \in FieldConditions
    PROVE  /\ cond.op # "nested" => cond \in Comparisons /\ Innermost(cond) = cond
           /\ cond.op = "nested" => cond.inner \in Comparisons /\ Innermost(cond) = cond.inner
<1>1. CASE cond.op = "nested"
  <2>1. cond \in [op : {"nested"}, inner : Comparisons]
    BY <1>1 DEF FieldConditions, Comparisons
  <2> QED BY <1>1, <2>1 DEF Innermost
<1>2. CASE cond.op # "nested"
  <2>1. cond \in Comparisons
    BY <1>2 DEF FieldConditions
  <2> QED BY <1>2, <2>1 DEF Innermost
<1> QED BY <1>1, <1>2

\* What a store that writes JSON cannot compare, the memory store cannot either.
LEMMA FailureKept ==
    ASSUME NEW x \in FieldValues, NEW cond \in FieldConditions,
           CompareValues(NormalizeNumbers(x), cond) = "error"
    PROVE  CompareValues(x, cond) = "error"
<1>1. CASE cond.op = "nested"
  <2>1. NormalizeNumbers(x).t = "obj" /\ ApplyOperator(NormalizeNumbers(x).field, cond.inner) = "error"
    BY <1>1 DEF CompareValues
  <2>2. x.t = "obj" /\ x.field \in Scalars /\ NormalizeNumbers(x).field = NormalizeNumber(x.field)
    BY <2>1, NormalizedEach
  <2>3. ApplyOperator(x.field, cond.inner) = "error"
    BY <1>1, <2>1, <2>2, Normalized, Compared, ConditionKinds
  <2> QED BY <1>1, <2>2, <2>3 DEF CompareValues
<1>2. CASE cond.op # "nested"
  <2>1. ApplyOperator(NormalizeNumbers(x), cond) = "error" /\ cond \in Comparisons
    BY <1>2, ConditionKinds DEF CompareValues
  <2>2. Numeric(x) => Numeric(NormalizeNumbers(x))
    <3>1. CASE x.t = "obj"
      BY <3>1 DEF Numeric
    <3>2. CASE x.t # "obj"
      BY <3>2, NormalizedEach, Normalized
    <3> QED BY <3>1, <3>2
  <2>3. ApplyOperator(x, cond) = "error"
    BY <2>1, <2>2, Compared
  <2> QED BY <1>2, <2>3 DEF CompareValues
<1> QED BY <1>1, <1>2

\* Nothing satisfies an unsupported operator.
LEMMA NothingSatisfies ==
    ASSUME NEW x, NEW cond \in FieldConditions, Innermost(cond).op = "unsupported"
    PROVE  CompareValues(x, cond) # "yes"
<1>1. CASE cond.op = "nested"
  BY <1>1, Compared, ConditionKinds DEF CompareValues
<1>2. CASE cond.op # "nested"
  BY <1>2, Compared, ConditionKinds DEF CompareValues
<1> QED BY <1>1, <1>2

\* Both databases find equal what the evaluator finds equal.
LEMMA EqualInDatabase ==
    ASSUME NEW x \in Scalars, NEW y, NormalizeNumber(x) = y
    PROVE  SqliteEqual(x, y) /\ JsonbEqual(x, y)
<1>1. JsonbEqual(x, y)
  BY Normalized DEF JsonbEqual
<1>2. CASE x.t = "float"
  <2>1. x.t = "float" /\ y.t = "int" /\ x.n = y.n
    BY <1>2, Normalized
  <2> QED BY <1>1, <2>1 DEF SqliteEqual
<1>3. CASE x.t # "float"
  <2>1. x = y
    BY <1>3, Normalized
  <2> QED BY <1>1, <2>1 DEF SqliteEqual
<1> QED BY <1>1, <1>2, <1>3

\* A condition that holds of the value read back holds in the database's terms, so
\* that the query selects its row.
LEMMA PushdownSound ==
    ASSUME NEW v, NEW f, v[f] \in FieldValues, NEW cond \in FieldConditions,
           CompareValues(NormalizeNumbers(v[f]), cond) = "yes",
           Innermost(cond).op \in {"is", "eq"}, Innermost(cond).arg.t # "obj"
    PROVE  /\ SqliteEqual(Extract(v, f, cond), Innermost(cond).arg)
           /\ JsonbEqual(Extract(v, f, cond), Innermost(cond).arg)
<1>0. PICK x \in FieldValues : x = v[f]
  OBVIOUS
<1>1. CASE cond.op = "nested"
  <2>1. NormalizeNumbers(x).t = "obj" /\ ApplyOperator(NormalizeNumbers(x).field, cond.inner) = "yes"
    BY <1>0, <1>1 DEF CompareValues
  <2>2. x.t = "obj" /\ x.field \in Scalars /\ NormalizeNumbers(x).field = NormalizeNumber(x.field)
    BY <2>1, NormalizedEach
  <2>3. cond.inner \in Comparisons /\ Innermost(cond) = cond.inner
    BY <1>1, ConditionKinds
  <2>4. NormalizeNumber(x.field) = cond.inner.arg
    BY <2>1, <2>2, <2>3, Compared
  <2>5. Extract(v, f, cond) = x.field
    BY <1>0, <1>1, <2>2 DEF Extract
  <2> QED BY <2>2, <2>3, <2>4, <2>5, EqualInDatabase
<1>2. CASE cond.op # "nested"
  <2>1. cond \in Comparisons /\ Innermost(cond) = cond /\ ApplyOperator(NormalizeNumbers(x), cond) = "yes"
    BY <1>0, <1>2, ConditionKinds DEF CompareValues
  <2>2. NormalizeNumbers(x) = cond.arg
    BY <2>1, Compared
  <2>3. x \in Scalars /\ NormalizeNumber(x) = cond.arg
    BY <2>1, <2>2, NormalizedEach
  <2>4. Extract(v, f, cond) = x
    BY <1>0, <1>2 DEF Extract
  <2> QED BY <2>1, <2>3, <2>4, EqualInDatabase
<1> QED BY <1>1, <1>2

-----------------------------------------------------------------------------
(***************************************************************************)
(* StoreQueries: the four searches.                                        *)
(***************************************************************************)
\* The items are finitely many, each with a value of its own.
QueryInv ==
    /\ DOMAIN slots \subseteq Slots /\ IsFiniteSet(DOMAIN slots)
    /\ \A s \in DOMAIN slots : slots[s] \in ItemValues

LEMMA QueriesTyped == QuerySpec => []QueryInv
<1>1. QueryInit => QueryInv
  BY FS_EmptySet DEF QueryInit, QueryInv
<1>2. ASSUME QueryInv, QueryNext PROVE QueryInv'
  <2>1. PICK s \in Slots : DeleteItem(s) \/ \E v \in ItemValues : PutItem(s, v)
    BY <1>2 DEF QueryNext
  <2>2. CASE DeleteItem(s)
    <3>1. DOMAIN slots' = DOMAIN slots \ {s} /\ \A x \in DOMAIN slots' : slots'[x] = slots[x]
      BY <2>2 DEF DeleteItem
    <3>2. IsFiniteSet(DOMAIN slots \ {s})
      BY <1>2, FS_Subset DEF QueryInv
    <3> QED BY <1>2, <3>1, <3>2 DEF QueryInv
  <2>3. CASE \E v \in ItemValues : PutItem(s, v)
    <3>1. PICK v \in ItemValues : PutItem(s, v)
      BY <2>3
    <3>2. /\ DOMAIN slots' = DOMAIN slots \cup {s}
          /\ \A x \in DOMAIN slots' : slots'[x] = IF x = s THEN v ELSE slots[x]
      BY <3>1 DEF PutItem
    <3>3. IsFiniteSet(DOMAIN slots \cup {s})
      BY <1>2, FS_AddElement DEF QueryInv
    <3> QED BY <1>2, <3>2, <3>3 DEF QueryInv
  <2> QED BY <2>1, <2>2, <2>3
<1>3. QueryInv /\ UNCHANGED slots => QueryInv'
  BY DEF QueryInv
<1> QED
  BY <1>1, <1>2, <1>3, PTL DEF QuerySpec

\* A search whose candidates include every item that satisfies the filter is exact.
LEMMA CandidatesSuffice ==
    ASSUME QueryInv, NEW q, q.offset \in Nat, q.limit \in Nat, NEW given, NEW matches,
           DOMAIN matches \subseteq DOMAIN slots,
           \A s \in DOMAIN matches : matches[s] = MatchesFilter(given[s], q.filter),
           \A s \in DOMAIN slots :
              IsPrefix(q.prefix, s[1]) /\ "yes" \in MatchesFilter(given[s], q.filter) => s \in DOMAIN matches
    PROVE  FindsExactly(Evaluate(matches, q), given, q)
<1>1. PICK M : M = {s \in DOMAIN slots :
                      /\ IsPrefix(q.prefix, s[1])
                      /\ \A f \in DOMAIN q.filter : CompareValues(given[s][f], q.filter[f]) = "yes"}
  OBVIOUS
<1>2. \A s : "yes" \in MatchesFilter(given[s], q.filter) <=>
               \A f \in DOMAIN q.filter : CompareValues(given[s][f], q.filter[f]) = "yes"
  BY FilterOutcomes
<1>3. M = {s \in DOMAIN matches : IsPrefix(q.prefix, s[1]) /\ "yes" \in matches[s]}
  BY <1>1, <1>2
<1>4. IsFiniteSet(DOMAIN matches) /\ DOMAIN matches \subseteq Seq(Nat) \X Nat
  BY FS_Subset, QueryAssumption DEF QueryInv
<1>5. PICK found : found = Evaluate(matches, q).found
  OBVIOUS
<1>6. FindsPage(found, M, q.offset, PageSize(q.limit, DefaultLimit))
  BY <1>3, <1>4, <1>5, SearchExact
<1> QED BY <1>1, <1>5, <1>6 DEF FindsExactly, FindsPage, PageSize

\* The values of the items and the conditions of a query.
LEMMA QueryParts ==
    ASSUME QueryInv, NEW q \in Queries
    PROVE  /\ q.offset \in Nat /\ q.limit \in Nat
           /\ \A f \in DOMAIN q.filter : f \in Fields /\ q.filter[f] \in FieldConditions
           /\ \A s \in DOMAIN slots, f \in Fields : slots[s][f] \in FieldValues
<1>1. q.offset \in Nat /\ q.limit \in Nat /\ q.filter \in Filters
  BY QueryAssumption DEF Queries
<1>2. \A f \in DOMAIN q.filter : f \in Fields /\ q.filter[f] \in FieldConditions
  BY <1>1, QueryAssumption
<1>3. \A s \in DOMAIN slots : slots[s] \in [Fields -> FieldValues]
  BY QueryAssumption DEF QueryInv
<1> QED BY <1>1, <1>2, <1>3

\* The query of either database selects every item that satisfies the filter.
LEMMA RowsSuffice ==
    ASSUME QueryInv, NEW q \in Queries, NEW s \in DOMAIN slots, IsPrefix(q.prefix, s[1]),
           "yes" \in MatchesFilter([f \in Fields |-> NormalizeNumbers(slots[s][f])], q.filter)
    PROVE  s \in SqliteRows(q) /\ s \in PostgresRows(q)
<1>1. ASSUME NEW f \in DOMAIN q.filter
      PROVE  /\ f \in Fields /\ q.filter[f] \in FieldConditions /\ slots[s][f] \in FieldValues
             /\ CompareValues(NormalizeNumbers(slots[s][f]), q.filter[f]) = "yes"
  <2>1. f \in Fields /\ q.filter[f] \in FieldConditions /\ slots[s][f] \in FieldValues
    BY QueryParts
  <2>2. CompareValues([g \in Fields |-> NormalizeNumbers(slots[s][g])][f], q.filter[f]) = "yes"
    BY FilterOutcomes
  <2> QED BY <2>1, <2>2
<1>2. ASSUME NEW f \in DOMAIN q.filter, Innermost(q.filter[f]).op \in {"is", "eq"},
             Innermost(q.filter[f]).arg.t # "obj"
      PROVE  /\ SqliteEqual(Extract(slots[s], f, q.filter[f]), Innermost(q.filter[f]).arg)
             /\ JsonbEqual(Extract(slots[s], f, q.filter[f]), Innermost(q.filter[f]).arg)
  <2>1. PICK cond \in FieldConditions : cond = q.filter[f]
    BY <1>1
  <2>2. PICK v : v = slots[s]
    OBVIOUS
  <2>3. v[f] \in FieldValues /\ CompareValues(NormalizeNumbers(v[f]), cond) = "yes"
    BY <1>1, <2>1, <2>2
  <2>4. SqliteEqual(Extract(v, f, cond), Innermost(cond).arg) /\ JsonbEqual(Extract(v, f, cond), Innermost(cond).arg)
    BY <1>2, <2>1, <2>3, PushdownSound
  <2> QED BY <2>1, <2>2, <2>4
<1>3. CompileSafeFilter(slots[s], q.filter) /\ CompilePGSafeFilter(slots[s], q.filter)
  BY <1>2 DEF CompileSafeFilter, CompilePGSafeFilter
<1> QED BY <1>3 DEF SqliteRows, PostgresRows, HasPrefix

\* A search over candidates that are read back as JSON fails only where the memory
\* store may.
LEMMA FailuresShared ==
    ASSUME QueryInv, NEW q \in Queries, NEW matches, DOMAIN matches \subseteq DOMAIN slots,
           \A s \in DOMAIN matches :
              matches[s] = MatchesFilter([f \in Fields |-> NormalizeNumbers(slots[s][f])], q.filter),
           Evaluate(matches, q).mayFail \/ Evaluate(matches, q).fails
    PROVE  MemorySearch(q).mayFail
<1>1. PICK s \in DOMAIN matches : HasPrefix(s[1], q.prefix) /\ "error" \in matches[s]
  BY DEF Evaluate
<1>2. PICK f \in DOMAIN q.filter :
         CompareValues([g \in Fields |-> NormalizeNumbers(slots[s][g])][f], q.filter[f]) = "error"
  BY <1>1, FilterOutcomes
<1>3. s \in DOMAIN slots /\ f \in Fields /\ q.filter[f] \in FieldConditions /\ slots[s][f] \in FieldValues
  BY <1>1, QueryParts
<1>4. CompareValues(slots[s][f], q.filter[f]) = "error"
  BY <1>2, <1>3, FailureKept
<1>5. "error" \in MemoryMatches(slots[s], q.filter)
  BY <1>4, FilterOutcomes DEF MemoryMatches, CloneValue
<1> QED BY <1>1, <1>3, <1>5 DEF MemorySearch, Evaluate

\* A refused search is exact, for it has nothing to find.
LEMMA RefusalExact ==
    ASSUME QueryInv, NEW q \in Queries, Unsupported(q.filter), NEW given, NEW search, search.found = <<>>
    PROVE  FindsExactly(search, given, q)
<1>1. PICK f \in DOMAIN q.filter : q.filter[f] \in FieldConditions /\ Innermost(q.filter[f]).op = "unsupported"
  BY QueryParts DEF Unsupported
<1>2. {s \in DOMAIN slots :
          /\ IsPrefix(q.prefix, s[1])
          /\ \A g \in DOMAIN q.filter : CompareValues(given[s][g], q.filter[g]) = "yes"} = {}
  BY <1>1, NothingSatisfies
<1>3. DOMAIN search.found = {}
  OBVIOUS
<1> QED BY <1>2, <1>3 DEF FindsExactly

\* The four searches are exact.
LEMMA SearchesExact ==
    ASSUME QueryInv, NEW q \in Queries
    PROVE  /\ FindsExactly(MemorySearch(q), [s \in DOMAIN slots |-> CloneValue(slots[s])], q)
           /\ FindsExactly(SqliteSearch(q), [s \in DOMAIN slots |-> SqliteDecodeValue(slots[s])], q)
           /\ FindsExactly(PostgresSearch(q), [s \in DOMAIN slots |-> PostgresDecodeValue(slots[s])], q)
           /\ FindsExactly(RedisSearch(q), [s \in DOMAIN slots |-> RedisDecodeValue(slots[s])], q)
<1>0. q.offset \in Nat /\ q.limit \in Nat
  BY QueryParts
<1>1. FindsExactly(MemorySearch(q), [s \in DOMAIN slots |-> CloneValue(slots[s])], q)
  <2>1. PICK given, matches : /\ given = [s \in DOMAIN slots |-> CloneValue(slots[s])]
                              /\ matches = [s \in DOMAIN slots |-> MemoryMatches(slots[s], q.filter)]
    OBVIOUS
  <2>2. DOMAIN matches = DOMAIN slots /\ \A s \in DOMAIN matches : matches[s] = MatchesFilter(given[s], q.filter)
    BY <2>1 DEF MemoryMatches
  <2>3. FindsExactly(Evaluate(matches, q), given, q)
    BY <1>0, <2>2, CandidatesSuffice
  <2> QED BY <2>1, <2>3 DEF MemorySearch
<1>2. FindsExactly(RedisSearch(q), [s \in DOMAIN slots |-> RedisDecodeValue(slots[s])], q)
  <2>1. PICK given, matches : /\ given = [s \in DOMAIN slots |-> RedisDecodeValue(slots[s])]
                              /\ matches = [s \in DOMAIN slots |-> RedisMatches(slots[s], q.filter)]
    OBVIOUS
  <2>2. DOMAIN matches = DOMAIN slots /\ \A s \in DOMAIN matches : matches[s] = MatchesFilter(given[s], q.filter)
    BY <2>1 DEF RedisMatches
  <2>3. FindsExactly(Evaluate(matches, q), given, q)
    BY <1>0, <2>2, CandidatesSuffice
  <2> QED BY <2>1, <2>3 DEF RedisSearch
<1>3. FindsExactly(SqliteSearch(q), [s \in DOMAIN slots |-> SqliteDecodeValue(slots[s])], q)
  <2>1. PICK given, matches : /\ given = [s \in DOMAIN slots |-> SqliteDecodeValue(slots[s])]
                              /\ matches = [s \in SqliteRows(q) |-> SqliteMatches(slots[s], q.filter)]
    OBVIOUS
  <2>2. /\ DOMAIN matches = SqliteRows(q) /\ SqliteRows(q) \subseteq DOMAIN slots
        /\ \A s \in DOMAIN slots : given[s] = [f \in Fields |-> NormalizeNumbers(slots[s][f])]
    BY <2>1 DEF SqliteRows, SqliteDecodeValue
  <2>3. \A s \in DOMAIN matches : matches[s] = MatchesFilter(given[s], q.filter)
    BY <2>1, <2>2 DEF SqliteMatches
  <2>4. \A s \in DOMAIN slots :
          IsPrefix(q.prefix, s[1]) /\ "yes" \in MatchesFilter(given[s], q.filter) => s \in DOMAIN matches
    BY <2>2, RowsSuffice
  <2>5. FindsExactly(Evaluate(matches, q), given, q)
    BY <1>0, <2>2, <2>3, <2>4, CandidatesSuffice
  <2>6. CASE Unsupported(q.filter)
    BY <2>6, RefusalExact DEF SqliteSearch, Refused
  <2> QED BY <2>1, <2>5, <2>6 DEF SqliteSearch
<1>4. FindsExactly(PostgresSearch(q), [s \in DOMAIN slots |-> PostgresDecodeValue(slots[s])], q)
  <2>1. PICK given, matches : /\ given = [s \in DOMAIN slots |-> PostgresDecodeValue(slots[s])]
                              /\ matches = [s \in PostgresRows(q) |-> PostgresMatches(slots[s], q.filter)]
    OBVIOUS
  <2>2. /\ DOMAIN matches = PostgresRows(q) /\ PostgresRows(q) \subseteq DOMAIN slots
        /\ \A s \in DOMAIN slots : given[s] = [f \in Fields |-> NormalizeNumbers(slots[s][f])]
    BY <2>1 DEF PostgresRows, PostgresDecodeValue
  <2>3. \A s \in DOMAIN matches : matches[s] = MatchesFilter(given[s], q.filter)
    BY <2>1, <2>2 DEF PostgresMatches
  <2>4. \A s \in DOMAIN slots :
          IsPrefix(q.prefix, s[1]) /\ "yes" \in MatchesFilter(given[s], q.filter) => s \in DOMAIN matches
    BY <2>2, RowsSuffice
  <2>5. FindsExactly(Evaluate(matches, q), given, q)
    BY <1>0, <2>2, <2>3, <2>4, CandidatesSuffice
  <2>6. CASE Unsupported(q.filter)
    BY <2>6, RefusalExact DEF PostgresSearch, Refused
  <2> QED BY <2>1, <2>5, <2>6 DEF PostgresSearch
<1> QED BY <1>1, <1>2, <1>3, <1>4

\* None of the others fails where the memory store cannot, but for the operators that
\* a SQL store refuses.
LEMMA SearchesFailAlike ==
    ASSUME QueryInv, NEW q \in Queries,
           NEW other \in {SqliteSearch(q), PostgresSearch(q), RedisSearch(q)},
           other.mayFail \/ other.fails, ~Unsupported(q.filter) \/ other = RedisSearch(q)
    PROVE  MemorySearch(q).mayFail
<1>1. CASE other = SqliteSearch(q) /\ ~Unsupported(q.filter)
  <2>1. PICK matches : matches = [s \in SqliteRows(q) |-> SqliteMatches(slots[s], q.filter)]
    OBVIOUS
  <2>2. DOMAIN matches \subseteq DOMAIN slots
    BY <2>1 DEF SqliteRows
  <2>3. \A s \in DOMAIN matches :
          matches[s] = MatchesFilter([f \in Fields |-> NormalizeNumbers(slots[s][f])], q.filter)
    BY <2>1 DEF SqliteMatches, SqliteDecodeValue
  <2>4. other = Evaluate(matches, q)
    BY <1>1, <2>1 DEF SqliteSearch
  <2> QED BY <2>2, <2>3, <2>4, FailuresShared
<1>2. CASE other = PostgresSearch(q) /\ ~Unsupported(q.filter)
  <2>1. PICK matches : matches = [s \in PostgresRows(q) |-> PostgresMatches(slots[s], q.filter)]
    OBVIOUS
  <2>2. DOMAIN matches \subseteq DOMAIN slots
    BY <2>1 DEF PostgresRows
  <2>3. \A s \in DOMAIN matches :
          matches[s] = MatchesFilter([f \in Fields |-> NormalizeNumbers(slots[s][f])], q.filter)
    BY <2>1 DEF PostgresMatches, PostgresDecodeValue
  <2>4. other = Evaluate(matches, q)
    BY <1>2, <2>1 DEF PostgresSearch
  <2> QED BY <2>2, <2>3, <2>4, FailuresShared
<1>3. CASE other = RedisSearch(q)
  <2>1. PICK matches : matches = [s \in DOMAIN slots |-> RedisMatches(slots[s], q.filter)]
    OBVIOUS
  <2>2. DOMAIN matches \subseteq DOMAIN slots
    BY <2>1
  <2>3. \A s \in DOMAIN matches :
          matches[s] = MatchesFilter([f \in Fields |-> NormalizeNumbers(slots[s][f])], q.filter)
    BY <2>1 DEF RedisMatches, RedisDecodeValue
  <2>4. other = Evaluate(matches, q)
    BY <1>3, <2>1 DEF RedisSearch
  <2> QED BY <2>2, <2>3, <2>4, FailuresShared
<1> QED BY <1>1, <1>2, <1>3

-----------------------------------------------------------------------------
(***************************************************************************)
(* StoreQueries: listings of namespaces.                                   *)
(***************************************************************************)
\* Truncated, a namespace is a prefix of itself.
LEMMA TruncatedPrefix ==
    ASSUME NEW ns \in Seq(Nat), NEW depth \in Nat
    PROVE  Truncate(ns, depth) \in Seq(Nat) /\ IsPrefix(Truncate(ns, depth), ns)
<1>1. CASE depth > 0 /\ Len(ns) > depth
  <2>1. Truncate(ns, depth) = SubSeq(ns, 1, depth)
    BY <1>1 DEF Truncate
  <2>2. SubSeq(ns, 1, depth) \in Seq(Nat) /\ Len(SubSeq(ns, 1, depth)) = depth
    BY <1>1
  <2>3. SubSeq(SubSeq(ns, 1, depth), 1, depth) = SubSeq(ns, 1, depth)
    BY <1>1
  <2> QED BY <1>1, <2>1, <2>2, <2>3 DEF IsPrefix
<1>2. CASE ~(depth > 0 /\ Len(ns) > depth)
  BY <1>2 DEF Truncate, IsPrefix
<1> QED BY <1>1, <1>2

\* A finite set has finitely many images.
LEMMA ImageFinite ==
    ASSUME NEW S, IsFiniteSet(S), NEW f, f \in [S -> {f[x] : x \in S}]
    PROVE  IsFiniteSet({f[x] : x \in S})
<1>1. PICK T : T = {f[x] : x \in S}
  OBVIOUS
<1>2. f \in Surjection(S, T)
  BY <1>1 DEF Surjection
<1>3. IsFiniteSet(T)
  BY <1>2, FS_Surjection
<1> QED BY <1>1, <1>3

\* The namespaces of the items are sequences of labels, finitely many.
LEMMA NamespacesFinite ==
    ASSUME QueryInv
    PROVE  IsFiniteSet(ItemNamespaces) /\ ItemNamespaces \subseteq Seq(Nat)
<1>1. IsFiniteSet(ItemNamespaces)
  <2>1. PICK f : f = [s \in DOMAIN slots |-> s[1]]
    OBVIOUS
  <2>2. ItemNamespaces = {f[s] : s \in DOMAIN slots}
    BY <2>1 DEF ItemNamespaces
  <2>3. IsFiniteSet({f[s] : s \in DOMAIN slots})
    BY <2>1, ImageFinite DEF QueryInv
  <2> QED BY <2>2, <2>3
<1>2. \A s \in DOMAIN slots : s[1] \in Seq(Nat)
  BY QueryAssumption DEF QueryInv
<1> QED BY <1>1, <1>2 DEF ItemNamespaces

\* A listing is in order and names only prefixes of items' namespaces; the default
\* one names every namespace unless it is full.
ListsNamespaces(listed, o) ==
    /\ \A i, j \in DOMAIN listed : i < j => Precedes(listed[i], listed[j])
    /\ \A i \in DOMAIN listed : \E s \in DOMAIN slots : IsPrefix(listed[i], s[1])
    /\ o = [cond |-> [type |-> "prefix", path |-> <<>>], depth |-> 0, offset |-> 0, limit |-> 0]
         => \A s \in DOMAIN slots : Len(listed) < DefaultNamespaces
             => \E i \in DOMAIN listed : listed[i] = s[1]

LEMMA ListingsExact ==
    ASSUME QueryInv, NEW o \in Listings
    PROVE  ListsNamespaces(Listing(ItemNamespaces, o), o)
<1>1. PICK T : T = {Truncate(ns, o.depth) : ns \in {x \in ItemNamespaces : MatchNamespace(x, o.cond)}}
  OBVIOUS
<1>2. o.depth \in Nat /\ o.offset \in Nat /\ o.limit \in Nat
  BY QueryAssumption DEF Listings
<1>3. IsFiniteSet(T)
  <2>1. PICK N : N = {x \in ItemNamespaces : MatchNamespace(x, o.cond)}
    OBVIOUS
  <2>2. IsFiniteSet(N)
    BY <2>1, NamespacesFinite, FS_Subset
  <2>3. PICK f : f = [ns \in N |-> Truncate(ns, o.depth)]
    OBVIOUS
  <2>4. T = {f[ns] : ns \in N}
    BY <1>1, <2>1, <2>3
  <2>5. IsFiniteSet({f[ns] : ns \in N})
    BY <2>2, <2>3, ImageFinite
  <2> QED BY <2>4, <2>5
<1>4. \A x \in T : \E ns \in ItemNamespaces : x = Truncate(ns, o.depth)
  BY <1>1
<1>5. T \subseteq Seq(Nat)
  BY <1>2, <1>4, NamespacesFinite, TruncatedPrefix
<1>6. PICK less : less = {p \in T \X T : Precedes(p[1], p[2])}
  OBVIOUS
<1>7. Orders(less, T)
  <2>1. \A x, y \in T : <<x, y>> \in less <=> Precedes(x, y)
    BY <1>6
  <2>2. \A x \in T : x \in Seq(Nat)
    BY <1>5
  <2>3. \A x, y, z \in T : <<x, y>> \in less /\ <<y, z>> \in less => <<x, z>> \in less
    BY <2>1, <2>2, NamespacesOrdered
  <2>4. \A x, y \in T : x = y \/ <<x, y>> \in less \/ <<y, x>> \in less
    BY <2>1, <2>2, NamespacesOrdered
  <2>5. \A x \in T : <<x, x>> \notin less
    BY <2>1, <2>2, NamespacesOrdered
  <2> QED BY <2>3, <2>4, <2>5 DEF Orders
<1>0. PICK offset \in Nat, limit \in Nat : offset = o.offset /\ limit = o.limit
  BY <1>2
<1>8. PICK listed : listed = Listing(ItemNamespaces, o)
  OBVIOUS
<1>9. listed = Page(InOrder(T, less), offset, limit, DefaultNamespaces)
  BY <1>0, <1>1, <1>6, <1>8 DEF Listing, SortedNamespaces
<1>10. DefaultNamespaces \in Nat \ {0}
  BY QueryAssumption
<1>11. PageOf(listed, T, less, offset, PageSize(limit, DefaultNamespaces))
  BY <1>3, <1>7, <1>9, <1>10, PageOfOrdered
<1>12. listed \in Seq(T) /\ \A i \in DOMAIN listed : listed[i] \in T
  BY <1>11 DEF PageOf
<1>13. ASSUME NEW i \in DOMAIN listed, NEW j \in DOMAIN listed, i < j PROVE Precedes(listed[i], listed[j])
  <2>1. <<listed[i], listed[j]>> \in less
    BY <1>11, <1>13 DEF PageOf
  <2> QED BY <1>6, <2>1
<1>14. ASSUME NEW i \in DOMAIN listed PROVE \E s \in DOMAIN slots : IsPrefix(listed[i], s[1])
  <2>1. PICK ns \in ItemNamespaces : listed[i] = Truncate(ns, o.depth)
    BY <1>4, <1>12
  <2>2. PICK s \in DOMAIN slots : ns = s[1]
    BY DEF ItemNamespaces
  <2>3. IsPrefix(listed[i], ns)
    BY <1>2, <2>1, NamespacesFinite, TruncatedPrefix
  <2> QED BY <2>2, <2>3
<1>15. ASSUME o = [cond |-> [type |-> "prefix", path |-> <<>>], depth |-> 0, offset |-> 0, limit |-> 0],
              NEW s \in DOMAIN slots, Len(listed) < DefaultNamespaces
       PROVE  \E i \in DOMAIN listed : listed[i] = s[1]
  <2>1. s[1] \in ItemNamespaces /\ s[1] \in Seq(Nat)
    BY NamespacesFinite DEF ItemNamespaces
  <2>2. MatchNamespace(s[1], o.cond) /\ Truncate(s[1], o.depth) = s[1]
    BY <1>15, <2>1 DEF MatchNamespace, Truncate
  <2>3. s[1] \in T
    BY <1>1, <2>1, <2>2
  <2>4. PICK c \in Nat, r \in Nat : c = Cardinality(T) /\ r = Cardinality(Predecessors(T, less, s[1])) /\ r < c
    <3>1. Cardinality(T) \in Nat
      BY <1>3, FS_CardinalityType
    <3>2. Cardinality(Predecessors(T, less, s[1])) \in 0 .. Cardinality(T) - 1
      BY <1>3, <1>7, <2>3, RanksDiffer
    <3> QED BY <3>1, <3>2
  <2>5. offset = 0 /\ PageSize(limit, DefaultNamespaces) = DefaultNamespaces
    BY <1>0, <1>15 DEF PageSize
  <2>6. DOMAIN listed = {i \in 1 .. DefaultNamespaces : i <= c}
    BY <1>10, <1>11, <2>4, <2>5 DEF PageOf
  <2>7. c < DefaultNamespaces
    <3> SUFFICES ASSUME DefaultNamespaces <= c PROVE FALSE
      BY <1>10
    <3>1. DefaultNamespaces \in DOMAIN listed
      BY <1>10, <2>6
    <3>2. DOMAIN listed = 1 .. Len(listed) /\ Len(listed) \in Nat
      BY <1>12
    <3> QED BY <1>10, <1>15, <3>1, <3>2
  <2>8. r \in offset .. offset + PageSize(limit, DefaultNamespaces) - 1
    BY <1>10, <2>4, <2>5, <2>7
  <2>9. s[1] \in {listed[i] : i \in DOMAIN listed}
    BY <1>11, <2>3, <2>4, <2>8 DEF PageOf
  <2> QED BY <2>9
<1> QED BY <1>8, <1>13, <1>14, <1>15 DEF ListsNamespaces

\* For any items, filters, prefixes, offsets and limits: each store finds the page
\* of exactly the items whose value, as it gives it back, satisfies the filter,
\* whatever it pushes into the database, none fails where the memory store could
\* not, but for an operator that the SQL stores refuse, and namespaces are listed in order, each because of an item, and
\* completely as far as the page reaches.
THEOREM QueriesAreExact == QuerySpec => []QueriesExact
<1>1. ASSUME QueryInv PROVE QueriesExact
  <2>1. ASSUME NEW q \in Queries
        PROVE  /\ FindsExactly(MemorySearch(q), [s \in DOMAIN slots |-> CloneValue(slots[s])], q)
               /\ FindsExactly(SqliteSearch(q), [s \in DOMAIN slots |-> SqliteDecodeValue(slots[s])], q)
               /\ FindsExactly(PostgresSearch(q), [s \in DOMAIN slots |-> PostgresDecodeValue(slots[s])], q)
               /\ FindsExactly(RedisSearch(q), [s \in DOMAIN slots |-> RedisDecodeValue(slots[s])], q)
    BY <1>1, SearchesExact
  <2>2. ASSUME NEW q \in Queries
        PROVE  /\ RedisSearch(q).mayFail => MemorySearch(q).mayFail
               /\ \A other \in {SqliteSearch(q), PostgresSearch(q)} :
                    other.mayFail \/ other.fails => MemorySearch(q).mayFail \/ Unsupported(q.filter)
    BY <1>1, SearchesFailAlike
  <2>3. ASSUME NEW o \in Listings, NEW listed \in {MemoryListNamespaces(o), SqliteListNamespaces(o),
                                                  PostgresListNamespaces(o), RedisListNamespaces(o)}
        PROVE  ListsNamespaces(listed, o)
    <3>1. listed = Listing(ItemNamespaces, o)
      BY DEF MemoryListNamespaces, SqliteListNamespaces, PostgresListNamespaces, RedisListNamespaces
    <3> QED BY <1>1, <3>1, ListingsExact
  <2> QED BY <2>1, <2>2, <2>3 DEF QueriesExact, ListsNamespaces
<1>2. QueryInv => QueriesExact
  BY <1>1
<1> QED
  BY QueriesTyped, <1>2, PTL
=============================================================================
