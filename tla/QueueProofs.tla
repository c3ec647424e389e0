---------------------------- MODULE QueueProofs -----------------------------
(***************************************************************************)
(* Proofs about LeasedQueue and ResultOutbox: leases fence off late        *)
(* workers for every set of tasks, tokens, workers, keys and requests and  *)
(* every clock lag, and a task is completed once, for any number of        *)
(* workers, tasks, deliveries, answers and retention runs.                 *)
(***************************************************************************)
EXTENDS LeasedQueue, ResultOutbox, FiniteSetTheorems, TLAPS

-----------------------------------------------------------------------------
(***************************************************************************)
(* LeasedQueue: leases and their tokens.                                   *)
(***************************************************************************)
(* The inductive invariant.                                                *)

\* The generator's freshness, as the clients see it: a token names one lease.
TokensNameLeases ==
    /\ \A l \in issued : l.token \in usedTokens
    /\ \A l, m \in issued : l.token = m.token => l = m

\* A leased record holds a token that was really handed out.
RecordsHoldUsedTokens ==
    \A t \in DOMAIN records : records[t].leased => records[t].token \in usedTokens

\* A task made under a key is the task the key is bound to.
KeysBound ==
    \A t \in DOMAIN records :
        records[t].key # NoKey =>
            /\ records[t].key \in DOMAIN bindings
            /\ bindings[records[t].key].task = t

IInv ==
    /\ TypeOK
    /\ TokensNameLeases
    /\ RecordsHoldUsedTokens
    /\ KeysBound

\* The empty queue satisfies the invariant.
LEMMA InitInv == Init => IInv
  <1> SUFFICES ASSUME Init PROVE IInv
    OBVIOUS
  <1>1. TypeOK
    <2>1. now \in Times
      BY QueueAssumption DEF Init, Times
    <2>2. DOMAIN records = {} /\ DOMAIN bindings = {}
      BY DEF Init
    <2>3. records \in [DOMAIN records -> Record] /\ bindings \in [DOMAIN bindings -> Binding]
      BY <2>2 DEF Init
    <2> QED BY <2>1, <2>2, <2>3 DEF Init, TypeOK
  <1> QED
    BY <1>1 DEF Init, IInv, TokensNameLeases, RecordsHoldUsedTokens, KeysBound

\* A map with one entry put, and with entries dropped.
LEMMA PutType ==
    ASSUME NEW R, NEW f, f \in [DOMAIN f -> R], NEW k, NEW v \in R
    PROVE  Put(f, k, v) \in [DOMAIN Put(f, k, v) -> R]
  BY DEF Put

\* Dropping entries leaves the others as they were.
LEMMA DropFacts ==
    ASSUME NEW f, NEW S
    PROVE  /\ DOMAIN Drop(f, S) = DOMAIN f \ S
           /\ \A x \in DOMAIN f \ S : Drop(f, S)[x] = f[x]
  BY DEF Drop

\* Dropping entries keeps the type of a map.
LEMMA DropType ==
    ASSUME NEW R, NEW f, f \in [DOMAIN f -> R], NEW S
    PROVE  Drop(f, S) \in [DOMAIN Drop(f, S) -> R]
  BY DEF Drop

\* A clock sample is a natural number not after the present.
LEMMA SampleFacts ==
    ASSUME TypeOK, NEW at \in Samples
    PROVE  at \in Nat /\ now \in Nat /\ at <= now /\ (Lag = 0 => at = now)
  BY QueueAssumption DEF TypeOK, Samples, Times

\* Enqueue adds a task under a key that no other task holds.
LEMMA EnqueueInv ==
    ASSUME IInv, NEW r \in Requests, NEW id \in TaskIDs, NEW at \in Samples,
           Enqueue(r, id, at)
    PROVE  IInv'
  <1>0. r \in Request /\ at \in Nat /\ now \in Nat
    BY RequestAssumption, SampleFacts DEF IInv
  <1> DEFINE new == [payload |-> r.payload, attempt |-> 0, enqueued |-> at,
                     available |-> IF r.at = Immediately THEN at ELSE r.at,
                     leased |-> FALSE, token |-> NoToken,
                     worker |-> NoWorker, expires |-> 0, key |-> r.key]
  <1>1. new \in Record
    BY <1>0, QueueAssumption DEF Request, Record, Times, Immediately
  <1>2. records' = Put(records, id, new) /\ id \notin DOMAIN records
    BY DEF Enqueue
  <1> HIDE DEF new
  <1>3. /\ DOMAIN records' = DOMAIN records \cup {id}
        /\ records'[id] = new
        /\ \A t \in DOMAIN records : t # id => records'[t] = records[t]
        /\ records' \in [DOMAIN records' -> Record]
    <2>1. records' \in [DOMAIN records' -> Record]
      BY <1>1, <1>2, PutType DEF IInv, TypeOK
    <2> QED BY <2>1, <1>2 DEF Put
  <1>4. /\ new.leased = FALSE
        /\ new.key = r.key
    BY DEF new
  <1>5. /\ DOMAIN bindings' \subseteq Keys
        /\ bindings' \in [DOMAIN bindings' -> Binding]
        /\ \A k \in DOMAIN bindings : k \in DOMAIN bindings' /\ bindings'[k] = bindings[k]
        /\ r.key # NoKey => r.key \in DOMAIN bindings' /\ bindings'[r.key].task = id
    <2>1. CASE r.key = NoKey
      BY <2>1 DEF Enqueue, BindKey, IInv, TypeOK
    <2>2. CASE r.key # NoKey
      <3> DEFINE b == [task |-> id, hash |-> Fingerprint(r), created |-> at]
      <3>1. b \in Binding /\ b.task = id
        BY <1>0 DEF Fingerprint, Binding, Request
      <3>2. bindings' = Put(bindings, r.key, b) /\ r.key \notin DOMAIN bindings /\ r.key \in Keys
        BY <2>2, <1>0 DEF Enqueue, BindKey, Request
      <3> HIDE DEF b
      <3>3. bindings' \in [DOMAIN bindings' -> Binding]
        BY <3>1, <3>2, PutType DEF IInv, TypeOK
      <3>4. DOMAIN bindings \subseteq Keys
        BY DEF IInv, TypeOK
      <3> QED BY <3>1, <3>2, <3>3, <3>4 DEF Put
    <2> QED BY <2>1, <2>2
  <1>6. TypeOK'
    BY <1>3, <1>5 DEF Enqueue, IInv, TypeOK
  <1>7. TokensNameLeases'
    BY DEF Enqueue, IInv, TokensNameLeases
  <1>8. RecordsHoldUsedTokens'
    BY <1>3, <1>4 DEF Enqueue, IInv, RecordsHoldUsedTokens
  <1>9. KeysBound'
    BY <1>2, <1>3, <1>4, <1>5 DEF IInv, KeysBound
  <1> QED BY <1>6, <1>7, <1>8, <1>9 DEF IInv

\* Claim hands out fresh tokens, one per record.
LEMMA ClaimInv ==
    ASSUME IInv, NEW w \in Workers, NEW n, NEW d \in Durations, NEW at \in Samples,
           NEW skipped, NEW tok, Claim(w, n, d, at, skipped, tok)
    PROVE  IInv'
  <1> DEFINE batch == FirstOf(Eligible(at) \ skipped, n)
  <1>0. at \in Nat /\ d \in Nat
    BY SampleFacts, QueueAssumption DEF IInv
  <1>1. /\ DOMAIN tok = batch
        /\ \A t \in batch : tok[t] \in Tokens \ usedTokens
        /\ Injective(tok)
        /\ records' = [t \in DOMAIN records |->
              IF t \notin batch THEN records[t]
              ELSE [records[t] EXCEPT !.leased = TRUE, !.attempt = @ + 1,
                        !.token = tok[t], !.worker = w, !.expires = at + d]]
        /\ usedTokens' = usedTokens \cup {tok[t] : t \in batch}
        /\ issued' = issued \cup
              {[task |-> t, token |-> tok[t], worker |-> w] : t \in batch}
        /\ UNCHANGED <<now, bindings, usedIDs>>
    BY DEF Claim
  <1>2. batch \subseteq DOMAIN records
    BY DEF FirstOf, Eligible
  <1> HIDE DEF batch
  <1>3. DOMAIN records' = DOMAIN records
    BY <1>1
  <1>4. \A t \in DOMAIN records : records[t] \in Record /\ t \in TaskIDs
    BY DEF IInv, TypeOK
  <1>5. ASSUME NEW t \in DOMAIN records
        PROVE  /\ records'[t] \in Record
               /\ records'[t].key = records[t].key
               /\ t \notin batch => records'[t] = records[t]
               /\ t \in batch => records'[t].token = tok[t]
    <2>1. CASE t \notin batch
      BY <2>1, <1>1, <1>4
    <2>2. CASE t \in batch
      <3>1. records'[t] = [records[t] EXCEPT !.leased = TRUE, !.attempt = @ + 1,
                        !.token = tok[t], !.worker = w, !.expires = at + d]
        BY <2>2, <1>1
      <3>2. tok[t] \in Tokens
        BY <2>2, <1>1
      <3>3. records'[t] = [payload |-> records[t].payload, attempt |-> records[t].attempt + 1,
                           enqueued |-> records[t].enqueued, available |-> records[t].available,
                           leased |-> TRUE, token |-> tok[t], worker |-> w,
                           expires |-> at + d, key |-> records[t].key]
        BY <3>1, <1>4 DEF Record
      <3>4. records'[t] \in Record
        BY <3>2, <3>3, <1>0, <1>4 DEF Record
      <3> QED BY <3>3, <3>4, <2>2
    <2> QED BY <2>1, <2>2
  <1>6. TypeOK'
    <2>1. records' \in [DOMAIN records' -> Record] /\ DOMAIN records' \subseteq TaskIDs
      BY <1>1, <1>3, <1>5 DEF IInv, TypeOK
    <2>2. issued' \in SUBSET Lease
      <3>1. \A t \in batch : [task |-> t, token |-> tok[t], worker |-> w] \in Lease
        BY <1>1, <1>2, <1>4 DEF Lease
      <3>2. issued \subseteq Lease
        BY DEF IInv, TypeOK
      <3> QED BY <3>1, <3>2, <1>1
    <2>3. usedTokens' \in SUBSET Tokens
      BY <1>1 DEF IInv, TypeOK
    <2> QED BY <1>1, <2>1, <2>2, <2>3 DEF IInv, TypeOK
  <1>7. TokensNameLeases'
    <2>0. /\ \A l \in issued : l.token \in usedTokens
          /\ \A l \in issued' \ issued : \E t \in batch :
                l = [task |-> t, token |-> tok[t], worker |-> w]
      BY <1>1 DEF IInv, TokensNameLeases
    <2>3. \A l \in issued' \ issued : l.token \in usedTokens' /\ l.token \notin usedTokens
      <3> SUFFICES ASSUME NEW l \in issued' \ issued
                   PROVE  l.token \in usedTokens' /\ l.token \notin usedTokens
        OBVIOUS
      <3>1. PICK t \in batch : l = [task |-> t, token |-> tok[t], worker |-> w]
        BY <2>0
      <3>2. tok[t] \in usedTokens' /\ tok[t] \notin usedTokens
        BY <1>1
      <3> QED BY <3>1, <3>2
    <2>1. \A l \in issued' : l.token \in usedTokens'
      BY <1>1, <2>0, <2>3
    <2>2. ASSUME NEW l \in issued', NEW m \in issued', l.token = m.token
          PROVE  l = m
      <3>1. CASE l \in issued /\ m \in issued
        BY <3>1, <2>2 DEF IInv, TokensNameLeases
      <3>2. CASE l \in issued /\ m \notin issued
        BY <3>2, <2>2, <2>0, <2>3
      <3>3. CASE l \notin issued /\ m \in issued
        BY <3>3, <2>2, <2>0, <2>3
      <3>4. CASE l \notin issued /\ m \notin issued
        <4>1. PICK s \in batch : l = [task |-> s, token |-> tok[s], worker |-> w]
          BY <3>4, <2>0
        <4>2. PICK t \in batch : m = [task |-> t, token |-> tok[t], worker |-> w]
          BY <3>4, <2>0
        <4>3. tok[s] = tok[t]
          BY <4>1, <4>2, <2>2
        <4>4. s = t
          BY <4>3, <1>1 DEF Injective
        <4> QED BY <4>1, <4>2, <4>4
      <3> QED BY <3>1, <3>2, <3>3, <3>4
    <2> QED BY <2>1, <2>2 DEF TokensNameLeases
  <1>8. RecordsHoldUsedTokens'
    <2> SUFFICES ASSUME NEW t \in DOMAIN records, records'[t].leased
                 PROVE  records'[t].token \in usedTokens'
      BY <1>3 DEF RecordsHoldUsedTokens
    <2>1. CASE t \in batch
      <3>1. tok[t] \in usedTokens'
        BY <2>1, <1>1
      <3> QED BY <3>1, <2>1, <1>5
    <2>2. CASE t \notin batch
      BY <2>2, <1>1, <1>5 DEF IInv, RecordsHoldUsedTokens
    <2> QED BY <2>1, <2>2
  <1>9. KeysBound'
    BY <1>1, <1>3, <1>5, ZenonT(60) DEF IInv, KeysBound
  <1> QED BY <1>6, <1>7, <1>8, <1>9 DEF IInv

\* A step that drops records, or changes records without taking a new token or
\* another key, and leaves the rest alone, preserves the invariant.
LEMMA RecordsStepInv ==
    ASSUME IInv, UNCHANGED <<now, bindings, usedIDs, usedTokens, issued>>,
           DOMAIN records' \subseteq DOMAIN records,
           records' \in [DOMAIN records' -> Record],
           \A t \in DOMAIN records' :
               /\ records'[t].key = records[t].key
               /\ records'[t].leased =>
                     records[t].leased /\ records'[t].token = records[t].token
    PROVE  IInv'
  <1>1. TypeOK'
    BY DEF IInv, TypeOK
  <1>2. TokensNameLeases' /\ RecordsHoldUsedTokens' /\ KeysBound'
    BY DEF IInv, TokensNameLeases, RecordsHoldUsedTokens, KeysBound
  <1> QED BY <1>1, <1>2 DEF IInv

\* Ack removes the owned record and its key binding stays behind.
LEMMA AckInv ==
    ASSUME IInv, NEW l \in issued, NEW at \in Samples, Ack(l, at)
    PROVE  IInv'
  <1>1. records' = Drop(records, {l.task}) /\ UNCHANGED <<now, bindings, usedIDs, usedTokens, issued>>
    BY DEF Ack
  <1>2. records \in [DOMAIN records -> Record]
    BY DEF IInv, TypeOK
  <1>3. DOMAIN records' \subseteq DOMAIN records /\ \A t \in DOMAIN records' : records'[t] = records[t]
    BY <1>1 DEF Drop
  <1>4. records' \in [DOMAIN records' -> Record]
    BY <1>1, <1>2, DropType
  <1> QED BY <1>1, <1>3, <1>4, RecordsStepInv

\* What Nack leaves of a record is a record, unleased, under its old key.
LEMMA ReleasedRecord ==
    ASSUME NEW q \in Record, NEW x \in Nat, NEW r,
           r = [q EXCEPT !.leased = FALSE, !.token = NoToken,
                    !.worker = NoWorker, !.expires = 0, !.available = x]
    PROVE  r \in Record /\ r.leased = FALSE /\ r.key = q.key
  <1>1. r = [payload |-> q.payload, attempt |-> q.attempt, enqueued |-> q.enqueued,
             available |-> x, leased |-> FALSE, token |-> NoToken,
             worker |-> NoWorker, expires |-> 0, key |-> q.key]
    BY DEF Record
  <1>2. /\ q.payload \in Payloads /\ q.attempt \in Nat /\ q.enqueued \in Nat
        /\ q.key \in Keys \cup {NoKey}
    BY DEF Record
  <1>3. [payload |-> q.payload, attempt |-> q.attempt, enqueued |-> q.enqueued,
         available |-> x, leased |-> FALSE, token |-> NoToken,
         worker |-> NoWorker, expires |-> 0, key |-> q.key] \in Record
    BY <1>2 DEF Record
  <1> QED BY <1>1, <1>3

\* Nack gives the lease back and keeps the key.
LEMMA NackInv ==
    ASSUME IInv, NEW l \in issued, NEW delay \in Delays, NEW at \in Samples,
           Nack(l, delay, at)
    PROVE  IInv'
  <1>0. at \in Nat /\ delay \in Nat /\ l.task \in DOMAIN records
    BY SampleFacts, QueueAssumption DEF IInv, Nack, OwnedRecord
  <1>1. records \in [DOMAIN records -> Record]
    BY DEF IInv, TypeOK
  <1> DEFINE r == [records[l.task] EXCEPT !.leased = FALSE, !.token = NoToken,
                    !.worker = NoWorker, !.expires = 0, !.available = at + delay]
  <1>2. records' = [records EXCEPT ![l.task] = r]
    BY DEF Nack
  <1>3. r \in Record /\ r.leased = FALSE /\ r.key = records[l.task].key
    <2>1. records[l.task] \in Record
      BY <1>0, <1>1
    <2>2. at + delay \in Nat
      BY <1>0
    <2>3. r = [records[l.task] EXCEPT !.leased = FALSE, !.token = NoToken,
                 !.worker = NoWorker, !.expires = 0, !.available = at + delay]
      OBVIOUS
    <2> HIDE DEF r
    <2> QED BY <2>1, <2>2, <2>3, ReleasedRecord
  <1> HIDE DEF r
  <1>4. /\ DOMAIN records' = DOMAIN records
        /\ records' \in [DOMAIN records' -> Record]
        /\ \A t \in DOMAIN records : t # l.task => records'[t] = records[t]
        /\ records'[l.task] = r
    BY <1>0, <1>1, <1>2, <1>3
  <1>5. UNCHANGED <<now, bindings, usedIDs, usedTokens, issued>>
    BY DEF Nack
  <1> QED BY <1>3, <1>4, <1>5, RecordsStepInv

\* Heartbeat moves a deadline only.
LEMMA HeartbeatInv ==
    ASSUME IInv, NEW l \in issued, NEW ext \in Durations, NEW at \in Samples,
           Heartbeat(l, ext, at)
    PROVE  IInv'
  <1>0. at \in Nat /\ ext \in Nat /\ l.task \in DOMAIN records
    BY SampleFacts, QueueAssumption DEF IInv, Heartbeat, OwnedRecord
  <1>1. records \in [DOMAIN records -> Record]
    BY DEF IInv, TypeOK
  <1> DEFINE r == [records[l.task] EXCEPT !.expires = at + ext]
  <1>2. records' = [records EXCEPT ![l.task] = r]
    BY DEF Heartbeat
  <1>3. /\ r \in Record /\ r.leased = records[l.task].leased
        /\ r.token = records[l.task].token /\ r.key = records[l.task].key
    BY <1>0, <1>1 DEF Record
  <1> HIDE DEF r
  <1>4. /\ DOMAIN records' = DOMAIN records
        /\ records' \in [DOMAIN records' -> Record]
        /\ \A t \in DOMAIN records : t # l.task => records'[t] = records[t]
        /\ records'[l.task] = r
    BY <1>0, <1>1, <1>2, <1>3
  <1>5. UNCHANGED <<now, bindings, usedIDs, usedTokens, issued>>
    BY DEF Heartbeat
  <1> QED BY <1>3, <1>4, <1>5, RecordsStepInv

\* ReleaseExpiredLeases takes leases away and hands none out.
LEMMA ReleaseInv ==
    ASSUME IInv, NEW at \in Samples, ReleaseExpiredLeases(at)
    PROVE  IInv'
  <1>1. records \in [DOMAIN records -> Record]
    BY DEF IInv, TypeOK
  <1>2. /\ records' = [t \in DOMAIN records |->
              IF records[t].leased /\ records[t].expires <= at
              THEN [records[t] EXCEPT !.leased = FALSE, !.token = NoToken,
                                      !.worker = NoWorker, !.expires = 0]
              ELSE records[t]]
        /\ UNCHANGED <<now, bindings, usedIDs, usedTokens, issued>>
    BY DEF ReleaseExpiredLeases
  <1>3. \A t \in DOMAIN records :
            /\ records'[t] \in Record
            /\ records'[t].key = records[t].key
            /\ records'[t].leased =>
                  records[t].leased /\ records'[t].token = records[t].token
    BY <1>1, <1>2, ZenonT(60) DEF Record
  <1>4. DOMAIN records' = DOMAIN records /\ records' \in [DOMAIN records' -> Record]
    BY <1>2, <1>3
  <1> QED BY <1>2, <1>3, <1>4, RecordsStepInv

\* PruneIdempotency drops bindings without a live task only.
LEMMA PruneInv ==
    ASSUME IInv, NEW before \in Times, PruneIdempotency(before)
    PROVE  IInv'
  <1> DEFINE old == {k \in DOMAIN bindings :
                        /\ bindings[k].created < before
                        /\ bindings[k].task \notin DOMAIN records}
  <1>1. bindings' = Drop(bindings, old) /\ UNCHANGED <<now, records, usedIDs, usedTokens, issued>>
    BY DEF PruneIdempotency
  <1>2. TypeOK'
    BY <1>1, DropFacts, DropType DEF IInv, TypeOK
  <1>3. TokensNameLeases' /\ RecordsHoldUsedTokens'
    BY <1>1 DEF IInv, TokensNameLeases, RecordsHoldUsedTokens
  <1>4. KeysBound'
    <2> SUFFICES ASSUME NEW t \in DOMAIN records, records[t].key # NoKey
                 PROVE  /\ records[t].key \in DOMAIN bindings'
                        /\ bindings'[records[t].key].task = t
      BY <1>1 DEF KeysBound
    <2>1. records[t].key \in DOMAIN bindings \ old /\ bindings[records[t].key].task = t
      BY DEF IInv, KeysBound
    <2> QED BY <1>1, <2>1 DEF Drop
  <1> QED BY <1>2, <1>3, <1>4 DEF IInv

\* Every operation of the queue keeps the invariant.
LEMMA NextInv == IInv /\ [Next]_vars => IInv'
  <1> SUFFICES ASSUME IInv, [Next]_vars PROVE IInv'
    OBVIOUS
  <1>1. CASE \E r \in Requests, id \in TaskIDs, at \in Samples : Enqueue(r, id, at)
    BY <1>1, EnqueueInv
  <1>2. CASE \E w \in Workers, n \in 1 .. Limit, d \in Durations, at \in Samples :
               \E skipped \in (IF Postgres THEN SUBSET Eligible(at) ELSE {{}}) :
                 \E tok \in [FirstOf(Eligible(at) \ skipped, n) -> Tokens \ usedTokens] :
                     Claim(w, n, d, at, skipped, tok)
    BY <1>2, ClaimInv
  <1>3. CASE \E l \in issued, at \in Samples : Ack(l, at)
    BY <1>3, AckInv
  <1>4. CASE \E l \in issued, delay \in Delays, at \in Samples : Nack(l, delay, at)
    BY <1>4, NackInv
  <1>5. CASE \E l \in issued, ext \in Durations, at \in Samples : Heartbeat(l, ext, at)
    BY <1>5, HeartbeatInv
  <1>6. CASE \E at \in Samples : ReleaseExpiredLeases(at)
    BY <1>6, ReleaseInv
  <1>7. CASE \E before \in Times : PruneIdempotency(before)
    BY <1>7, PruneInv
  <1>8. CASE Tick
    <2>1. TypeOK'
      BY <1>8, QueueAssumption DEF Tick, IInv, TypeOK, Times
    <2> QED BY <1>8, <2>1 DEF Tick, IInv, TokensNameLeases, RecordsHoldUsedTokens, KeysBound
  <1>9. CASE UNCHANGED vars
    BY <1>9 DEF vars, IInv, TypeOK, TokensNameLeases, RecordsHoldUsedTokens, KeysBound
  <1> QED BY <1>1, <1>2, <1>3, <1>4, <1>5, <1>6, <1>7, <1>8, <1>9 DEF Next

\* The inductive invariant holds in every behaviour.
LEMMA InvHolds == Spec => []IInv
  BY InitInv, NextInv, PTL DEF Spec

-----------------------------------------------------------------------------
(* What the invariant gives.                                               *)

\* Type correctness of the queue's tables and of the leases clients hold.
THEOREM TypeCorrect == Spec => []TypeOK
  BY InvHolds, PTL DEF IInv

\* Fencing: Ack, Nack and Heartbeat accept at most one of all the leases ever
\* handed out for a task, whatever the clock lag.
THEOREM Fencing == Spec => []OneAcceptedLease
  <1>1. IInv => OneAcceptedLease
    BY DEF IInv, TokensNameLeases, OneAcceptedLease, OwnedRecord
  <1> QED BY <1>1, InvHolds, PTL

\* An idempotency key has at most one queued task, pruning included.
THEOREM KeyedEnqueueOnce == Spec => []OneLiveTaskPerKey
  <1>1. IInv => OneLiveTaskPerKey
    BY DEF IInv, KeysBound, OneLiveTaskPerKey
  <1> QED BY <1>1, InvHolds, PTL

\* Both at once: an accepted lease is the only one of its task, and a keyed request
\* is the only task of its key, for any number of workers, tasks and keys.
THEOREM OwnedOnce == Spec => []TasksOwnedOnce
  BY Fencing, KeyedEnqueueOnce, PTL DEF TasksOwnedOnce

\* A lease that was handed out cannot be among the tokens a Claim draws.
LEMMA ClaimTakesFreshTokens ==
    ASSUME IInv, NEW w, NEW n, NEW d, NEW at, NEW skipped, NEW tok,
           Claim(w, n, d, at, skipped, tok)
    PROVE  /\ DOMAIN records' = DOMAIN records
           /\ UNCHANGED now
           /\ \A t \in DOMAIN records :
                 \/ records'[t] = records[t]
                 \/ t \in Eligible(at) /\ records'[t].token \notin usedTokens
  <1> DEFINE batch == FirstOf(Eligible(at) \ skipped, n)
  <1>1. /\ \A t \in batch : tok[t] \notin usedTokens
        /\ UNCHANGED now
        /\ records' = [t \in DOMAIN records |->
              IF t \notin batch THEN records[t]
              ELSE [records[t] EXCEPT !.leased = TRUE, !.attempt = @ + 1,
                        !.token = tok[t], !.worker = w, !.expires = at + d]]
    BY DEF Claim
  <1>2. batch \subseteq Eligible(at)
    BY DEF FirstOf
  <1> HIDE DEF batch
  <1>3. ASSUME NEW t \in DOMAIN records, t \in batch
        PROVE  records'[t].token = tok[t]
    <2>1. records'[t] = [records[t] EXCEPT !.leased = TRUE, !.attempt = @ + 1,
                        !.token = tok[t], !.worker = w, !.expires = at + d]
      BY <1>1, <1>3
    <2>2. records[t] \in Record
      BY DEF IInv, TypeOK
    <2> QED BY <2>1, <2>2 DEF Record
  <1> QED BY <1>1, <1>2, <1>3

\* A live lease is never stolen, and with a clock read under the lock a lost
\* lease stays lost: both need that tokens are never handed out twice.
THEOREM LeaseStability ==
    /\ Spec => LiveLeaseNotStolen
    /\ Lag = 0 /\ Spec => LostLeaseStaysLost
  <1> DEFINE Kept(l) == Live(l) /\ l.task \in DOMAIN records' =>
                            records'[l.task].token \in {l.token, NoToken}
             Lost(l) == Lag = 0 /\ ~Live(l) => ~Live(l)'
  <1>1. ASSUME IInv, [Next]_vars, NEW l \in issued PROVE Kept(l) /\ Lost(l)
    <2>0. /\ l.token \in usedTokens
          /\ \A m \in issued : m.token = l.token => m = l
          /\ records \in [DOMAIN records -> Record]
          /\ now \in Nat
      BY <1>1 DEF IInv, TokensNameLeases, TypeOK, Times
    <2>1. CASE \E r \in Requests, id \in TaskIDs, at \in Samples : Enqueue(r, id, at)
      BY <2>1, <2>0 DEF Enqueue, Put, Live
    <2>2. CASE \E w \in Workers, n \in 1 .. Limit, d \in Durations, at \in Samples :
               \E skipped \in (IF Postgres THEN SUBSET Eligible(at) ELSE {{}}) :
                 \E tok \in [FirstOf(Eligible(at) \ skipped, n) -> Tokens \ usedTokens] :
                     Claim(w, n, d, at, skipped, tok)
      <3>0. PICK w \in Workers, n \in 1 .. Limit, d \in Durations, at \in Samples :
                \E skipped, tok : Claim(w, n, d, at, skipped, tok)
        BY <2>2
      <3>1. PICK skipped, tok : Claim(w, n, d, at, skipped, tok)
        BY <3>0
      <3>2. at \in Nat /\ at <= now
        BY <1>1, SampleFacts DEF IInv
      <3>3. /\ DOMAIN records' = DOMAIN records
            /\ UNCHANGED now
            /\ \A t \in DOMAIN records :
                 \/ records'[t] = records[t]
                 \/ t \in Eligible(at) /\ records'[t].token \notin usedTokens
        BY <1>1, <3>1, ClaimTakesFreshTokens
      <3>4. Live(l) => l.task \notin Eligible(at)
        BY <3>2, <2>0 DEF Live, Eligible, Record
      <3> QED BY <3>3, <3>4, <2>0 DEF Live
    <2>3. CASE \E m \in issued, at \in Samples : Ack(m, at)
      BY <2>3 DEF Ack, Drop, Live
    <2>4. CASE \E m \in issued, delay \in Delays, at \in Samples : Nack(m, delay, at)
      <3>1. PICK m \in issued, delay \in Delays, at \in Samples : Nack(m, delay, at)
        BY <2>4
      <3>2. /\ DOMAIN records' = DOMAIN records
            /\ UNCHANGED now
            /\ \A t \in DOMAIN records : t # m.task => records'[t] = records[t]
            /\ m.task \in DOMAIN records =>
                  records'[m.task] = [records[m.task] EXCEPT !.leased = FALSE, !.token = NoToken,
                    !.worker = NoWorker, !.expires = 0, !.available = at + delay]
        BY <3>1, <2>0 DEF Nack
      <3>3. m.task \in DOMAIN records =>
              records'[m.task].leased = FALSE /\ records'[m.task].token = NoToken
        BY <3>2, <2>0 DEF Record
      <3> QED BY <3>2, <3>3 DEF Live
    <2>5. CASE \E m \in issued, ext \in Durations, at \in Samples : Heartbeat(m, ext, at)
      <3>1. PICK m \in issued, ext \in Durations, at \in Samples : Heartbeat(m, ext, at)
        BY <2>5
      <3>2. /\ DOMAIN records' = DOMAIN records
            /\ UNCHANGED now
            /\ m.task \in DOMAIN records
            /\ \A t \in DOMAIN records : t # m.task => records'[t] = records[t]
            /\ records'[m.task] = [records[m.task] EXCEPT !.expires = at + ext]
        BY <3>1, <2>0 DEF Heartbeat, OwnedRecord
      <3>3. /\ records'[m.task].leased = records[m.task].leased
            /\ records'[m.task].token = records[m.task].token
            /\ records'[m.task].worker = records[m.task].worker
        BY <3>2, <2>0 DEF Record
      <3>4. Lag = 0 => Live(m)
        BY <1>1, <3>1, SampleFacts DEF Heartbeat, OwnedRecord, Live, IInv
      <3>5. CASE l = m
        BY <3>5, <3>2, <3>3, <3>4 DEF Live
      <3>6. CASE l # m
        BY <3>6, <3>1, <3>2, <3>3, <2>0 DEF Live, Heartbeat, OwnedRecord
      <3> QED BY <3>5, <3>6
    <2>6. CASE \E at \in Samples : ReleaseExpiredLeases(at)
      <3>1. PICK at \in Samples : ReleaseExpiredLeases(at)
        BY <2>6
      <3>2. /\ DOMAIN records' = DOMAIN records
            /\ UNCHANGED now
            /\ \A t \in DOMAIN records :
                  \/ records'[t] = records[t]
                  \/ records'[t] = [records[t] EXCEPT !.leased = FALSE, !.token = NoToken,
                                                     !.worker = NoWorker, !.expires = 0]
        BY <3>1 DEF ReleaseExpiredLeases
      <3>3. \A t \in DOMAIN records :
                  \/ records'[t] = records[t]
                  \/ records'[t].leased = FALSE /\ records'[t].token = NoToken
        BY <3>2, <2>0, ZenonT(60) DEF Record
      <3> QED BY <3>2, <3>3 DEF Live
    <2>7. CASE \E before \in Times : PruneIdempotency(before)
      BY <2>7 DEF PruneIdempotency, Live
    <2>8. CASE Tick
      BY <2>8, <2>0 DEF Tick, Live, Record
    <2>9. CASE UNCHANGED vars
      BY <2>9 DEF vars, Live
    <2> QED
      BY <1>1, <2>1, <2>2, <2>3, <2>4, <2>5, <2>6, <2>7, <2>8, <2>9 DEF Next
  <1>2. IInv /\ [Next]_vars => [\A l \in issued : Kept(l)]_vars
    BY <1>1
  <1>3. Lag = 0 /\ IInv /\ [Next]_vars => [\A l \in issued : ~Live(l) => ~Live(l)']_vars
    BY <1>1
  <1>4. Spec => LiveLeaseNotStolen
    BY <1>2, InvHolds, PTL DEF Spec, LiveLeaseNotStolen
  <1>5. Lag = 0 /\ Spec => LostLeaseStaysLost
    <2> SUFFICES ASSUME Lag = 0 PROVE Spec => LostLeaseStaysLost
      OBVIOUS
    <2>1. IInv /\ [Next]_vars => [\A l \in issued : ~Live(l) => ~Live(l)']_vars
      BY <1>3
    <2> QED BY <2>1, InvHolds, PTL DEF Spec, LostLeaseStaysLost
  <1> QED BY <1>4, <1>5

-----------------------------------------------------------------------------
(* LeasedQueue without its clock is TaskQueue, when the clock is read under *)
(* the lock: the token of HolderOf is the abstract holder.                  *)

\* The abstract holder of a record after a step.
LEMMA HolderFacts ==
    ASSUME IInv, NEW t \in DOMAIN records
    PROVE  /\ records[t].leased \in BOOLEAN
           /\ records[t].expires \in Nat
           /\ now \in Nat
           /\ HolderOf(t) \in Tokens \cup {NoToken}
           /\ records[t].leased => records[t].token \in Tokens
  <1>1. records[t] \in Record /\ now \in Nat
    BY DEF IInv, TypeOK, Times
  <1>2. records[t].leased => records[t].token \in Tokens
    BY DEF IInv, TypeOK, RecordsHoldUsedTokens
  <1>3. records[t].leased \in BOOLEAN /\ records[t].expires \in Nat
    BY <1>1 DEF Record
  <1> QED BY <1>1, <1>2, <1>3 DEF HolderOf

\* A step that changes neither a holder nor the tokens is a stutter.
LEMMA StutterMaps ==
    ASSUME DOMAIN records' = DOMAIN records, UNCHANGED usedTokens,
           \A t \in DOMAIN records : HolderOf(t)' = HolderOf(t)
    PROVE  UNCHANGED Promise!queue
  BY DEF Promise!queue

\* A step that keeps every holder but those of S, which it frees, is a Release.
LEMMA ReleaseMaps ==
    ASSUME NEW S \in SUBSET DOMAIN records, S # {},
           DOMAIN records' = DOMAIN records, UNCHANGED usedTokens,
           \A t \in S : HolderOf(t) # NoToken,
           \A t \in DOMAIN records :
               HolderOf(t)' = IF t \in S THEN NoToken ELSE HolderOf(t)
    PROVE  Promise!QueueNext
  <1>1. Promise!Release(S)
    BY DEF Promise!Release
  <1>2. S \in SUBSET DOMAIN [t \in DOMAIN records |-> HolderOf(t)]
    OBVIOUS
  <1> QED BY <1>1, <1>2 DEF Promise!QueueNext

\* Enqueue adds a task nobody holds.
LEMMA EnqueueMaps ==
    ASSUME IInv, NEW r \in Requests, NEW id \in TaskIDs, NEW at \in Samples,
           Enqueue(r, id, at)
    PROVE  Promise!QueueNext
  <1> DEFINE new == [payload |-> r.payload, attempt |-> 0, enqueued |-> at,
                     available |-> IF r.at = Immediately THEN at ELSE r.at,
                     leased |-> FALSE, token |-> NoToken,
                     worker |-> NoWorker, expires |-> 0, key |-> r.key]
  <1>1. /\ id \notin DOMAIN records
        /\ records' = Put(records, id, new)
        /\ UNCHANGED <<now, usedTokens>>
    BY DEF Enqueue
  <1>2. new.leased = FALSE
    OBVIOUS
  <1> HIDE DEF new
  <1>3. /\ DOMAIN records' = DOMAIN records \cup {id}
        /\ records'[id] = new
        /\ \A t \in DOMAIN records : t # id => records'[t] = records[t]
    BY <1>1 DEF Put
  <1>4. HolderOf(id)' = NoToken
    BY <1>2, <1>3 DEF HolderOf
  <1>5. \A t \in DOMAIN records : HolderOf(t)' = HolderOf(t)
    BY <1>1, <1>3 DEF HolderOf
  <1>6. Promise!Add(id)
    BY <1>1, <1>3, <1>4, <1>5 DEF Promise!Add
  <1> QED BY <1>6 DEF Promise!QueueNext

\* Claim takes tasks whose lease, if any, has run out.
LEMMA ClaimMaps ==
    ASSUME IInv, Lag = 0, NEW w \in Workers, NEW n, NEW d \in Durations,
           NEW at \in Samples, NEW skipped,
           NEW tok \in [FirstOf(Eligible(at) \ skipped, n) -> Tokens \ usedTokens],
           Claim(w, n, d, at, skipped, tok)
    PROVE  Promise!QueueNext
  <1> DEFINE batch == FirstOf(Eligible(at) \ skipped, n)
  <1>0. at = now /\ now \in Nat /\ d \in Nat /\ d > 0
    BY SampleFacts, QueueAssumption DEF IInv
  <1>1. /\ DOMAIN tok = batch
        /\ batch # {}
        /\ \A t \in batch : tok[t] \in Tokens \ usedTokens
        /\ Injective(tok)
        /\ records' = [t \in DOMAIN records |->
              IF t \notin batch THEN records[t]
              ELSE [records[t] EXCEPT !.leased = TRUE, !.attempt = @ + 1,
                        !.token = tok[t], !.worker = w, !.expires = at + d]]
        /\ usedTokens' = usedTokens \cup {tok[t] : t \in batch}
        /\ UNCHANGED now
    BY DEF Claim
  <1>2. /\ batch \subseteq DOMAIN records
        /\ \A t \in batch : ~(records[t].leased /\ at < records[t].expires)
    BY DEF FirstOf, Eligible
  <1>3. tok \in [batch -> Tokens]
    OBVIOUS
  <1> HIDE DEF batch
  <1>4. \A t \in batch : HolderOf(t) = NoToken
    BY <1>0, <1>2 DEF HolderOf
  <1>5. ASSUME NEW t \in batch PROVE HolderOf(t)' = tok[t]
    <2>1. records[t] \in Record
      BY <1>2 DEF IInv, TypeOK
    <2>2. records'[t] = [records[t] EXCEPT !.leased = TRUE, !.attempt = @ + 1,
                        !.token = tok[t], !.worker = w, !.expires = at + d]
      BY <1>1, <1>2
    <2>3. records'[t].leased = TRUE /\ records'[t].token = tok[t]
          /\ records'[t].expires = at + d
      BY <2>1, <2>2 DEF Record
    <2>4. now' < at + d
      <3>1. now' = now
        BY <1>1
      <3> QED BY <1>0, <3>1
    <2> QED BY <2>3, <2>4 DEF HolderOf
  <1>6. \A t \in DOMAIN records \ batch : HolderOf(t)' = HolderOf(t)
    BY <1>1 DEF HolderOf
  <1>7. DOMAIN records' = DOMAIN records
    BY <1>1
  <1>8. Promise!Take(tok)
    BY <1>1, <1>2, <1>4, <1>5, <1>6, <1>7 DEF Promise!Take, Injective
  <1>9. batch \in SUBSET DOMAIN [t \in DOMAIN records |-> HolderOf(t)]
    BY <1>2
  <1> QED BY <1>3, <1>8, <1>9 DEF Promise!QueueNext

\* A lease that ownedRecord accepts on a fresh sample is the abstract holder.
LEMMA OwnerHolds ==
    ASSUME IInv, Lag = 0, NEW l \in issued, NEW at \in Samples, OwnedRecord(l, at)
    PROVE  l.task \in DOMAIN records /\ HolderOf(l.task) = l.token /\ l.token # NoToken
           /\ at = now
  <1>1. at = now
    BY SampleFacts DEF IInv
  <1>2. l.token \in Tokens
    BY DEF IInv, TypeOK, Lease
  <1> QED BY <1>1, <1>2, QueueAssumption DEF OwnedRecord, HolderOf

\* Ack removes the task its holder holds.
LEMMA AckMaps ==
    ASSUME IInv, Lag = 0, NEW l \in issued, NEW at \in Samples, Ack(l, at)
    PROVE  Promise!QueueNext
  <1>1. /\ l.task \in DOMAIN records
        /\ HolderOf(l.task) = l.token /\ l.token # NoToken
    BY OwnerHolds DEF Ack
  <1>2. /\ DOMAIN records' = DOMAIN records \ {l.task}
        /\ \A t \in DOMAIN records' : records'[t] = records[t]
        /\ UNCHANGED <<now, usedTokens>>
    <2>1. records' = Drop(records, {l.task}) /\ UNCHANGED <<now, usedTokens>>
      BY DEF Ack
    <2> QED BY <2>1 DEF Drop
  <1>3. \A t \in DOMAIN records' : HolderOf(t)' = HolderOf(t)
    BY <1>2 DEF HolderOf
  <1>4. Promise!Remove(l.task, l.token)
    BY <1>1, <1>2, <1>3 DEF Promise!Remove
  <1> QED BY <1>1, <1>4 DEF Promise!QueueNext

\* Nack frees the task its holder holds.
LEMMA NackMaps ==
    ASSUME IInv, Lag = 0, NEW l \in issued, NEW delay \in Delays,
           NEW at \in Samples, Nack(l, delay, at)
    PROVE  Promise!QueueNext
  <1>1. l.task \in DOMAIN records /\ HolderOf(l.task) # NoToken
    BY OwnerHolds DEF Nack
  <1>2. records \in [DOMAIN records -> Record] /\ at \in Nat /\ delay \in Nat
    BY SampleFacts, QueueAssumption DEF IInv, TypeOK
  <1>3. /\ DOMAIN records' = DOMAIN records
        /\ UNCHANGED <<now, usedTokens>>
        /\ \A t \in DOMAIN records : t # l.task => records'[t] = records[t]
        /\ records'[l.task] = [records[l.task] EXCEPT !.leased = FALSE, !.token = NoToken,
                    !.worker = NoWorker, !.expires = 0, !.available = at + delay]
    BY <1>1, <1>2 DEF Nack
  <1>4. records'[l.task].leased = FALSE
    <2>1. records[l.task] \in Record /\ at + delay \in Nat
      BY <1>1, <1>2
    <2>2. ASSUME NEW r, r = [records[l.task] EXCEPT !.leased = FALSE, !.token = NoToken,
                    !.worker = NoWorker, !.expires = 0, !.available = at + delay]
          PROVE  r.leased = FALSE
      BY <2>1, <2>2, ReleasedRecord
    <2> QED BY <1>3, <2>2
  <1>5. HolderOf(l.task)' = NoToken
    BY <1>4 DEF HolderOf
  <1>6. \A t \in DOMAIN records : t # l.task => HolderOf(t)' = HolderOf(t)
    BY <1>3 DEF HolderOf
  <1>7. \A t \in DOMAIN records :
            HolderOf(t)' = IF t \in {l.task} THEN NoToken ELSE HolderOf(t)
    BY <1>5, <1>6
  <1>8. {l.task} \in SUBSET DOMAIN records /\ {l.task} # {}
    BY <1>1
  <1> QED BY <1>1, <1>3, <1>7, <1>8, ReleaseMaps

\* Heartbeat of a live lease keeps it live.
LEMMA HeartbeatMaps ==
    ASSUME IInv, Lag = 0, NEW l \in issued, NEW ext \in Durations,
           NEW at \in Samples, Heartbeat(l, ext, at)
    PROVE  UNCHANGED Promise!queue
  <1>1. l.task \in DOMAIN records /\ HolderOf(l.task) = l.token /\ l.token # NoToken /\ at = now
    BY OwnerHolds DEF Heartbeat
  <1>2. records \in [DOMAIN records -> Record] /\ now \in Nat /\ ext \in Nat /\ ext > 0
    BY SampleFacts, QueueAssumption DEF IInv, TypeOK
  <1>3. /\ DOMAIN records' = DOMAIN records
        /\ UNCHANGED <<now, usedTokens>>
        /\ \A t \in DOMAIN records : t # l.task => records'[t] = records[t]
        /\ records'[l.task] = [records[l.task] EXCEPT !.expires = at + ext]
        /\ records[l.task].leased /\ records[l.task].token = l.token
    BY <1>1, <1>2 DEF Heartbeat, OwnedRecord
  <1>4. /\ records'[l.task].leased = records[l.task].leased
        /\ records'[l.task].token = records[l.task].token
        /\ records'[l.task].expires = at + ext
    <2>1. ASSUME NEW r \in Record, NEW e
          PROVE  LET x == [r EXCEPT !.expires = e]
                 IN  x.leased = r.leased /\ x.token = r.token /\ x.expires = e
      BY DEF Record
    <2>2. records[l.task] \in Record
      BY <1>1, <1>2
    <2>3. LET x == [records[l.task] EXCEPT !.expires = at + ext]
          IN  /\ x.leased = records[l.task].leased
              /\ x.token = records[l.task].token
              /\ x.expires = at + ext
      BY <2>1, <2>2, Zenon
    <2> QED BY <1>3, <2>3, Zenon
  <1>5. now' < at + ext
    BY <1>1, <1>2, <1>3
  <1>6. HolderOf(l.task)' = HolderOf(l.task)
    BY <1>1, <1>3, <1>4, <1>5 DEF HolderOf
  <1>7. \A t \in DOMAIN records : t # l.task => HolderOf(t)' = HolderOf(t)
    BY <1>3 DEF HolderOf
  <1> QED BY <1>3, <1>6, <1>7, StutterMaps

\* ReleaseExpiredLeases clears only leases that hold nothing any more.
LEMMA ReleaseExpiredMaps ==
    ASSUME IInv, Lag = 0, NEW at \in Samples, ReleaseExpiredLeases(at)
    PROVE  UNCHANGED Promise!queue
  <1>1. at = now /\ now \in Nat
    BY SampleFacts DEF IInv
  <1>2. /\ records' = [t \in DOMAIN records |->
              IF records[t].leased /\ records[t].expires <= at
              THEN [records[t] EXCEPT !.leased = FALSE, !.token = NoToken,
                                      !.worker = NoWorker, !.expires = 0]
              ELSE records[t]]
        /\ UNCHANGED <<now, usedTokens>>
    BY DEF ReleaseExpiredLeases
  <1>3. ASSUME NEW t \in DOMAIN records PROVE HolderOf(t)' = HolderOf(t)
    <2>0. records[t] \in Record
      BY DEF IInv, TypeOK
    <2>1. CASE records[t].leased /\ records[t].expires <= at
      <3>1. records'[t] = [records[t] EXCEPT !.leased = FALSE, !.token = NoToken,
                                      !.worker = NoWorker, !.expires = 0]
        BY <1>2, <2>1
      <3>2. records'[t].leased = FALSE
        BY <2>0, <3>1 DEF Record
      <3>3. ~(now < records[t].expires)
        BY <1>1, <2>1, HolderFacts
      <3> QED BY <3>2, <3>3 DEF HolderOf
    <2>2. CASE ~(records[t].leased /\ records[t].expires <= at)
      BY <1>2, <2>2 DEF HolderOf
    <2> QED BY <2>1, <2>2
  <1> QED BY <1>2, <1>3, StutterMaps

\* When time passes, leases run out.
LEMMA TickMaps ==
    ASSUME IInv, Tick
    PROVE  Promise!QueueNext \/ UNCHANGED Promise!queue
  <1> DEFINE S == {t \in DOMAIN records : HolderOf(t) # NoToken /\ HolderOf(t)' = NoToken}
  <1>1. UNCHANGED <<records, usedTokens>> /\ now' = now + 1
    BY DEF Tick
  <1>2. ASSUME NEW t \in DOMAIN records
        PROVE  HolderOf(t)' = IF t \in S THEN NoToken ELSE HolderOf(t)
    BY <1>1, HolderFacts DEF HolderOf
  <1>3. CASE S = {}
    BY <1>1, <1>2, <1>3, StutterMaps
  <1>4. CASE S # {}
    <2>1. S \in SUBSET DOMAIN records /\ \A t \in S : HolderOf(t) # NoToken
      OBVIOUS
    <2> HIDE DEF S
    <2> QED BY <1>1, <1>2, <1>4, <2>1, ReleaseMaps
  <1> QED BY <1>3, <1>4

\* MemoryQueue, and PostgresQueue whenever its statements run at the time they
\* carry, implements the clockless queue that DistributedRun builds on.
THEOREM QueueImplementsPromise == Lag = 0 /\ Spec => ImplementsTaskQueue
  <1> SUFFICES ASSUME Lag = 0 PROVE Spec => ImplementsTaskQueue
    OBVIOUS
  <1>1. Init => Promise!QueueInit
    BY DEF Init, Promise!QueueInit
  <1>2. IInv /\ [Next]_vars => [Promise!QueueNext]_(Promise!queue)
    <2> SUFFICES ASSUME IInv, [Next]_vars
                 PROVE  Promise!QueueNext \/ UNCHANGED Promise!queue
      OBVIOUS
    <2>1. CASE \E r \in Requests, id \in TaskIDs, at \in Samples : Enqueue(r, id, at)
      BY <2>1, EnqueueMaps
    <2>2. CASE \E w \in Workers, n \in 1 .. Limit, d \in Durations, at \in Samples :
               \E skipped \in (IF Postgres THEN SUBSET Eligible(at) ELSE {{}}) :
                 \E tok \in [FirstOf(Eligible(at) \ skipped, n) -> Tokens \ usedTokens] :
                     Claim(w, n, d, at, skipped, tok)
      BY <2>2, ClaimMaps
    <2>3. CASE \E l \in issued, at \in Samples : Ack(l, at)
      BY <2>3, AckMaps
    <2>4. CASE \E l \in issued, delay \in Delays, at \in Samples : Nack(l, delay, at)
      BY <2>4, NackMaps
    <2>5. CASE \E l \in issued, ext \in Durations, at \in Samples : Heartbeat(l, ext, at)
      BY <2>5, HeartbeatMaps
    <2>6. CASE \E at \in Samples : ReleaseExpiredLeases(at)
      BY <2>6, ReleaseExpiredMaps
    <2>7. CASE \E before \in Times : PruneIdempotency(before)
      BY <2>7, StutterMaps DEF PruneIdempotency, HolderOf
    <2>8. CASE Tick
      BY <2>8, TickMaps
    <2>9. CASE UNCHANGED vars
      BY <2>9, StutterMaps DEF vars, HolderOf
    <2> QED BY <2>1, <2>2, <2>3, <2>4, <2>5, <2>6, <2>7, <2>8, <2>9 DEF Next
  <1> QED BY <1>1, <1>2, InvHolds, PTL DEF Spec, ImplementsTaskQueue, Promise!QueueSpec

-----------------------------------------------------------------------------
(***************************************************************************)
(* ResultOutbox: one completion of a task.                                 *)
(***************************************************************************)
(***************************************************************************)
(* The inductive invariant.                                                *)
(***************************************************************************)
Job == [at: {"idle", "claimed", "computed", "committed"}, task: Tasks \cup {0},
        inc: 0 .. MaxIncarnations, token: Nat, value: Nat]

BoxTypes ==
    /\ kind \in {"memory", "postgres", "leased"}
    /\ inbox \in [Tasks -> [queued: BOOLEAN, inc: 0 .. MaxIncarnations, token: Nat]]
    /\ work \in [Handlers -> Job]
    /\ prompts \in [Tasks -> [Incarnations ->
          [status: {"none", "pending", "resumed"}, answer: Nat]]]
    /\ outbox \in [Tasks -> Nat]
    /\ results \in [Tasks -> [Incarnations -> SUBSET Nat]]
    /\ heard \in [Tasks -> [Incarnations -> SUBSET Nat]]

\* A worker that is not idle works on a delivery that the queue has made, and has
\* a value once it has computed one.
JobsDelivered ==
    \A w \in Handlers :
      /\ work[w].at = "idle" => work[w] = IdleJob
      /\ work[w].at # "idle" =>
           /\ work[w].task \in Tasks
           /\ work[w].inc \in 1 .. inbox[work[w].task].inc
           /\ work[w].token \in 1 .. inbox[work[w].task].token
      /\ work[w].at \in {"computed", "committed"} => work[w].value # 0

\* A task is queued under an incarnation.
QueuedOnce == \A t \in Tasks : inbox[t].queued => inbox[t].inc # 0

\* No two workers have the same delivery, and a delivery with the current token
\* is of the current incarnation, which is still queued.  Enqueue keeps the token,
\* so this is what makes the token name one incarnation.
TokensCurrent ==
    \A w \in Handlers : work[w].at # "idle" =>
      /\ work[w].token = inbox[work[w].task].token =>
           inbox[work[w].task].queued /\ work[w].inc = inbox[work[w].task].inc
      /\ \A x \in Handlers \ {w} :
           work[x].at # "idle" /\ work[x].task = work[w].task => work[x].token # work[w].token

\* Await returned only the answer that the record holds, unless retention took it.
HeardIsStored ==
    \A t \in Tasks, i \in Incarnations :
      /\ prompts[t][i].status = "resumed" => prompts[t][i].answer # 0
      /\ <<"prompt", t>> \notin pruned =>
           \A a \in heard[t][i] : prompts[t][i].status = "resumed" /\ prompts[t][i].answer = a

\* The outbox holds what was committed, unless retention took it.
ResultIsStored ==
    \A t \in Tasks, i \in Incarnations :
      kind = "leased" \/ <<"outbox", t>> \in pruned
        \/ \A v \in results[t][i] : v # 0 /\ outbox[t] = v

\* The leased outbox commits when it takes the task from the queue, and only then.
Finished(t, i) == i < inbox[t].inc \/ (i = inbox[t].inc /\ ~inbox[t].queued)
LeasedOnce ==
    kind = "leased" =>
      \A t \in Tasks, i \in Incarnations :
        /\ results[t][i] # {} => Finished(t, i)
        /\ \A u, v \in results[t][i] : u = v

\* A result was committed for a task by one of its first k incarnations.
Some(t, k) == \E j \in 1 .. k : results[t][j] # {}

\* A task leaves the queue with a result: of this incarnation, or of an earlier
\* one with the same ID.
HasResult ==
    /\ \A t \in Tasks : outbox[t] # 0 => Some(t, inbox[t].inc)
    /\ \A w \in Handlers : work[w].at = "committed" => Some(work[w].task, inbox[work[w].task].inc)
    /\ \A t \in Tasks, i \in Incarnations : Finished(t, i) => Some(t, i)

BInv == /\ BoxTypes /\ JobsDelivered /\ QueuedOnce /\ TokensCurrent
        /\ HeardIsStored /\ ResultIsStored /\ LeasedOnce /\ HasResult

-----------------------------------------------------------------------------
(***************************************************************************)
(* Each operation keeps it.                                                *)
(***************************************************************************)
\* The initial state satisfies the invariant.
LEMMA InitBInv == ASSUME OutboxInit PROVE BInv
<1> USE OutboxAssumption DEF OutboxInit, Incarnations
<1>1. BoxTypes
  BY DEF BoxTypes, Job, IdleJob, NoPrompt
<1>2. JobsDelivered /\ QueuedOnce /\ TokensCurrent
  BY DEF JobsDelivered, QueuedOnce, TokensCurrent, IdleJob
<1>3. HeardIsStored /\ ResultIsStored
  BY DEF HeardIsStored, ResultIsStored, NoPrompt
<1>4. LeasedOnce
  BY DEF LeasedOnce
<1>5. HasResult
  BY DEF HasResult, Finished, Some, IdleJob
<1> QED
  BY <1>1, <1>2, <1>3, <1>4, <1>5 DEF BInv

\* A task is enqueued: what was finished stays finished (Enqueue).
LEMMA EnqueueBInv ==
    ASSUME BInv, NEW t \in Tasks, EnqueueIncarnation(t) PROVE BInv'
<1> USE OutboxAssumption DEF BInv
<1> DEFINE q == [queued |-> TRUE, inc |-> inbox[t].inc + 1, token |-> inbox[t].token]
<1>q. inbox' = [inbox EXCEPT ![t] = q] /\ ~inbox[t].queued /\ inbox[t].inc < MaxIncarnations
  BY DEF EnqueueIncarnation
<1>u. UNCHANGED <<kind, work, prompts, outbox, results, heard, prunes, pruned>>
  BY DEF EnqueueIncarnation
<1>i. \A x \in Tasks : inbox[x].inc \in 0 .. MaxIncarnations /\ inbox[x].token \in Nat
  BY DEF BoxTypes
<1>r. /\ q \in [queued: BOOLEAN, inc: 0 .. MaxIncarnations, token: Nat]
      /\ q.queued /\ q.inc = inbox[t].inc + 1 /\ q.token = inbox[t].token
  BY <1>q, <1>i
<1> HIDE DEF q
<1>t. /\ inbox' \in [Tasks -> [queued: BOOLEAN, inc: 0 .. MaxIncarnations, token: Nat]]
      /\ inbox'[t] = q /\ \A x \in Tasks \ {t} : inbox'[x] = inbox[x]
  BY <1>q, <1>r DEF BoxTypes
<1>k. \A x \in Tasks : inbox'[x].token = inbox[x].token
  BY <1>r, <1>t
<1>n. \A x \in Tasks : inbox[x].inc \in Nat /\ inbox'[x].inc \in Nat /\ inbox'[x].inc >= inbox[x].inc
  <2> TAKE x \in Tasks
  <2>1. inbox[x].inc \in Nat
    BY <1>i
  <2>2. inbox'[x].inc = inbox[x].inc + 1 \/ inbox'[x].inc = inbox[x].inc
    BY <1>r, <1>t
  <2> QED
    BY ONLY <2>1, <2>2
<1>s. \A x \in Tasks : inbox[x].queued => inbox'[x] = inbox[x]
  BY <1>q, <1>t
<1>1. BoxTypes'
  BY <1>t, <1>u DEF BoxTypes
<1>d. JobsDelivered /\ TokensCurrent
  OBVIOUS
<1>2. JobsDelivered' /\ QueuedOnce'
  <2>1. ASSUME NEW w \in Handlers
        PROVE  /\ work[w].at = "idle" => work[w] = IdleJob
               /\ work[w].at # "idle" =>
                    /\ work[w].task \in Tasks
                    /\ work[w].inc \in 1 .. inbox'[work[w].task].inc
                    /\ work[w].token \in 1 .. inbox'[work[w].task].token
               /\ work[w].at \in {"computed", "committed"} => work[w].value # 0
    BY ONLY <1>d, <1>k, <1>n, w \in Handlers DEF JobsDelivered
  <2>2. JobsDelivered'
    BY ONLY <2>1, <1>u, Zenon DEF JobsDelivered
  <2>3. QueuedOnce'
    BY <1>t, <1>r, <1>i DEF QueuedOnce
  <2> QED
    BY <2>2, <2>3
<1>3. TokensCurrent'
  <2>1. ASSUME NEW w \in Handlers, work[w].at # "idle"
        PROVE  /\ work[w].token = inbox'[work[w].task].token =>
                    inbox'[work[w].task].queued /\ work[w].inc = inbox'[work[w].task].inc
               /\ \A x \in Handlers \ {w} :
                    work[x].at # "idle" /\ work[x].task = work[w].task => work[x].token # work[w].token
    BY ONLY <2>1, <1>d, <1>k, <1>s, Zenon DEF JobsDelivered, TokensCurrent
  <2> QED
    BY ONLY <2>1, <1>u, Zenon DEF TokensCurrent
<1>4. HeardIsStored' /\ ResultIsStored'
  BY <1>u DEF HeardIsStored, ResultIsStored
<1>a. \A x \in Tasks, i \in Incarnations : Finished(x, i)' <=> Finished(x, i)
  BY <1>q, <1>r, <1>t, <1>i DEF Finished, Incarnations
<1>b. \A x \in Tasks : Some(x, inbox[x].inc) => Some(x, inbox[x].inc)'
  <2>1. results' = results
    BY <1>u
  <2> QED
    BY ONLY <1>n, <2>1 DEF Some
<1>5. LeasedOnce'
  BY <1>a, <1>u DEF LeasedOnce
<1>6. HasResult'
  <2>1. \A x \in Tasks : outbox'[x] # 0 => Some(x, inbox[x].inc)'
    BY <1>b, <1>u DEF HasResult
  <2>2. \A w \in Handlers : work'[w].at = "committed" => Some(work[w].task, inbox[work[w].task].inc)'
    BY <1>b, <1>u DEF HasResult, JobsDelivered
  <2>3. \A x \in Tasks, i \in Incarnations : Finished(x, i)' => Some(x, i)'
    BY <1>a, <1>u DEF HasResult, Some
  <2> QED
    BY <2>1, <2>2, <2>3, <1>u DEF HasResult
<1> QED
  BY <1>1, <1>2, <1>3, <1>4, <1>5, <1>6 DEF BInv

\* A delivery takes the lease from whoever had it (Claim).
LEMMA ClaimBInv ==
    ASSUME BInv, NEW w \in Handlers, NEW t \in Tasks, Deliver(w, t)
    PROVE  BInv'
<1> DEFINE d == [at |-> "claimed", task |-> t, inc |-> inbox[t].inc,
                 token |-> inbox[t].token + 1, value |-> 0]
<1> USE OutboxAssumption DEF BInv, BoxTypes, Incarnations
<1>0. /\ inbox[t].inc # 0 /\ inbox[t].queued
      /\ d \in Job /\ d.at = "claimed" /\ d.task = t /\ d.inc = inbox[t].inc
      /\ d.token = inbox[t].token + 1
  BY DEF QueuedOnce, Deliver, Job
<1>q. inbox' = [inbox EXCEPT ![t].token = @ + 1] /\ work' = [work EXCEPT ![w] = d]
  BY DEF Deliver
<1>u. UNCHANGED <<kind, prompts, outbox, results, heard, prunes, pruned>>
  BY DEF Deliver
<1> HIDE DEF d
<1>j. work' \in [Handlers -> Job] /\ work'[w] = d /\ \A x \in Handlers \ {w} : work'[x] = work[x]
  BY <1>0, <1>q
<1>t. /\ inbox' \in [Tasks -> [queued: BOOLEAN, inc: 0 .. MaxIncarnations, token: Nat]]
      /\ inbox'[t].token = inbox[t].token + 1
      /\ \A x \in Tasks \ {t} : inbox'[x] = inbox[x]
      /\ \A x \in Tasks : inbox'[x].inc = inbox[x].inc /\ inbox'[x].queued = inbox[x].queued
  <2>1. inbox \in [Tasks -> [queued: BOOLEAN, inc: 0 .. MaxIncarnations, token: Nat]]
    OBVIOUS
  <2> DEFINE r == [inbox[t] EXCEPT !.token = inbox[t].token + 1]
  <2>2. /\ r \in [queued: BOOLEAN, inc: 0 .. MaxIncarnations, token: Nat]
        /\ r.token = inbox[t].token + 1 /\ r.inc = inbox[t].inc /\ r.queued = inbox[t].queued
    BY ONLY <2>1, t \in Tasks
  <2>3. inbox' = [inbox EXCEPT ![t] = r]
    BY <1>q
  <2> HIDE DEF r
  <2> QED
    BY ONLY <2>1, <2>2, <2>3, t \in Tasks
<1>n. \A x \in Tasks : inbox[x].token \in Nat /\ inbox'[x].token \in Nat
                       /\ inbox'[x].token >= inbox[x].token
  <2>1. \A x \in Tasks : inbox[x].token \in Nat
    OBVIOUS
  <2>2. /\ inbox'[t].token = inbox[t].token + 1
        /\ \A x \in Tasks : x # t => inbox'[x] = inbox[x]
    BY <1>t
  <2> QED
    BY ONLY <2>1, <2>2
<1>1. BoxTypes'
  BY <1>j, <1>t, <1>u
<1>2. JobsDelivered' /\ QueuedOnce'
  <2>1. ASSUME NEW x \in Handlers \ {w}
        PROVE  /\ work'[x].at = "idle" => work'[x] = IdleJob
               /\ work'[x].at # "idle" =>
                    /\ work'[x].task \in Tasks
                    /\ work'[x].inc \in 1 .. inbox'[work'[x].task].inc
                    /\ work'[x].token \in 1 .. inbox'[work'[x].task].token
               /\ work'[x].at \in {"computed", "committed"} => work'[x].value # 0
    <3>1. work'[x] = work[x]
      BY <1>j
    <3> QED
      BY <3>1, <1>t, <1>n DEF JobsDelivered
  <2>2. /\ d.inc \in 1 .. inbox'[t].inc
        /\ d.token \in 1 .. inbox'[t].token
    BY <1>0, <1>t
  <2>3. JobsDelivered'
    BY <2>1, <2>2, <1>0, <1>j DEF JobsDelivered
  <2> QED
    BY <2>3, <1>t DEF QueuedOnce
<1>3. TokensCurrent'
  <2> SUFFICES ASSUME NEW y \in Handlers, work'[y].at # "idle"
               PROVE  /\ work'[y].token = inbox'[work'[y].task].token =>
                           inbox'[work'[y].task].queued /\ work'[y].inc = inbox'[work'[y].task].inc
                      /\ \A x \in Handlers \ {y} :
                           work'[x].at # "idle" /\ work'[x].task = work'[y].task =>
                             work'[x].token # work'[y].token
    BY DEF TokensCurrent
  <2>1. CASE y = w
    BY <2>1, <1>0, <1>j, <1>t DEF JobsDelivered, Job
  <2>2. CASE y # w
    <3>1. work'[y] = work[y] /\ work[y].task \in Tasks /\ work[y].token <= inbox[work[y].task].token
      BY <2>2, <1>j DEF JobsDelivered
    <3>2. ASSUME work'[y].token = inbox'[work'[y].task].token
          PROVE  inbox'[work'[y].task].queued /\ work'[y].inc = inbox'[work'[y].task].inc
      <4>1. work[y].task # t
        BY <3>1, <3>2, <1>t
      <4> QED
        BY <4>1, <3>1, <3>2, <1>t DEF TokensCurrent
    <3>3. ASSUME NEW x \in Handlers \ {y}, work'[x].at # "idle", work'[x].task = work'[y].task
          PROVE  work'[x].token # work'[y].token
      <4>1. CASE x = w
        BY <4>1, <3>1, <3>3, <1>0, <1>j
      <4>2. CASE x # w
        <5>1. work'[x] = work[x]
          BY <4>2, <1>j
        <5> QED
          BY <5>1, <3>1, <3>3 DEF TokensCurrent
      <4> QED
        BY <4>1, <4>2
    <3> QED
      BY <3>2, <3>3
  <2> QED
    BY <2>1, <2>2
<1>4. HeardIsStored' /\ ResultIsStored'
  <2>1. HeardIsStored
    OBVIOUS
  <2>2. HeardIsStored'
    <3>1. prompts' = prompts /\ heard' = heard /\ pruned' = pruned
      BY <1>u
    <3>2. ASSUME NEW x \in Tasks, NEW i \in Incarnations
          PROVE  /\ prompts[x][i].status = "resumed" => prompts[x][i].answer # 0
                 /\ <<"prompt", x>> \notin pruned => \A a \in heard[x][i] :
                      prompts[x][i].status = "resumed" /\ prompts[x][i].answer = a
      BY ONLY <2>1, x \in Tasks, i \in Incarnations, Zenon DEF HeardIsStored
    <3> QED
      BY ONLY <3>1, <3>2, ZenonT(60) DEF HeardIsStored
  <2>3. ResultIsStored'
    BY <1>u DEF ResultIsStored
  <2> QED
    BY <2>2, <2>3
<1>a. \A x \in Tasks, i \in Incarnations : Finished(x, i)' <=> Finished(x, i)
  BY <1>t DEF Finished
<1>b. \A x \in Tasks, k \in Nat : Some(x, k)' <=> Some(x, k)
  BY <1>u DEF Some
<1>5. LeasedOnce'
  BY <1>a, <1>u DEF LeasedOnce
<1>6. HasResult'
  <2>1. \A x \in Tasks : outbox'[x] # 0 => Some(x, inbox[x].inc)'
    BY <1>t, <1>u DEF HasResult, Some
  <2>2. \A y \in Handlers : work'[y].at = "committed" => Some(work[y].task, inbox[work[y].task].inc)'
    <3> SUFFICES ASSUME NEW y \in Handlers, work'[y].at = "committed"
                 PROVE  Some(work[y].task, inbox[work[y].task].inc)'
      OBVIOUS
    <3>1. y # w /\ work'[y] = work[y]
      BY <1>0, <1>j
    <3>2. work[y].task \in Tasks /\ Some(work[y].task, inbox[work[y].task].inc)
      BY <3>1 DEF HasResult, JobsDelivered
    <3> QED
      BY <3>1, <3>2, <1>t, <1>u DEF Some
  <2>3. \A x \in Tasks, i \in Incarnations : Finished(x, i)' => Some(x, i)'
    BY <1>a, <1>b DEF HasResult
  <2> QED
    BY <2>1, <2>2, <2>3 DEF HasResult
<1> QED
  BY <1>1, <1>2, <1>3, <1>4, <1>5, <1>6 DEF BInv

\* A worker goes on with its delivery or ends it.  When it takes the task from
\* the queue it held the lease, so no other worker has the current token.
LEMMA JobMoves ==
    ASSUME BoxTypes, JobsDelivered, QueuedOnce, TokensCurrent,
           NEW w \in Handlers, NEW d \in Job, work[w].at # "idle",
           work' = [work EXCEPT ![w] = d],
           \/ d = IdleJob
           \/ /\ inbox' = inbox /\ d.at # "idle"
              /\ d.task = work[w].task /\ d.inc = work[w].inc /\ d.token = work[w].token
              /\ d.at \in {"computed", "committed"} => d.value # 0,
           inbox' = inbox \/ (HoldsDelivery(w) /\ inbox' = Removed(work[w].task))
    PROVE  /\ inbox' \in [Tasks -> [queued: BOOLEAN, inc: 0 .. MaxIncarnations, token: Nat]]
           /\ work' \in [Handlers -> Job]
           /\ \A x \in Tasks : inbox'[x].inc = inbox[x].inc
           /\ JobsDelivered' /\ QueuedOnce' /\ TokensCurrent'
<1> USE OutboxAssumption DEF BoxTypes
<1>d. work[w].task \in Tasks /\ IdleJob.at = "idle"
  BY DEF JobsDelivered, IdleJob
<1>j. work' \in [Handlers -> Job] /\ work'[w] = d /\ \A x \in Handlers \ {w} : work'[x] = work[x]
  OBVIOUS
<1>t. /\ inbox' \in [Tasks -> [queued: BOOLEAN, inc: 0 .. MaxIncarnations, token: Nat]]
      /\ \A x \in Tasks \ {work[w].task} : inbox'[x] = inbox[x]
      /\ \A x \in Tasks : /\ inbox'[x].inc = inbox[x].inc
                          /\ inbox'[x].token = inbox[x].token
                          /\ inbox'[x].queued => inbox[x].queued
  <2>1. CASE inbox' = inbox
    BY <2>1
  <2>2. CASE inbox' = [inbox EXCEPT ![work[w].task].queued = FALSE]
    <3> DEFINE k == work[w].task
               r == [inbox[k] EXCEPT !.queued = FALSE]
    <3>1. /\ r \in [queued: BOOLEAN, inc: 0 .. MaxIncarnations, token: Nat]
          /\ r.inc = inbox[k].inc /\ r.token = inbox[k].token /\ r.queued = FALSE
      BY <1>d
    <3>2. inbox' = [inbox EXCEPT ![k] = r]
      BY <2>2
    <3> HIDE DEF r
    <3> QED
      BY <3>1, <3>2, <1>d
  <2> QED
    BY <2>1, <2>2 DEF Removed
<1>1. JobsDelivered'
  <2>1. ASSUME NEW x \in Handlers \ {w}
        PROVE  /\ work'[x].at = "idle" => work'[x] = IdleJob
               /\ work'[x].at # "idle" =>
                    /\ work'[x].task \in Tasks
                    /\ work'[x].inc \in 1 .. inbox'[work'[x].task].inc
                    /\ work'[x].token \in 1 .. inbox'[work'[x].task].token
               /\ work'[x].at \in {"computed", "committed"} => work'[x].value # 0
    <3>1. work'[x] = work[x]
      BY <1>j
    <3> QED
      BY <3>1, <1>t DEF JobsDelivered
  <2>2. CASE d = IdleJob
    BY <2>1, <2>2, <1>j DEF JobsDelivered, IdleJob
  <2>3. CASE d # IdleJob
    BY <2>1, <2>3, <1>d, <1>j, <1>t DEF JobsDelivered
  <2> QED
    BY <2>2, <2>3
<1>2. QueuedOnce'
  BY <1>t DEF QueuedOnce
<1>3. TokensCurrent'
  <2> SUFFICES ASSUME NEW y \in Handlers, work'[y].at # "idle"
               PROVE  /\ work'[y].token = inbox'[work'[y].task].token =>
                           inbox'[work'[y].task].queued /\ work'[y].inc = inbox'[work'[y].task].inc
                      /\ \A x \in Handlers \ {y} :
                           work'[x].at # "idle" /\ work'[x].task = work'[y].task =>
                             work'[x].token # work'[y].token
    BY DEF TokensCurrent
  <2>1. \A x \in Handlers : work'[x].at # "idle" =>
          /\ work[x].at # "idle" /\ work[x].task \in Tasks /\ work'[x].task = work[x].task
          /\ work'[x].inc = work[x].inc /\ work'[x].token = work[x].token
    BY <1>d, <1>j DEF JobsDelivered
  <2>2. \A x \in Handlers \ {y} :
          work'[x].at # "idle" /\ work'[x].task = work'[y].task => work'[x].token # work'[y].token
    BY <2>1 DEF TokensCurrent
  <2>3. ASSUME work'[y].token = inbox'[work'[y].task].token
        PROVE  inbox'[work'[y].task].queued /\ work'[y].inc = inbox'[work'[y].task].inc
    <3>1. inbox[work[y].task].queued /\ work[y].inc = inbox[work[y].task].inc
      BY <2>1, <2>3, <1>t DEF TokensCurrent
    <3>2. CASE inbox' = inbox
      BY <3>1, <3>2, <2>1
    <3>3. CASE inbox' # inbox
      <4>1. d = IdleJob /\ y # w /\ work[w].token = inbox[work[w].task].token
        BY <3>3, <1>d, <1>j DEF HoldsDelivery
      <4>2. work[y].task # work[w].task
        BY <4>1, <2>1, <2>3, <1>t DEF TokensCurrent
      <4> QED
        BY <4>2, <3>1, <2>1, <1>t
    <3> QED
      BY <3>2, <3>3
  <2> QED
    BY <2>2, <2>3
<1> QED
  BY <1>1, <1>2, <1>3, <1>j, <1>t

\* Results only grow, so a task that had one still has one: what an operation has
\* to show is that a task it finishes, commits or records a value for has one.
LEMMA ResultsStay ==
    ASSUME BoxTypes, JobsDelivered, HasResult,
           NEW w \in Handlers, NEW d \in Job, work' = [work EXCEPT ![w] = d],
           \A t \in Tasks, i \in Incarnations : results[t][i] # {} => results'[t][i] # {},
           \A t \in Tasks : inbox'[t].inc = inbox[t].inc,
           \A t \in Tasks : outbox'[t] # 0 => outbox[t] # 0 \/ Some(t, inbox[t].inc)',
           d.at = "committed" => d.task \in Tasks /\ Some(d.task, inbox[d.task].inc)',
           \A t \in Tasks, i \in Incarnations : Finished(t, i)' => Finished(t, i) \/ Some(t, i)'
    PROVE  HasResult'
<1> USE OutboxAssumption
<1>s. \A t \in Tasks, k \in 0 .. MaxIncarnations : Some(t, k) => Some(t, k)'
  BY DEF Some, Incarnations
<1>k. \A t \in Tasks : inbox[t].inc \in 0 .. MaxIncarnations
  BY DEF BoxTypes
<1>i. \A t \in Tasks : Some(t, inbox[t].inc) => Some(t, inbox[t].inc)'
  BY <1>k DEF Some, Incarnations
<1>1. \A t \in Tasks : outbox'[t] # 0 => Some(t, inbox[t].inc)'
  BY <1>i DEF HasResult
<1>2. \A y \in Handlers : work'[y].at = "committed" => Some(work[y].task, inbox[work[y].task].inc)'
  <2> SUFFICES ASSUME NEW y \in Handlers, work'[y].at = "committed"
               PROVE  Some(work[y].task, inbox[work[y].task].inc)'
    OBVIOUS
  <2>1. CASE y = w
    <3>1. work'[y] = d
      BY <2>1 DEF BoxTypes
    <3> QED
      BY <3>1
  <2>2. CASE y # w
    <3>1. work'[y] = work[y]
      BY <2>2 DEF BoxTypes
    <3>2. work[y].task \in Tasks /\ Some(work[y].task, inbox[work[y].task].inc)
      BY <3>1 DEF HasResult, JobsDelivered
    <3> QED
      BY <3>1, <3>2, <1>k DEF Some, Incarnations
  <2> QED
    BY <2>1, <2>2
<1>3. \A t \in Tasks, i \in Incarnations : Finished(t, i)' => Some(t, i)'
  BY <1>s DEF HasResult, Incarnations
<1> QED
  BY <1>1, <1>2, <1>3 DEF HasResult

\* A worker dies: its delivery ends and nothing else changes (Abandon).
LEMMA AbandonBInv ==
    ASSUME BInv, NEW w \in Handlers, Abandon(w) PROVE BInv'
<1> USE OutboxAssumption DEF BInv
<1>1. /\ IdleJob \in Job /\ IdleJob.at = "idle" /\ work' = [work EXCEPT ![w] = IdleJob]
      /\ work[w].at # "idle"
  BY DEF Abandon, IdleJob, Job, JobsDelivered
<1>2. UNCHANGED <<kind, inbox, prompts, outbox, results, heard, prunes, pruned>>
  BY DEF Abandon
<1>3. BoxTypes' /\ JobsDelivered' /\ QueuedOnce' /\ TokensCurrent'
  BY <1>1, <1>2, JobMoves DEF BoxTypes, Incarnations
<1>4. HeardIsStored' /\ ResultIsStored' /\ LeasedOnce'
  BY <1>2 DEF HeardIsStored, ResultIsStored, LeasedOnce, Finished
<1>5. HasResult'
  <2>1. \A t \in Tasks, i \in Incarnations : Finished(t, i)' => Finished(t, i)
    BY <1>2 DEF Finished
  <2> QED
    BY <2>1, <1>1, <1>2, ResultsStay
<1> QED
  BY <1>3, <1>4, <1>5 DEF BInv

\* Await hears the stored answer, or leaves a prompt that nobody has heard an
\* answer to (Await).
LEMMA AwaitBInv ==
    ASSUME BInv, NEW w \in Handlers, AwaitIn(w) PROVE BInv'
<1> USE OutboxAssumption DEF BInv
<1> DEFINE t == work[w].task
           i == work[w].inc
<1>1. /\ work[w].at = "claimed" /\ t \in Tasks /\ i \in Incarnations /\ work[w] \in Job
  <2>1. work[w].at = "claimed" /\ work[w] \in Job
    BY DEF AwaitIn, BoxTypes
  <2>2. t \in Tasks /\ i \in 1 .. inbox[t].inc /\ inbox[t].inc \in 0 .. MaxIncarnations
    BY <2>1 DEF JobsDelivered, BoxTypes
  <2> QED
    BY <2>1, <2>2 DEF Incarnations
<1>2. UNCHANGED <<kind, inbox, outbox, results, prunes, pruned>>
  BY DEF AwaitIn
<1>f. \A x \in Tasks, k \in Incarnations : Finished(x, k)' => Finished(x, k)
  BY <1>2 DEF Finished
<1>3. CASE prompts[t][i].status = "resumed"
  <2>1. PICK n \in Noise : work' = [work EXCEPT ![w].at = "computed",
            ![w].value = prompts[t][i].answer + n]
    BY <1>3 DEF AwaitIn
  <2> DEFINE v == prompts[t][i].answer + n
             d == [work[w] EXCEPT !.at = "computed", !.value = v]
  <2>2. prompts[t][i].answer \in Nat \ {0} /\ n \in Nat
    <3>1. prompts[t][i] \in [status: {"none", "pending", "resumed"}, answer: Nat]
      BY <1>1 DEF BoxTypes
    <3>2. prompts[t][i].answer # 0
      <4>1. \A x \in Tasks, k \in Incarnations : prompts[x][k].status = "resumed"
                => prompts[x][k].answer # 0
        BY Zenon DEF HeardIsStored
      <4> QED
        BY ONLY <4>1, <1>1, <1>3
    <3>3. n \in Nat
      BY ONLY n \in Noise, OutboxAssumption
    <3> QED
      BY ONLY <3>1, <3>2, <3>3
  <2>3. /\ d \in Job /\ d.at = "computed" /\ d.task = t /\ d.inc = i /\ d.token = work[w].token
        /\ d.value # 0
    <3>1. v \in Nat /\ v # 0
      BY <2>2
    <3> HIDE DEF v
    <3> QED
      BY <3>1, <1>1 DEF Job
  <2>4. work' = [work EXCEPT ![w] = d]
    BY <2>1
  <2> HIDE DEF d, v
  <2>5. prompts' = prompts /\ heard' = [heard EXCEPT ![t][i] = @ \cup {prompts[t][i].answer}]
    BY <1>3 DEF AwaitIn
  <2>6. JobsDelivered' /\ QueuedOnce' /\ TokensCurrent' /\ work' \in [Handlers -> Job]
    BY <2>3, <2>4, <1>1, <1>2, JobMoves
  <2>7. heard' \in [Tasks -> [Incarnations -> SUBSET Nat]]
    BY <2>2, <2>5, <1>1 DEF BoxTypes
  <2>8. HeardIsStored'
    <3> SUFFICES ASSUME NEW x \in Tasks, NEW k \in Incarnations
                 PROVE  /\ prompts'[x][k].status = "resumed" => prompts'[x][k].answer # 0
                        /\ <<"prompt", x>> \notin pruned' => \A a \in heard'[x][k] :
                             prompts'[x][k].status = "resumed" /\ prompts'[x][k].answer = a
      BY Zenon DEF HeardIsStored
    <3>1. prompts' = prompts /\ pruned' = pruned
      BY <2>5, <1>2
    <3>2. \A a \in heard'[x][k] :
            a \in heard[x][k] \/ (x = t /\ k = i /\ a = prompts[t][i].answer)
      BY <2>5, <1>1 DEF BoxTypes
    <3> QED
      BY <3>1, <3>2, <1>3 DEF HeardIsStored
  <2>9. HasResult'
    BY <2>3, <2>4, <1>2, <1>f, ResultsStay
  <2>a. BoxTypes'
    BY <2>5, <2>6, <2>7, <1>2 DEF BoxTypes, Incarnations
  <2>b. ResultIsStored' /\ LeasedOnce'
    BY <1>2 DEF ResultIsStored, LeasedOnce, Finished
  <2> QED
    BY <2>6, <2>8, <2>9, <2>a, <2>b
<1>4. CASE prompts[t][i].status # "resumed"
  <2>1. /\ prompts' = [prompts EXCEPT ![t][i].status = "pending"]
        /\ heard' = heard /\ work' = [work EXCEPT ![w] = IdleJob]
    BY <1>4 DEF AwaitIn
  <2> DEFINE r == [prompts[t][i] EXCEPT !.status = "pending"]
  <2>r. r \in [status: {"none", "pending", "resumed"}, answer: Nat] /\ r.status = "pending"
    <3>1. prompts[t][i] \in [status: {"none", "pending", "resumed"}, answer: Nat]
      BY <1>1 DEF BoxTypes
    <3> QED
      BY <3>1
  <2>p. prompts' = [prompts EXCEPT ![t] = [prompts[t] EXCEPT ![i] = r]]
    BY <2>1
  <2> HIDE DEF r
  <2>2. IdleJob \in Job /\ IdleJob.at = "idle"
    BY DEF IdleJob, Job
  <2>3. JobsDelivered' /\ QueuedOnce' /\ TokensCurrent' /\ work' \in [Handlers -> Job]
    BY <2>1, <2>2, <1>1, <1>2, JobMoves
  <2>4. prompts' \in [Tasks -> [Incarnations ->
            [status: {"none", "pending", "resumed"}, answer: Nat]]]
    BY <2>p, <2>r, <1>1 DEF BoxTypes
  <2>5. HeardIsStored'
    <3>1. ASSUME NEW x \in Tasks, NEW k \in Incarnations, prompts'[x][k] # prompts[x][k]
          PROVE  x = t /\ k = i
      BY <3>1, <2>p, <1>1 DEF BoxTypes
    <3>2. prompts'[t][i].status = "pending"
      BY <2>p, <2>r, <1>1 DEF BoxTypes
    <3> QED
      <4> SUFFICES ASSUME NEW x \in Tasks, NEW k \in Incarnations
                   PROVE  /\ prompts'[x][k].status = "resumed" => prompts'[x][k].answer # 0
                          /\ <<"prompt", x>> \notin pruned' => \A a \in heard'[x][k] :
                               prompts'[x][k].status = "resumed" /\ prompts'[x][k].answer = a
        BY Zenon DEF HeardIsStored
      <4>u. pruned' = pruned /\ heard' = heard
        BY <2>1, <1>2
      <4>1. CASE x = t /\ k = i
        BY <4>1, <4>u, <3>2, <1>4 DEF HeardIsStored
      <4>2. CASE ~(x = t /\ k = i)
        <5>1. prompts'[x][k] = prompts[x][k]
          BY <4>2, <3>1
        <5> QED
          BY <5>1, <4>u DEF HeardIsStored
      <4> QED
        BY <4>1, <4>2
  <2>6. HasResult'
    BY <2>1, <2>2, <1>2, <1>f, ResultsStay
  <2>7. BoxTypes'
    BY <2>1, <2>3, <2>4, <1>2 DEF BoxTypes
  <2>8. ResultIsStored' /\ LeasedOnce'
    BY <1>2 DEF ResultIsStored, LeasedOnce, Finished
  <2> QED
    BY <2>3, <2>5, <2>6, <2>7, <2>8
<1> QED
  BY <1>3, <1>4

\* An answer is stored for a prompt that is open, so nobody has heard one (Resume).
LEMMA ResumeBInv ==
    ASSUME BInv, NEW t \in Tasks, NEW i \in Incarnations, NEW a \in Answers,
           ResumeIn(t, i, a)
    PROVE  BInv'
<1> USE OutboxAssumption DEF BInv
<1> DEFINE r == [status |-> "resumed", answer |-> a]
<1>1. /\ prompts[t][i].status = "pending"
      /\ prompts' = [prompts EXCEPT ![t] = [prompts[t] EXCEPT ![i] = r]]
      /\ UNCHANGED <<kind, inbox, work, outbox, results, heard, prunes, pruned>>
  BY DEF ResumeIn
<1>2. /\ r \in [status: {"none", "pending", "resumed"}, answer: Nat]
      /\ r.status = "resumed" /\ r.answer # 0
  OBVIOUS
<1> HIDE DEF r
<1>3. /\ prompts' \in [Tasks -> [Incarnations ->
            [status: {"none", "pending", "resumed"}, answer: Nat]]]
      /\ prompts'[t][i] = r
      /\ \A x \in Tasks, k \in Incarnations : ~(x = t /\ k = i) => prompts'[x][k] = prompts[x][k]
  BY <1>1, <1>2 DEF BoxTypes
<1>4. BoxTypes'
  BY <1>1, <1>3 DEF BoxTypes, Incarnations
<1>5. JobsDelivered' /\ QueuedOnce' /\ TokensCurrent'
  BY <1>1 DEF JobsDelivered, QueuedOnce, TokensCurrent
<1>6. ResultIsStored' /\ LeasedOnce' /\ HasResult'
  BY <1>1 DEF ResultIsStored, LeasedOnce, HasResult, Finished, Some
<1>7. HeardIsStored'
  <2> SUFFICES ASSUME NEW x \in Tasks, NEW k \in Incarnations
               PROVE  /\ prompts'[x][k].status = "resumed" => prompts'[x][k].answer # 0
                      /\ <<"prompt", x>> \notin pruned' => \A h \in heard'[x][k] :
                           prompts'[x][k].status = "resumed" /\ prompts'[x][k].answer = h
    BY Zenon DEF HeardIsStored
  <2>1. pruned' = pruned /\ heard' = heard
    BY <1>1
  <2>2. CASE x = t /\ k = i
    BY <2>1, <2>2, <1>1, <1>2, <1>3 DEF HeardIsStored
  <2>3. CASE ~(x = t /\ k = i)
    BY <2>1, <2>3, <1>3 DEF HeardIsStored
  <2> QED
    BY <2>2, <2>3
<1> QED
  BY <1>4, <1>5, <1>6, <1>7

\* Retention of prompts takes answered ones and remembers whose (PruneInterrupts).
LEMMA PruneInterruptsBInv ==
    ASSUME BInv, PruneInterrupts PROVE BInv'
<1> USE OutboxAssumption DEF BInv
<1>1. /\ \A t \in Tasks, i \in Incarnations :
           prompts'[t][i] = IF prompts[t][i].status = "resumed" THEN NoPrompt ELSE prompts[t][i]
      /\ \A t \in Tasks : <<"prompt", t>> \notin pruned' =>
           /\ <<"prompt", t>> \notin pruned
           /\ \A i \in Incarnations : prompts[t][i].status # "resumed"
      /\ \A t \in Tasks : <<"outbox", t>> \in pruned => <<"outbox", t>> \in pruned'
      /\ UNCHANGED <<kind, inbox, work, outbox, results, heard>>
  BY DEF PruneInterrupts
<1>2. BoxTypes'
  BY <1>1 DEF PruneInterrupts, BoxTypes, NoPrompt, Incarnations
<1>3. JobsDelivered' /\ QueuedOnce' /\ TokensCurrent'
  BY <1>1 DEF JobsDelivered, QueuedOnce, TokensCurrent
<1>4. HeardIsStored'
  <2> SUFFICES ASSUME NEW x \in Tasks, NEW k \in Incarnations
               PROVE  /\ prompts'[x][k].status = "resumed" => prompts'[x][k].answer # 0
                      /\ <<"prompt", x>> \notin pruned' => \A h \in heard'[x][k] :
                           prompts'[x][k].status = "resumed" /\ prompts'[x][k].answer = h
    BY Zenon DEF HeardIsStored
  <2> QED
    BY <1>1 DEF HeardIsStored, NoPrompt
<1>5. ResultIsStored' /\ LeasedOnce' /\ HasResult'
  BY <1>1 DEF ResultIsStored, LeasedOnce, HasResult, Finished, Some
<1> QED
  BY <1>2, <1>3, <1>4, <1>5

\* Retention of results takes them all and remembers whose (PruneOutbox).
LEMMA PruneOutboxBInv ==
    ASSUME BInv, PruneOutbox PROVE BInv'
<1> USE OutboxAssumption DEF BInv
<1>1. /\ outbox' = [t \in Tasks |-> 0]
      /\ \A t \in Tasks : <<"prompt", t>> \in pruned => <<"prompt", t>> \in pruned'
      /\ \A t \in Tasks : <<"outbox", t>> \notin pruned' =>
           <<"outbox", t>> \notin pruned /\ outbox[t] = 0
      /\ UNCHANGED <<kind, inbox, work, prompts, results, heard>>
  BY DEF PruneOutbox
<1>2. BoxTypes'
  BY <1>1 DEF BoxTypes, Incarnations
<1>3. JobsDelivered' /\ QueuedOnce' /\ TokensCurrent'
  BY <1>1 DEF JobsDelivered, QueuedOnce, TokensCurrent
<1>4. HeardIsStored'
  <2> SUFFICES ASSUME NEW x \in Tasks, NEW k \in Incarnations
               PROVE  /\ prompts'[x][k].status = "resumed" => prompts'[x][k].answer # 0
                      /\ <<"prompt", x>> \notin pruned' => \A h \in heard'[x][k] :
                           prompts'[x][k].status = "resumed" /\ prompts'[x][k].answer = h
    BY Zenon DEF HeardIsStored
  <2> QED
    BY <1>1 DEF HeardIsStored
<1>5. ResultIsStored'
  BY <1>1 DEF ResultIsStored
<1>6. LeasedOnce' /\ HasResult'
  BY <1>1 DEF LeasedOnce, HasResult, Finished, Some
<1> QED
  BY <1>2, <1>3, <1>4, <1>5, <1>6

\* What Record changes.
LEMMA Recorded ==
    ASSUME BoxTypes, NEW w \in Handlers, RecordResult(w),
           work[w].task \in Tasks, work[w].inc \in Incarnations, work[w].value \in Nat
    PROVE  /\ outbox' \in [Tasks -> Nat]
           /\ results' \in [Tasks -> [Incarnations -> SUBSET Nat]]
           /\ outbox'[work[w].task] = work[w].value
           /\ \A x \in Tasks \ {work[w].task} : outbox'[x] = outbox[x]
           /\ results'[work[w].task][work[w].inc] = results[work[w].task][work[w].inc]
                  \cup {work[w].value}
           /\ \A x \in Tasks, k \in Incarnations :
                ~(x = work[w].task /\ k = work[w].inc) => results'[x][k] = results[x][k]
  BY DEF BoxTypes, RecordResult

\* What a worker with a value knows of its delivery.
LEMMA Delivery ==
    ASSUME BInv, NEW w \in Handlers, work[w].at \in {"computed", "committed"}
    PROVE  /\ work[w] \in Job /\ work[w].task \in Tasks /\ work[w].inc \in Incarnations
           /\ work[w].inc \in 1 .. inbox[work[w].task].inc
           /\ inbox[work[w].task].inc \in 0 .. MaxIncarnations
           /\ work[w].value \in Nat \ {0}
           /\ IdleJob \in Job /\ IdleJob.at = "idle"
           /\ HoldsDelivery(w) => inbox[work[w].task].queued /\ work[w].inc = inbox[work[w].task].inc
<1> USE OutboxAssumption DEF BInv
<1>1. /\ work[w] \in Job /\ work[w].task \in Tasks
      /\ work[w].inc \in 1 .. inbox[work[w].task].inc
      /\ inbox[work[w].task].inc \in 0 .. MaxIncarnations /\ work[w].value # 0
  BY DEF BoxTypes, JobsDelivered
<1>2. work[w].inc \in Incarnations /\ work[w].value \in Nat
  BY <1>1 DEF Incarnations, Job
<1>3. IdleJob \in Job /\ IdleJob.at = "idle"
  BY DEF IdleJob, Job
<1>4. HoldsDelivery(w) => inbox[work[w].task].queued /\ work[w].inc = inbox[work[w].task].inc
  BY <1>1 DEF HoldsDelivery, TokensCurrent
<1> QED
  BY <1>1, <1>2, <1>3, <1>4

\* The plain outboxes keep the first value: a second one is stored already, or is
\* a conflict (Commit).
LEMMA CommitBInv ==
    ASSUME BInv, NEW w \in Handlers, CommitIn(w), kind # "leased" PROVE BInv'
<1> USE OutboxAssumption DEF BInv
<1>1. /\ work[w].at = "computed"
      /\ UNCHANGED <<kind, inbox, prompts, heard, prunes, pruned>>
  BY DEF CommitIn
<1>0. PICK t \in Tasks, i \in Incarnations, v \in Nat \ {0}, d \in Job :
        t = work[w].task /\ i = work[w].inc /\ v = work[w].value
          /\ d = [work[w] EXCEPT !.at = "committed"]
  <2>1. work[w] \in Job => [work[w] EXCEPT !.at = "committed"] \in Job
    BY DEF Job
  <2> QED
    BY <2>1, <1>1, Delivery
<1>2. /\ work[w] \in Job /\ t \in Tasks /\ i \in Incarnations /\ v \in Nat \ {0}
      /\ i \in 1 .. inbox[t].inc /\ inbox[t].inc \in 0 .. MaxIncarnations
      /\ IdleJob \in Job /\ IdleJob.at = "idle"
  BY <1>0, <1>1, Delivery
<1>3. /\ d \in Job /\ d.at = "committed" /\ d.task = t /\ d.inc = i /\ d.token = work[w].token
      /\ d.value = v
  BY <1>0, <1>2 DEF Job
<1>f. \A x \in Tasks, k \in Incarnations : Finished(x, k)' => Finished(x, k)
  BY <1>1 DEF Finished
<1>h. HeardIsStored' /\ LeasedOnce'
  BY <1>1 DEF HeardIsStored, LeasedOnce
<1>4. CASE outbox[t] = 0 /\ RecordResult(w) /\ work' = [work EXCEPT ![w] = d]
  <2>r. /\ outbox' \in [Tasks -> Nat]
        /\ results' \in [Tasks -> [Incarnations -> SUBSET Nat]]
        /\ outbox'[t] = v
        /\ \A x \in Tasks \ {t} : outbox'[x] = outbox[x]
        /\ results'[t][i] = results[t][i] \cup {v}
        /\ \A x \in Tasks, k \in Incarnations : ~(x = t /\ k = i) => results'[x][k] = results[x][k]
    BY <1>0, <1>2, <1>4, Recorded
  <2>1. JobsDelivered' /\ QueuedOnce' /\ TokensCurrent' /\ work' \in [Handlers -> Job]
    BY <1>1, <1>2, <1>3, <1>4, <1>0, JobMoves
  <2>2. BoxTypes'
    BY <2>1, <2>r, <1>1 DEF BoxTypes, Incarnations
  <2>3. ResultIsStored'
    <3>1. \A x \in Tasks, k \in Incarnations : \A u \in results'[x][k] :
            u \in results[x][k] \/ (x = t /\ k = i /\ u = v)
      BY <2>r, <1>2
    <3>2. \A k \in Incarnations : <<"outbox", t>> \in pruned \/ results[t][k] = {}
      BY <1>2, <1>4 DEF ResultIsStored
    <3> QED
      <4> SUFFICES ASSUME NEW x \in Tasks, NEW k \in Incarnations
                   PROVE  \/ kind' = "leased" \/ <<"outbox", x>> \in pruned'
                          \/ \A u \in results'[x][k] : u # 0 /\ outbox'[x] = u
        BY Zenon DEF ResultIsStored
      <4>1. CASE x = t
        BY <4>1, <3>1, <3>2, <2>r, <1>1, <1>2
      <4>2. CASE x # t
        BY <4>2, <3>1, <2>r, <1>1 DEF ResultIsStored
      <4> QED
        BY <4>1, <4>2
  <2>4. HasResult'
    <3>1. Some(t, inbox[t].inc)'
      <4>1. results'[t][i] # {} /\ i \in 1 .. inbox'[t].inc
        BY <2>r, <1>1, <1>2
      <4> QED
        BY <4>1 DEF Some
    <3>2. \A x \in Tasks, k \in Incarnations : results[x][k] # {} => results'[x][k] # {}
      BY <2>r, <1>2
    <3>3. \A x \in Tasks : outbox'[x] # 0 => outbox[x] # 0 \/ Some(x, inbox[x].inc)'
      BY <3>1, <2>r DEF Some
    <3> QED
      BY <3>1, <3>2, <3>3, <1>1, <1>2, <1>3, <1>4, <1>f, ResultsStay
  <2> QED
    BY <2>1, <2>2, <2>3, <2>4, <1>h
<1>5. CASE outbox[t] = v /\ work' = [work EXCEPT ![w] = d] /\ UNCHANGED <<outbox, results>>
  <2>1. JobsDelivered' /\ QueuedOnce' /\ TokensCurrent' /\ work' \in [Handlers -> Job]
    BY <1>1, <1>2, <1>3, <1>5, <1>0, JobMoves
  <2>2. BoxTypes'
    BY <2>1, <1>1, <1>5 DEF BoxTypes, Incarnations
  <2>3. ResultIsStored'
    BY <1>1, <1>5 DEF ResultIsStored
  <2>4. HasResult'
    <3>1. Some(t, inbox[t].inc)'
      <4>1. Some(t, inbox[t].inc)
        BY <1>2, <1>5 DEF HasResult
      <4> QED
        BY <4>1, <1>1, <1>5 DEF Some
    <3> QED
      BY <3>1, <1>1, <1>2, <1>3, <1>5, <1>f, ResultsStay
  <2> QED
    BY <2>1, <2>2, <2>3, <2>4, <1>h
<1>6. CASE work' = [work EXCEPT ![w] = IdleJob] /\ UNCHANGED <<outbox, results>>
  <2>1. JobsDelivered' /\ QueuedOnce' /\ TokensCurrent' /\ work' \in [Handlers -> Job]
    BY <1>1, <1>2, <1>6, <1>0, JobMoves
  <2>2. BoxTypes'
    BY <2>1, <1>1, <1>6 DEF BoxTypes, Incarnations
  <2>3. ResultIsStored'
    BY <1>1, <1>6 DEF ResultIsStored
  <2>4. HasResult'
    BY <1>1, <1>2, <1>6, <1>f, ResultsStay
  <2> QED
    BY <2>1, <2>2, <2>3, <2>4, <1>h
<1>7. \/ outbox[t] = 0 /\ RecordResult(w) /\ work' = [work EXCEPT ![w] = d]
      \/ outbox[t] = v /\ work' = [work EXCEPT ![w] = d] /\ UNCHANGED <<outbox, results>>
      \/ work' = [work EXCEPT ![w] = IdleJob] /\ UNCHANGED <<outbox, results>>
  BY <1>0 DEF CommitIn
<1> QED
  BY <1>4, <1>5, <1>6, <1>7

\* A worker ends its delivery, and a task it takes from the queue by this was the
\* only one of its incarnation to be finished.
LEMMA Takes ==
    ASSUME BInv, NEW w \in Handlers, NEW t \in Tasks, t = work[w].task,
           work[w].at \in {"computed", "committed"},
           inbox' = inbox \/ (HoldsDelivery(w) /\ inbox' = Removed(t))
    PROVE  /\ \A x \in Tasks : inbox'[x].inc = inbox[x].inc
           /\ \A x \in Tasks, k \in Incarnations :
                /\ Finished(x, k) => Finished(x, k)'
                /\ Finished(x, k)' => Finished(x, k) \/ (HoldsDelivery(w) /\ x = t /\ k = inbox[t].inc)
           /\ HoldsDelivery(w) /\ inbox' = Removed(t) => Finished(t, inbox[t].inc)'
<1> USE OutboxAssumption DEF BInv
<1>1. CASE inbox' = inbox
  <2>1. inbox[t].queued => inbox # Removed(t)
    BY DEF Removed, BoxTypes
  <2> QED
    BY <2>1, <1>1 DEF Finished, HoldsDelivery
<1>2. CASE HoldsDelivery(w) /\ inbox' = Removed(t)
  <2> DEFINE r == [inbox[t] EXCEPT !.queued = FALSE]
  <2>1. r.inc = inbox[t].inc /\ r.queued = FALSE
    <3>1. inbox[t] \in [queued: BOOLEAN, inc: 0 .. MaxIncarnations, token: Nat]
      BY DEF BoxTypes
    <3> QED
      BY <3>1
  <2>2. inbox' = [inbox EXCEPT ![t] = r]
    BY <1>2 DEF Removed
  <2> HIDE DEF r
  <2>3. inbox'[t] = r /\ \A x \in Tasks \ {t} : inbox'[x] = inbox[x]
    BY <2>2 DEF BoxTypes
  <2> QED
    BY <2>1, <2>3, <1>2 DEF Finished
<1> QED
  BY <1>1, <1>2

\* A task is acknowledged after its result was committed (Ack).
LEMMA AckBInv ==
    ASSUME BInv, NEW w \in Handlers, AckDelivery(w) PROVE BInv'
<1> USE OutboxAssumption DEF BInv
<1>1. /\ work[w].at = "committed" /\ work' = [work EXCEPT ![w] = IdleJob]
      /\ inbox' = inbox \/ (HoldsDelivery(w) /\ inbox' = Removed(work[w].task))
      /\ UNCHANGED <<kind, prompts, outbox, results, heard, prunes, pruned>>
  BY DEF AckDelivery
<1>0. PICK t \in Tasks : t = work[w].task
  BY <1>1, Delivery
<1>2. IdleJob \in Job /\ IdleJob.at = "idle"
  BY <1>1, Delivery
<1>3. /\ JobsDelivered' /\ QueuedOnce' /\ TokensCurrent' /\ work' \in [Handlers -> Job]
      /\ inbox' \in [Tasks -> [queued: BOOLEAN, inc: 0 .. MaxIncarnations, token: Nat]]
  BY <1>1, <1>2, JobMoves
<1>4. BoxTypes'
  BY <1>1, <1>3 DEF BoxTypes, Incarnations
<1>5. HeardIsStored' /\ ResultIsStored'
  BY <1>1 DEF HeardIsStored, ResultIsStored
<1>6. /\ \A x \in Tasks : inbox'[x].inc = inbox[x].inc
      /\ \A x \in Tasks, k \in Incarnations :
           /\ Finished(x, k) => Finished(x, k)'
           /\ Finished(x, k)' => Finished(x, k) \/ (x = t /\ k = inbox[t].inc)
  BY <1>0, <1>1, Takes
<1>7. LeasedOnce'
  BY <1>1, <1>6 DEF LeasedOnce
<1>8. HasResult'
  <2>1. Some(t, inbox[t].inc)
    BY <1>0, <1>1 DEF HasResult
  <2>2. \A x \in Tasks, k \in Incarnations : Finished(x, k)' => Finished(x, k) \/ Some(x, k)'
    BY <2>1, <1>1, <1>6 DEF Some
  <2> QED
    BY <2>2, <1>1, <1>2, <1>6, ResultsStay
<1> QED
  BY <1>3, <1>4, <1>5, <1>7, <1>8

\* The leased outbox records a value only with the lease it takes from the queue:
\* the task is of the current incarnation, which had no result (ackLeaseTx).
LEMMA LeasedCommitBInv ==
    ASSUME BInv, NEW w \in Handlers, LeasedCommit(w) PROVE BInv'
<1> USE OutboxAssumption DEF BInv
<1> DEFINE ok == AckLeaseTx(w, outbox[work[w].task] # 0) /\ outbox[work[w].task] \in {0, work[w].value}
<1>1. /\ kind = "leased" /\ work[w].at = "computed" /\ work' = [work EXCEPT ![w] = IdleJob]
      /\ inbox' = inbox \/ (HoldsDelivery(w) /\ inbox' = Removed(work[w].task))
      /\ UNCHANGED <<kind, prompts, heard, prunes, pruned>>
  BY DEF LeasedCommit
<1>0. PICK t \in Tasks, i \in Incarnations, v \in Nat \ {0} :
        t = work[w].task /\ i = work[w].inc /\ v = work[w].value
  BY <1>1, Delivery
<1>2. /\ IdleJob \in Job /\ IdleJob.at = "idle"
      /\ HoldsDelivery(w) => inbox[t].queued /\ i = inbox[t].inc
      /\ i \in 1 .. inbox[t].inc
  BY <1>0, <1>1, Delivery
<1>3. /\ JobsDelivered' /\ QueuedOnce' /\ TokensCurrent' /\ work' \in [Handlers -> Job]
      /\ inbox' \in [Tasks -> [queued: BOOLEAN, inc: 0 .. MaxIncarnations, token: Nat]]
  BY <1>1, <1>2, JobMoves
<1>4. HeardIsStored' /\ ResultIsStored'
  BY <1>1 DEF HeardIsStored, ResultIsStored
<1>5. /\ \A x \in Tasks : inbox'[x].inc = inbox[x].inc
      /\ \A x \in Tasks, k \in Incarnations :
           /\ Finished(x, k) => Finished(x, k)'
           /\ Finished(x, k)' => Finished(x, k) \/ (HoldsDelivery(w) /\ x = t /\ k = inbox[t].inc)
      /\ HoldsDelivery(w) /\ inbox' = Removed(t) => Finished(t, inbox[t].inc)'
  BY <1>0, <1>1, Takes
<1>6. CASE ok /\ outbox[t] = 0
  <2>1. HoldsDelivery(w) /\ inbox' = Removed(t) /\ RecordResult(w)
    BY <1>0, <1>6 DEF LeasedCommit, AckLeaseTx
  <2>r. /\ outbox' \in [Tasks -> Nat]
        /\ results' \in [Tasks -> [Incarnations -> SUBSET Nat]]
        /\ \A x \in Tasks \ {t} : outbox'[x] = outbox[x]
        /\ results'[t][i] = results[t][i] \cup {v}
        /\ \A x \in Tasks, k \in Incarnations : ~(x = t /\ k = i) => results'[x][k] = results[x][k]
    BY <2>1, <1>0, Recorded
  <2>2. BoxTypes'
    BY <2>r, <1>1, <1>3 DEF BoxTypes, Incarnations
  <2>3. results[t][i] = {}
    <3>1. ~Finished(t, i)
      BY <2>1, <1>2 DEF Finished, BoxTypes
    <3> QED
      BY <3>1, <1>1 DEF LeasedOnce
  <2>4. LeasedOnce'
    <3> SUFFICES ASSUME NEW x \in Tasks, NEW k \in Incarnations
                 PROVE  /\ results'[x][k] # {} => Finished(x, k)'
                        /\ \A u, y \in results'[x][k] : u = y
      BY Zenon DEF LeasedOnce
    <3>1. CASE x = t /\ k = i
      BY <3>1, <2>1, <2>3, <2>r, <1>2, <1>5
    <3>2. CASE ~(x = t /\ k = i)
      BY <3>2, <2>r, <1>1, <1>5 DEF LeasedOnce
    <3> QED
      BY <3>1, <3>2
  <2>5. HasResult'
    <3>1. results'[t][i] # {} /\ inbox'[t].inc = i
      BY <2>1, <2>r, <1>2, <1>5
    <3>2. Some(t, i)' /\ Some(t, inbox[t].inc)'
      BY <3>1 DEF Some, Incarnations
    <3>3. \A x \in Tasks, k \in Incarnations : results[x][k] # {} => results'[x][k] # {}
      BY <2>r
    <3>4. \A x \in Tasks : outbox'[x] # 0 => outbox[x] # 0 \/ Some(x, inbox[x].inc)'
      BY <3>2, <2>r
    <3>5. \A x \in Tasks, k \in Incarnations : Finished(x, k)' => Finished(x, k) \/ Some(x, k)'
      BY <3>2, <2>1, <1>2, <1>5
    <3> QED
      BY <3>3, <3>4, <3>5, <1>1, <1>2, <1>5, ResultsStay
  <2> QED
    BY <2>2, <2>4, <2>5, <1>3, <1>4
<1>7. CASE ~(ok /\ outbox[t] = 0)
  <2>1. UNCHANGED <<outbox, results>>
    BY <1>0, <1>7 DEF LeasedCommit
  <2>2. BoxTypes'
    BY <2>1, <1>1, <1>3 DEF BoxTypes, Incarnations
  <2>3. LeasedOnce'
    BY <2>1, <1>1, <1>5 DEF LeasedOnce
  <2>4. HasResult'
    <3>1. inbox' # inbox => outbox[t] # 0
      BY <1>0, <1>7 DEF LeasedCommit
    <3>2. \A x \in Tasks, k \in Incarnations : Finished(x, k)' => Finished(x, k) \/ Some(x, k)'
      <4>1. CASE inbox' = inbox
        BY <4>1 DEF Finished
      <4>2. CASE inbox' # inbox
        <5>1. Some(t, inbox[t].inc)
          BY <4>2, <3>1 DEF HasResult
        <5> QED
          BY <5>1, <2>1, <1>5 DEF Some
      <4> QED
        BY <4>1, <4>2
    <3> QED
      BY <3>2, <2>1, <1>1, <1>2, <1>5, ResultsStay
  <2> QED
    BY <2>2, <2>3, <2>4, <1>3, <1>4
<1> QED
  BY <1>6, <1>7

-----------------------------------------------------------------------------
\* Every step keeps the invariant.
LEMMA NextBInv == ASSUME BInv, [OutboxNext]_boxVars PROVE BInv'
<1>1. ASSUME NEW t \in Tasks, EnqueueIncarnation(t) PROVE BInv'
  BY <1>1, EnqueueBInv
<1>2. ASSUME NEW w \in Handlers, NEW t \in Tasks, Deliver(w, t) PROVE BInv'
  BY <1>2, ClaimBInv
<1>3. ASSUME NEW w \in Handlers, Abandon(w) PROVE BInv'
  BY <1>3, AbandonBInv
<1>4. ASSUME NEW w \in Handlers, MemoryAwait(w) \/ PostgresAwait(w) PROVE BInv'
  BY <1>4, AwaitBInv DEF MemoryAwait, PostgresAwait
<1>5. ASSUME NEW w \in Handlers, MemoryCommit(w) \/ PostgresCommit(w) PROVE BInv'
  BY <1>5, CommitBInv DEF MemoryCommit, PostgresCommit
<1>6. ASSUME NEW w \in Handlers, AckDelivery(w) PROVE BInv'
  BY <1>6, AckBInv
<1>7. ASSUME NEW w \in Handlers, LeasedCommit(w) PROVE BInv'
  BY <1>7, LeasedCommitBInv
<1>8. ASSUME NEW t \in Tasks, NEW i \in Incarnations, NEW a \in Answers,
             MemoryResume(t, i, a) \/ PostgresResume(t, i, a)
      PROVE  BInv'
  BY <1>8, ResumeBInv DEF MemoryResume, PostgresResume
<1>9. CASE PruneInterrupts \/ PruneOutbox
  BY <1>9, PruneInterruptsBInv, PruneOutboxBInv
<1>10. CASE UNCHANGED boxVars
  <2>1. UNCHANGED <<kind, inbox, work, prompts, outbox, results, heard, pruned>>
    BY <1>10 DEF boxVars
  <2>2. BoxTypes'
    BY <2>1 DEF BInv, BoxTypes
  <2>3. JobsDelivered' /\ QueuedOnce' /\ TokensCurrent'
    BY <2>1 DEF BInv, JobsDelivered, QueuedOnce, TokensCurrent
  <2>4. HeardIsStored' /\ ResultIsStored' /\ LeasedOnce'
    BY <2>1 DEF BInv, HeardIsStored, ResultIsStored, LeasedOnce, Finished
  <2>5. HasResult'
    BY <2>1 DEF BInv, HasResult, Finished, Some
  <2> QED
    BY <2>2, <2>3, <2>4, <2>5 DEF BInv
<1> QED
  BY <1>1, <1>2, <1>3, <1>4, <1>5, <1>6, <1>7, <1>8, <1>9, <1>10 DEF OutboxNext

\* A set whose members are equal has at most one.
LEMMA AtMostOne ==
    ASSUME NEW S, \A x, y \in S : x = y PROVE Cardinality(S) <= 1
<1>1. CASE S = {}
  BY <1>1, FS_EmptySet
<1>2. CASE S # {}
  <2>1. PICK x \in S : S = {x}
    BY <1>2
  <2> QED
    BY <2>1, FS_Singleton
<1> QED
  BY <1>1, <1>2

\* The invariant says that tasks are completed once.
LEMMA BInvCompleted == ASSUME BInv PROVE CompletedOnce
<1> USE DEF BInv
<1> SUFFICES ASSUME NEW t \in Tasks, NEW i \in Incarnations
             PROVE  /\ <<"prompt", t>> \notin pruned => Cardinality(heard[t][i]) <= 1
                    /\ kind = "leased" \/ <<"outbox", t>> \notin pruned =>
                         Cardinality(results[t][i]) <= 1
                    /\ (i < inbox[t].inc \/ (i = inbox[t].inc /\ ~inbox[t].queued)) =>
                         UNION {results[t][j] : j \in 1 .. i} # {}
  BY DEF CompletedOnce
<1>1. <<"prompt", t>> \notin pruned => Cardinality(heard[t][i]) <= 1
  BY AtMostOne DEF HeardIsStored
<1>2. kind = "leased" \/ <<"outbox", t>> \notin pruned => Cardinality(results[t][i]) <= 1
  BY AtMostOne DEF ResultIsStored, LeasedOnce
<1>3. ASSUME i < inbox[t].inc \/ (i = inbox[t].inc /\ ~inbox[t].queued)
      PROVE  UNION {results[t][j] : j \in 1 .. i} # {}
  <2>1. PICK j \in 1 .. i : results[t][j] # {}
    BY <1>3 DEF HasResult, Finished, Some
  <2> QED
    BY <2>1
<1> QED
  BY <1>1, <1>2, <1>3

\* However often a task is delivered, by whomever it is answered and whatever dies
\* or is pruned in between, its prompt has one answer, its outbox one result, and it
\* leaves the queue with one: for any number of workers, tasks and deliveries, and
\* for handlers that are not deterministic (Await, Resume, Commit, ackLeaseTx).
THEOREM TasksAreCompletedOnce == OutboxSpec => []CompletedOnce
<1>1. OutboxInit => BInv
  BY InitBInv
<1>2. BInv /\ [OutboxNext]_boxVars => BInv'
  BY NextBInv
<1>3. BInv => CompletedOnce
  BY BInvCompleted
<1> QED
  BY <1>1, <1>2, <1>3, PTL DEF OutboxSpec
=============================================================================
