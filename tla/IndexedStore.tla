---------------------------- MODULE IndexedStore -----------------------------
(***************************************************************************)
(* The semantic store: a base store, a vector index that follows it, and   *)
(* the outbox of index updates that are not known to be applied.           *)
(*                                                                         *)
(* Batch, RepairPending and SweepExpired hold the store's mutex, so one    *)
(* call runs at a time; each of its calls to the outbox, the base store    *)
(* and the index is a step, at which the call may fail or the process die. *)
(* A value stands for the documents that are embedded from it.             *)
(***************************************************************************)
EXTENDS Naturals, Sequences, FiniteSets, SequencesExt

CONSTANTS
    IndexKeys,
    Documents,      \* the values of items
    IndexBatches,   \* sequences of final writes, one per key
    MaxIntents,     \* bound: intents ever put into the outbox
    MaxIndexFaults  \* bound: failing calls and crashes

NoDocument == 0
\* finalWrite: the value (NoDocument deletes) and whether its fields are indexed.
FinalWrite == [key: IndexKeys, val: Documents \cup {NoDocument}, indexed: BOOLEAN]
ASSUME IndexAssumption ==
    /\ IsFiniteSet(IndexKeys) /\ NoDocument \notin Documents
    /\ IndexBatches \subseteq Seq(FinalWrite)

VARIABLES
    truth,     \* the base store: key -> value
    want,      \* key -> the value whose documents the index should hold (history)
    index,     \* key -> the value whose documents the index holds
    outbox,    \* the intents, each with its sequence number
    sequence,  \* the last sequence number
    call,      \* the call that holds the mutex
    exposed,   \* keys that the code itself no longer repairs, see IndexConverges (history)
    faults

indexVars == <<truth, want, index, outbox, sequence, call, exposed, faults>>

NoIndexCall == [at |-> "idle", writes |-> <<>>, ids |-> {}, todo |-> {}]

IndexInit ==
    /\ truth = [k \in IndexKeys |-> NoDocument] /\ index = [k \in IndexKeys |-> NoDocument]
    /\ want = truth /\ exposed = {} /\ faults = 0
    /\ outbox = {} /\ sequence = 0
    /\ call = NoIndexCall

-----------------------------------------------------------------------------
(***************************************************************************)
(* The outbox and the index.                                               *)
(***************************************************************************)
\* vectorMutations and embedWrites: the documents come from the value.
Document(w) == IF w.indexed THEN w.val ELSE NoDocument
Mutation(w, id) == [id |-> id, key |-> w.key, val |-> w.val, doc |-> Document(w)]

\* The sequence column names an intent, in place of its random ID.
Enqueued(ws) == {Mutation(ws[i], sequence + i) : i \in DOMAIN ws}
Enqueue(ws) ==
    /\ sequence + Len(ws) <= MaxIntents
    /\ outbox' = outbox \cup Enqueued(ws)
    /\ sequence' = sequence + Len(ws)
EnqueuedIDs(ws) == {sequence + i : i \in DOMAIN ws}
Acked(ids) == {m \in outbox : m.id \notin ids}

VectorDelete(ks) == [k \in IndexKeys |-> IF k \in ks THEN NoDocument ELSE index[k]]
VectorUpsert(from, doc) == [from EXCEPT ![doc.key] = doc.doc]

KeysOf(ws) == {ws[i].key : i \in DOMAIN ws}

-----------------------------------------------------------------------------
(***************************************************************************)
(* Batch.                                                                  *)
(***************************************************************************)
\* prepare and Enqueue; a batch without writes touches nothing here.
BatchEnqueue(ws) ==
    /\ call = NoIndexCall /\ Enqueue(ws)
    /\ call' = [NoIndexCall EXCEPT !.at = "base", !.writes = ws, !.ids = EnqueuedIDs(ws)]
    /\ UNCHANGED <<truth, want, index, exposed, faults>>

Written(ws, k) == ws[CHOOSE i \in DOMAIN ws : ws[i].key = k]
CommitBase(ws) ==
    /\ truth' = [k \in IndexKeys |-> IF k \in KeysOf(ws) THEN Written(ws, k).val ELSE truth[k]]
    /\ want' = [k \in IndexKeys |-> IF k \in KeysOf(ws) THEN Document(Written(ws, k)) ELSE want[k]]

BatchBase ==
    /\ call.at = "base"
    /\ CommitBase(call.writes)
    /\ exposed' = exposed \ KeysOf(call.writes)
    /\ call' = [call EXCEPT !.at = "delete"]
    /\ UNCHANGED <<index, outbox, sequence, faults>>

\* The base store failed: the intents are taken back.  If the error hides a
\* commit, nothing will bring the index up to date.
BatchFailed ==
    /\ call.at = "base" /\ faults < MaxIndexFaults
    /\ \/ UNCHANGED <<truth, want, exposed>>
       \/ CommitBase(call.writes) /\ exposed' = exposed \cup KeysOf(call.writes)
    /\ outbox' = Acked(call.ids)
    /\ call' = NoIndexCall /\ faults' = faults + 1
    /\ UNCHANGED <<index, sequence>>

\* synchronize: delete every written key, then upsert all documents.
SynchronizeDelete ==
    /\ call.at = "delete"
    /\ index' = VectorDelete(KeysOf(call.writes))
    /\ call' = [call EXCEPT !.at = "upsert"]
    /\ UNCHANGED <<truth, want, outbox, sequence, exposed, faults>>
Synchronize ==
    /\ call.at = "upsert"
    /\ index' = [k \in IndexKeys |-> IF k \in KeysOf(call.writes) THEN Document(Written(call.writes, k))
                                     ELSE index[k]]
    /\ call' = [call EXCEPT !.at = "ack"]
    /\ UNCHANGED <<truth, want, outbox, sequence, exposed, faults>>

Ack ==
    /\ call.at = "ack"
    /\ outbox' = Acked(call.ids)
    /\ call' = NoIndexCall
    /\ UNCHANGED <<truth, want, index, sequence, exposed, faults>>

-----------------------------------------------------------------------------
(***************************************************************************)
(* RepairPending: the oldest intents first, each against the base store.   *)
(***************************************************************************)
\* List: the first limit intents, or all of them.
RepairPending(limit) ==
    /\ call = NoIndexCall /\ outbox # {}
    /\ call' = [NoIndexCall EXCEPT !.at = "inspect",
                   !.todo = {m \in outbox : limit = 0
                     \/ Cardinality({n \in outbox : n.id < m.id}) < limit}]
    /\ UNCHANGED <<truth, want, index, outbox, sequence, exposed, faults>>

\* Mutant: the hash is not compared.
AnyValueMatches(m) == m.val = NoDocument <=> truth[m.key] = NoDocument
\* The intent still describes the item: both missing, or equal hashes.
Matches(m) == m.val = truth[m.key]

Oldest(m) == m \in call.todo /\ \A n \in call.todo : m.id <= n.id
RepairInspect(m) ==
    /\ call.at = "inspect" /\ Oldest(m)
    /\ IF Matches(m) \/ truth[m.key] = NoDocument
       THEN /\ index' = VectorDelete({m.key})
            /\ call' = [call EXCEPT !.at = IF Matches(m) /\ m.doc # NoDocument THEN "repair"
                                           ELSE "settle"]
       ELSE UNCHANGED index /\ call' = [call EXCEPT !.at = "settle"]
    /\ exposed' = IF m.val = truth[m.key] /\ m.doc # want[m.key] THEN exposed \cup {m.key} ELSE exposed
    /\ UNCHANGED <<truth, want, outbox, sequence, faults>>
RepairUpsert(m) ==
    /\ call.at = "repair" /\ Oldest(m)
    /\ index' = VectorUpsert(index, m)
    /\ call' = [call EXCEPT !.at = "settle"]
    /\ UNCHANGED <<truth, want, outbox, sequence, exposed, faults>>
RepairAck(m) ==
    /\ call.at = "settle" /\ Oldest(m)
    /\ outbox' = Acked({m.id})
    /\ call' = IF call.todo = {m} THEN NoIndexCall ELSE [call EXCEPT !.at = "inspect", !.todo = @ \ {m}]
    /\ UNCHANGED <<truth, want, index, sequence, exposed, faults>>

-----------------------------------------------------------------------------
(***************************************************************************)
(* SweepExpired: any items may be the ones that expired.                   *)
(***************************************************************************)
SweepExpiredItems(ks) ==
    /\ call = NoIndexCall /\ ks # {} /\ \A k \in ks : truth[k] # NoDocument
    /\ sequence + Cardinality(ks) <= MaxIntents
    /\ truth' = [k \in IndexKeys |-> IF k \in ks THEN NoDocument ELSE truth[k]]
    /\ want' = [k \in IndexKeys |-> IF k \in ks THEN NoDocument ELSE want[k]]
    /\ exposed' = exposed \cup ks
    /\ call' = [NoIndexCall EXCEPT !.at = "sweep",
                   !.writes = [i \in 1 .. Cardinality(ks) |->
                                 [key |-> SetToSeq(ks)[i], val |-> NoDocument, indexed |-> TRUE]]]
    /\ UNCHANGED <<index, outbox, sequence, faults>>
SweepEnqueue ==
    /\ call.at = "sweep" /\ Enqueue(call.writes)
    /\ exposed' = exposed \ KeysOf(call.writes)
    /\ call' = [call EXCEPT !.at = "clean", !.ids = EnqueuedIDs(call.writes)]
    /\ UNCHANGED <<truth, want, index, faults>>
SweepDelete ==
    /\ call.at = "clean"
    /\ index' = VectorDelete(KeysOf(call.writes))
    /\ call' = [call EXCEPT !.at = "ack"]
    /\ UNCHANGED <<truth, want, outbox, sequence, exposed, faults>>

\* Any call of the outbox or of the index fails, or the process dies: the call
\* ends where it is, perhaps between two deletions (the index is the durable one of
\* vector/sql).
Abort ==
    /\ call # NoIndexCall /\ faults < MaxIndexFaults
    /\ \E ks \in SUBSET KeysOf(call.writes) :
          /\ ks # {} => call.at \in {"delete", "clean"}
          /\ index' = VectorDelete(ks)
    /\ call' = NoIndexCall /\ faults' = faults + 1
    /\ UNCHANGED <<truth, want, outbox, sequence, exposed>>

-----------------------------------------------------------------------------
IndexNext ==
    \/ \E ws \in IndexBatches : BatchEnqueue(ws)
    \/ BatchBase \/ BatchFailed \/ SynchronizeDelete \/ Synchronize \/ Ack
    \/ \E limit \in 0 .. Cardinality(outbox) : RepairPending(limit)
    \/ \E m \in call.todo : RepairInspect(m) \/ RepairUpsert(m) \/ RepairAck(m)
    \/ \E ks \in SUBSET IndexKeys : SweepExpiredItems(ks)
    \/ SweepEnqueue \/ SweepDelete
    \/ Abort

IndexSpec == IndexInit /\ [][IndexNext]_indexVars

-----------------------------------------------------------------------------
(***************************************************************************)
(* Properties.                                                             *)
(***************************************************************************)
\* index.Search and mergeSearch: the candidates that the index scored, in some
\* order of their scores, then the others, none twice and none that the base store
\* does not have.
VectorSearch(candidates) == SetToSeq({k \in candidates : index[k] # NoDocument})
MergeSearch(offset, limit) ==
    LET candidates == {k \in IndexKeys : truth[k] # NoDocument}
        others == SetToSeq({k \in candidates : index[k] = NoDocument})
        all == VectorSearch(candidates) \o others
        start == IF offset < Len(all) THEN offset ELSE Len(all)
    IN  SubSeq(all, start + 1, IF start + limit < Len(all) THEN start + limit ELSE Len(all))

Settled(k) == call = NoIndexCall /\ k \notin exposed /\ \A m \in outbox : m.key # k

\* Whatever failed in between, a key with no intent left is indexed by the value
\* that the base store holds, or not at all if it was put with an empty Index
\* list, and a search returns each item of the base store on exactly one page.
\* Left out are keys that the code itself gives up: a base error that hides a
\* commit, a sweep that dies before it records its intent, and an intent of the
\* same value with another Index list, whose hash matches although it is not the
\* write that the item shows (Batch, RepairPending, SweepExpired).
IndexConverges ==
    /\ \A k \in IndexKeys : Settled(k) => index[k] = want[k]
    /\ LET pages == MergeSearch(0, 1) \o MergeSearch(1, Cardinality(IndexKeys)) IN
         /\ Range(pages) = {k \in IndexKeys : truth[k] # NoDocument}
         /\ Len(pages) = Cardinality(Range(pages))
=============================================================================
