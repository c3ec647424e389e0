----------------------------- MODULE ResultOutbox ----------------------------
(***************************************************************************)
(* Tasks that ask a question through the distributed interrupt store and   *)
(* commit their result to an outbox: MemoryOutbox, PostgresOutbox, or the  *)
(* PostgreSQL outbox that deletes the queue lease in the same transaction. *)
(*                                                                         *)
(* The queue is the abstract one: a task may be claimed again at any time, *)
(* which takes the lease from its holder.  A task ID may be enqueued again *)
(* for another thread once it has left the queue (an incarnation); the     *)
(* outboxes know only the task ID, the interrupt store knows the thread.   *)
(***************************************************************************)
EXTENDS Naturals, FiniteSets

CONSTANTS
    Handlers,         \* worker processes, each with a task in hand
    Tasks,
    Answers,          \* what a human may answer
    Noise,            \* a handler may add any of these to its answer: {0} is deterministic
    MaxIncarnations,  \* bound: threads that use the same task ID
    MaxDeliveries,    \* bound: deliveries of a task
    MaxPrunes         \* bound: retention runs

\* An answer is a value, and what a handler adds to it leaves it one: 0 stands
\* for an outbox without a result.
ASSUME OutboxAssumption ==
    /\ Answers \subseteq Nat \ {0}
    /\ Noise \subseteq Nat
    /\ MaxIncarnations \in Nat

VARIABLES
    kind,       \* memory, postgres or leased
    inbox,      \* task -> queued, incarnation and current lease token
    work,       \* worker -> the delivery it works on
    prompts,    \* task, incarnation -> record of the interrupt store
    outbox,     \* task -> committed value, 0: none
    results,    \* values committed for an incarnation (history)
    heard,      \* answers that Await returned to an incarnation (history)
    prunes,     \* retention runs so far
    pruned      \* what they removed: <<store, task>> (history)

boxVars == <<kind, inbox, work, prompts, outbox, results, heard, prunes, pruned>>

Incarnations == 1 .. MaxIncarnations
NoPrompt == [status |-> "none", answer |-> 0]
IdleJob == [at |-> "idle", task |-> 0, inc |-> 0, token |-> 0, value |-> 0]

OutboxInit ==
    /\ kind \in {"memory", "postgres", "leased"}
    /\ inbox = [t \in Tasks |-> [queued |-> FALSE, inc |-> 0, token |-> 0]]
    /\ work = [w \in Handlers |-> IdleJob]
    /\ prompts = [t \in Tasks |-> [i \in Incarnations |-> NoPrompt]]
    /\ outbox = [t \in Tasks |-> 0]
    /\ results = [t \in Tasks |-> [i \in Incarnations |-> {}]]
    /\ heard = [t \in Tasks |-> [i \in Incarnations |-> {}]]
    /\ prunes = 0 /\ pruned = {}

-----------------------------------------------------------------------------
(***************************************************************************)
(* The queue.                                                              *)
(***************************************************************************)
EnqueueIncarnation(t) ==
    /\ ~inbox[t].queued /\ inbox[t].inc < MaxIncarnations
    /\ inbox' = [inbox EXCEPT ![t] = [queued |-> TRUE, inc |-> @.inc + 1, token |-> @.token]]
    /\ UNCHANGED <<kind, work, prompts, outbox, results, heard, prunes, pruned>>
Deliver(w, t) ==
    /\ work[w] = IdleJob /\ inbox[t].queued /\ inbox[t].token < MaxDeliveries
    /\ inbox' = [inbox EXCEPT ![t].token = @ + 1]
    /\ work' = [work EXCEPT ![w] = [at |-> "claimed", task |-> t, inc |-> inbox[t].inc,
                                  token |-> inbox[t].token + 1, value |-> 0]]
    /\ UNCHANGED <<kind, prompts, outbox, results, heard, prunes, pruned>>
Removed(t) == [inbox EXCEPT ![t].queued = FALSE]
HoldsDelivery(w) == inbox[work[w].task].queued /\ inbox[work[w].task].token = work[w].token

\* The worker dies, or a call fails: the task is delivered again.
Abandon(w) ==
    /\ work[w] # IdleJob
    /\ work' = [work EXCEPT ![w] = IdleJob]
    /\ UNCHANGED <<kind, inbox, prompts, outbox, results, heard, prunes, pruned>>

-----------------------------------------------------------------------------
(***************************************************************************)
(* The interrupt store.                                                    *)
(***************************************************************************)
\* The first Await writes the prompt; until Resume the node ends as pending.
AwaitIn(w) ==
    LET t == work[w].task
        i == work[w].inc
        record == prompts[t][i] IN
    /\ work[w].at = "claimed"
    /\ IF record.status = "resumed"
       THEN /\ heard' = [heard EXCEPT ![t][i] = @ \cup {record.answer}]
            /\ \E n \in Noise : work' = [work EXCEPT ![w].at = "computed",
                   ![w].value = record.answer + n]
            /\ UNCHANGED prompts
       ELSE /\ prompts' = [prompts EXCEPT ![t][i].status = "pending"]
            /\ work' = [work EXCEPT ![w] = IdleJob]
            /\ UNCHANGED heard
    /\ UNCHANGED <<kind, inbox, outbox, results, prunes, pruned>>
MemoryAwait(w) == kind = "memory" /\ AwaitIn(w)
PostgresAwait(w) == kind # "memory" /\ AwaitIn(w)

\* Resume: one answer; the same one again is accepted, another is a conflict.
ResumeIn(t, i, a) ==
    /\ prompts[t][i].status = "pending"
    /\ prompts' = [prompts EXCEPT ![t][i] = [status |-> "resumed", answer |-> a]]
    /\ UNCHANGED <<kind, inbox, work, outbox, results, heard, prunes, pruned>>
MemoryResume(t, i, a) == kind = "memory" /\ ResumeIn(t, i, a)
PostgresResume(t, i, a) == kind # "memory" /\ ResumeIn(t, i, a)

PruneInterrupts ==
    LET Gone(t, i) == prompts[t][i].status = "resumed" IN
    /\ kind # "memory" /\ prunes < MaxPrunes
    /\ prompts' = [t \in Tasks |-> [i \in Incarnations |-> IF Gone(t, i) THEN NoPrompt
                                                           ELSE prompts[t][i]]]
    /\ pruned' = pruned \cup {<<"prompt", t>> : t \in {x \in Tasks : \E i \in Incarnations : Gone(x, i)}}
    /\ prunes' = prunes + 1
    /\ UNCHANGED <<kind, inbox, work, outbox, results, heard>>

-----------------------------------------------------------------------------
(***************************************************************************)
(* The outboxes.                                                           *)
(***************************************************************************)
RecordResult(w) ==
    /\ outbox' = [outbox EXCEPT ![work[w].task] = work[w].value]
    /\ results' = [results EXCEPT ![work[w].task][work[w].inc] = @ \cup {work[w].value}]

\* Commit: the first value stays, the same one again is a success, another one a
\* conflict that releases the task.
CommitIn(w) ==
    LET prior == outbox[work[w].task] IN
    /\ work[w].at = "computed"
    /\ \/ prior = 0 /\ RecordResult(w) /\ work' = [work EXCEPT ![w].at = "committed"]
       \/ prior = work[w].value /\ work' = [work EXCEPT ![w].at = "committed"]
            /\ UNCHANGED <<outbox, results>>
       \/ prior \notin {0, work[w].value} /\ work' = [work EXCEPT ![w] = IdleJob]
            /\ UNCHANGED <<outbox, results>>
    /\ UNCHANGED <<kind, inbox, prompts, heard, prunes, pruned>>
MemoryCommit(w) == kind = "memory" /\ CommitIn(w)
PostgresCommit(w) == kind = "postgres" /\ CommitIn(w)
\* The worker acknowledges only after Commit succeeded, with a lease it may have lost.
AckDelivery(w) ==
    /\ work[w].at = "committed"
    /\ inbox' = IF HoldsDelivery(w) THEN Removed(work[w].task) ELSE inbox
    /\ work' = [work EXCEPT ![w] = IdleJob]
    /\ UNCHANGED <<kind, prompts, outbox, results, heard, prunes, pruned>>

\* Mutant: a task that is gone is taken for acknowledged.
MissingAllowed(w, allowMissing) == HoldsDelivery(w) \/ ~inbox[work[w].task].queued
\* ackLeaseTx: the lease is current, or the task is gone and its result is known.
AckLeaseTx(w, allowMissing) == HoldsDelivery(w) \/ (allowMissing /\ ~inbox[work[w].task].queued)

\* Result and acknowledgement in one transaction, or neither.
LeasedCommit(w) ==
    LET t == work[w].task
        prior == outbox[t]
        ok == AckLeaseTx(w, prior # 0) /\ prior \in {0, work[w].value} IN
    /\ kind = "leased" /\ work[w].at = "computed"
    /\ IF ok /\ prior = 0 THEN RecordResult(w) ELSE UNCHANGED <<outbox, results>>
    /\ inbox' = IF ok /\ HoldsDelivery(w) THEN Removed(t) ELSE inbox
    /\ work' = [work EXCEPT ![w] = IdleJob]
    /\ UNCHANGED <<kind, prompts, heard, prunes, pruned>>

PruneOutbox ==
    /\ kind # "memory" /\ prunes < MaxPrunes
    /\ outbox' = [t \in Tasks |-> 0]
    /\ pruned' = pruned \cup {<<"outbox", t>> : t \in {x \in Tasks : outbox[x] # 0}}
    /\ prunes' = prunes + 1
    /\ UNCHANGED <<kind, inbox, work, prompts, results, heard>>

-----------------------------------------------------------------------------
OutboxNext ==
    \/ \E t \in Tasks : EnqueueIncarnation(t)
    \/ \E w \in Handlers, t \in Tasks : Deliver(w, t)
    \/ \E w \in Handlers :
          Abandon(w) \/ MemoryAwait(w) \/ PostgresAwait(w) \/ MemoryCommit(w) \/ PostgresCommit(w)
            \/ AckDelivery(w)
          \/ LeasedCommit(w)
    \/ \E t \in Tasks, i \in Incarnations, a \in Answers :
          MemoryResume(t, i, a) \/ PostgresResume(t, i, a)
    \/ PruneInterrupts \/ PruneOutbox

OutboxSpec == OutboxInit /\ [][OutboxNext]_boxVars

-----------------------------------------------------------------------------
(***************************************************************************)
(* Properties.                                                             *)
(***************************************************************************)
\* However often a task is delivered and by whomever it is answered, its prompt
\* has one answer and its outbox one result, that a task leaves the queue only
\* with.  Retention excepts prompts and plain outboxes from this, but not the
\* leased outbox: a late worker cannot commit for a task that is gone (Await,
\* Resume, Commit, ackLeaseTx).
CompletedOnce ==
    \A t \in Tasks, i \in Incarnations :
      /\ <<"prompt", t>> \notin pruned => Cardinality(heard[t][i]) <= 1
      /\ kind = "leased" \/ <<"outbox", t>> \notin pruned => Cardinality(results[t][i]) <= 1
      /\ (i < inbox[t].inc \/ (i = inbox[t].inc /\ ~inbox[t].queued)) =>
           UNION {results[t][j] : j \in 1 .. i} # {}
=============================================================================
