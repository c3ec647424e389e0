----------------------------- MODULE ExitBuffer ------------------------------
(***************************************************************************)
(* DurabilityExit: exitBufferSaver (graph/exit_saver.go) under the runs of *)
(* one thread.  A graph run in the Root namespace drives a stateful        *)
(* subgraph in the Child namespace; both save through one buffer, which    *)
(* Flush publishes to the base saver call by call when the run returns.    *)
(*                                                                         *)
(* Checkpoint IDs grow with time.  Pending writes are abstracted to their  *)
(* kind and, for a subgraph control, the child checkpoint it names.        *)
(***************************************************************************)
EXTENDS Naturals, Sequences, FiniteSets, FiniteSetsExt, SequencesExt

CONSTANTS
    Root, Child,    \* the two checkpoint namespaces
    MaxID,          \* bound on checkpoint IDs
    MaxRuns         \* bound on runs

ASSUME ExitAssumption ==
    /\ Root # Child
    /\ MaxID \in Nat
    /\ MaxRuns \in Nat

None == 0
IDs == 1 .. MaxID
Scopes == {Root, Child}

\* ref is the child checkpoint of a subgraph control, None otherwise.
Write == [kind: {"result", "interrupt", "subgraph"}, ref: IDs \cup {None}]
Plain(kind) == [kind |-> kind, ref |-> None]
Control(id) == [kind |-> "subgraph", ref |-> id]

\* inv is a child checkpoint's invocation_parent_checkpoint metadata: the root
\* checkpoint under which the subgraph was invoked.
Stored == [scope: Scopes, parent: IDs \cup {None}, inv: IDs \cup {None}]

VARIABLES
    base,       \* the base saver's checkpoints, by ID
    baseWrites, \* and their pending writes
    ids,        \* IDs generated so far
    drafts,     \* exitBufferSaver.drafts of the current run
    writes,     \* exitBufferSaver.writes, by checkpoint ID
    latestID,   \* exitBufferSaver.latestID, by scope
    baseParent, \* exitBufferSaver.baseParent, by scope in scopeOrder
    scopeOrder, \* exitBufferSaver.scopeOrder
    phase,      \* "idle", "running", "flushing", "flushed" or "failed"
    cur,        \* the current checkpoint of each namespace's run
    boundaries, \* what Flush has still to publish
    runs        \* runs so far

buffer == <<drafts, writes, latestID, baseParent, scopeOrder>>
vars == <<base, baseWrites, ids, buffer, phase, cur, boundaries, runs>>

TypeOK ==
    /\ DOMAIN base \subseteq IDs /\ base \in [DOMAIN base -> Stored]
    /\ baseWrites \in [IDs -> SUBSET Write]
    /\ ids \in 0 .. MaxID
    /\ DOMAIN drafts \subseteq IDs /\ drafts \in [DOMAIN drafts -> Stored]
    /\ writes \in [IDs -> SUBSET Write]
    /\ latestID \in [Scopes -> IDs \cup {None}]
    /\ DOMAIN baseParent = ToSet(scopeOrder)
    /\ \A s \in DOMAIN baseParent : baseParent[s] \in IDs \cup {None}
    /\ IsInjective(scopeOrder)
    /\ phase \in {"idle", "running", "flushing", "flushed", "failed"}
    /\ cur \in [Scopes -> IDs \cup {None}]
    /\ Len(boundaries) <= Cardinality(Scopes)
    /\ runs \in 0 .. MaxRuns

\* The base saver's latest checkpoint of a namespace.
Latest(s) == Max({id \in DOMAIN base : base[id].scope = s} \cup {None})

\* exitBufferSaver.GetTuple without an ID, and with one: drafts come first.
LatestSeen(s) == IF latestID[s] # None THEN latestID[s] ELSE Latest(s)
TupleAt(id) == IF id \in DOMAIN drafts THEN drafts[id] ELSE base[id]

Init ==
    /\ base = [id \in {} |-> None]
    /\ baseWrites = [id \in IDs |-> {}]
    /\ ids = 0
    /\ drafts = [id \in {} |-> None]
    /\ writes = [id \in IDs |-> {}]
    /\ latestID = [s \in Scopes |-> None]
    /\ baseParent = [s \in {} |-> None]
    /\ scopeOrder = <<>>
    /\ phase = "idle"
    /\ cur = [s \in Scopes |-> None]
    /\ boundaries = <<>>
    /\ runs = 0

-----------------------------------------------------------------------------
\* Mutant: the parent of the last checkpoint.
ParentOfLast(s, parent) ==
    [x \in DOMAIN baseParent \cup {s} |-> IF x = s THEN parent ELSE baseParent[x]]

\* The parent of the first checkpoint a run puts in a scope is the base saver's.
FirstParent(s, parent) ==
    [x \in DOMAIN baseParent \cup {s} |->
        IF x \in DOMAIN baseParent THEN baseParent[x] ELSE parent]

\* Scopes are remembered in the order of their first Put.
NextScopeOrder(s) ==
    IF s \in DOMAIN baseParent THEN scopeOrder ELSE Append(scopeOrder, s)

\* exitBufferSaver.Put with a fresh ID; the run continues at it.  A new root
\* checkpoint ends the subgraph's invocation.
Put(s, parent, inv) ==
    /\ ids < MaxID
    /\ ids' = ids + 1
    /\ drafts' = [id \in DOMAIN drafts \cup {ids'} |->
          IF id = ids' THEN [scope |-> s, parent |-> parent, inv |-> inv] ELSE drafts[id]]
    /\ latestID' = [latestID EXCEPT ![s] = ids']
    /\ baseParent' = FirstParent(s, parent)
    /\ scopeOrder' = NextScopeOrder(s)
    /\ cur' = [x \in Scopes |-> IF x = s THEN ids' ELSE IF s = Root THEN None ELSE cur[x]]
    /\ UNCHANGED writes

\* newExitBufferSaver.
NewBuffer ==
    /\ drafts' = [id \in {} |-> None]
    /\ writes' = [id \in IDs |-> {}]
    /\ latestID' = [s \in Scopes |-> None]
    /\ baseParent' = [s \in {} |-> None]
    /\ scopeOrder' = <<>>

\* A client invokes the graph: a new saver wraps the base saver.
NewSaver ==
    /\ phase \in {"idle", "flushed", "failed"}
    /\ runs < MaxRuns
    /\ runs' = runs + 1
    /\ phase' = "idle"
    /\ NewBuffer
    /\ boundaries' = <<>>
    /\ cur' = [s \in Scopes |-> None]
    /\ UNCHANGED <<base, baseWrites, ids>>

\* initializeRun on a new thread, or NewRun on an old one: the input checkpoint.
StartWithInput ==
    /\ phase = "idle"
    /\ runs > 0
    /\ phase' = "running"
    /\ Put(Root, Latest(Root), None)
    /\ UNCHANGED <<base, baseWrites, boundaries, runs>>

\* initializeRun of an unfinished thread: it goes on at the latest checkpoint.
InvokeAtLatest ==
    /\ phase = "idle"
    /\ runs > 0
    /\ Latest(Root) # None
    /\ phase' = "running"
    /\ cur' = [cur EXCEPT ![Root] = Latest(Root)]
    /\ UNCHANGED <<base, baseWrites, ids, buffer, boundaries, runs>>

\* Resume of an interrupted thread walks its controls in the base saver first, and
\* fails when a child checkpoint is not there; the subgraph goes on at the one its
\* control names.
Resume ==
    LET controls == {w \in baseWrites[Latest(Root)] : w.kind # "result"}
        named == {w.ref : w \in controls} \ {None}
    IN  /\ phase = "idle"
        /\ runs > 0
        /\ Latest(Root) # None
        /\ controls # {}
        /\ named \subseteq DOMAIN base
        /\ phase' = "running"
        /\ cur' = [cur EXCEPT ![Root] = Latest(Root), ![Child] = Max(named \cup {None})]
        /\ UNCHANGED <<base, baseWrites, ids, buffer, boundaries, runs>>

\* The subgraph node runs: an invocation this root checkpoint already started
\* goes on where it was.  Otherwise the child is a new run from the child's last
\* checkpoint before the root's (List before the upper bound; without one, the
\* latest): a finished one gets an input checkpoint, a historical unfinished one
\* a fork, and one that is unfinished or already a fork is executed in place.
ChildStart ==
    LET latest == LatestSeen(Child)
        children == {id \in DOMAIN drafts \cup DOMAIN base : TupleAt(id).scope = Child}
        previous == Max({id \in children : id < cur[Root]} \cup {None})
        selected == IF previous # None THEN previous ELSE latest
        current == latest # None /\ TupleAt(latest).inv = cur[Root]
    IN  /\ phase = "running"
        /\ cur[Child] = None
        /\ \/ /\ current
              /\ cur' = [cur EXCEPT ![Child] = latest]
              /\ UNCHANGED <<ids, buffer>>
           \/ /\ ~current
              /\ Put(Child, selected, cur[Root])
           \/ /\ ~current
              /\ selected # None
              /\ cur' = [cur EXCEPT ![Child] = selected]
              /\ UNCHANGED <<ids, buffer>>
        /\ UNCHANGED <<base, baseWrites, phase, boundaries, runs>>

\* The subgraph's run commits a super-step.
ChildCommit ==
    /\ phase = "running"
    /\ cur[Child] # None
    /\ Put(Child, cur[Child], cur[Root])
    /\ UNCHANGED <<base, baseWrites, phase, boundaries, runs>>

\* The root run commits a super-step.
RootCommit ==
    /\ phase = "running"
    /\ Put(Root, cur[Root], None)
    /\ UNCHANGED <<base, baseWrites, phase, boundaries, runs>>

\* PutWrites is buffered under the checkpoint it names, draft or not.
Buffered(id, w) == [writes EXCEPT ![id] = @ \cup {w}]

\* A node of either run records its result.
RecordResult(s) ==
    /\ phase = "running"
    /\ cur[s] # None
    /\ writes' = Buffered(cur[s], Plain("result"))
    /\ UNCHANGED <<base, baseWrites, ids, drafts, latestID, baseParent, scopeOrder,
                   phase, cur, boundaries, runs>>

\* The boundary of a scope that Flush publishes.
BoundaryOf(s, ws) ==
    [id |-> latestID[s], parent |-> baseParent[s], writes |-> ws[latestID[s]]]

\* The scopes in reverse order of their first Put.
FlushOrder(ws) ==
    [i \in DOMAIN scopeOrder |-> BoundaryOf(scopeOrder[Len(scopeOrder) + 1 - i], ws)]

\* The run returns without an interrupt: it completed, or it failed.  The
\* deferred Flush takes the boundaries under the saver's mutex.
ReturnFromRun ==
    /\ phase = "running"
    /\ phase' = "flushing"
    /\ boundaries' = FlushOrder(writes)
    /\ UNCHANGED <<base, baseWrites, ids, buffer, cur, runs>>

\* A node of the root graph interrupts and the run returns.
Interrupt ==
    /\ phase = "running"
    /\ writes' = Buffered(cur[Root], Plain("interrupt"))
    /\ phase' = "flushing"
    /\ boundaries' = FlushOrder(writes')
    /\ UNCHANGED <<base, baseWrites, ids, drafts, latestID, baseParent, scopeOrder,
                   cur, runs>>

\* A node of the subgraph interrupts; the root run records a control that names
\* the subgraph namespace's latest checkpoint and returns.
InterruptChild ==
    /\ phase = "running"
    /\ cur[Child] # None
    /\ writes' = [Buffered(cur[Child], Plain("interrupt")) EXCEPT
                     ![cur[Root]] = @ \cup {Control(LatestSeen(Child))}]
    /\ phase' = "flushing"
    /\ boundaries' = FlushOrder(writes')
    /\ UNCHANGED <<base, baseWrites, ids, drafts, latestID, baseParent, scopeOrder,
                   cur, runs>>

-----------------------------------------------------------------------------
\* Flush publishes the next boundary: Put, then PutWrites if it has writes.
\* It looks the parent up first and fails (Fail) when it is not there.
FlushPut ==
    /\ phase = "flushing"
    /\ boundaries # <<>>
    /\ LET b == Head(boundaries)
       IN  /\ b.id \notin DOMAIN base
           /\ b.parent \in DOMAIN base \cup {None}
           /\ base' = [id \in DOMAIN base \cup {b.id} |->
                 IF id = b.id THEN [drafts[b.id] EXCEPT !.parent = b.parent]
                 ELSE base[id]]
           /\ boundaries' = IF b.writes = {} THEN Tail(boundaries) ELSE boundaries
    /\ UNCHANGED <<baseWrites, ids, buffer, phase, cur, runs>>

FlushWrites ==
    /\ phase = "flushing"
    /\ boundaries # <<>>
    /\ LET b == Head(boundaries)
       IN  /\ b.id \in DOMAIN base
           /\ baseWrites' = [baseWrites EXCEPT ![b.id] = @ \cup b.writes]
           /\ boundaries' = Tail(boundaries)
    /\ UNCHANGED <<base, ids, buffer, phase, cur, runs>>

FlushDone ==
    /\ phase = "flushing"
    /\ boundaries = <<>>
    /\ phase' = "flushed"
    /\ UNCHANGED <<base, baseWrites, ids, buffer, cur, boundaries, runs>>

\* A base saver call of Flush fails, or the process dies at any moment.
Fail ==
    /\ phase \in {"running", "flushing"}
    /\ phase' = "failed"
    /\ UNCHANGED <<base, baseWrites, ids, buffer, cur, boundaries, runs>>

Next ==
    \/ NewSaver \/ StartWithInput \/ InvokeAtLatest \/ Resume
    \/ ChildStart \/ ChildCommit \/ RootCommit \/ \E s \in Scopes : RecordResult(s)
    \/ ReturnFromRun \/ Interrupt \/ InterruptChild
    \/ FlushPut \/ FlushWrites \/ FlushDone \/ Fail

Spec == Init /\ [][Next]_vars

-----------------------------------------------------------------------------
\* After a flush without error the base saver's latest checkpoint of every
\* namespace the run advanced is the run's own latest, with the writes recorded
\* for it: what sync durability would recover from (Flush).
BoundaryPublished ==
    phase = "flushed" =>
        \A s \in ToSet(scopeOrder) :
            /\ latestID[s] = Latest(s)
            /\ writes[latestID[s]] \subseteq baseWrites[latestID[s]]

\* Flush finds the parent of every boundary it has still to publish in the base
\* saver (it fails with ErrNotFound otherwise), and so does a later reader of
\* what is stored: no parent exists only in a run's memory, wherever an earlier
\* flush stopped and wherever a subgraph went on (Put keeps the first baseParent).
FlushFindsParents ==
    /\ \A i \in DOMAIN boundaries : boundaries[i].parent \in DOMAIN base \cup {None}
    /\ \A id \in DOMAIN base : base[id].parent \in DOMAIN base \cup {None}

\* A flush publishes each namespace's latest boundary under a parent that is
\* stored, whatever failed in an earlier one (Flush).
FlushSound == TypeOK /\ BoundaryPublished /\ FlushFindsParents

\* "interrupts and failed super-steps flush recovery boundaries"
\* (DURABILITY.md): what the run recorded at its current checkpoint is stored
\* when the flush returns without error.
RecoveryBoundaryFlushed ==
    phase = "flushed" => writes[cur[Root]] \subseteq baseWrites[cur[Root]]
=============================================================================
