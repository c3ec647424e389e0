------------------------------ MODULE Subgraphs ------------------------------
(***************************************************************************)
(* A graph whose node is a subgraph, on one durable thread.                *)
(*                                                                         *)
(* The parent invokes the child Rounds times; an invocation asks one       *)
(* question if asks is TRUE, and then adds one token (the answer) to the   *)
(* child's state.  Parent and child checkpoints share the saver; their IDs *)
(* grow with time.  A stateless child has a namespace for every parent     *)
(* checkpoint, a stateful one keeps a single namespace, its history, for   *)
(* all invocations and all branches.  Callers start, resume, fork an       *)
(* interrupt of the history, replay a checkpoint of the history and update *)
(* the state; the process may die between any two writes.                  *)
(***************************************************************************)
EXTENDS Naturals, Sequences, FiniteSets, FiniteSetsExt, SequencesExt

CONSTANTS
    Kinds,          \* subset of {"stateful", "stateless"}
    Asks,           \* subset of BOOLEAN
    Rounds,
    MaxCheckpoints, \* bound: checkpoints of the thread
    MaxTokens,      \* bound: answers and results
    MaxEdits,       \* bound: replays, forks and updates
    MaxCrashes      \* bound

VARIABLES
    kind, asks,
    cps,      \* checkpoints of all namespaces in the order of their IDs
    run,      \* the run that holds the thread's lock
    tokens,   \* tokens so far
    edits,    \* replays, forks and updates so far
    crashes

vars == <<kind, asks, cps, run, tokens, edits, crashes>>

Root == <<>>
NoControl == [ns |-> Root, cp |-> 0]
\* pos counts the steps done; inv is invocation_parent_checkpoint; ctl, res, asked
\* and ans are pending writes: the control of an interrupted child, the result of the
\* subgraph's task, the child's interrupt and its resume value.  given is a record of
\* the resume values that were supplied while the checkpoint was the one to resume;
\* way records how a branch point was made, and below the checkpoint that the run of a
\* child's invocation was given by name.
Checkpoint(ns, parent, src, pos, val) ==
    [ns |-> ns, parent |-> parent, src |-> src, pos |-> pos, val |-> val, inv |-> 0,
     ctl |-> NoControl, res |-> <<>>, asked |-> FALSE, ans |-> 0, given |-> {}, way |-> "plain",
     below |-> 0]

Idle == [at |-> "idle", root |-> 0, child |-> 0, ns |-> Root, resuming |-> FALSE,
         bound |-> 0, fresh |-> FALSE, from |-> 0, out |-> <<>>, again |-> FALSE]

Init ==
    /\ kind \in Kinds /\ asks \in Asks
    /\ cps = <<>> /\ run = Idle /\ tokens = 0 /\ edits = 0 /\ crashes = 0

In(ns) == {i \in DOMAIN cps : cps[i].ns = ns}
Newest(ids) == IF ids = {} THEN 0 ELSE Max(ids)
Latest(ns) == Newest(In(ns))
Top == Latest(Root)
Free == run.at = "idle"
Edit == edits < MaxEdits /\ edits' = edits + 1
Room(n) == Len(cps) + n <= MaxCheckpoints

At(r) == [Idle EXCEPT !.at = "step", !.root = r]
-----------------------------------------------------------------------------
(***************************************************************************)
(* Calls of the parent.                                                    *)
(***************************************************************************)
\* Invoke: a new thread, a new run of a completed one (NewRun), or the recovery of
\* the latest checkpoint.
Invoke ==
    /\ Free /\ Room(1)
    /\ \/ /\ ~(Top # 0 /\ cps[Top].pos < Rounds)
          /\ cps' = Append(cps, Checkpoint(Root, Top, "input", 0, <<>>))
          /\ run' = At(Len(cps) + 1)
       \/ /\ Top # 0 /\ cps[Top].pos < Rounds
          /\ run' = At(Top) /\ UNCHANGED cps
    /\ UNCHANGED <<kind, asks, tokens, edits, crashes>>

\* Invoke with NewRun and the name of a completed checkpoint.
NewRunAt(p) ==
    /\ Free /\ Edit /\ Room(1) /\ p \in In(Root) /\ cps[p].pos = Rounds
    /\ cps' = Append(cps, [Checkpoint(Root, p, "input", 0, <<>>)
                             EXCEPT !.way = IF p = Top THEN "plain" ELSE "replay"])
    /\ run' = [At(Len(cps) + 1) EXCEPT !.bound = p]
    /\ UNCHANGED <<kind, asks, tokens, crashes>>

\* Invoke with the name of a checkpoint.  The latest one is recovered.  For one of the
\* history recorded results and controls are not used, and a checkpoint that is not a
\* branch point yet is forked.  Every later step of the run keeps the bound.
Replay(p) ==
    /\ Free /\ Edit /\ Room(1) /\ p \in In(Root) /\ cps[p].pos < Rounds
    /\ IF p = Top
       THEN run' = [At(p) EXCEPT !.bound = p] /\ UNCHANGED cps
       ELSE IF cps[p].src \in {"update", "fork"}
       THEN /\ cps' = [cps EXCEPT ![p].way = "replay"]
            /\ run' = [At(p) EXCEPT !.bound = p, !.fresh = TRUE]
       ELSE /\ cps' = Append(cps, [Checkpoint(Root, p, "fork", cps[p].pos, cps[p].val)
                                        EXCEPT !.way = "replay"])
            /\ run' = [At(Len(cps) + 1) EXCEPT !.bound = p]
    /\ UNCHANGED <<kind, asks, tokens, crashes>>

\* The interrupts that walkControls finds: those of the exact child of the control.
Pending(r) == cps[r].ctl.cp # 0 /\ cps[cps[r].ctl.cp].asked /\ cps[cps[r].ctl.cp].ans = 0
\* The interrupts that GetState reports for the task.
Reported(r) == cps[r].ctl.cp # 0 /\ cps[r].res = <<>>

\* resumeInternal: the answer is written to the child's checkpoint, then the run
\* continues with resuming set, and with a bound when the caller named the latest
\* checkpoint.
Resume(named) ==
    LET c == cps[Top].ctl.cp IN
    /\ Free /\ Top # 0 /\ Pending(Top) /\ tokens < MaxTokens
    /\ cps' = [cps EXCEPT ![c].ans = tokens + 1, ![Top].given = @ \cup {tokens + 1}]
    /\ tokens' = tokens + 1
    /\ run' = [At(Top) EXCEPT !.resuming = TRUE, !.bound = IF named THEN Top ELSE 0]
    /\ IF named THEN Edit ELSE UNCHANGED edits
    /\ UNCHANGED <<kind, asks, crashes>>

\* validateInterruptFork: the exact child still holds the interrupt.
Forkable(p) == p \in In(Root) /\ cps[p].ctl.cp # 0 /\ cps[cps[p].ctl.cp].asked
\* ResumeFork, Resume at a checkpoint of the history, or InvokeCommand with an update
\* (which changes the parent's own state only): the fork of the parent, the
\* copy of the child, the writes of the copy without its resume values, and the
\* control of the fork are four writes.
ResumeFork(p) ==
    /\ Free /\ Edit /\ Room(3) /\ Forkable(p) /\ tokens < MaxTokens
    /\ cps' = Append(cps, [Checkpoint(Root, p, "fork", cps[p].pos, cps[p].val) EXCEPT !.way = "torn"])
    /\ run' = [At(Len(cps) + 1) EXCEPT !.at = "forking", !.from = cps[p].ctl.cp]
    /\ UNCHANGED <<kind, asks, tokens, crashes>>
CloneChild ==
    LET from == cps[run.from]
        ns == IF kind = "stateful" THEN from.ns ELSE <<run.root>> IN
    /\ run.at = "forking"
    /\ cps' = Append(cps, [Checkpoint(ns, IF ns = from.ns THEN run.from ELSE 0,
                                      "fork", from.pos, from.val)
                             EXCEPT !.inv = run.root, !.below = from.below])
    /\ run' = [run EXCEPT !.at = "copying", !.child = Len(cps) + 1, !.ns = ns]
    /\ UNCHANGED <<kind, asks, tokens, edits, crashes>>
CloneWrites ==
    /\ run.at = "copying"
    /\ cps' = [cps EXCEPT ![run.child].asked = TRUE]
    /\ run' = [run EXCEPT !.at = "recording"]
    /\ UNCHANGED <<kind, asks, tokens, edits, crashes>>
ForkControl ==
    /\ run.at = "recording"
    /\ cps' = [cps EXCEPT ![run.root].ctl = [ns |-> run.ns, cp |-> run.child],
           ![run.root].way = cps[cps[run.root].parent].way]
    /\ run' = [run EXCEPT !.at = "forked"]
    /\ UNCHANGED <<kind, asks, tokens, edits, crashes>>
\* The rest of resumeInternal for the fork; a copy that holds an answer already has
\* nothing to resume.
ResumeForked ==
    /\ run.at = "forked"
    /\ IF Pending(run.root)
       THEN /\ cps' = [cps EXCEPT ![run.child].ans = tokens + 1, ![run.root].given = @ \cup {tokens + 1}]
            /\ tokens' = tokens + 1
            /\ run' = [At(run.root) EXCEPT !.resuming = TRUE]
       ELSE run' = Idle /\ UNCHANGED <<cps, tokens>>
    /\ UNCHANGED <<kind, asks, edits, crashes>>

\* UpdateState as the subgraph's node: a new head that routes as if the node had run.
UpdateState(p) ==
    /\ Free /\ Edit /\ Room(1) /\ p \in In(Root) /\ cps[p].pos < Rounds
    /\ cps' = Append(cps, [Checkpoint(Root, p, "update", cps[p].pos + 1, cps[p].val)
                             EXCEPT !.way = IF p = Top THEN "plain" ELSE "rewritten"])
    /\ UNCHANGED <<kind, asks, run, tokens, crashes>>
\* BulkUpdateState: one checkpoint for each artificial step, on a thread that may be
\* new; the process may die between two of them.
BulkUpdateState(p) ==
    LET done == IF p = 0 THEN 0 ELSE cps[p].pos IN
    /\ Free /\ Edit /\ Room(2) /\ (p = 0 => Top = 0) /\ done + 2 <= Rounds
    /\ cps' = Append(cps, [Checkpoint(Root, p, "update", done + 1, IF p = 0 THEN <<>> ELSE cps[p].val)
                             EXCEPT !.way = IF p = Top THEN "plain" ELSE "rewritten"])
    /\ run' = [Idle EXCEPT !.at = "bulk", !.root = Len(cps) + 1]
    /\ UNCHANGED <<kind, asks, tokens, crashes>>
BulkNext ==
    LET p == run.root IN
    /\ run.at = "bulk"
    /\ cps' = Append(cps, Checkpoint(Root, p, "update", cps[p].pos + 1, cps[p].val))
    /\ run' = Idle
    /\ UNCHANGED <<kind, asks, tokens, edits, crashes>>

-----------------------------------------------------------------------------
(***************************************************************************)
(* One step of the parent: the subgraph's task.                            *)
(***************************************************************************)
StatefulNs == <<0>>
\* Mutant: the current invocation of a stateful child is not recognised.
ForgetCurrent(r) == FALSE
\* invoke: the newest checkpoint of a stateful child belongs to this invocation.
CurrentInvocation(r) == Latest(StatefulNs) # 0 /\ cps[Latest(StatefulNs)].inv = r
\* Otherwise the retained state is the newest one below the parent's checkpoint, or
\* below the replayed checkpoint.
Retained(r) == Newest({c \in In(StatefulNs) : c < (IF run.bound # 0 THEN run.bound ELSE r)})

\* The named checkpoint counts when the child has a checkpoint below it: without one
\* the child begins at its latest checkpoint.
Cut == IF \E c \in In(StatefulNs) : c < run.bound THEN run.bound ELSE 0

\* The namespace, checkpoint and NewRun of the child's run.
ChildConfig(r) ==
    IF run.resuming /\ cps[r].ctl.cp # 0
    THEN [ns |-> cps[r].ctl.ns, id |-> cps[r].ctl.cp, new |-> kind = "stateful" /\ ~CurrentInvocation(r)]
    ELSE IF kind = "stateless" THEN [ns |-> <<r>>, id |-> 0, new |-> FALSE]
    ELSE [ns |-> StatefulNs, id |-> IF CurrentInvocation(r) THEN 0 ELSE Retained(r),
          new |-> ~CurrentInvocation(r)]

\* initializeRun of the child.
ChildBegin ==
    LET r == run.root
        f == ChildConfig(r)
        c == IF f.id = 0 THEN Latest(f.ns) ELSE f.id
        On(id, again) == run' = [run EXCEPT !.at = "child", !.child = id, !.ns = f.ns, !.again = again]
        Put(parent, src, val) ==
            /\ Room(2)
            /\ cps' = Append(cps, [Checkpoint(f.ns, parent, src, 0, val)
                                     EXCEPT !.inv = r, !.below = Cut])
            /\ On(Len(cps) + 1, FALSE)
    IN
    /\ run.at = "step" /\ run.out = <<>> /\ (cps[r].res = <<>> \/ run.fresh)
    /\ IF c = 0 THEN Put(0, "input", <<>>)
       ELSE IF f.new /\ cps[c].pos = 1 THEN Put(c, "input", cps[c].val)
       ELSE IF f.id \in {0, Latest(f.ns)} \/ run.resuming THEN On(c, FALSE) /\ UNCHANGED cps
       ELSE IF cps[c].src \in {"update", "fork"} THEN On(c, TRUE) /\ UNCHANGED cps
       ELSE Put(c, "fork", cps[c].val)
    /\ UNCHANGED <<kind, asks, tokens, edits, crashes>>

\* AwaitResume without an answer; the child's run returns the interrupt.
ChildAsk ==
    LET c == cps[run.child] IN
    /\ run.at = "child" /\ asks /\ c.pos = 0 /\ (c.ans = 0 \/ run.again)
    /\ cps' = [cps EXCEPT ![run.child].asked = TRUE, ![run.child].ans = 0]
    /\ run' = [run EXCEPT !.at = "asked"]
    /\ UNCHANGED <<kind, asks, tokens, edits, crashes>>
\* The control of the task names the latest checkpoint of the child's namespace.
RecordControl ==
    /\ run.at = "asked"
    /\ cps' = [cps EXCEPT ![run.root].ctl = [ns |-> run.ns, cp |-> Latest(run.ns)]]
    /\ run' = Idle
    /\ UNCHANGED <<kind, asks, tokens, edits, crashes>>

Nearest(a, b) == IF a = 0 \/ b = 0 THEN a + b ELSE Min({a, b})
ChildCommit ==
    LET c == cps[run.child]
        token == IF asks THEN c.ans ELSE tokens + 1 IN
    /\ run.at = "child" /\ c.pos = 0 /\ Room(2) /\ token <= MaxTokens
    /\ asks => c.ans # 0 /\ ~run.again
    /\ cps' = Append(cps, [Checkpoint(run.ns, run.child, "loop", 1, Append(c.val, token))
           EXCEPT !.inv = run.root, !.below = Nearest(c.below, Cut)])
    /\ tokens' = IF asks THEN tokens ELSE token
    /\ run' = [run EXCEPT !.child = Len(cps) + 1]
    /\ UNCHANGED <<kind, asks, edits, crashes>>

\* The child is complete: its output is the result of the task; a saver keeps the
\* first result that it is given.
RecordResult ==
    /\ run.at = "child" /\ cps[run.child].pos = 1
    /\ cps' = [cps EXCEPT ![run.root].res = IF @ = <<>> THEN cps[run.child].val ELSE @]
    /\ run' = [run EXCEPT !.at = "step", !.out = cps[run.child].val]
    /\ UNCHANGED <<kind, asks, tokens, edits, crashes>>

\* The commit; the run goes on with the next step, or ends.
ParentCommit ==
    LET r == run.root
        out == IF run.out = <<>> /\ ~run.fresh THEN cps[r].res ELSE run.out IN
    /\ run.at = "step" /\ out # <<>> /\ Room(1)
    /\ cps' = Append(cps, Checkpoint(Root, r, "loop", cps[r].pos + 1, out))
    /\ run' = IF cps[r].pos + 1 = Rounds THEN Idle
              ELSE [run EXCEPT !.root = Len(cps) + 1, !.child = 0, !.out = <<>>, !.fresh = FALSE]
    /\ UNCHANGED <<kind, asks, tokens, edits, crashes>>

Crash ==
    /\ ~Free /\ crashes < MaxCrashes
    /\ run' = Idle /\ crashes' = crashes + 1
    /\ UNCHANGED <<kind, asks, cps, tokens, edits>>

Next ==
    \/ Invoke \/ BulkNext
    \/ \E named \in BOOLEAN : Resume(named)
    \/ \E p \in In(Root) \cup {0} : BulkUpdateState(p)
    \/ \E p \in In(Root) : NewRunAt(p) \/ Replay(p) \/ ResumeFork(p) \/ UpdateState(p)
    \/ CloneChild \/ CloneWrites \/ ForkControl \/ ResumeForked
    \/ ChildBegin \/ ChildAsk \/ RecordControl \/ ChildCommit \/ RecordResult \/ ParentCommit
    \/ Crash

Spec == Init /\ [][Next]_vars

-----------------------------------------------------------------------------
(***************************************************************************)
(* Properties.                                                             *)
(***************************************************************************)
\* The parent checkpoints of a branch: a fork takes the place of the checkpoint that
\* it repeats.
Lines ==
    LET up[i \in 0 .. Len(cps)] ==
            IF i = 0 THEN {}
            ELSE {i} \cup (IF cps[i].src = "fork" THEN up[cps[i].parent] \ {cps[i].parent}
                           ELSE up[cps[i].parent])
    IN  up

\* How the branch of a child's checkpoint came about.
Ways(c) == {cps[r].way : r \in Lines[cps[c].inv]}

\* No checkpoint of the history was replayed or updated, and no fork died before the
\* child was copied: such a call leaves its invocation in the one namespace of a
\* stateful child, where the other branches find it.
HistoryKept == \A r \in In(Root) : cps[r].way = "plain"

Done(ns) == {c \in In(ns) : cps[c].pos = 1}
Token(c) == Last(cps[c].val)
\* The tokens of the invocations on a branch up to c, in order.
BranchTokens(c) ==
    LET on == {d \in Done(StatefulNs) : d <= c /\ cps[d].inv \in Lines[cps[c].inv]}
    IN  [i \in 1 .. Cardinality(on) |-> Token(SetToSortSeq(on, <)[i])]

\* The memory of the invocations: that of the newest invocation of the branch that
\* was complete before the checkpoint named to the run, and the own token.
BranchMemory ==
    LET memory[c \in Done(StatefulNs)] ==
            LET before == {d \in Done(StatefulNs) :
                              /\ d < c /\ cps[d].inv \in Lines[cps[c].inv]
                              /\ cps[c].below = 0 \/ d < cps[c].below}
            IN  Append(IF before = {} THEN <<>> ELSE memory[Max(before)], Token(c))
    IN  memory

\* The state that a stateful child retains is the one its own branch built: each
\* invocation finds the token of every earlier invocation of the branch, once, and of
\* no other, through interrupts, crashes, new runs, manual updates and forks of
\* interrupts (the choice of the child's checkpoint in invoke, cloneInterruptedTuple).
\* In a run that was given its checkpoint by name, the latest one included, every
\* invocation starts from the memory before that checkpoint: it does not see what the
\* earlier steps of the run added, and what it sees is its branch's own only on a thread
\* without forks.  A stateful child does not keep its branches apart on a thread without
\* HistoryKept.
MemoryFollowsBranch ==
    HistoryKept => \A c \in Done(StatefulNs) :
        /\ (\A d \in Done(StatefulNs) : d <= c => cps[d].below = 0) => cps[c].val = BranchTokens(c)
        /\ (\A r \in In(Root) : cps[r].src # "fork") => cps[c].val = BranchMemory[c]

\* A nested invocation continues with an answer that was given to its branch, and no
\* branch uses an answer twice (resumeInternal, forkInterrupt, cloneInterruptedTuple);
\* an interrupt that can still be answered is one that GetState reports.  For a
\* stateful child the threads are those of MemoryFollowsBranch.
NestedAnswersOwned ==
    /\ \A c \in DOMAIN cps \ In(Root) :
          asks /\ cps[c].pos = 1 /\ (kind = "stateful" => HistoryKept) =>
              /\ \E r \in Lines[cps[c].inv] : Token(c) \in cps[r].given
              /\ IsInjective(cps[c].val)
    /\ Free /\ Top # 0 => (Pending(Top) => Reported(Top))

\* A replay from a checkpoint of the history cannot read state that the child reached
\* after it.
ReplayCannotReadFutureChildState ==
    \A c \in Done(StatefulNs) :
        Ways(c) \subseteq {"plain", "replay"} => Range(cps[c].val) \subseteq Range(BranchTokens(c))
=============================================================================
