------------------------------ MODULE Channels -------------------------------
(***************************************************************************)
(* The channel primitives of the package channel, held by a super-step     *)
(* loop that saves them between steps and may be restarted from what it    *)
(* saved.  The loop is the package's caller: it applies the writes of a    *)
(* step in one Update, drops a channel whose Update failed, and keeps the  *)
(* writes of a delta channel since its last materialized value.            *)
(*                                                                         *)
(* A channel is a value and the finished flag of the gated kinds.  A       *)
(* channel of one value holds a sequence of at most one (empty: not        *)
(* present); the operator of an aggregate and the reducer of a delta       *)
(* channel append, so that what was applied, and in which order, can be    *)
(* read off the value; a barrier holds the set of names it has seen.       *)
(***************************************************************************)
EXTENDS Naturals, Sequences, FiniteSets, SequencesExt

CONSTANTS
    BarrierNames,
    ChannelWrites,       \* the writes of a step: sequences of [v, overwrite]
    SnapshotFrequency,
    MaxChannelEvents

Values == UNION {{w[i].v : i \in DOMAIN w} : w \in ChannelWrites}
ASSUME ChannelAssumption == ChannelWrites \subseteq Seq([v: Values, overwrite: BOOLEAN])

VARIABLES
    chanKind,
    chan,       \* the channel in memory: [value, finished]
    chanFailed, \* its last Update returned an error
    log,        \* a delta channel's steps since its last materialized value
    disk,       \* what the loop saved: [snapshot, base, log, hist]
    hist        \* the operations that took effect: [op, w]

channelVars == <<chanKind, chan, chanFailed, log, disk, hist>>

LatestKinds == {"last", "untracked", "guardedUntracked", "lastAfterFinish"}
StepKinds == {"any", "ephemeral", "guardedEphemeral"}
Barriers == {"barrier", "barrierAfterFinish"}
Overwritable == {"aggregate", "delta"}
Kinds == LatestKinds \cup StepKinds \cup Barriers \cup Overwritable \cup {"topic", "accumulating"}

Untracked == {"untracked", "guardedUntracked"}
NewChannel(kind) == [value |-> IF kind \in Barriers THEN {} ELSE <<>>, finished |-> FALSE]

Vals(w) == [i \in DOMAIN w |-> w[i].v]
Overwrites(w) == {i \in DOMAIN w : w[i].overwrite}
FirstOf(S) == CHOOSE i \in S : \A j \in S : i <= j
LastOf(S) == CHOOSE i \in S : \A j \in S : i >= j
LastWrite(w) == IF w = <<>> THEN <<>> ELSE <<Last(w).v>>

-----------------------------------------------------------------------------
(***************************************************************************)
(* Update of each kind: when it fails, and the channel that it leaves.     *)
(***************************************************************************)
UpdateFails(w) ==
    \/ chanKind \in {"last", "guardedEphemeral", "guardedUntracked"} /\ Len(w) > 1
    \/ chanKind \in Overwritable /\ Cardinality(Overwrites(w)) > 1
    \/ chanKind \in Barriers /\ \E i \in DOMAIN w : w[i].v \notin BarrierNames

LastValueUpdate(c, w) == IF Len(w) = 1 THEN [c EXCEPT !.value = LastWrite(w)] ELSE c
AnyValueUpdate(c, w) == [c EXCEPT !.value = LastWrite(w)]
EphemeralUpdate(c, w) == IF UpdateFails(w) THEN c ELSE [c EXCEPT !.value = LastWrite(w)]
UntrackedUpdate(c, w) ==
    IF UpdateFails(w) \/ w = <<>> THEN c ELSE [c EXCEPT !.value = LastWrite(w)]

\* Folds until the first overwrite; a second one fails after the first was applied.
AggregateUpdate(c, w) ==
    [c EXCEPT !.value = IF Overwrites(w) = {} THEN @ \o Vals(w) ELSE <<w[FirstOf(Overwrites(w))].v>>]

\* Looks for overwrites first: a second one fails with the channel as it was.
DeltaUpdate(c, w) == IF UpdateFails(w) THEN c ELSE AggregateUpdate(c, w)

TopicUpdate(c, w) == [c EXCEPT !.value = (IF chanKind = "accumulating" THEN @ ELSE <<>>) \o Vals(w)]

\* The names before an unknown one have been seen when the update fails.
BarrierUpdate(c, w) ==
    LET unknown == {i \in DOMAIN w : w[i].v \notin BarrierNames}
        upto == IF unknown = {} THEN Len(w) ELSE FirstOf(unknown) - 1
    IN [c EXCEPT !.value = @ \cup {w[i].v : i \in 1 .. upto}]

LastAfterFinishUpdate(c, w) == IF w = <<>> THEN c ELSE [value |-> LastWrite(w), finished |-> FALSE]

UpdateOf(c, w) ==
    CASE chanKind = "last" -> LastValueUpdate(c, w)
      [] chanKind = "any" -> AnyValueUpdate(c, w)
      [] chanKind \in {"ephemeral", "guardedEphemeral"} -> EphemeralUpdate(c, w)
      [] chanKind \in Untracked -> UntrackedUpdate(c, w)
      [] chanKind = "aggregate" -> AggregateUpdate(c, w)
      [] chanKind = "delta" -> DeltaUpdate(c, w)
      [] chanKind \in {"topic", "accumulating"} -> TopicUpdate(c, w)
      [] chanKind \in Barriers -> BarrierUpdate(c, w)
      [] chanKind = "lastAfterFinish" -> LastAfterFinishUpdate(c, w)

\* Finish and Consume of the gated kinds.
BarrierAvailable(c) == c.value = BarrierNames
CanFinish(c) ==
    /\ ~c.finished
    /\ \/ chanKind = "lastAfterFinish" /\ c.value # <<>>
       \/ chanKind = "barrierAfterFinish" /\ BarrierAvailable(c)
CanConsume(c) ==
    \/ chanKind = "lastAfterFinish" /\ c.finished
    \/ chanKind = "barrier" /\ BarrierAvailable(c)
    \/ chanKind = "barrierAfterFinish" /\ c.finished /\ BarrierAvailable(c)

\* What Checkpoint keeps; untracked and delta channels are absent from it.
Checkpoint(c) == IF chanKind \in Untracked \cup {"delta"} THEN NewChannel(chanKind) ELSE c

ShouldSnapshot(updatesSinceSnapshot) == updatesSinceSnapshot >= SnapshotFrequency

\* Mutant: replays every regular write on the last overwrite.
ReplayAll(base, steps) ==
    LET w == FlattenSeq(steps)
        o == Overwrites(w)
    IN (IF o = {} THEN base ELSE <<w[LastOf(o)].v>>) \o Vals(SelectSeq(w, LAMBDA x : ~x.overwrite))

\* The last overwrite is the reset point, only what follows it is reduced.
ReplayFrom(base, w) ==
    LET o == Overwrites(w)
    IN IF o = {} THEN base \o Vals(w)
       ELSE <<w[LastOf(o)].v>> \o Vals(SubSeq(w, LastOf(o) + 1, Len(w)))
ReplayWrites(base, steps) == ReplayFrom(base, FlattenSeq(steps))

\* The constructors that take a snapshot; RestoreDeltaChannel and its replay.
Restore(kind, saved) ==
    IF kind = "delta" THEN [NewChannel(kind) EXCEPT !.value = ReplayWrites(saved.base, saved.log)]
    ELSE saved.snapshot

-----------------------------------------------------------------------------
ChannelInit ==
    /\ chanKind \in Kinds
    /\ chan = NewChannel(chanKind) /\ chanFailed = FALSE /\ log = <<>> /\ hist = <<>>
    /\ disk = [snapshot |-> NewChannel(chanKind), base |-> <<>>, log |-> <<>>, hist |-> <<>>]

Record(op, w) == Len(hist) < MaxChannelEvents /\ hist' = Append(hist, [op |-> op, w |-> w])

Update(w) ==
    /\ ~chanFailed
    /\ chanKind \notin Overwritable => Overwrites(w) = {}
    /\ Record("update", w)
    /\ chan' = UpdateOf(chan, w) /\ chanFailed' = UpdateFails(w)
    /\ log' = IF chanKind = "delta" THEN Append(log, w) ELSE log
    /\ UNCHANGED <<chanKind, disk>>

\* The reducer of a delta channel returns an error, which leaves the channel.
ReducerFails ==
    /\ chanKind = "delta" /\ ~chanFailed
    /\ chanFailed' = TRUE
    /\ UNCHANGED <<chanKind, chan, log, disk, hist>>

ChannelFinish ==
    /\ ~chanFailed /\ CanFinish(chan)
    /\ Record("finish", <<>>)
    /\ chan' = [chan EXCEPT !.finished = TRUE]
    /\ UNCHANGED <<chanKind, chanFailed, log, disk>>

Consume ==
    /\ ~chanFailed /\ CanConsume(chan)
    /\ Record("consume", <<>>)
    /\ chan' = NewChannel(chanKind)
    /\ UNCHANGED <<chanKind, chanFailed, log, disk>>

\* The loop saves: a delta channel's value is materialized when it is due.
Save ==
    LET due == chanKind = "delta" /\ ShouldSnapshot(Len(log)) IN
    /\ ~chanFailed
    /\ log' = IF due THEN <<>> ELSE log
    /\ disk' = [snapshot |-> Checkpoint(chan), base |-> IF due THEN chan.value ELSE disk.base,
                log |-> log', hist |-> hist]
    /\ UNCHANGED <<chanKind, chan, chanFailed, hist>>

\* The process dies, or its step failed, and a new one restores the channel.
Restart ==
    /\ chan' = Restore(chanKind, disk) /\ log' = disk.log /\ chanFailed' = FALSE
    /\ hist' = IF chanKind \in Untracked THEN <<>> ELSE disk.hist
    /\ UNCHANGED <<chanKind, disk>>

ChannelNext ==
    \/ \E w \in ChannelWrites : Update(w)
    \/ ReducerFails \/ ChannelFinish \/ Consume \/ Save \/ Restart
ChannelSpec == ChannelInit /\ [][ChannelNext]_channelVars

-----------------------------------------------------------------------------
(***************************************************************************)
(* What a channel holds, defined by the history of its operations.         *)
(***************************************************************************)
Ops(h, op) == {i \in DOMAIN h : h[i].op = op}
Since(h) == LastOf({0} \cup Ops(h, "consume"))
Updates(h) == {i \in Ops(h, "update") : i > Since(h)}
Substantial(h) == {i \in Updates(h) : h[i].w # <<>>}
Resets(h) == {i \in Updates(h) : Overwrites(h[i].w) # {}}
After(h, i) == FlattenSeq([j \in 1 .. (Len(h) - i) |-> Vals(h[i + j].w)])
NamesOf(w) == {w[k].v : k \in DOMAIN w}

HeldValue(kind, h) ==
    CASE kind \in LatestKinds ->
            IF Substantial(h) = {} THEN <<>> ELSE LastWrite(h[LastOf(Substantial(h))].w)
      [] kind \in StepKinds -> IF Updates(h) = {} THEN <<>> ELSE LastWrite(h[LastOf(Updates(h))].w)
      [] kind = "topic" -> IF Updates(h) = {} THEN <<>> ELSE Vals(h[LastOf(Updates(h))].w)
      [] kind \in Barriers -> UNION {NamesOf(h[i].w) : i \in Updates(h)}
      [] OTHER -> IF Resets(h) = {} THEN After(h, 0)
                  ELSE LET r == LastOf(Resets(h))
                       IN  <<h[r].w[FirstOf(Overwrites(h[r].w))].v>> \o After(h, r)

HeldFinished(kind, h) ==
    \E i \in Ops(h, "finish") :
        i > Since(h) /\ (kind = "lastAfterFinish" => \A j \in Substantial(h) : i > j)

\* Update ignores the regular writes after an overwrite of the same step, and
\* ReplayWrites reduces them: such a step is not reproduced.
Reproducible(h) == \A i \in Updates(h) : \A k \in Overwrites(h[i].w) : k = Len(h[i].w)

\* However often the loop was restarted, and wherever it had failed or saved, a
\* channel holds what its history of updates, finishes and consumptions says: no
\* write is lost, applied twice or revived by a restore or a replay (Update,
\* Checkpoint, ReplayWrites, Finish and Consume of the channels).
ChannelsFaithful ==
    ~chanFailed /\ (chanKind = "delta" => Reproducible(hist))
        => chan.value = HeldValue(chanKind, hist) /\ chan.finished = HeldFinished(chanKind, hist)
=============================================================================
