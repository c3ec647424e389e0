------------------------------ MODULE Attempts -------------------------------
(***************************************************************************)
(* The attempts of one node of a graph or one task of a functional         *)
(* workflow: each has a goroutine that watches its deadlines, heartbeats   *)
(* and the run's context; a failed attempt may be followed by another one. *)
(* The two packages hold the same watcher and differ in what they do with  *)
(* a body that returns while a deadline passes: a node's result is judged  *)
(* after the watcher has stopped, a task's before.                         *)
(***************************************************************************)
EXTENDS Naturals, Sequences

CONSTANTS
    Units,       \* subset of {"node", "task"}
    BodyResults, \* what a body may return: "ok", "error", "interrupt", "panic" or of NodeResults
    RunTimeout, IdleTimeout,
    MaxAttempts, \* of the retry policy
    MaxClock     \* bound: time of an attempt

\* The policies are normalised: at least one attempt, and 0 for no timeout.
ASSUME AttemptAssumption ==
    /\ Units \subseteq {"node", "task"}
    /\ RunTimeout \in Nat /\ IdleTimeout \in Nat /\ MaxClock \in Nat
    /\ MaxAttempts \in Nat \ {0}

VARIABLES
    unit,
    stage,       \* "new", "body", "stopping", "backoff" or "ended"
    try,         \* attempts started
    clock,       \* time since the start of the attempt
    idleAt,      \* deadline of the idle timer
    beat,        \* a heartbeat is in the channel
    watcher,     \* the goroutine runs
    cause,       \* why the attempt's context was cancelled, and at what time
    res,         \* what the body returned
    runCanceled, \* why the run's context was cancelled, or "no"
    verdicts,    \* the attempts' results
    reports,     \* ends and errors reported to the callbacks, and of which attempt
    lastBeat     \* a record of the last heartbeat that the watcher received

attemptVars == <<unit, stage, try, clock, idleAt, beat, watcher, cause, res, runCanceled, verdicts,
                 reports, lastBeat>>

OpenContext == [why |-> "open", time |-> 0]
\* timeoutCause and nodeTimeoutCause read the cause that the context inherits: the
\* timeout of an enclosing node, task or entrypoint counts as the attempt's own.
TimedOut == cause.why \in {"run", "idle", "outer"}

\* What only the body of a node returns: a command to the parent graph, the error of a
\* subgraph that carries one, and a command whose target is not a target.
NodeResults == {"command", "raised", "misdirected"}
\* The results that reach the end of invokeNodeAttempt, after the callbacks heard of it.
Completed == {"ok", "command", "misdirected"}
\* The state was not cloned: the attempt fails before its start is traced.
Unreported == {"unclonable", "clonePanic"}

AttemptInit ==
    /\ unit \in Units /\ stage = "new" /\ try = 0 /\ clock = 0 /\ idleAt = IdleTimeout /\ beat = FALSE
    /\ watcher = FALSE /\ cause = OpenContext /\ res = "none" /\ runCanceled = "no"
    /\ verdicts = <<>> /\ reports = <<>> /\ lastBeat = 0

\* withNodeTimeoutPolicy, the copy of the state, the start of the trace and the call of
\* the body; without a policy there is no watcher and the context is the run's.  The
\* select of waitRetry may choose its timer when the context is cancelled as well.
Watched == RunTimeout > 0 \/ IdleTimeout > 0
Start ==
    /\ stage \in {"new", "backoff"}
    /\ \/ stage' = "body" /\ res' = "none"
       \/ unit = "node" /\ stage' = "stopping" /\ res' \in Unreported
    /\ try' = try + 1 /\ clock' = 0 /\ lastBeat' = 0
    /\ idleAt' = IdleTimeout /\ beat' = FALSE /\ watcher' = Watched
    /\ cause' = IF runCanceled = "no" THEN OpenContext ELSE [why |-> runCanceled, time |-> 0]
    /\ UNCHANGED <<unit, runCanceled, verdicts, reports>>

Live == stage \in {"body", "stopping"}
Tick ==
    /\ Live /\ clock < MaxClock /\ clock' = clock + 1
    /\ UNCHANGED <<unit, stage, try, idleAt, beat, watcher, cause, res, runCanceled, verdicts, reports,
                   lastBeat>>

\* The first cancellation of a context is its cause.
CanceledBy(why) == IF cause = OpenContext THEN [why |-> why, time |-> clock] ELSE cause
\* By a caller, a deadline or another node ("parent"), or by an enclosing timeout.
ParentCanceled ==
    /\ runCanceled = "no" /\ stage # "ended" /\ runCanceled' \in {"parent", "outer"}
    /\ cause' = IF Live THEN CanceledBy(runCanceled') ELSE cause
    /\ UNCHANGED <<unit, stage, try, clock, idleAt, beat, watcher, res, verdicts, reports, lastBeat>>

Heartbeat ==
    /\ stage = "body" /\ Watched /\ ~beat /\ beat' = TRUE
    /\ UNCHANGED <<unit, stage, try, clock, idleAt, watcher, cause, res, runCanceled, verdicts, reports,
                   lastBeat>>
-----------------------------------------------------------------------------
(***************************************************************************)
(* The watcher: a select over timers, heartbeats, the parent and stop.     *)
(***************************************************************************)
WatcherEnds(new) ==
    /\ watcher /\ watcher' = FALSE /\ cause' = new
    /\ UNCHANGED <<unit, stage, try, clock, idleAt, beat, res, runCanceled, verdicts, reports, lastBeat>>
WatchRun == RunTimeout > 0 /\ clock >= RunTimeout /\ WatcherEnds(CanceledBy("run"))
WatchIdle == IdleTimeout > 0 /\ clock >= idleAt /\ WatcherEnds(CanceledBy("idle"))
WatchParent == runCanceled # "no" /\ WatcherEnds(CanceledBy(runCanceled))
WatchStop == stage = "stopping" /\ WatcherEnds(cause)
\* Mutant: the heartbeat is received but the timer is not reset.
BeatIgnored ==
    /\ watcher /\ beat /\ beat' = FALSE /\ lastBeat' = clock
    /\ UNCHANGED <<unit, stage, try, clock, idleAt, watcher, cause, res, runCanceled, verdicts, reports>>
WatchBeat ==
    /\ watcher /\ beat /\ beat' = FALSE /\ lastBeat' = clock
    /\ idleAt' = clock + IdleTimeout
    /\ UNCHANGED <<unit, stage, try, clock, watcher, cause, res, runCanceled, verdicts, reports>>
Watcher == WatchRun \/ WatchIdle \/ WatchParent \/ WatchStop \/ WatchBeat
-----------------------------------------------------------------------------
(***************************************************************************)
(* The end of an attempt.                                                  *)
(***************************************************************************)
\* The body returns and stop is closed; a body may return the error of its context.
\* A task's result is replaced by a timeout that has happened already.
BodyReturns ==
    /\ stage = "body" /\ stage' = "stopping"
    /\ \E r \in (IF unit = "task" THEN BodyResults \ NodeResults ELSE BodyResults)
           \cup (IF cause = OpenContext THEN {} ELSE {"canceled"}) :
          res' = IF unit = "task" /\ TimedOut THEN "timeout" ELSE r
    /\ UNCHANGED <<unit, try, clock, idleAt, beat, watcher, cause, runCanceled, verdicts, reports,
                   lastBeat>>

\* What the attempt returns.  A node's result is replaced by a timeout of its context,
\* unless the body panicked or did not run; its update is then normalised, which may
\* fail or panic.
Verdicts ==
    CASE unit = "task" \/ res = "panic" \/ res \in Unreported -> {res}
      [] unit = "node" /\ res # "panic" /\ res \notin Unreported /\ TimedOut -> {"timeout"}
      [] unit = "node" /\ res \in Completed /\ ~TimedOut -> {res, "error", "panic"}
      [] OTHER -> {res}
\* defaultRetryOn: cancellations and panics are not retried, and of a node neither
\* interrupts nor commands to the parent.
Retried(v) ==
    v \in {"error", "timeout", "unclonable", "misdirected"}
            \cup (IF unit = "task" THEN {"interrupt"} ELSE {})
Report(v) == [of |-> try, what |-> IF v \in Completed THEN "end" ELSE "error"]
\* finish waits for the watcher; the callbacks hear of the end or the error of a body
\* that was called.
Judge ==
    /\ stage = "stopping" /\ ~watcher
    /\ \E v \in Verdicts :
          /\ verdicts' = Append(verdicts, v)
          /\ reports' = IF unit = "task" \/ v \in Unreported THEN reports
                        ELSE Append(reports, Report(v))
          /\ stage' = IF Retried(v) /\ try < MaxAttempts THEN "backoff" ELSE "ended"
    /\ UNCHANGED <<unit, try, clock, idleAt, beat, watcher, cause, res, runCanceled, lastBeat>>
\* waitRetry returns the context's error, which takes the place of the attempt's.
BackoffCanceled ==
    /\ stage = "backoff" /\ runCanceled # "no" /\ stage' = "ended"
    /\ UNCHANGED <<unit, try, clock, idleAt, beat, watcher, cause, res, runCanceled, verdicts, reports,
                   lastBeat>>

AttemptNext ==
    \/ Start \/ Tick \/ ParentCanceled \/ Heartbeat \/ Watcher
    \/ BodyReturns \/ Judge \/ BackoffCanceled

AttemptSpec == AttemptInit /\ [][AttemptNext]_attemptVars

-----------------------------------------------------------------------------
(***************************************************************************)
(* Properties.                                                             *)
(***************************************************************************)
\* Attempts are timed and counted as the policy says: a deadline is declared only when
\* it has passed, an idle one only when no heartbeat was received for its duration, an
\* enclosing one only when the run's context ended by it; no watcher outlives its
\* attempt; an attempt whose result is used was not timed out, and what was not retried
\* is not run again; the callbacks hear of every attempt of a node whose body was called
\* once, as an end exactly when the body completed, a command without a valid target
\* included, which then fails (withNodeTimeoutPolicy, nodeTimeoutCause,
\* invokeNodeAttempt, invokeWithRetry, executeWithRetry).
AttemptSound ==
    /\ cause.why = "run" => RunTimeout > 0 /\ cause.time >= RunTimeout
    /\ cause.why = "idle" => IdleTimeout > 0 /\ cause.time - lastBeat >= IdleTimeout
    /\ cause.why \in {"parent", "outer"} => runCanceled = cause.why
    /\ ~Live => ~watcher
    /\ try <= MaxAttempts /\ Len(verdicts) \in {try, try - 1}
    /\ \A i \in DOMAIN verdicts : i < try => Retried(verdicts[i])
    /\ stage = "ended" /\ unit = "node" /\ TimedOut
          => verdicts[try] \in {"timeout", "panic"} \cup Unreported
    /\ \A i, j \in DOMAIN reports : reports[i].of = reports[j].of => i = j
    /\ unit = "node" =>
          {reports[i].of : i \in DOMAIN reports}
             = {k \in DOMAIN verdicts : verdicts[k] \notin Unreported}
    /\ \A i \in DOMAIN reports : (reports[i].what = "end") = (verdicts[reports[i].of] \in Completed)
=============================================================================
