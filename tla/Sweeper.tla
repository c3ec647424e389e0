------------------------------- MODULE Sweeper -------------------------------
(***************************************************************************)
(* The background sweep loop of the TTL manager: StartSweeper, the loop's  *)
(* goroutine, StopSweeper by several callers, and the parent context.      *)
(***************************************************************************)
EXTENDS Naturals, FiniteSets

CONSTANTS
    Callers,   \* goroutines that stop the sweeper
    MaxRuns    \* bound: sweepers started

VARIABLES
    current,   \* Manager.run: the number of the run, 0 for nil
    loop,      \* run -> where its goroutine is
    canceled,  \* runs whose context is done
    caller,    \* caller -> the run whose done channel it waits for
    stopped    \* runs for which a StopSweeper returned nil (history)

vars == <<current, loop, canceled, caller, stopped>>

RunIDs == 1 .. MaxRuns
Started == {i \in RunIDs : loop[i] # "none"}

Init ==
    /\ current = 0
    /\ loop = [i \in RunIDs |-> "none"]
    /\ canceled = {} /\ stopped = {}
    /\ caller = [c \in Callers |-> 0]

\* Mutant: the check for a running sweeper is missing.
StartAnyway ==
    \E i \in RunIDs :
      /\ loop[i] = "none" /\ \A j \in RunIDs : j < i => loop[j] # "none"
      /\ current' = i
      /\ loop' = [loop EXCEPT ![i] = "select"]
      /\ UNCHANGED <<canceled, caller, stopped>>
StartSweeper ==
    \E i \in RunIDs :
      /\ current = 0
      /\ loop[i] = "none" /\ \A j \in RunIDs : j < i => loop[j] # "none"
      /\ current' = i
      /\ loop' = [loop EXCEPT ![i] = "select"]
      /\ UNCHANGED <<canceled, caller, stopped>>

\* The ticker's case of the select, also when the context is done already.
SweepTick(i) ==
    /\ loop[i] = "select"
    /\ loop' = [loop EXCEPT ![i] = "sweep"]
    /\ UNCHANGED <<current, canceled, caller, stopped>>
\* SweepExpired returns, with or without an error.
SweepExpired(i) ==
    /\ loop[i] = "sweep"
    /\ loop' = [loop EXCEPT ![i] = "select"]
    /\ UNCHANGED <<current, canceled, caller, stopped>>
Leave(i) ==
    /\ loop[i] = "select" /\ i \in canceled
    /\ loop' = [loop EXCEPT ![i] = "leaving"]
    /\ UNCHANGED <<current, canceled, caller, stopped>>
\* The deferred function: unregister and close done under the mutex.
Leaving(i) ==
    /\ loop[i] = "leaving"
    /\ loop' = [loop EXCEPT ![i] = "done"]
    /\ current' = IF current = i THEN 0 ELSE current
    /\ UNCHANGED <<canceled, caller, stopped>>

StopSweeper(c) ==
    /\ caller[c] = 0 /\ current # 0
    /\ canceled' = canceled \cup {current}
    /\ caller' = [caller EXCEPT ![c] = current]
    /\ UNCHANGED <<current, loop, stopped>>
StopReturns(c) ==
    /\ caller[c] # 0 /\ loop[caller[c]] = "done"
    /\ caller' = [caller EXCEPT ![c] = 0]
    /\ stopped' = stopped \cup {caller[c]}
    /\ UNCHANGED <<current, loop, canceled>>
\* The caller's context ends first; the loop stays cancelled.
StopTimesOut(c) ==
    /\ caller[c] # 0
    /\ caller' = [caller EXCEPT ![c] = 0]
    /\ UNCHANGED <<current, loop, canceled, stopped>>

ParentCanceled(i) ==
    /\ i \in Started \ canceled
    /\ canceled' = canceled \cup {i}
    /\ UNCHANGED <<current, loop, caller, stopped>>

-----------------------------------------------------------------------------
Loop(i) == SweepTick(i) \/ SweepExpired(i) \/ Leave(i) \/ Leaving(i)
Next ==
    \/ StartSweeper
    \/ \E i \in RunIDs : Loop(i) \/ ParentCanceled(i)
    \/ \E c \in Callers : StopSweeper(c) \/ StopReturns(c) \/ StopTimesOut(c)

\* The goroutine runs; a select with two ready cases picks each again and again.
Fairness ==
    /\ \A i \in RunIDs : WF_vars(Loop(i)) /\ SF_vars(Leave(i))
    /\ \A c \in Callers : WF_vars(StopReturns(c))

Spec == Init /\ [][Next]_vars /\ Fairness

-----------------------------------------------------------------------------
\* There is never a second sweep beside the first, none starts once StopSweeper
\* has returned, and a StopSweeper that is called returns although the loop may
\* tick again after it was cancelled (StartSweeper, runSweeper, StopSweeper).
SweeperStops ==
    /\ [](Cardinality({i \in RunIDs : loop[i] \in {"select", "sweep"}}) <= 1)
    /\ [](\A i \in stopped : loop[i] = "done")
    /\ \A c \in Callers : caller[c] # 0 ~> caller[c] = 0
=============================================================================
