---------------------------- MODULE MCProgress -------------------------------
(***************************************************************************)
(* The runs that must complete: a graph behind static gates with clients   *)
(* that answer, and a distributed run with failing and dying workers.  The *)
(* two share no state: focus chooses the one that runs, the other stays in *)
(* its initial state, and each is under the fairness of its own module.    *)
(***************************************************************************)
EXTENDS GraphRun

CONSTANTS v1, w1, w2, d1, NoValue

VARIABLES
    focus,
    holder, used, payload, keys, stamp, folded, result, up, job, driver, acked, mishaps

pool == <<holder, used, payload, keys, stamp, folded, result, up, job, driver, acked, mishaps>>

\* Two super-steps; the first task asks once and has an error handler that does
\* not ask.
TwoLayers == <<{1, 2}, {2}>>
AskOnce == <<1, 0>>
NoneAsk == <<0, 0>>

\* Two threads of one task, so that both use the same queue ID.
D == INSTANCE DistributedRun WITH
       Threads <- {1, 2}, Layers <- <<<<1>>>>, Values <- {v1}, Pool <- {w1, w2},
       Slots <- {1}, Drivers <- {d1}, AtomicWorkers <- {w2}, MaxClaims <- 8, MaxPuts <- 2,
       MaxFaults <- 2, faults <- mishaps

ProgressInit == focus \in {"pool", "gates"} /\ Init /\ D!PoolInit

ProgressNext ==
    /\ UNCHANGED focus
    /\ \/ focus = "gates" /\ Next /\ UNCHANGED pool
       \/ focus = "pool" /\ D!PoolNext /\ UNCHANGED vars

\* The fairness of the modules, for the run in focus.
PoolFairness ==
    /\ \A th \in {1, 2} :
          /\ SF_pool(focus = "pool" /\ D!LatestOf(th) = 1 /\ D!Schedule(d1, th, 1))
          /\ SF_pool(focus = "pool" /\ D!LatestOf(th) = 1 /\ D!Collect(d1, th, 1))
    /\ WF_pool(focus = "pool" /\ D!DriverStep(d1))
    /\ \A j \in D!Jobs : SF_pool(focus = "pool" /\ D!ClaimTask(j))
         /\ WF_pool(focus = "pool" /\ D!JobStep(j))
    /\ \A w \in {w1, w2} : WF_pool(focus = "pool" /\ D!Restart(w))
    /\ WF_pool(focus = "pool" /\ \E id \in DOMAIN holder : ~D!Owned(id) /\ D!Expire(id))
GateFairness ==
    /\ WF_vars(focus = "gates" /\ RunStep)
    /\ WF_vars(focus = "gates" /\ Invoke)
    /\ SF_vars(focus = "gates" /\ Latest > 0 /\ Resume(Pending(Latest)))
    /\ SF_vars(focus = "gates" /\ Continue)

ProgressSpec ==
    /\ ProgressInit
    /\ [][ProgressNext]_<<focus, vars, pool>>
    /\ PoolFairness
    /\ GateFairness

-----------------------------------------------------------------------------
\* With a bounded number of faults every thread of a distributed run commits its
\* last super-step and the queue drains; and a gated thread whose client answers
\* reaches the end of its graph and stays there.
RunsComplete ==
    /\ focus = "pool" => D!Completes /\ D!QueueDrains
    /\ focus = "gates" => Completes
=============================================================================
