---------------------------- MODULE MCDistributed ----------------------------
(***************************************************************************)
(* Safety of the distributed backend: the leased queue, the run driven     *)
(* over it, and the outboxes that complete a task together with its result *)
(* and its interrupts.  The components share no state: focus chooses the   *)
(* one that runs, the others stay in an initial state.                     *)
(***************************************************************************)
EXTENDS LeasedQueue, DistributedRun, ResultOutbox, TLC

CONSTANTS q1, q2, tk1, tk2, tk3, k1, p1, p2, v1, v2, w1, w2, d1, d2

VARIABLE focus

\* A generated ID under a key, a delayed explicit ID under the same key (a
\* conflict), the explicit ID without a key, and two payloads.
MCRequests ==
    {[task |-> 0, payload |-> p1, at |-> MaxTime + 1, key |-> k1],
     [task |-> 1, payload |-> p2, at |-> 1, key |-> k1],
     [task |-> 1, payload |-> p1, at |-> MaxTime + 1, key |-> NoKey]}

\* A super-step of two tasks and one of one.
TwoSteps == <<<<1, 2>>, <<1>>>>

DistributedInit ==
    /\ focus \in {"queue", "pool", "outbox"}
    /\ Init
    /\ PoolInit
    /\ OutboxInit /\ (focus # "outbox" => kind = "memory")

DistributedNext ==
    /\ UNCHANGED focus
    /\ \/ focus = "queue" /\ Next /\ UNCHANGED <<poolVars, boxVars>>
       \/ focus = "pool" /\ PoolNext /\ UNCHANGED <<vars, boxVars>>
       \/ focus = "outbox" /\ OutboxNext /\ UNCHANGED <<vars, poolVars>>

DistributedSpec == DistributedInit /\ [][DistributedNext]_<<focus, vars, poolVars, boxVars>>

Symmetry ==
    Permutations({q1, q2}) \cup Permutations({tk1, tk2, tk3})
        \cup Permutations({d1, d2}) \cup Permutations({v1, v2})
=============================================================================
