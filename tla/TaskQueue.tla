------------------------------ MODULE TaskQueue -------------------------------
(***************************************************************************)
(* What a leased queue promises its clients, without clocks: a task is in  *)
(* the queue or not, and at most one lease token holds it.  Tokens are     *)
(* never reused, so a client that lost its task cannot hold it again.      *)
(* LeasedQueue implements this; DistributedRun is built on it.             *)
(***************************************************************************)
EXTENDS Naturals, FiniteSets

CONSTANTS
    IDs,        \* task IDs
    LeaseTokens,\* lease tokens
    Unheld      \* no lease

VARIABLES
    holder,     \* the tasks in the queue, each with the token that holds it
    used        \* tokens handed out so far

queue == <<holder, used>>

QueueInit ==
    /\ holder = [id \in {} |-> Unheld]
    /\ used = {}

Add(id) ==
    /\ id \in IDs \ DOMAIN holder
    /\ holder' = [x \in DOMAIN holder \cup {id} |-> IF x = id THEN Unheld ELSE holder[x]]
    /\ UNCHANGED used

\* Tasks that nobody holds are leased under tokens of their own.
Take(tok) ==
    /\ DOMAIN tok # {}
    /\ \A id \in DOMAIN tok :
          /\ id \in DOMAIN holder
          /\ holder[id] = Unheld
          /\ tok[id] \in LeaseTokens \ used
    /\ \A x, y \in DOMAIN tok : tok[x] = tok[y] => x = y
    /\ holder' = [id \in DOMAIN holder |-> IF id \in DOMAIN tok THEN tok[id] ELSE holder[id]]
    /\ used' = used \cup {tok[id] : id \in DOMAIN tok}

\* A lease is given back, or runs out.
Release(S) ==
    /\ S # {}
    /\ S \subseteq DOMAIN holder
    /\ \A id \in S : holder[id] # Unheld
    /\ holder' = [id \in DOMAIN holder |-> IF id \in S THEN Unheld ELSE holder[id]]
    /\ UNCHANGED used

Remove(id, token) ==
    /\ id \in DOMAIN holder
    /\ token # Unheld
    /\ holder[id] = token
    /\ holder' = [x \in DOMAIN holder \ {id} |-> holder[x]]
    /\ UNCHANGED used

QueueNext ==
    \/ \E id \in IDs : Add(id)
    \/ \E S \in SUBSET DOMAIN holder : \E tok \in [S -> LeaseTokens] : Take(tok)
    \/ \E S \in SUBSET DOMAIN holder : Release(S)
    \/ \E id \in DOMAIN holder : Remove(id, holder[id])

QueueSpec == QueueInit /\ [][QueueNext]_queue
=============================================================================
