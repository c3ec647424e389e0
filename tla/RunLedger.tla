------------------------------ MODULE RunLedger ------------------------------
(***************************************************************************)
(* What the remote control plane promises of its runs, whatever server     *)
(* answers and wherever the rows live: a run is created once, at most one  *)
(* listed run of a thread carries an idempotency key, a run settles once,  *)
(* and only a settled run may be pruned.                                   *)
(***************************************************************************)
CONSTANTS Threads, Runs, Keys, NoKey

VARIABLE ledger     \* of each run: NoEntry, its entry, or Removed

NoEntry == [thread |-> "none", key |-> NoKey, status |-> "none"]
Removed == [thread |-> "none", key |-> NoKey, status |-> "removed"]

Settled == {"ended", "canceled"}

Listed(r) == ledger[r].status \in Settled \cup {"running"}

Init == ledger = [r \in Runs |-> NoEntry]

(* createRun: a key names one run of the thread. *)
Start(r, t, k) ==
    /\ ledger[r] = NoEntry
    /\ k # NoKey => \A q \in Runs : Listed(q) /\ ledger[q].thread = t => ledger[q].key # k
    /\ ledger' = [ledger EXCEPT ![r] = [thread |-> t, key |-> k, status |-> "running"]]

(* The invocation ends, or the run is cancelled: whichever comes first. *)
Settle(r, s) ==
    /\ ledger[r].status = "running"
    /\ ledger' = [ledger EXCEPT ![r].status = s]

Prune(rs) ==
    /\ \A r \in rs : ledger[r].status \in Settled
    /\ ledger' = [r \in Runs |-> IF r \in rs THEN Removed ELSE ledger[r]]

DeleteThread(t) ==
    ledger' = [r \in Runs |-> IF Listed(r) /\ ledger[r].thread = t THEN Removed ELSE ledger[r]]

Next ==
    \/ \E r \in Runs, t \in Threads, k \in Keys \cup {NoKey} : Start(r, t, k)
    \/ \E r \in Runs, s \in Settled : Settle(r, s)
    \/ \E rs \in SUBSET Runs : Prune(rs)
    \/ \E t \in Threads : DeleteThread(t)

Spec == Init /\ [][Next]_ledger
=============================================================================
