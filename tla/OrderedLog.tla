----------------------------- MODULE OrderedLog ------------------------------
(***************************************************************************)
(* What DurabilityAsync promises (docs/DURABILITY.md, asyncQueueSaver):    *)
(* saver calls are persisted in the order they were made, the run returns  *)
(* without an error only when all of them are, and nothing is persisted    *)
(* after the run has returned and released its lock.                       *)
(***************************************************************************)
EXTENDS Naturals, Sequences

CONSTANT Commands

VARIABLES
    log,        \* the saver calls made so far, in order
    persisted,  \* positions of the calls the base saver has applied
    result      \* "open" while the run is active, then "ok" or "error"

Init ==
    /\ log = <<>>
    /\ persisted = {}
    /\ result = "open"

Accept(c) ==
    /\ result = "open"
    /\ log' = Append(log, c)
    /\ UNCHANGED <<persisted, result>>

\* Only the first call that is not yet persisted may become so.
Persist(i) ==
    /\ result = "open"
    /\ i \notin persisted
    /\ 1 .. (i - 1) \subseteq persisted
    /\ persisted' = persisted \cup {i}
    /\ UNCHANGED <<log, result>>

Return(r) ==
    /\ result = "open"
    /\ r = "ok" => persisted = DOMAIN log
    /\ result' = r
    /\ UNCHANGED <<log, persisted>>

Next ==
    \/ \E c \in Commands : Accept(c)
    \/ \E i \in DOMAIN log : Persist(i)
    \/ \E r \in {"ok", "error"} : Return(r)

Spec == Init /\ [][Next]_<<log, persisted, result>>
=============================================================================
