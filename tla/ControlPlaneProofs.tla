------------------------- MODULE ControlPlaneProofs --------------------------
(***************************************************************************)
(* The runs of the control plane, for any number of servers, clients,      *)
(* threads, runs and idempotency keys, in memory and with a shared store:  *)
(* every run keeps its owner, every idempotency record its run, and the    *)
(* rows behave as RunLedger promises.                                      *)
(***************************************************************************)
EXTENDS ControlPlane, TLAPS

-----------------------------------------------------------------------------
(* The inductive invariant, one part for each group of variables.          *)

TablesOK ==
    /\ stored \in BOOLEAN
    /\ threads \subseteq Threads
    /\ tables \subseteq threads
    /\ stored => tables = threads
    /\ row \in [Runs -> Row \cup {NoRow, Removed}]
    /\ \A r \in Runs : row[r] \in Row => row[r].thread \in tables

ClaimsOK == claims \subseteq Claim /\ ClaimsResolve

\* A goroutine that saw its cancellation has a settled row; in memory, one that
\* did not still has a running one.
JobsOK ==
    /\ job \in [Runs -> Job \cup {NoJob, Done, Lost}]
    /\ \A r \in Runs : row[r] = NoRow => job[r] = NoJob
    /\ \A r \in Executing : job[r].canceled => row[r].status # "running"
    /\ ~stored => \A r \in Executing :
                      r \in Listed /\ ~job[r].canceled => row[r].status = "running"

\* The steps of the handlers that work on a ControlStore.
StoreSteps == {"storeRun", "register", "transition", "cancelLocal", "cancelRows", "dropThread"}

\* A handler that is about to start a run has stored its row.
RequestsOK ==
    /\ req \in [Clients -> Request]
    /\ \A c \in Clients : req[c].pc \in StoreSteps => stored
    /\ \A c \in Clients : req[c].pc = "register" => row[req[c].run] # NoRow

ServersOK ==
    /\ closing \in [Servers -> {"open", "waiting", "closed"}]
    /\ locked \in BOOLEAN
    /\ deleted \subseteq Threads

CInv == TablesOK /\ ClaimsOK /\ JobsOK /\ RequestsOK /\ ServersOK /\ RunningIsOwned

-----------------------------------------------------------------------------
(* Facts about rows, jobs and requests.                                    *)

\* A run is listed when it has a row.
LEMMA ListedRow ==
  ASSUME TablesOK, NEW r \in Runs
  PROVE  /\ r \in Listed <=> row[r] \in Row
         /\ r \in Listed => row[r] # NoRow /\ row[r] # Removed
         /\ r \notin Listed => row[r] \in {NoRow, Removed}
         /\ row[r] = NoRow => row[r].status = "none"
         /\ row[r] = Removed => row[r].status = "removed"
  <1>1. NoRow.status = "none" /\ Removed.status = "removed"  BY DEF NoRow, Removed
  <1>2. row[r] \in Row => row[r].status \in RunStatus  BY DEF Row
  <1>3. "none" \notin RunStatus /\ "removed" \notin RunStatus  BY DEF RunStatus
  <1>4. row[r] \in Row \/ row[r] = NoRow \/ row[r] = Removed  BY DEF TablesOK
  <1> QED  BY <1>1, <1>2, <1>3, <1>4 DEF Listed

\* A run is executing when it has a goroutine.
LEMMA ExecutingJob ==
  ASSUME JobsOK, NEW r \in Runs
  PROVE  /\ r \in Executing <=> job[r] \in Job
         /\ r \notin Executing => job[r] \in {NoJob, Done, Lost}
  <1>1. NoJob.pc = "none" /\ Done.pc = "done" /\ Lost.pc = "lost"  BY DEF NoJob, Done, Lost
  <1>2. job[r] \in Job => job[r].pc = "invoke"  BY DEF Job
  <1>3. job[r] \in Job \/ job[r] \in {NoJob, Done, Lost}  BY DEF JobsOK
  <1> QED  BY <1>1, <1>2, <1>3 DEF Executing

\* What a handler remembers at each of its steps.
LEMMA RequestFields ==
  ASSUME NEW q \in Request
  PROVE  /\ q.pc \in {"insertThread", "cancelRecords", "dropThread"} =>
                q.server \in Servers /\ q.thread \in Threads
         /\ q.pc = "storeRun" =>
                /\ q.server \in Servers /\ q.thread \in Threads
                /\ q.key \in Keys \cup {NoKey} /\ q.payload \in Payloads
         /\ q.pc = "register" => q.server \in Servers /\ q.thread \in Threads /\ q.run \in Runs
         /\ q.pc \in {"transition", "cancelLocal"} => q.server \in Servers /\ q.run \in Runs
         /\ q.pc \in {"cancelRows", "await"} =>
                q.server \in Servers /\ q.thread \in Threads /\ q.runs \subseteq Runs
  BY DEF Request, Idle

\* The requests that handlers build.
LEMMA RequestTypes ==
  ASSUME NEW s \in Servers, NEW t \in Threads, NEW r \in Runs, NEW rs \in SUBSET Runs,
         NEW k \in Keys \cup {NoKey}, NEW p \in Payloads
  PROVE  /\ Idle \in Request
         /\ [pc |-> "insertThread", server |-> s, thread |-> t] \in Request
         /\ [pc |-> "dropThread", server |-> s, thread |-> t] \in Request
         /\ [pc |-> "storeRun", server |-> s, thread |-> t, key |-> k, payload |-> p] \in Request
         /\ [pc |-> "register", server |-> s, thread |-> t, run |-> r] \in Request
         /\ [pc |-> "transition", server |-> s, run |-> r] \in Request
         /\ [pc |-> "cancelLocal", server |-> s, run |-> r] \in Request
         /\ [pc |-> "await", server |-> s, thread |-> t, runs |-> rs] \in Request
         /\ [pc |-> "cancelRows", server |-> s, thread |-> t, runs |-> rs] \in Request
  BY DEF Request

\* The server a request goes to.
LEMMA ServerType ==
  ASSUME NEW c \in Clients
  PROVE  Server(c) \in Servers
  BY ControlAssumption DEF Server

\* A cancelled context leaves the goroutine as it is.
LEMMA CancelKeeps ==
  ASSUME JobsOK, NEW rs, CancelContexts(rs)
  PROVE  /\ job' \in [Runs -> Job \cup {NoJob, Done, Lost}]
         /\ \A r \in Runs :
               /\ r \in Executing' <=> r \in Executing
               /\ r \in Executing => job'[r].canceled = job[r].canceled
               /\ r \notin Executing => job'[r] = job[r]
  <1> SUFFICES ASSUME NEW r \in Runs
               PROVE  /\ job'[r] \in Job \cup {NoJob, Done, Lost}
                      /\ job'[r].pc = "invoke" <=> job[r].pc = "invoke"
                      /\ r \in Executing => job'[r].canceled = job[r].canceled
                      /\ r \notin Executing => job'[r] = job[r]
    <2>1. job' = [r \in Runs |-> job'[r]]  BY DEF CancelContexts
    <2> QED  BY <2>1 DEF Executing
  <1>1. CASE r \in rs /\ r \in Executing
    <2>1. job'[r] = [job[r] EXCEPT !.stopped = TRUE]  BY <1>1 DEF CancelContexts
    <2>2. job[r] \in Job  BY <1>1, ExecutingJob
    <2>3. job'[r] \in Job /\ job'[r].canceled = job[r].canceled /\ job'[r].pc = job[r].pc
      BY <2>1, <2>2 DEF Job
    <2> QED  BY <2>3, <1>1
  <1>2. CASE ~(r \in rs /\ r \in Executing)
    BY <1>2 DEF CancelContexts, JobsOK
  <1> QED  BY <1>1, <1>2

-----------------------------------------------------------------------------
(* The kinds of steps.                                                     *)

\* One client's request moves on; it neither was nor is about to start a run.
LEMMA RequestStep ==
  ASSUME CInv, NEW c \in Clients, NEW q \in Request, q.pc # "register", req[c].pc # "register",
         req' = [req EXCEPT ![c] = q], q.pc \in StoreSteps => stored, stored' = stored,
         \A r \in Runs : row[r] # NoRow => row'[r] # NoRow
  PROVE  /\ RequestsOK'
         /\ \A d \in Clients : req[d].pc = "register" => req'[d] = req[d]
  <1>1. req' \in [Clients -> Request] /\ \A d \in Clients : d # c => req'[d] = req[d]
    BY DEF CInv, RequestsOK
  <1>2. req'[c] = q  BY DEF CInv, RequestsOK
  <1>3. \A d \in Clients : req'[d].pc = "register" =>
           req'[d] = req[d] /\ req[d].run \in Runs /\ row[req[d].run] # NoRow
    BY <1>1, <1>2, RequestFields DEF CInv, RequestsOK
  <1>4. \A d \in Clients : req'[d].pc \in StoreSteps => stored'
    BY <1>1, <1>2 DEF CInv, RequestsOK
  <1> QED  BY <1>1, <1>2, <1>3, <1>4 DEF RequestsOK

\* Steps that change no row: threads may only gain entries, goroutines may only
\* be cancelled.
LEMMA SameRows ==
  ASSUME CInv, UNCHANGED <<stored, row, claims>>,
         threads' \subseteq Threads, tables' \subseteq threads', tables \subseteq tables',
         stored => tables' = threads',
         job' = job \/ \E rs : CancelContexts(rs),
         RequestsOK', ServersOK',
         \A d \in Clients : req[d].pc = "register" => req'[d] = req[d]
  PROVE  CInv'
  <1> USE DEF CInv
  <1>1. TablesOK'  BY DEF TablesOK
  <1>2. ClaimsOK'  BY DEF ClaimsOK, ClaimsResolve, Listed
  <1>3. /\ job' \in [Runs -> Job \cup {NoJob, Done, Lost}]
        /\ \A r \in Runs :
               /\ r \in Executing' <=> r \in Executing
               /\ r \in Executing => job'[r].canceled = job[r].canceled
               /\ r \notin Executing => job'[r] = job[r]
    <2>1. CASE job' = job  BY <2>1 DEF JobsOK, Executing
    <2>2. CASE \E rs : CancelContexts(rs)  BY <2>2, CancelKeeps
    <2> QED  BY <2>1, <2>2
  <1>4. JobsOK'
    <2>1. \A r \in Runs : row[r] = NoRow => job'[r] = NoJob
      <3> SUFFICES ASSUME NEW r \in Runs, row[r] = NoRow PROVE job'[r] = NoJob  OBVIOUS
      <3>1. job[r] = NoJob  BY DEF JobsOK
      <3>2. r \notin Executing  BY <3>1 DEF Executing, NoJob
      <3> QED  BY <3>1, <3>2, <1>3
    <2>2. Executing' = Executing  BY <1>3 DEF Executing
    <2>3. Listed' = Listed  BY DEF Listed
    <2> QED  BY <1>3, <2>1, <2>2, <2>3 DEF JobsOK, Executing
  <1>5. RunningIsOwned'
    <2> SUFFICES ASSUME NEW r \in Listed, row[r].status = "running"
                 PROVE  \/ r \in Executing'
                        \/ \E d \in Clients : req'[d].pc = "register" /\ req'[d].run = r
                        \/ job'[r] = Lost
      BY DEF RunningIsOwned, Listed
    <2>1. r \in Runs  BY DEF Listed
    <2>2. CASE r \in Executing  BY <2>1, <2>2, <1>3
    <2>3. CASE \E d \in Clients : req[d].pc = "register" /\ req[d].run = r  BY <2>3
    <2>4. CASE job[r] = Lost
      <3>1. r \notin Executing  BY <2>4 DEF Executing, Lost
      <3> QED  BY <3>1, <2>1, <2>4, <1>3
    <2> QED  BY <2>2, <2>3, <2>4 DEF RunningIsOwned
  <1> QED  BY <1>1, <1>2, <1>4, <1>5
\* Rows that settle or go away.
Settles(r) ==
    r \in Listed /\ \E s \in {"ended", "canceled"} : row'[r] = [row[r] EXCEPT !.status = s]
Goes(r) == r \in Listed /\ row'[r] = Removed
RowsMove ==
    /\ row' = [r \in Runs |-> row'[r]]
    /\ \A r \in Runs : row'[r] = row[r] \/ Settles(r) \/ Goes(r)

\* A row that is settled keeps its thread and its key.
LEMMA SettledRow ==
  ASSUME TablesOK, NEW r \in Runs, NEW s \in {"ended", "canceled"}, r \in Listed,
         NEW x, x = [row[r] EXCEPT !.status = s]
  PROVE  x \in Row /\ x.thread = row[r].thread /\ x.key = row[r].key /\ x.status = s
  <1>1. row[r] \in Row  BY ListedRow
  <1> QED  BY <1>1 DEF Row, RunStatus

\* Each of them keeps its thread and its key as long as it is listed.
LEMMA MoveFacts ==
  ASSUME TablesOK, RowsMove, NEW r \in Runs
  PROVE  /\ row'[r] \in Row \cup {NoRow, Removed}
         /\ row'[r] = NoRow <=> row[r] = NoRow
         /\ r \in Listed' => /\ r \in Listed /\ row'[r] \in Row
                             /\ row'[r].thread = row[r].thread /\ row'[r].key = row[r].key
         /\ row'[r].status = "running" => row'[r] = row[r]
         /\ row'[r] \in Row => row[r] \in Row /\ row'[r].thread = row[r].thread
  <1>1. Removed.status = "removed" /\ NoRow.status = "none"  BY DEF Removed, NoRow
  <1>2. CASE row'[r] = row[r]
    BY <1>2, ListedRow DEF Listed, TablesOK
  <1>3. CASE Settles(r)
    <2>1. PICK s \in {"ended", "canceled"} : row'[r] = [row[r] EXCEPT !.status = s]
      BY <1>3 DEF Settles
    <2>2. r \in Listed /\ row[r] \in Row /\ row[r] # NoRow
      BY <1>3, ListedRow DEF Settles
    <2>3. /\ row'[r] \in Row /\ row'[r].thread = row[r].thread /\ row'[r].key = row[r].key
          /\ row'[r].status = s
      BY <2>1, <2>2, SettledRow
    <2> QED  BY <2>2, <2>3, <1>1
  <1>4. CASE Goes(r)
    <2>1. row[r] # NoRow /\ r \in Listed /\ row'[r] = Removed  BY <1>4, ListedRow DEF Goes
    <2>2. Removed \notin Row  BY <1>1 DEF Row, RunStatus
    <2>3. r \notin Listed'  BY <2>1, <1>1 DEF Listed, RunStatus
    <2> QED  BY <2>1, <2>2, <2>3, <1>1
  <1> QED  BY <1>2, <1>3, <1>4 DEF RowsMove

\* The tables stay whole when rows move and threads keep their tables, but for
\* the threads whose rows all go.
LEMMA MoveTables ==
  ASSUME TablesOK, RowsMove, stored' = stored,
         threads' \subseteq Threads, tables' \subseteq threads', stored => tables' = threads',
         \A r \in Listed : r \in Listed' => row[r].thread \in tables'
  PROVE  TablesOK'
  <1>1. row' \in [Runs -> Row \cup {NoRow, Removed}]
    <2>1. row' = [r \in Runs |-> row'[r]]  BY DEF RowsMove
    <2>2. \A r \in Runs : row'[r] \in Row \cup {NoRow, Removed}  BY MoveFacts
    <2> QED  BY <2>1, <2>2
  <1>2. \A r \in Runs : row'[r] \in Row => row'[r].thread \in tables'
    <2> SUFFICES ASSUME NEW r \in Runs, row'[r] \in Row PROVE row'[r].thread \in tables'  OBVIOUS
    <2>1. row[r] \in Row /\ row'[r].thread = row[r].thread  BY MoveFacts
    <2>2. r \in Listed /\ r \in Listed'  BY <2>1, ListedRow DEF Listed, Row
    <2> QED  BY <2>1, <2>2
  <1> QED  BY <1>1, <1>2 DEF TablesOK

\* So do the idempotency records, when those of the rows that go are dropped.
LEMMA MoveClaims ==
  ASSUME TablesOK, ClaimsOK, RowsMove,
         claims' \subseteq claims,
         \A cl \in claims : cl \in claims' <=> cl.run \in Listed'
  PROVE  ClaimsOK'
  <1>1. \A r \in Listed' : r \in Runs  BY DEF Listed
  <1>2. claims' \subseteq Claim  BY DEF ClaimsOK
  <1>3. ASSUME NEW cl \in claims'
        PROVE  cl.run \in Listed' /\ row'[cl.run].thread = cl.thread /\ row'[cl.run].key = cl.key
    <2>1. cl \in claims /\ cl.run \in Listed'  BY <1>3
    <2>2. row[cl.run].thread = cl.thread /\ row[cl.run].key = cl.key
      BY <2>1 DEF ClaimsOK, ClaimsResolve
    <2> QED  BY <2>1, <2>2, <1>1, MoveFacts
  <1>4. ASSUME NEW r \in Listed', row'[r].key # NoKey PROVE \E cl \in claims' : cl.run = r
    <2>1. r \in Listed /\ row[r].key # NoKey  BY <1>1, <1>4, MoveFacts
    <2>2. PICK cl \in claims : cl.run = r  BY <2>1 DEF ClaimsOK, ClaimsResolve
    <2> QED  BY <2>2, <1>4
  <1> QED  BY <1>2, <1>3, <1>4 DEF ClaimsOK, ClaimsResolve

\* With a store, or where no running goroutine has lost its row unawares, the
\* goroutines stay in step with the rows.
LEMMA MoveJobs ==
  ASSUME CInv, RowsMove, job' = job, stored' = stored,
         ~stored => \A r \in Executing :
             r \in Listed' /\ ~job[r].canceled => row'[r].status = "running"
  PROVE  JobsOK'
  <1> USE DEF CInv
  <1>1. Executing' = Executing  BY DEF Executing
  <1>2. \A r \in Runs : row'[r] = NoRow => job[r] = NoJob  BY MoveFacts DEF JobsOK
  <1>3. \A r \in Executing : job[r].canceled => row'[r].status # "running"
    BY MoveFacts DEF JobsOK, Executing
  <1> QED  BY <1>1, <1>2, <1>3 DEF JobsOK

\* After such a move a running run still has an owner, if the jobs are not touched.
LEMMA MoveOwned ==
  ASSUME CInv, RowsMove,
         \A r \in Runs : row'[r].status = "running" =>
             /\ r \in Executing => r \in Executing' \/ job'[r] = Lost
             /\ r \notin Executing => job'[r] = job[r],
         \A d \in Clients : req[d].pc = "register" => req'[d] = req[d]
  PROVE  RunningIsOwned'
  <1> SUFFICES ASSUME NEW r \in Listed', row'[r].status = "running"
               PROVE  \/ r \in Executing'
                      \/ \E d \in Clients : req'[d].pc = "register" /\ req'[d].run = r
                      \/ job'[r] = Lost
    BY DEF RunningIsOwned
  <1>1. r \in Runs  BY DEF Listed
  <1>2. r \in Listed /\ row[r].status = "running"  BY <1>1, MoveFacts DEF CInv
  <1>3. CASE r \in Executing  BY <1>1, <1>3
  <1>4. CASE \E d \in Clients : req[d].pc = "register" /\ req[d].run = r  BY <1>4
  <1>5. CASE job[r] = Lost
    <2>1. r \notin Executing  BY <1>5 DEF Executing, Lost
    <2> QED  BY <2>1, <1>1, <1>5
  <1> QED  BY <1>2, <1>3, <1>4, <1>5 DEF RunningIsOwned, CInv

\* ControlStore.TransitionRun on a listed run, and the removal of rows.
LEMMA TransitionMoves ==
  ASSUME TablesOK, NEW r \in Listed, NEW s \in {"ended", "canceled"},
         row' = row \/ row' = [row EXCEPT ![r].status = s]
  PROVE  /\ RowsMove
         /\ Listed' = Listed
         /\ \A q \in Runs : q # r => row'[q] = row[q]
  <1>1. r \in Runs  BY DEF Listed
  <1>2. row' = [q \in Runs |-> row'[q]] /\ \A q \in Runs : q # r => row'[q] = row[q]
    BY DEF TablesOK
  <1>3. row'[r] = row[r] \/ row'[r] = [row[r] EXCEPT !.status = s]
    BY <1>1 DEF TablesOK
  <1>4. RowsMove  BY <1>1, <1>2, <1>3 DEF RowsMove, Settles
  <1>5. \A q \in Runs : q \in Listed => q \in Listed'
    <2> SUFFICES ASSUME NEW q \in Runs, q \in Listed PROVE row'[q].status \in RunStatus
      BY DEF Listed
    <2>1. CASE row'[q] = row[q]  BY <2>1 DEF Listed
    <2>2. CASE row'[q] # row[q]
      <3>1. q = r /\ row'[q] = [row[q] EXCEPT !.status = s]  BY <2>2, <1>2, <1>3
      <3>2. row'[q].status = s  BY <3>1, SettledRow
      <3> QED  BY <3>2 DEF RunStatus
    <2> QED  BY <2>1, <2>2
  <1>6. \A q \in Runs : q \in Listed' => q \in Listed  BY <1>4, MoveFacts
  <1> QED  BY <1>2, <1>4, <1>5, <1>6 DEF Listed

\* Removing rows is such a move.
LEMMA RemoveMoves ==
  ASSUME TablesOK, NEW rs, rs \subseteq Listed, Remove(rs)
  PROVE  /\ RowsMove
         /\ \A q \in Runs : q \in Listed' <=> q \in Listed /\ q \notin rs
         /\ \A q \in Runs : q \notin rs => row'[q] = row[q]
  <1>1. /\ row' = [r \in Runs |-> row'[r]]
        /\ \A r \in Runs : row'[r] = IF r \in rs THEN Removed ELSE row[r]
    BY DEF Remove
  <1>2. RowsMove  BY <1>1 DEF RowsMove, Goes
  <1>3. Removed.status \notin RunStatus  BY DEF Removed, RunStatus
  <1>4. \A q \in Runs : q \in Listed' <=> q \in Listed /\ q \notin rs
    BY <1>1, <1>3 DEF Listed
  <1> QED  BY <1>1, <1>2, <1>4
-----------------------------------------------------------------------------
(* The operations.                                                         *)

\* A new request changes nothing but, in memory, the contexts of a thread.
LEMMA AskStep ==
  ASSUME CInv, NEW c \in Clients, Ask(c)
  PROVE  CInv' /\ row' = row
  <1> USE DEF CInv
  <1>1. UNCHANGED <<stored, threads, tables, row, claims, closing, locked, deleted>>
    BY DEF Ask, createThread, deleteThread, deleteStoredThread, createStoredRun, cancelStoredRun
  <1>2. job' = job \/ \E rs : CancelContexts(rs)
    BY DEF Ask, createThread, deleteThread, deleteStoredThread, createStoredRun, cancelStoredRun
  <1>3. PICK q \in Request : /\ q.pc # "register" /\ Begin(c, q)
                             /\ q.pc \in StoreSteps => stored
    <2> USE ServerType, ControlAssumption DEF StoreSteps
    <2>1. ASSUME NEW t \in Threads, createThread(c, t)
          PROVE  \E q \in Request : /\ q.pc # "register" /\ Begin(c, q)
                                    /\ q.pc \in StoreSteps => stored
      <3> DEFINE q == [pc |-> "insertThread", server |-> Server(c), thread |-> t]
      <3>1. q \in Request  BY DEF Request
      <3> QED  BY <2>1, <3>1 DEF createThread
    <2>2. ASSUME NEW t \in Threads, deleteThread(c, t)
          PROVE  \E q \in Request : /\ q.pc # "register" /\ Begin(c, q)
                                    /\ q.pc \in StoreSteps => stored
      <3> DEFINE q == [pc |-> "await", server |-> Solo, thread |-> t, runs |-> RunsOf(t)]
      <3>1. RunsOf(t) \subseteq Runs  BY DEF RunsOf, Listed
      <3>2. q \in Request  BY <3>1 DEF Request
      <3> QED  BY <2>2, <3>2 DEF deleteThread
    <2>3. ASSUME NEW t \in Threads, deleteStoredThread(c, t)
          PROVE  \E q \in Request : /\ q.pc # "register" /\ Begin(c, q)
                                    /\ q.pc \in StoreSteps => stored
      <3> DEFINE rs == {r \in RunsOf(t) : row[r].status = "running"}
                 q == [pc |-> "cancelRows", server |-> Server(c), thread |-> t, runs |-> rs]
      <3>1. rs \subseteq Runs  BY DEF RunsOf, Listed
      <3> HIDE DEF rs
      <3>2. q \in Request  BY <3>1 DEF Request
      <3>3. Begin(c, q)  BY <2>3 DEF deleteStoredThread, rs
      <3> QED  BY <2>3, <3>2, <3>3 DEF deleteStoredThread
    <2>4. ASSUME NEW t \in Threads, NEW k \in Keys \cup {NoKey}, NEW p \in Payloads,
                 createStoredRun(c, t, k, p)
          PROVE  \E q \in Request : /\ q.pc # "register" /\ Begin(c, q)
                                    /\ q.pc \in StoreSteps => stored
      <3> DEFINE q == [pc |-> "storeRun", server |-> Server(c), thread |-> t, key |-> k,
                       payload |-> p]
      <3>1. q \in Request  BY DEF Request
      <3> QED  BY <2>4, <3>1 DEF createStoredRun
    <2>5. ASSUME NEW r \in Runs, cancelStoredRun(c, r)
          PROVE  \E q \in Request : /\ q.pc # "register" /\ Begin(c, q)
                                    /\ q.pc \in StoreSteps => stored
      <3> DEFINE q == [pc |-> IF row[r].status = "running" THEN "transition" ELSE "cancelLocal",
                       server |-> Server(c), run |-> r]
      <3>1. q \in Request  BY DEF Request
      <3>2. q.pc # "register"  OBVIOUS
      <3> QED  BY <2>5, <3>1, <3>2 DEF cancelStoredRun
    <2> QED  BY <2>1, <2>2, <2>3, <2>4, <2>5 DEF Ask
  <1>4. req[c].pc # "register" /\ req' = [req EXCEPT ![c] = q]
    BY <1>3 DEF Begin, Idle
  <1>5. RequestsOK' /\ \A d \in Clients : req[d].pc = "register" => req'[d] = req[d]
    BY <1>1, <1>3, <1>4, RequestStep
  <1>6. ServersOK'  BY <1>1 DEF ServersOK
  <1> QED  BY <1>1, <1>2, <1>5, <1>6, SameRows DEF TablesOK

\* The end of a request, whatever it did to the rows.
LEMMA RespondStep ==
  ASSUME CInv, NEW c \in Clients, Respond(c), req[c].pc # "register", stored' = stored,
         \A r \in Runs : row[r] # NoRow => row'[r] # NoRow
  PROVE  /\ RequestsOK'
         /\ \A d \in Clients : req[d].pc = "register" => req'[d] = req[d]
  <1>1. Idle \in Request /\ Idle.pc = "idle"  BY DEF Request, Idle
  <1>2. Idle.pc \notin StoreSteps  BY <1>1 DEF StoreSteps
  <1> QED  BY <1>1, <1>2, RequestStep DEF Respond

\* Handlers that touch no row.
LEMMA createThreadInsertStep ==
  ASSUME CInv, NEW c \in Clients, createThreadInsert(c)
  PROVE  CInv' /\ row' = row
  <1> USE DEF CInv
  <1>1. RequestsOK' /\ \A d \in Clients : req[d].pc = "register" => req'[d] = req[d]
    BY RespondStep DEF createThreadInsert
  <1>2. req[c].thread \in Threads
    BY RequestFields DEF createThreadInsert, RequestsOK
  <1>3. /\ threads' \subseteq Threads /\ tables' \subseteq threads' /\ tables \subseteq tables'
        /\ stored => tables' = threads'
        /\ deleted' \subseteq Threads
    BY <1>2 DEF createThreadInsert, InsertThread, TablesOK, ServersOK
  <1>4. ServersOK'  BY <1>3 DEF ServersOK, createThreadInsert
  <1> QED  BY <1>1, <1>3, <1>4, SameRows DEF createThreadInsert

\* A client that goes away leaves the tables alone (Abandon).
LEMMA AbandonStep ==
  ASSUME CInv, NEW c \in Clients, Abandon(c)
  PROVE  CInv' /\ row' = row
  <1> USE DEF CInv
  <1>1. RequestsOK' /\ \A d \in Clients : req[d].pc = "register" => req'[d] = req[d]
    BY RespondStep DEF Abandon
  <1>2. ServersOK'  BY DEF ServersOK, Abandon
  <1> QED  BY <1>1, <1>2, SameRows DEF Abandon, TablesOK

\* Cancelling a local context leaves the rows alone (cancelStoredRun).
LEMMA cancelLocalStep ==
  ASSUME CInv, NEW c \in Clients, cancelStoredRunLocal(c)
  PROVE  CInv' /\ row' = row
  <1> USE DEF CInv
  <1>1. RequestsOK' /\ \A d \in Clients : req[d].pc = "register" => req'[d] = req[d]
    BY RespondStep DEF cancelStoredRunLocal
  <1>2. ServersOK'  BY DEF ServersOK, cancelStoredRunLocal
  <1>3. \E rs : CancelContexts(rs)  BY DEF cancelStoredRunLocal
  <1> QED  BY <1>1, <1>2, <1>3, SameRows DEF cancelStoredRunLocal, TablesOK

\* Cancelling the local runs of a thread leaves the rows alone (deleteStoredThread).
LEMMA deleteLocalStep ==
  ASSUME CInv, NEW c \in Clients, deleteStoredThreadLocal(c)
  PROVE  CInv' /\ row' = row
  <1> USE DEF CInv
  <1> DEFINE q == [pc |-> "dropThread", server |-> req[c].server, thread |-> req[c].thread]
  <1>1. req[c] \in Request /\ req[c].pc = "cancelRows" /\ stored
    BY DEF deleteStoredThreadLocal, RequestsOK, StoreSteps
  <1>2. q \in Request  BY <1>1, RequestFields DEF Request
  <1>3. q.pc # "register" /\ req' = [req EXCEPT ![c] = q]
    BY DEF deleteStoredThreadLocal, Goto
  <1> HIDE DEF q
  <1>4. RequestsOK' /\ \A d \in Clients : req[d].pc = "register" => req'[d] = req[d]
    BY <1>1, <1>2, <1>3, RequestStep DEF deleteStoredThreadLocal
  <1>5. ServersOK'  BY DEF ServersOK, deleteStoredThreadLocal
  <1>6. \E rs : CancelContexts(rs)  BY DEF deleteStoredThreadLocal
  <1> QED  BY <1>4, <1>5, <1>6, SameRows DEF deleteStoredThreadLocal, TablesOK

\* The watcher, and Close.
LEMMA SignalStep ==
  ASSUME CInv,
         \/ \E r \in Runs : watchStoredRun(r)
         \/ \E s \in Faulty : Close(s) \/ CloseWait(s)
  PROVE  CInv' /\ row' = row
  <1> USE DEF CInv
  <1>1. UNCHANGED <<stored, threads, tables, row, claims, req, locked, deleted>>
    BY DEF watchStoredRun, Close, CloseWait
  <1>2. job' = job \/ \E rs : CancelContexts(rs)
    BY DEF watchStoredRun, Close, CloseWait
  <1>3. closing' \in [Servers -> {"open", "waiting", "closed"}]
    BY DEF watchStoredRun, Close, CloseWait, ServersOK
  <1>4. ServersOK'  BY <1>1, <1>3 DEF ServersOK
  <1>5. RequestsOK'  BY <1>1 DEF RequestsOK
  <1> QED  BY <1>1, <1>2, <1>4, <1>5, SameRows DEF TablesOK

\* The rows of a thread go with their idempotency records.
LEMMA DropStep ==
  ASSUME CInv, NEW c \in Clients, NEW t \in Threads, DropThread(t), Respond(c),
         req[c].pc # "register", UNCHANGED <<stored, job, closing, locked>>
  PROVE  CInv' /\ RowsMove
  <1> USE DEF CInv
  <1>1. RunsOf(t) \subseteq Listed  BY DEF RunsOf
  <1>2. /\ RowsMove
        /\ \A q \in Runs : q \in Listed' <=> q \in Listed /\ q \notin RunsOf(t)
        /\ \A q \in Runs : q \notin RunsOf(t) => row'[q] = row[q]
    BY <1>1, RemoveMoves DEF DropThread
  <1>3. TablesOK'
    <2>1. \A r \in Listed : r \in Listed' => row[r].thread \in tables'
      <3> SUFFICES ASSUME NEW r \in Listed, r \in Listed' PROVE row[r].thread \in tables'  OBVIOUS
      <3>1. r \in Runs /\ row[r].thread # t  BY <1>2 DEF Listed, RunsOf
      <3>2. row[r].thread \in tables  BY <3>1, ListedRow DEF TablesOK
      <3> QED  BY <3>1, <3>2 DEF DropThread
    <2>2. threads' \subseteq Threads /\ tables' \subseteq threads' /\ (stored => tables' = threads')
      BY DEF DropThread, TablesOK
    <2> QED  BY <2>1, <2>2, <1>2, MoveTables
  <1>4. ClaimsOK'
    <2>1. \A cl \in claims : cl \in claims' <=> cl.run \in Listed'
      <3> SUFFICES ASSUME NEW cl \in claims PROVE cl.thread # t <=> cl.run \in Listed'
        BY DEF DropThread
      <3>1. cl.run \in Listed /\ cl.run \in Runs /\ row[cl.run].thread = cl.thread
        BY DEF ClaimsOK, ClaimsResolve, Listed
      <3> QED  BY <3>1, <1>2 DEF RunsOf
    <2> QED  BY <2>1, <1>2, MoveClaims DEF DropThread
  <1>5. JobsOK'
    <2>1. ~stored => \A r \in Executing :
             r \in Listed' /\ ~job[r].canceled => row'[r].status = "running"
      BY <1>2 DEF JobsOK, Executing
    <2> QED  BY <2>1, <1>2, MoveJobs
  <1>6. RequestsOK' /\ \A d \in Clients : req[d].pc = "register" => req'[d] = req[d]
    BY <1>2, MoveFacts, RespondStep
  <1>7. RunningIsOwned'
    BY <1>2, <1>6, MoveOwned DEF Executing
  <1>8. ServersOK'  BY DEF ServersOK, DropThread
  <1> QED  BY <1>2, <1>3, <1>4, <1>5, <1>6, <1>7, <1>8

\* A thread is dropped with its rows and claims (deleteThread).
LEMMA deleteThreadDropStep ==
  ASSUME CInv, NEW c \in Clients, deleteThreadDrop(c)
  PROVE  CInv' /\ DropThread(req[c].thread) /\ req[c].thread \in Threads
  <1>1. req[c].thread \in Threads
    BY RequestFields DEF deleteThreadDrop, CInv, RequestsOK
  <1> QED  BY <1>1, DropStep DEF deleteThreadDrop

\* The stored thread is dropped, or was gone already (deleteStoredThread).
LEMMA deleteStoredThreadDropStep ==
  ASSUME CInv, NEW c \in Clients, deleteStoredThreadDrop(c)
  PROVE  CInv' /\ (row' = row \/ (DropThread(req[c].thread) /\ req[c].thread \in Threads))
  <1> USE DEF CInv
  <1>1. req[c].thread \in Threads
    BY RequestFields DEF deleteStoredThreadDrop, RequestsOK
  <1>2. CASE req[c].thread \in threads
    BY <1>1, <1>2, DropStep DEF deleteStoredThreadDrop
  <1>3. CASE req[c].thread \notin threads
    <2>1. UNCHANGED <<stored, threads, tables, row, claims, job, closing, locked, deleted>>
      BY <1>3 DEF deleteStoredThreadDrop
    <2>2. RequestsOK' /\ \A d \in Clients : req[d].pc = "register" => req'[d] = req[d]
      BY <2>1, RespondStep DEF deleteStoredThreadDrop
    <2>3. ServersOK'  BY <2>1 DEF ServersOK
    <2> QED  BY <2>1, <2>2, <2>3, SameRows DEF TablesOK
  <1> QED  BY <1>2, <1>3
\* What a transition does to the ledger: a running run settles.
SettlesOnce ==
    \/ row' = row
    \/ \E r \in Listed, s \in {"ended", "canceled"} :
          row[r].status = "running" /\ row' = [row EXCEPT ![r].status = s]

\* A store transition that leaves threads, records and goroutines alone.
LEMMA StoredTransition ==
  ASSUME CInv, stored, NEW r \in Runs, NEW s \in {"ended", "canceled"},
         IF r \in Listed THEN TransitionRun(r, s) ELSE UNCHANGED row,
         UNCHANGED <<stored, threads, tables, claims, closing, locked, deleted>>,
         RequestsOK', \A d \in Clients : req[d].pc = "register" => req'[d] = req[d]
  PROVE  /\ TablesOK' /\ ClaimsOK' /\ ServersOK' /\ RowsMove /\ SettlesOnce
         /\ job' = job => CInv'
         /\ r \in Listed => row'[r].status # "running"
         /\ \A q \in Runs : q # r => row'[q] = row[q]
  <1> USE DEF CInv
  <1>1. CASE r \in Listed
    <2>1. row' = row \/ row' = [row EXCEPT ![r].status = s]
      BY <1>1 DEF TransitionRun
    <2>2. RowsMove /\ Listed' = Listed /\ \A q \in Runs : q # r => row'[q] = row[q]
      BY <1>1, <2>1, TransitionMoves
    <2>3. TablesOK'
      <3>1. \A q \in Listed : row[q].thread \in tables
        BY ListedRow DEF TablesOK, Listed
      <3> QED  BY <3>1, <2>2, MoveTables DEF TablesOK
    <2>4. ClaimsOK'  BY <2>2, MoveClaims DEF ClaimsOK, ClaimsResolve
    <2>5. job' = job => JobsOK' /\ RunningIsOwned'
      BY <2>2, MoveJobs, MoveOwned DEF Executing
    <2>6. row'[r].status # "running"
      <3>1. CASE row[r].status = "running"
        <4>1. row'[r] = [row[r] EXCEPT !.status = s]
          BY <1>1, <3>1 DEF TransitionRun, TablesOK
        <4> QED  BY <4>1, <1>1, SettledRow
      <3>2. CASE row[r].status # "running"  BY <1>1, <3>2 DEF TransitionRun
      <3> QED  BY <3>1, <3>2
    <2>7. SettlesOnce  BY <1>1 DEF TransitionRun, SettlesOnce
    <2>8. ServersOK'  BY DEF ServersOK
    <2> QED  BY <2>2, <2>3, <2>4, <2>5, <2>6, <2>7, <2>8
  <1>2. CASE r \notin Listed
    <2>1. row' = row  BY <1>2
    <2>2. ServersOK'  BY DEF ServersOK
    <2>3. TablesOK' /\ ClaimsOK'
      BY <2>1 DEF TablesOK, ClaimsOK, ClaimsResolve, Listed
    <2>4. RowsMove  BY <2>1 DEF RowsMove, TablesOK
    <2>5. SettlesOnce  BY <2>1 DEF SettlesOnce
    <2>6. job' = job => CInv'
      BY <2>1, <2>2, SameRows DEF TablesOK
    <2> QED  BY <2>1, <2>2, <2>3, <2>4, <2>5, <2>6, <1>2
  <1> QED  BY <1>1, <1>2

\* The handlers that cancel rows.
LEMMA deleteCancelStep ==
  ASSUME CInv, NEW c \in Clients, NEW r \in Runs, deleteStoredThreadCancel(c, r)
  PROVE  CInv' /\ SettlesOnce
  <1> USE DEF CInv
  <1> DEFINE q == [req[c] EXCEPT !.runs = @ \ {r}]
  <1>1. req[c] \in Request /\ req[c].pc = "cancelRows" /\ stored
    BY DEF deleteStoredThreadCancel, RequestsOK, StoreSteps
  <1>2. req[c] \in [pc: {"cancelRows", "await"}, server: Servers, thread: Threads,
                    runs: SUBSET Runs]
    BY <1>1 DEF Request, Idle
  <1>3. q \in [pc: {"cancelRows", "await"}, server: Servers, thread: Threads, runs: SUBSET Runs]
        /\ q.pc = "cancelRows"
    BY <1>1, <1>2
  <1>4. q \in Request  BY <1>3 DEF Request
  <1>5. req' = [req EXCEPT ![c] = q]  BY DEF deleteStoredThreadCancel, Goto
  <1> HIDE DEF q
  <1>6. \A x \in Runs : row[x] # NoRow => row'[x] # NoRow
    <2>1. CASE r \in Listed
      <3>1. row' = row \/ row' = [row EXCEPT ![r].status = "canceled"]
        BY <2>1 DEF deleteStoredThreadCancel, TransitionRun
      <3>2. RowsMove  BY <2>1, <3>1, TransitionMoves
      <3> QED  BY <3>2, MoveFacts
    <2>2. CASE r \notin Listed  BY <2>2 DEF deleteStoredThreadCancel
    <2> QED  BY <2>1, <2>2
  <1>7. RequestsOK' /\ \A d \in Clients : req[d].pc = "register" => req'[d] = req[d]
    BY <1>1, <1>3, <1>4, <1>5, <1>6, RequestStep DEF deleteStoredThreadCancel
  <1> QED  BY <1>1, <1>7, StoredTransition DEF deleteStoredThreadCancel

\* A cancelled row is settled once (cancelStoredRun).
LEMMA cancelTransitionStep ==
  ASSUME CInv, NEW c \in Clients, cancelStoredRunTransition(c)
  PROVE  CInv' /\ SettlesOnce
  <1> USE DEF CInv
  <1> DEFINE q == [req[c] EXCEPT !.pc = "cancelLocal"]
             r == req[c].run
  <1>1. req[c] \in Request /\ req[c].pc = "transition" /\ stored
    BY DEF cancelStoredRunTransition, RequestsOK, StoreSteps
  <1>2. req[c] \in [pc: {"transition", "cancelLocal"}, server: Servers, run: Runs]
    BY <1>1 DEF Request, Idle
  <1>3. q \in [pc: {"transition", "cancelLocal"}, server: Servers, run: Runs]
        /\ q.pc = "cancelLocal"
    BY <1>2
  <1>4. q \in Request /\ r \in Runs  BY <1>2, <1>3 DEF Request
  <1> HIDE DEF q
  <1>5. CASE r \in Listed
    <2>1. TransitionRun(r, "canceled") /\ req' = [req EXCEPT ![c] = q]
      BY <1>5 DEF cancelStoredRunTransition, Goto, q
    <2>2. RowsMove
      <3>1. row' = row \/ row' = [row EXCEPT ![r].status = "canceled"]
        BY <2>1 DEF TransitionRun
      <3> QED  BY <1>5, <3>1, TransitionMoves
    <2>3. RequestsOK' /\ \A d \in Clients : req[d].pc = "register" => req'[d] = req[d]
      BY <1>1, <1>3, <1>4, <2>1, <2>2, MoveFacts, RequestStep DEF cancelStoredRunTransition
    <2> HIDE DEF r
    <2> QED  BY <1>1, <1>4, <1>5, <2>1, <2>3, StoredTransition DEF cancelStoredRunTransition
  <1>6. CASE r \notin Listed
    <2>1. UNCHANGED <<stored, threads, tables, row, claims, job, closing, locked, deleted>>
      BY <1>6 DEF cancelStoredRunTransition
    <2>2. RequestsOK' /\ \A d \in Clients : req[d].pc = "register" => req'[d] = req[d]
      BY <1>1, <1>6, <2>1, RespondStep DEF cancelStoredRunTransition
    <2>3. ServersOK'  BY <2>1 DEF ServersOK
    <2> QED  BY <2>1, <2>2, <2>3, SameRows DEF TablesOK, SettlesOnce
  <1> QED  BY <1>5, <1>6

\* The end of a run with a store: the row settles, or its end is lost.
LEMMA finishStoredRunStep ==
  ASSUME CInv, NEW r \in Runs, finishStoredRun(r)
  PROVE  CInv' /\ SettlesOnce
  <1> USE DEF CInv
  <1>1. stored /\ r \in Executing /\ req' = req
        /\ UNCHANGED <<stored, threads, tables, claims, closing, locked, deleted>>
    BY DEF finishStoredRun
  <1>2. job' = [job EXCEPT ![r] = Done] \/ job' = [job EXCEPT ![r] = Lost]
    BY DEF finishStoredRun
  <1>3. /\ job' \in [Runs -> Job \cup {NoJob, Done, Lost}]
        /\ \A q \in Runs : q # r => job'[q] = job[q]
        /\ job'[r] \in {Done, Lost}
    BY <1>2 DEF JobsOK
  <1>4. \A q \in Runs : q \in Executing' => q \in Executing /\ q # r /\ job'[q] = job[q]
    BY <1>3 DEF Executing, Done, Lost
  <1>5. row[r] # NoRow
    BY <1>1, ExecutingJob DEF JobsOK, Executing, NoJob
  <1>6. CASE /\ IF r \in Listed THEN TransitionRun(r, "ended") ELSE UNCHANGED row
             /\ job' = [job EXCEPT ![r] = Done]
    <2>1. \A q \in Runs : row[q] # NoRow => row'[q] # NoRow
      <3>1. CASE r \in Listed
        <4>1. row' = row \/ row' = [row EXCEPT ![r].status = "ended"]
          BY <1>6, <3>1 DEF TransitionRun
        <4>2. RowsMove  BY <3>1, <4>1, TransitionMoves
        <4> QED  BY <4>2, MoveFacts
      <3>2. CASE r \notin Listed  BY <1>6, <3>2
      <3> QED  BY <3>1, <3>2
    <2>2. RequestsOK'
      BY <1>1, <2>1, RequestFields DEF RequestsOK
    <2>3. /\ TablesOK' /\ ClaimsOK' /\ ServersOK' /\ RowsMove /\ SettlesOnce
          /\ r \in Listed => row'[r].status # "running"
      BY <1>1, <1>6, <2>2, StoredTransition
    <2>4. JobsOK'
      <3>1. \A q \in Runs : row'[q] = NoRow => job'[q] = NoJob
        BY <1>3, <1>5, <2>3, MoveFacts DEF JobsOK
      <3>2. \A q \in Executing' : job'[q].canceled => row'[q].status # "running"
        <4> SUFFICES ASSUME NEW q \in Executing', job'[q].canceled, row'[q].status = "running"
                     PROVE  FALSE
          OBVIOUS
        <4>1. q \in Runs /\ q \in Executing /\ job'[q] = job[q]  BY <1>4 DEF Executing
        <4>2. row'[q] = row[q]  BY <4>1, <2>3, MoveFacts
        <4> QED  BY <4>1, <4>2 DEF JobsOK
      <3> QED  BY <3>1, <3>2, <1>1, <1>3 DEF JobsOK
    <2>5. RunningIsOwned'
      <3>1. row'[r].status # "running"
        <4>1. CASE r \in Listed  BY <4>1, <2>3
        <4>2. CASE r \notin Listed  BY <4>2, <1>6 DEF Listed, RunStatus
        <4> QED  BY <4>1, <4>2
      <3>2. \A q \in Runs : row'[q].status = "running" =>
               /\ q \in Executing => q \in Executing'
               /\ job'[q] = job[q]
        BY <3>1, <1>3 DEF Executing
      <3> QED  BY <3>2, <1>1, <2>3, MoveOwned
    <2> QED  BY <2>2, <2>3, <2>4, <2>5
  <1>7. CASE row' = row /\ job' = [job EXCEPT ![r] = Lost]
    <2>1. RequestsOK' /\ ServersOK' /\ TablesOK' /\ ClaimsOK' /\ SettlesOnce
      BY <1>1, <1>7 DEF RequestsOK, ServersOK, TablesOK, ClaimsOK, ClaimsResolve, Listed, SettlesOnce
    <2>2. RowsMove  BY <1>7 DEF RowsMove, TablesOK
    <2>3. JobsOK'
      BY <1>1, <1>3, <1>4, <1>5, <1>7 DEF JobsOK, Executing
    <2>4. job'[r] = Lost  BY <1>7 DEF JobsOK
    <2>5. \A q \in Runs : row'[q].status = "running" =>
               /\ q \in Executing => q \in Executing' \/ job'[q] = Lost
               /\ q \notin Executing => job'[q] = job[q]
      BY <1>1, <1>3, <2>4 DEF Executing
    <2>6. RunningIsOwned'  BY <2>2, <2>5, <1>1, MoveOwned
    <2> QED  BY <2>1, <2>3, <2>6
  <1> QED  BY <1>6, <1>7 DEF finishStoredRun
\* In memory the row and the record of a run settle together.
LEMMA cancelRunStep ==
  ASSUME CInv, NEW r \in Runs, cancelRun(r)
  PROVE  CInv' /\ SettlesOnce
  <1> USE DEF CInv
  <1>1. /\ ~stored /\ r \in Listed /\ row[r].status = "running"
        /\ row' = [row EXCEPT ![r].status = "canceled"]
        /\ UNCHANGED <<stored, tables, claims, req, closing, locked, deleted>>
        /\ threads' = threads \cup {row[r].thread}
    BY DEF cancelRun
  <1>2. row[r] \in Row /\ row[r].thread \in tables
    BY <1>1, ListedRow DEF TablesOK
  <1>3. RowsMove /\ Listed' = Listed /\ \A q \in Runs : q # r => row'[q] = row[q]
    BY <1>1, TransitionMoves
  <1>4. row'[r].status = "canceled"
    <2>1. row'[r] = [row[r] EXCEPT !.status = "canceled"]  BY <1>1 DEF TablesOK
    <2> QED  BY <2>1, <1>1, SettledRow
  <1>5. TablesOK'
    <2>1. \A q \in Listed : row[q].thread \in tables
      BY ListedRow DEF TablesOK, Listed
    <2>2. threads' \subseteq Threads /\ tables' \subseteq threads'
      BY <1>1, <1>2 DEF TablesOK
    <2> QED  BY <2>1, <2>2, <1>1, <1>3, MoveTables
  <1>6. ClaimsOK'  BY <1>1, <1>3, MoveClaims DEF ClaimsOK, ClaimsResolve
  <1>7. /\ job' \in [Runs -> Job \cup {NoJob, Done, Lost}]
        /\ \A q \in Runs : q # r => job'[q] = job[q]
        /\ r \in Executing => job'[r].pc = "invoke" /\ job'[r].canceled
        /\ r \notin Executing => job'[r] = job[r]
    <2>1. CASE r \in Executing
      <3>1. job[r] \in Job  BY <2>1, ExecutingJob
      <3>2. job' = [job EXCEPT ![r].stopped = TRUE, ![r].canceled = TRUE]
        BY <2>1 DEF cancelRun
      <3>3. job'[r] = [job[r] EXCEPT !.stopped = TRUE, !.canceled = TRUE]
        BY <3>2 DEF JobsOK
      <3>4. job'[r] \in Job /\ job'[r].canceled = TRUE /\ job'[r].pc = "invoke"
        BY <3>1, <3>3 DEF Job
      <3>5. /\ \A q \in Runs : q # r => job'[q] = job[q]
            /\ job' = [q \in Runs |-> job'[q]]
        BY <3>2 DEF JobsOK
      <3> QED  BY <3>4, <3>5, <2>1 DEF JobsOK
    <2>2. CASE r \notin Executing
      BY <2>2 DEF cancelRun, JobsOK
    <2> QED  BY <2>1, <2>2
  <1>8. Executing' = Executing
    BY <1>7 DEF Executing
  <1>9. JobsOK'
    <2>1. \A q \in Runs : row'[q] = NoRow => job'[q] = NoJob
      BY <1>1, <1>3, <1>7, MoveFacts, ListedRow DEF JobsOK
    <2>2. \A q \in Executing : job'[q].canceled => row'[q].status # "running"
      BY <1>3, <1>4, <1>7 DEF JobsOK, Executing
    <2>3. \A q \in Executing : q \in Listed' /\ ~job'[q].canceled => row'[q].status = "running"
      BY <1>1, <1>3, <1>7 DEF JobsOK, Executing
    <2> QED  BY <2>1, <2>2, <2>3, <1>7, <1>8 DEF JobsOK
  <1>10. RequestsOK'
    BY <1>1, <1>3, MoveFacts, RequestFields DEF RequestsOK
  <1>11. RunningIsOwned'
    BY <1>1, <1>3, <1>7, <1>8, MoveOwned DEF Executing
  <1>12. ServersOK' /\ SettlesOnce  BY <1>1 DEF ServersOK, SettlesOnce
  <1> QED  BY <1>5, <1>6, <1>9, <1>10, <1>11, <1>12

\* executeRun settles a row only when its record was not cancelled: then the row
\* is still running.
LEMMA executeRunStep ==
  ASSUME CInv, NEW r \in Runs, executeRun(r)
  PROVE  CInv' /\ SettlesOnce
  <1> USE DEF CInv
  <1>1. /\ ~stored /\ r \in Executing /\ job' = [job EXCEPT ![r] = Done]
        /\ UNCHANGED <<stored, tables, claims, req, closing, locked, deleted>>
    BY DEF executeRun
  <1>2. /\ job' \in [Runs -> Job \cup {NoJob, Done, Lost}]
        /\ \A q \in Runs : q # r => job'[q] = job[q]
        /\ job'[r] = Done
    BY <1>1 DEF JobsOK
  <1>3. \A q \in Runs : q \in Executing' => q \in Executing /\ q # r /\ job'[q] = job[q]
    BY <1>2 DEF Executing, Done
  <1>4. job[r] \in Job /\ row[r] # NoRow
    BY <1>1, ExecutingJob DEF JobsOK, Executing, NoJob
  <1>5. /\ RowsMove /\ Listed' = Listed /\ SettlesOnce /\ row'[r].status # "running"
        /\ \A q \in Runs : q # r => row'[q] = row[q]
    <2>1. CASE row' = row /\ (job[r].canceled \/ r \notin Listed)
      <3>1. row[r].status # "running"
        BY <2>1, <1>1 DEF JobsOK, Listed, RunStatus
      <3> QED  BY <2>1, <3>1 DEF RowsMove, TablesOK, Listed, SettlesOnce
    <2>2. CASE r \in Listed /\ ~job[r].canceled /\ row' = [row EXCEPT ![r].status = "ended"]
      <3>1. row[r].status = "running"  BY <1>1, <2>2 DEF JobsOK
      <3>2. row'[r] = [row[r] EXCEPT !.status = "ended"]  BY <2>2 DEF TablesOK
      <3>3. row'[r].status = "ended"  BY <3>2, <2>2, SettledRow
      <3>4. SettlesOnce  BY <2>2, <3>1 DEF SettlesOnce
      <3> QED  BY <2>2, <3>3, <3>4, TransitionMoves
    <2> QED  BY <2>1, <2>2 DEF executeRun
  <1>6. threads' \subseteq Threads /\ threads \subseteq threads'
    BY <1>4 DEF executeRun, TablesOK, Job
  <1>7. TablesOK'
    <2>1. \A q \in Listed : row[q].thread \in tables
      BY ListedRow DEF TablesOK, Listed
    <2>2. tables' \subseteq threads'  BY <1>1, <1>6 DEF TablesOK
    <2> QED  BY <2>1, <2>2, <1>1, <1>5, <1>6, MoveTables
  <1>8. ClaimsOK'  BY <1>1, <1>5, MoveClaims DEF ClaimsOK, ClaimsResolve
  <1>9. JobsOK'
    <2>1. \A q \in Runs : row'[q] = NoRow => job'[q] = NoJob
      BY <1>2, <1>4, <1>5, MoveFacts DEF JobsOK
    <2>2. \A q \in Executing' : job'[q].canceled => row'[q].status # "running"
      BY <1>3, <1>5 DEF JobsOK, Executing
    <2>3. \A q \in Executing' : q \in Listed' /\ ~job'[q].canceled => row'[q].status = "running"
      BY <1>1, <1>3, <1>5 DEF JobsOK, Executing
    <2> QED  BY <2>1, <2>2, <2>3, <1>2 DEF JobsOK
  <1>10. RequestsOK'
    BY <1>1, <1>5, MoveFacts, RequestFields DEF RequestsOK
  <1>11. RunningIsOwned'
    BY <1>1, <1>2, <1>5, MoveOwned DEF Executing
  <1>12. ServersOK'  BY <1>1 DEF ServersOK
  <1> QED  BY <1>5, <1>7, <1>8, <1>9, <1>10, <1>11, <1>12

\* Retention takes settled rows with their idempotency records.
LEMMA PruneStep ==
  ASSUME CInv, PruneRequest
  PROVE  /\ CInv'
         /\ \E rs \in SUBSET Listed :
               (\A r \in rs : terminalRun(row[r].status)) /\ Remove(rs)
  <1> USE DEF CInv
  <1>1. PICK rs \in SUBSET Listed : PruneRuns(rs)  BY DEF PruneRequest
  <1>2. UNCHANGED <<stored, threads, tables, job, req, closing, locked, deleted>>
    BY DEF PruneRequest
  <1>3. rs \subseteq Listed /\ Remove(rs) /\ claims' = {cl \in claims : cl.run \notin rs}
        /\ \A r \in rs : terminalRun(row[r].status)
    BY <1>1 DEF PruneRuns
  <1>4. /\ RowsMove
        /\ \A q \in Runs : q \in Listed' <=> q \in Listed /\ q \notin rs
        /\ \A q \in Runs : q \notin rs => row'[q] = row[q]
    BY <1>3, RemoveMoves
  <1>5. TablesOK'
    <2>1. \A q \in Listed : row[q].thread \in tables
      BY ListedRow DEF TablesOK, Listed
    <2> QED  BY <2>1, <1>2, <1>4, MoveTables DEF TablesOK
  <1>6. ClaimsOK'
    <2>1. \A cl \in claims : cl.run \in Listed /\ cl.run \in Runs
      BY DEF ClaimsOK, ClaimsResolve, Listed
    <2> QED  BY <2>1, <1>3, <1>4, MoveClaims
  <1>7. JobsOK'
    <2>1. ~stored => \A r \in Executing :
             r \in Listed' /\ ~job[r].canceled => row'[r].status = "running"
      BY <1>4 DEF JobsOK, Executing
    <2> QED  BY <2>1, <1>2, <1>4, MoveJobs
  <1>8. RequestsOK'
    BY <1>2, <1>4, MoveFacts, RequestFields DEF RequestsOK
  <1>9. RunningIsOwned'
    BY <1>2, <1>4, MoveOwned DEF Executing
  <1>10. ServersOK'  BY <1>2 DEF ServersOK
  <1> QED  BY <1>3, <1>5, <1>6, <1>7, <1>8, <1>9, <1>10

\* The insert of a run: its row is new, and its key had no claim.
LEMMA InsertStep ==
  ASSUME CInv, NEW r \in Runs, NEW t \in tables, NEW k \in Keys \cup {NoKey}, NEW p \in Payloads,
         NewID(r), InsertRun(r, t, k, p), ClaimOf(t, k) = {},
         UNCHANGED <<stored, threads, tables>>
  PROVE  /\ TablesOK' /\ ClaimsOK'
         /\ row'[r] = [thread |-> t, key |-> k, status |-> "running"] /\ row'[r] \in Row
         /\ row[r] = NoRow
         /\ \A q \in Runs : q # r => row'[q] = row[q]
         /\ Listed' = Listed \cup {r} /\ r \notin Listed
  <1> USE DEF CInv
  <1> DEFINE new == [thread |-> t, key |-> k, status |-> "running"]
  <1>1. new \in Row /\ new.thread = t /\ new.key = k /\ new.status = "running"
    BY DEF Row, RunStatus, TablesOK
  <1>2. row' = [row EXCEPT ![r] = new] /\ row[r] = NoRow  BY DEF InsertRun, NewID
  <1> HIDE DEF new
  <1>3. row'[r] = new /\ \A q \in Runs : q # r => row'[q] = row[q]
    BY <1>2 DEF TablesOK
  <1>4. row' \in [Runs -> Row \cup {NoRow, Removed}]  BY <1>1, <1>2 DEF TablesOK
  <1>5. r \notin Listed /\ Listed' = Listed \cup {r}
    BY <1>1, <1>2, <1>3, ListedRow DEF Listed, RunStatus
  <1>6. TablesOK'
    BY <1>1, <1>3, <1>4 DEF TablesOK
  <1>7. ClaimsOK'
    <2> DEFINE cl0 == [thread |-> t, key |-> k, payload |-> p, run |-> r]
    <2>1. claims' = IF k = NoKey THEN claims ELSE claims \cup {cl0}
      BY DEF InsertRun
    <2>2. k # NoKey => cl0 \in Claim
      BY DEF Claim, TablesOK
    <2>3. cl0.run = r /\ cl0.thread = t /\ cl0.key = k  OBVIOUS
    <2> HIDE DEF cl0
    <2>4. claims' \subseteq Claim  BY <2>1, <2>2 DEF ClaimsOK
    <2>5. ASSUME NEW cl \in claims'
          PROVE  cl.run \in Listed' /\ row'[cl.run].thread = cl.thread /\ row'[cl.run].key = cl.key
      <3>1. CASE cl \in claims
        <4>1. cl.run \in Listed /\ row[cl.run].thread = cl.thread /\ row[cl.run].key = cl.key
          BY <3>1 DEF ClaimsOK, ClaimsResolve
        <4>2. cl.run \in Runs /\ cl.run # r  BY <4>1, <1>5 DEF Listed
        <4> QED  BY <4>1, <4>2, <1>3, <1>5
      <3>2. CASE cl = cl0  BY <3>2, <2>3, <1>1, <1>3, <1>5
      <3> QED  BY <3>1, <3>2, <2>1, <2>5
    <2>6. ASSUME NEW q \in Listed', row'[q].key # NoKey PROVE \E cl \in claims' : cl.run = q
      <3>1. CASE q = r
        <4>1. k # NoKey  BY <3>1, <2>6, <1>1, <1>3
        <4> QED  BY <4>1, <3>1, <2>1, <2>3
      <3>2. CASE q # r
        <4>1. q \in Listed /\ q \in Runs  BY <3>2, <1>5 DEF Listed
        <4>2. row[q].key # NoKey  BY <4>1, <3>2, <2>6, <1>3
        <4>3. PICK cl \in claims : cl.run = q  BY <4>1, <4>2 DEF ClaimsOK, ClaimsResolve
        <4> QED  BY <4>3, <2>1
      <3> QED  BY <3>1, <3>2
    <2> QED  BY <2>4, <2>5, <2>6 DEF ClaimsOK, ClaimsResolve
  <1> QED  BY <1>1, <1>2, <1>3, <1>5, <1>6, <1>7 DEF new
\* What a create does to the ledger: a new run, under a key no listed run of the
\* thread has.
StartsFresh ==
    \E r \in Runs, t \in Threads, k \in Keys \cup {NoKey} :
        /\ row[r] = NoRow
        /\ k # NoKey => \A q \in Listed : row[q].thread = t => row[q].key # k
        /\ row' = [row EXCEPT ![r] = [thread |-> t, key |-> k, status |-> "running"]]

\* A key without a claim is not the key of any listed run of its thread.
LEMMA FreshKey ==
  ASSUME ClaimsOK, NEW t, NEW k, k # NoKey, ClaimOf(t, k) = {}, NEW q \in Listed,
         row[q].thread = t
  PROVE  row[q].key # k
  <1> SUFFICES ASSUME row[q].key = k PROVE FALSE  OBVIOUS
  <1>1. PICK cl \in claims : cl.run = q  BY DEF ClaimsOK, ClaimsResolve
  <1>2. cl.thread = t /\ cl.key = k  BY <1>1 DEF ClaimsOK, ClaimsResolve
  <1> QED  BY <1>1, <1>2 DEF ClaimOf

\* createRun in memory; the panic of a thread without a table locks the server.
LEMMA createRunStep ==
  ASSUME CInv, NEW t \in Threads, NEW k \in Keys \cup {NoKey}, NEW p \in Payloads, NEW r \in Runs,
         createRun(t, k, p, r)
  PROVE  CInv' /\ (row' = row \/ StartsFresh)
  <1> USE DEF CInv
  <1>1. UNCHANGED <<stored, threads, tables, req, closing, deleted>> /\ ~stored
    BY DEF createRun
  <1>2. CASE t \in tables
    <2>1. NewID(r) /\ InsertRun(r, t, k, p) /\ StartJob(r, Solo, t, FALSE) /\ locked' = locked
      BY <1>2 DEF createRun
    <2>2. ClaimOf(t, k) = {}
      BY DEF createRun, ClaimOf, ClaimsOK, ClaimsResolve
    <2>3. /\ TablesOK' /\ ClaimsOK' /\ row'[r] \in Row /\ row[r] = NoRow
          /\ row'[r] = [thread |-> t, key |-> k, status |-> "running"]
          /\ \A q \in Runs : q # r => row'[q] = row[q]
          /\ Listed' = Listed \cup {r} /\ r \notin Listed
      BY <1>1, <1>2, <2>1, <2>2, InsertStep
    <2>4. row'[r].status = "running" /\ row'[r] # NoRow  BY <2>3 DEF NoRow
    <2>5. /\ job' \in [Runs -> Job \cup {NoJob, Done, Lost}]
          /\ \A q \in Runs : q # r => job'[q] = job[q]
          /\ job'[r].pc = "invoke" /\ ~job'[r].canceled
      <3> DEFINE j == [pc |-> "invoke", server |-> Solo, thread |-> t, stopped |-> FALSE,
                       canceled |-> FALSE]
      <3>1. j \in Job /\ j.pc = "invoke" /\ ~j.canceled  BY ControlAssumption DEF Job
      <3>2. job' = [job EXCEPT ![r] = j]  BY <2>1 DEF StartJob
      <3> HIDE DEF j
      <3> QED  BY <3>1, <3>2 DEF JobsOK
    <2>6. \A q \in Runs : q \in Executing' => q = r \/ (q \in Executing /\ job'[q] = job[q])
      BY <2>5 DEF Executing
    <2>7. JobsOK'
      <3>1. \A q \in Runs : row'[q] = NoRow => job'[q] = NoJob
        BY <2>3, <2>4, <2>5 DEF JobsOK
      <3>2. \A q \in Executing' : job'[q].canceled => row'[q].status # "running"
        BY <2>3, <2>5, <2>6 DEF JobsOK, Executing
      <3>3. \A q \in Executing' : q \in Listed' /\ ~job'[q].canceled => row'[q].status = "running"
        BY <1>1, <2>3, <2>4, <2>5, <2>6 DEF JobsOK, Executing
      <3> QED  BY <3>1, <3>2, <3>3, <2>5 DEF JobsOK
    <2>8. RequestsOK'
      BY <1>1, <2>3, <2>4, RequestFields DEF RequestsOK
    <2>9. RunningIsOwned'
      <3> SUFFICES ASSUME NEW q \in Listed', row'[q].status = "running"
                   PROVE  \/ q \in Executing'
                          \/ \E c \in Clients : req'[c].pc = "register" /\ req'[c].run = q
                          \/ job'[q] = Lost
        BY DEF RunningIsOwned
      <3>1. CASE q = r  BY <3>1, <2>5 DEF Executing
      <3>2. CASE q # r
        <4>1. q \in Listed /\ q \in Runs /\ row[q].status = "running" /\ job'[q] = job[q]
          BY <3>2, <2>3, <2>5 DEF Listed
        <4> QED  BY <4>1, <1>1 DEF RunningIsOwned, Executing
      <3> QED  BY <3>1, <3>2
    <2>10. ServersOK'  BY <1>1, <2>1 DEF ServersOK
    <2>11. StartsFresh
      <3>1. row' = [row EXCEPT ![r] = [thread |-> t, key |-> k, status |-> "running"]]
        BY <2>1 DEF InsertRun
      <3>2. k # NoKey => \A q \in Listed : row[q].thread = t => row[q].key # k
        BY <2>2, FreshKey
      <3> QED  BY <3>1, <3>2, <2>3 DEF StartsFresh
    <2> QED  BY <2>3, <2>7, <2>8, <2>9, <2>10, <2>11
  <1>3. CASE t \notin tables
    <2>1. UNCHANGED <<row, claims, job>> /\ locked' = TRUE  BY <1>3 DEF createRun
    <2>2. ServersOK' /\ RequestsOK'  BY <1>1, <2>1 DEF ServersOK, RequestsOK
    <2> QED  BY <1>1, <2>1, <2>2, SameRows DEF TablesOK
  <1> QED  BY <1>2, <1>3

\* createStoredRun: the row first; the handler owns the run until it registers.
LEMMA createStoredRunInsertStep ==
  ASSUME CInv, NEW c \in Clients, NEW r \in Runs, createStoredRunInsert(c, r)
  PROVE  CInv' /\ (row' = row \/ StartsFresh)
  <1> USE DEF CInv
  <1> DEFINE t == req[c].thread
             k == req[c].key
             p == req[c].payload
             s == req[c].server
  <1>1. UNCHANGED <<stored, threads, tables, job, closing, locked, deleted>>
        /\ req[c].pc = "storeRun"
    BY DEF createStoredRunInsert
  <1>2. /\ t \in Threads /\ k \in Keys \cup {NoKey} /\ p \in Payloads /\ s \in Servers /\ stored
    BY <1>1, RequestFields DEF RequestsOK, StoreSteps
  <1>3. CASE t \notin threads \/ ClaimOf(t, k) # {}
    <2>1. Respond(c) /\ UNCHANGED <<row, claims>>  BY <1>3 DEF createStoredRunInsert
    <2>2. RequestsOK' /\ \A d \in Clients : req[d].pc = "register" => req'[d] = req[d]
      BY <1>1, <2>1, RespondStep
    <2>3. ServersOK'  BY <1>1 DEF ServersOK
    <2> QED  BY <1>1, <2>1, <2>2, <2>3, SameRows DEF TablesOK
  <1>4. CASE ~(t \notin threads \/ ClaimOf(t, k) # {})
    <2> DEFINE q0 == [pc |-> "register", server |-> s, thread |-> t, run |-> r]
    <2>1. NewID(r) /\ InsertRun(r, t, k, p) /\ req' = [req EXCEPT ![c] = q0]
      BY <1>4 DEF createStoredRunInsert, Goto
    <2>2. t \in tables /\ ClaimOf(t, k) = {}  BY <1>2, <1>4 DEF TablesOK
    <2>3. q0 \in Request /\ q0.pc = "register" /\ q0.run = r
      BY <1>2 DEF Request
    <2> HIDE DEF q0, t, k, p, s
    <2>4. /\ TablesOK' /\ ClaimsOK' /\ row'[r] \in Row /\ row[r] = NoRow
          /\ row'[r] = [thread |-> t, key |-> k, status |-> "running"]
          /\ \A q \in Runs : q # r => row'[q] = row[q]
          /\ Listed' = Listed \cup {r} /\ r \notin Listed
      BY <1>1, <1>2, <2>1, <2>2, InsertStep
    <2>5. row'[r] # NoRow  BY <2>4 DEF NoRow
    <2>6. /\ req' \in [Clients -> Request] /\ req'[c] = q0
          /\ \A d \in Clients : d # c => req'[d] = req[d]
      BY <2>1, <2>3 DEF RequestsOK
    <2>7. RequestsOK'
      <3>1. \A d \in Clients : req'[d].pc = "register" => row'[req'[d].run] # NoRow
        <4> SUFFICES ASSUME NEW d \in Clients, req'[d].pc = "register"
                     PROVE  row'[req'[d].run] # NoRow
          OBVIOUS
        <4>1. CASE d = c  BY <4>1, <2>3, <2>5, <2>6
        <4>2. CASE d # c
          <5>1. req'[d] = req[d] /\ req[d].run \in Runs /\ row[req[d].run] # NoRow
            BY <4>2, <2>6, RequestFields DEF RequestsOK
          <5> QED  BY <5>1, <2>4
        <4> QED  BY <4>1, <4>2
      <3> QED  BY <3>1, <2>6, <1>1, <1>2 DEF RequestsOK
    <2>8. JobsOK'
      <3>1. r \notin Executing
        <4>1. job[r] = NoJob  BY <2>4 DEF JobsOK
        <4> QED  BY <4>1 DEF Executing, NoJob
      <3>2. Executing' = Executing  BY <1>1 DEF Executing
      <3>3. \A q \in Executing : q \in Runs /\ q # r  BY <3>1 DEF Executing
      <3>4. \A q \in Runs : row'[q] = NoRow => job'[q] = NoJob
        BY <1>1, <2>4, <2>5 DEF JobsOK
      <3>5. \A q \in Executing' : job'[q].canceled => row'[q].status # "running"
        BY <1>1, <2>4, <3>2, <3>3 DEF JobsOK
      <3> QED  BY <3>4, <3>5, <1>1, <1>2 DEF JobsOK
    <2>9. RunningIsOwned'
      <3> SUFFICES ASSUME NEW q \in Listed', row'[q].status = "running"
                   PROVE  \/ q \in Executing'
                          \/ \E d \in Clients : req'[d].pc = "register" /\ req'[d].run = q
                          \/ job'[q] = Lost
        BY DEF RunningIsOwned
      <3>1. CASE q = r  BY <3>1, <2>3, <2>6
      <3>2. CASE q # r
        <4>1. q \in Listed /\ q \in Runs /\ row[q].status = "running"
          BY <3>2, <2>4 DEF Listed
        <4>2. CASE \E d \in Clients : req[d].pc = "register" /\ req[d].run = q
          <5>1. PICK d \in Clients : req[d].pc = "register" /\ req[d].run = q  BY <4>2
          <5>2. d # c  BY <5>1, <1>1
          <5> QED  BY <5>1, <5>2, <2>6
        <4>3. CASE q \in Executing \/ job[q] = Lost  BY <4>3, <1>1 DEF Executing
        <4> QED  BY <4>1, <4>2, <4>3 DEF RunningIsOwned
      <3> QED  BY <3>1, <3>2
    <2>10. ServersOK'  BY <1>1 DEF ServersOK
    <2>11. StartsFresh
      <3>1. row' = [row EXCEPT ![r] = [thread |-> t, key |-> k, status |-> "running"]]
        BY <2>1 DEF InsertRun
      <3>2. k # NoKey => \A q \in Listed : row[q].thread = t => row[q].key # k
        BY <2>2, FreshKey
      <3> QED  BY <3>1, <3>2, <2>4, <1>2 DEF StartsFresh
    <2> QED  BY <2>4, <2>7, <2>8, <2>9, <2>10, <2>11
  <1> QED  BY <1>3, <1>4

\* The goroutine takes the run over from the handler.
LEMMA RegisterStep ==
  ASSUME CInv, NEW c \in Clients, createStoredRunRegister(c)
  PROVE  CInv' /\ row' = row
  <1> USE DEF CInv
  <1> DEFINE r == req[c].run
             j == [pc |-> "invoke", server |-> req[c].server, thread |-> req[c].thread,
                   stopped |-> closed(req[c].server), canceled |-> FALSE]
  <1>1. /\ UNCHANGED <<stored, threads, tables, row, claims, closing, locked, deleted>>
        /\ req[c].pc = "register" /\ req' = [req EXCEPT ![c] = Idle]
    BY DEF createStoredRunRegister, Respond
  <1>2. r \in Runs /\ row[r] # NoRow /\ stored /\ req[c].server \in Servers
        /\ req[c].thread \in Threads
    BY <1>1, RequestFields DEF RequestsOK, StoreSteps
  <1>3. j \in Job /\ j.pc = "invoke" /\ ~j.canceled  BY <1>2 DEF Job, closed
  <1>4. job' = [job EXCEPT ![r] = j]  BY DEF createStoredRunRegister, StartJob
  <1> HIDE DEF j, r
  <1>5. /\ job' \in [Runs -> Job \cup {NoJob, Done, Lost}]
        /\ job'[r] = j /\ \A q \in Runs : q # r => job'[q] = job[q]
    BY <1>2, <1>3, <1>4 DEF JobsOK
  <1>6. Idle \in Request /\ Idle.pc = "idle"  BY DEF Request, Idle
  <1>7. /\ req' \in [Clients -> Request] /\ req'[c] = Idle
        /\ \A d \in Clients : d # c => req'[d] = req[d]
    BY <1>1, <1>6 DEF RequestsOK
  <1>8. RequestsOK'
    BY <1>1, <1>2, <1>6, <1>7 DEF RequestsOK
  <1>9. \A q \in Runs : q \in Executing' => q = r \/ (q \in Executing /\ job'[q] = job[q])
    BY <1>5 DEF Executing
  <1>10. JobsOK'
    <2>1. \A q \in Runs : row'[q] = NoRow => job'[q] = NoJob
      BY <1>1, <1>2, <1>5 DEF JobsOK
    <2>2. \A q \in Executing' : job'[q].canceled => row'[q].status # "running"
      BY <1>1, <1>3, <1>5, <1>9 DEF JobsOK, Executing
    <2> QED  BY <2>1, <2>2, <1>1, <1>2, <1>5 DEF JobsOK
  <1>11. RunningIsOwned'
    <2> SUFFICES ASSUME NEW q \in Listed, row[q].status = "running"
                 PROVE  \/ q \in Executing'
                        \/ \E d \in Clients : req'[d].pc = "register" /\ req'[d].run = q
                        \/ job'[q] = Lost
      BY <1>1 DEF RunningIsOwned, Listed
    <2>1. q \in Runs  BY DEF Listed
    <2>2. CASE q = r  BY <2>1, <2>2, <1>3, <1>5 DEF Executing
    <2>3. CASE q # r
      <3>1. job'[q] = job[q]  BY <2>1, <2>3, <1>5
      <3>2. CASE \E d \in Clients : req[d].pc = "register" /\ req[d].run = q
        <4>1. PICK d \in Clients : req[d].pc = "register" /\ req[d].run = q  BY <3>2
        <4>2. d # c  BY <4>1, <2>3 DEF r
        <4> QED  BY <4>1, <4>2, <1>7
      <3> QED  BY <3>1, <3>2, <2>1 DEF RunningIsOwned, Executing
    <2> QED  BY <2>2, <2>3
  <1>12. TablesOK' /\ ClaimsOK' /\ ServersOK'
    BY <1>1 DEF TablesOK, ClaimsOK, ClaimsResolve, Listed, ServersOK
  <1> QED  BY <1>1, <1>8, <1>10, <1>11, <1>12

\* A crash leaves the runs of the server behind: marked as lost, not forgotten.
LEMMA CrashStep ==
  ASSUME CInv, NEW s \in Faulty, Crash(s)
  PROVE  CInv' /\ row' = row
  <1> USE DEF CInv
  <1> DEFINE Mine(c) == req[c] # Idle /\ req[c].server = s
             lost == RunsOn(s) \cup
                 {req[c].run : c \in {d \in Clients : Mine(d) /\ req[d].pc = "register"}}
  <1>1. /\ stored /\ UNCHANGED <<stored, threads, tables, row, claims, locked, deleted>>
        /\ job' = [r \in Runs |-> IF r \in lost THEN Lost ELSE job[r]]
        /\ req' = [c \in Clients |-> IF Mine(c) THEN Idle ELSE req[c]]
        /\ closing' = [closing EXCEPT ![s] = "open"]
    BY DEF Crash
  <1>2. \A r \in Runs : r \in lost => row[r] # NoRow
    <2>1. \A r \in RunsOn(s) : row[r] # NoRow
      BY DEF RunsOn, Executing, JobsOK, NoJob
    <2> QED  BY <2>1 DEF RequestsOK
  <1>3. Idle \in Request /\ Idle.pc = "idle"  BY DEF Request, Idle
  <1>4. \A c \in Clients : req[c].pc = "register" =>
            \/ req'[c] = req[c]
            \/ req[c].run \in lost
    BY <1>1
  <1>5. \A r \in Executing : r \in Runs /\ (r \in lost \/ job'[r] = job[r])
    BY <1>1 DEF Executing
  <1> HIDE DEF lost
  <1>6. RequestsOK'
    BY <1>1, <1>3 DEF RequestsOK, StoreSteps
  <1>7. job' \in [Runs -> Job \cup {NoJob, Done, Lost}]
        /\ \A r \in Runs : job'[r] = IF r \in lost THEN Lost ELSE job[r]
    BY <1>1 DEF JobsOK
  <1>8. \A r \in Runs : r \in Executing' => r \in Executing /\ job'[r] = job[r]
    BY <1>7 DEF Executing, Lost
  <1>9. JobsOK'
    <2>1. \A q \in Runs : row'[q] = NoRow => job'[q] = NoJob
      BY <1>1, <1>2, <1>7 DEF JobsOK
    <2>2. \A q \in Executing' : job'[q].canceled => row'[q].status # "running"
      BY <1>1, <1>8 DEF JobsOK, Executing
    <2> QED  BY <2>1, <2>2, <1>1, <1>7 DEF JobsOK
  <1>10. RunningIsOwned'
    <2> SUFFICES ASSUME NEW q \in Listed, row[q].status = "running"
                 PROVE  \/ q \in Executing'
                        \/ \E d \in Clients : req'[d].pc = "register" /\ req'[d].run = q
                        \/ job'[q] = Lost
      BY <1>1 DEF RunningIsOwned, Listed
    <2>1. q \in Runs  BY DEF Listed
    <2>2. CASE q \in lost  BY <2>1, <2>2, <1>7
    <2>3. CASE q \notin lost
      <3>1. job'[q] = job[q]  BY <2>1, <2>3, <1>7
      <3>2. CASE \E d \in Clients : req[d].pc = "register" /\ req[d].run = q
        BY <3>2, <2>3, <1>4
      <3> QED  BY <3>1, <3>2, <2>1 DEF RunningIsOwned, Executing
    <2> QED  BY <2>2, <2>3
  <1>11. TablesOK' /\ ClaimsOK'
    BY <1>1 DEF TablesOK, ClaimsOK, ClaimsResolve, Listed
  <1>12. ServersOK'  BY <1>1 DEF ServersOK
  <1> QED  BY <1>1, <1>6, <1>9, <1>10, <1>11, <1>12
-----------------------------------------------------------------------------
(* Every step, and what it does to the rows.                               *)

RowStep ==
    \/ SettlesOnce
    \/ StartsFresh
    \/ \E rs \in SUBSET Listed : (\A r \in rs : terminalRun(row[r].status)) /\ Remove(rs)
    \/ \E t \in Threads : Remove(RunsOf(t))

\* Every step of a request handler keeps the invariant and moves rows as allowed.
LEMMA HandleStep ==
  ASSUME CInv, NEW c \in Clients, Handle(c)
  PROVE  CInv' /\ RowStep
  <1>1. row' = row => RowStep  BY DEF RowStep, SettlesOnce
  <1>2. CASE createThreadInsert(c)  BY <1>1, <1>2, createThreadInsertStep
  <1>3. CASE deleteThreadDrop(c)
    BY <1>3, deleteThreadDropStep DEF RowStep, DropThread
  <1>4. CASE \E r \in Runs : deleteStoredThreadCancel(c, r)
    BY <1>4, deleteCancelStep DEF RowStep
  <1>5. CASE deleteStoredThreadLocal(c)  BY <1>1, <1>5, deleteLocalStep
  <1>6. CASE deleteStoredThreadDrop(c)
    BY <1>1, <1>6, deleteStoredThreadDropStep DEF RowStep, DropThread
  <1>7. CASE \E r \in Runs : createStoredRunInsert(c, r)
    BY <1>1, <1>7, createStoredRunInsertStep DEF RowStep
  <1>8. CASE createStoredRunRegister(c)  BY <1>1, <1>8, RegisterStep
  <1>9. CASE cancelStoredRunTransition(c)  BY <1>9, cancelTransitionStep DEF RowStep
  <1>10. CASE cancelStoredRunLocal(c)  BY <1>1, <1>10, cancelLocalStep
  <1> QED
    BY <1>2, <1>3, <1>4, <1>5, <1>6, <1>7, <1>8, <1>9, <1>10 DEF Handle

\* Every step keeps the invariant and moves rows as allowed.
LEMMA NextCInv == CInv /\ [Next]_vars => CInv' /\ RowStep
  <1> SUFFICES ASSUME CInv, [Next]_vars PROVE CInv' /\ RowStep  OBVIOUS
  <1>1. row' = row => RowStep  BY DEF RowStep, SettlesOnce
  <1>2. CASE UNCHANGED vars
    <2>1. CInv'
      BY <1>2 DEF vars, CInv, TablesOK, ClaimsOK, ClaimsResolve, JobsOK, RequestsOK, ServersOK,
                  RunningIsOwned, Listed, Executing
    <2> QED  BY <2>1, <1>1, <1>2 DEF vars
  <1>3. CASE \E c \in Clients : Ask(c) \/ Handle(c) \/ Abandon(c)
    BY <1>1, <1>3, AskStep, HandleStep, AbandonStep
  <1>4. CASE \E t \in Threads, k \in Keys \cup {NoKey}, p \in Payloads, r \in Runs :
                createRun(t, k, p, r)
    BY <1>1, <1>4, createRunStep DEF RowStep
  <1>5. CASE \E r \in Runs : cancelRun(r)
    BY <1>5, cancelRunStep DEF RowStep
  <1>6. CASE \E r \in Runs : executeRun(r) \/ finishStoredRun(r) \/ watchStoredRun(r)
    BY <1>1, <1>6, executeRunStep, finishStoredRunStep, SignalStep DEF RowStep
  <1>7. CASE PruneRequest
    BY <1>7, PruneStep DEF RowStep
  <1>8. CASE \E s \in Faulty : Close(s) \/ CloseWait(s) \/ Crash(s)
    BY <1>1, <1>8, SignalStep, CrashStep
  <1> QED  BY <1>2, <1>3, <1>4, <1>5, <1>6, <1>7, <1>8 DEF Next

\* The tables of a new server satisfy the invariant.
LEMMA InitCInv == Init => CInv
  <1> SUFFICES ASSUME Init PROVE CInv  OBVIOUS
  <1>1. Listed = {} /\ Executing = {}
    BY DEF Init, Listed, Executing, NoRow, NoJob, RunStatus
  <1>2. TablesOK
    <2>1. NoRow \notin Row  BY DEF NoRow, Row, RunStatus
    <2> QED  BY <2>1 DEF Init, TablesOK
  <1>3. ClaimsOK  BY <1>1 DEF Init, ClaimsOK, ClaimsResolve
  <1>4. JobsOK  BY <1>1 DEF Init, JobsOK
  <1>5. RequestsOK
    <2>1. Idle \in Request /\ Idle.pc = "idle"  BY DEF Idle, Request
    <2> QED  BY <2>1 DEF Init, RequestsOK, StoreSteps
  <1>6. ServersOK /\ RunningIsOwned  BY <1>1 DEF Init, ServersOK, RunningIsOwned
  <1> QED  BY <1>2, <1>3, <1>4, <1>5, <1>6 DEF CInv

\* The invariant holds throughout (remote/control.go, control_store*.go).
LEMMA CInvariance == Spec => []CInv
  BY InitCInv, NextCInv, PTL DEF Spec

\* Through every interleaving of handlers, goroutines, watchers, retention, Close
\* and crashes, in memory or over a shared store, the tables keep their shape,
\* every idempotency record names a listed run of its thread and key, and every
\* run that is listed as running has an owner or was left behind by a crash or a
\* failed store call (remote/control.go, control_store*.go).
THEOREM RunsAreOwned == Spec => []RunsOwned
  <1>1. CInv => RunsOwned
    BY DEF CInv, RunsOwned, TypeOK, TablesOK, ClaimsOK, JobsOK, RequestsOK, ServersOK
  <1> QED  BY <1>1, CInvariance, PTL

-----------------------------------------------------------------------------
(* The rows implement the ledger.                                          *)

\* A row as the ledger shows it.
LEMMA EntryFacts ==
  ASSUME TablesOK, NEW r \in Runs
  PROVE  /\ r \in Listed => Entry(r) = [thread |-> row[r].thread, key |-> row[r].key,
                                        status |-> row[r].status]
         /\ row[r] = NoRow => Entry(r) = Ledger!NoEntry
         /\ row[r] = Removed => Entry(r) = Ledger!Removed
         /\ Ledger!Listed(r) <=> r \in Listed
         /\ r \in Listed => Entries[r].status = row[r].status /\ Entries[r].thread = row[r].thread
                            /\ Entries[r].key = row[r].key
  <1>1. r \in Listed => Entry(r) = [thread |-> row[r].thread, key |-> row[r].key,
                                    status |-> row[r].status]
    BY DEF Entry
  <1>2. row[r] = NoRow => r \notin Listed /\ Entry(r) = Ledger!NoEntry
    BY ListedRow DEF Entry, Ledger!NoEntry
  <1>3. row[r] = Removed => r \notin Listed /\ Entry(r) = Ledger!Removed
    <2>1. NoRow # Removed  BY DEF NoRow, Removed
    <2> QED  BY <2>1, ListedRow DEF Entry, Ledger!Removed
  <1>4. Entries[r] = Entry(r)  BY DEF Entries
  <1>5. r \in Listed => row[r].status \in {"running", "ended", "canceled"}
    BY DEF Listed, RunStatus
  <1>6. Ledger!Listed(r) <=> r \in Listed
    <2>1. CASE r \in Listed
      BY <2>1, <1>1, <1>4, <1>5 DEF Ledger!Listed, Ledger!Settled
    <2>2. CASE r \notin Listed
      <3>1. Entry(r).status \in {"none", "removed"}  BY <2>2 DEF Entry
      <3> QED  BY <2>2, <3>1, <1>4 DEF Ledger!Listed, Ledger!Settled
    <2> QED  BY <2>1, <2>2
  <1> QED  BY <1>1, <1>2, <1>3, <1>4, <1>6

\* A row that does not change shows the same entry.
LEMMA SameEntry ==
  ASSUME NEW r \in Runs, row'[r] = row[r]
  PROVE  Entries'[r] = Entries[r]
  BY DEF Entries, Entry, Listed

\* A move of the rows is a step of the ledger, or leaves it alone.
LEMMA LedgerStep ==
  ASSUME CInv, CInv', RowStep
  PROVE  Ledger!Next \/ Entries' = Entries
  <1> USE DEF CInv
  <1>0. Entries = [r \in Runs |-> Entries[r]] /\ Entries' = [r \in Runs |-> Entries'[r]]
    BY DEF Entries
  <1>1. CASE row' = row
    BY <1>1 DEF Entries, Entry, Listed
  <1>2. CASE \E r \in Listed, s \in {"ended", "canceled"} :
               row[r].status = "running" /\ row' = [row EXCEPT ![r].status = s]
    <2>1. PICK r \in Listed, s \in {"ended", "canceled"} :
               row[r].status = "running" /\ row' = [row EXCEPT ![r].status = s]
      BY <1>2
    <2>2. r \in Runs  BY DEF Listed
    <2>3. row'[r] = [row[r] EXCEPT !.status = s] /\ \A q \in Runs : q # r => row'[q] = row[q]
      BY <2>1, <2>2 DEF TablesOK
    <2>4. row'[r].thread = row[r].thread /\ row'[r].key = row[r].key /\ row'[r].status = s
      BY <2>2, <2>3, SettledRow
    <2>5. r \in Listed'  BY <2>2, <2>4 DEF Listed, RunStatus
    <2>6. Entries[r] = [thread |-> row[r].thread, key |-> row[r].key, status |-> "running"]
      BY <2>1, <2>2 DEF Entries, Entry
    <2>7. Entries'[r] = [thread |-> row[r].thread, key |-> row[r].key, status |-> s]
      BY <2>2, <2>4, <2>5 DEF Entries, Entry
    <2>8. Entries'[r] = [Entries[r] EXCEPT !.status = s]
      BY <2>6, <2>7
    <2>9. Entries' = [Entries EXCEPT ![r].status = s]
      BY <1>0, <2>2, <2>3, <2>8, SameEntry
    <2>10. Entries[r].status = "running"  BY <2>6
    <2>11. Ledger!Settle(r, s)  BY <2>9, <2>10 DEF Ledger!Settle
    <2> QED  BY <2>2, <2>11 DEF Ledger!Next, Ledger!Settled
  <1>3. CASE StartsFresh
    <2>1. PICK r \in Runs, t \in Threads, k \in Keys \cup {NoKey} :
             /\ row[r] = NoRow
             /\ k # NoKey => \A q \in Listed : row[q].thread = t => row[q].key # k
             /\ row' = [row EXCEPT ![r] = [thread |-> t, key |-> k, status |-> "running"]]
      BY <1>3 DEF StartsFresh
    <2>2. row'[r] = [thread |-> t, key |-> k, status |-> "running"]
          /\ \A q \in Runs : q # r => row'[q] = row[q]
      BY <2>1 DEF TablesOK
    <2>3. r \in Listed'  BY <2>2 DEF Listed, RunStatus
    <2>4. Entries'[r] = [thread |-> t, key |-> k, status |-> "running"]
      BY <2>2, <2>3 DEF Entries, Entry
    <2>5. Entries[r] = Ledger!NoEntry  BY <2>1, EntryFacts DEF Entries
    <2>6. Entries' = [Entries EXCEPT ![r] = [thread |-> t, key |-> k, status |-> "running"]]
      BY <1>0, <2>2, <2>4, SameEntry
    <2>7. k # NoKey => \A q \in Runs : Ledger!Listed(q) /\ Entries[q].thread = t => Entries[q].key # k
      BY <2>1, EntryFacts
    <2>8. Ledger!Start(r, t, k)  BY <2>5, <2>6, <2>7 DEF Ledger!Start
    <2> QED  BY <2>8 DEF Ledger!Next
  <1>4. ASSUME NEW rs, rs \subseteq Listed, Remove(rs)
        PROVE  Entries' = [r \in Runs |-> IF r \in rs THEN Ledger!Removed ELSE Entries[r]]
    <2>1. \A r \in Runs : row'[r] = IF r \in rs THEN Removed ELSE row[r]
      BY <1>4 DEF Remove
    <2>2. ASSUME NEW r \in Runs, r \in rs PROVE Entries'[r] = Ledger!Removed
      <3>1. row'[r] = Removed  BY <2>1, <2>2
      <3>2. row'[r].status = "removed" /\ row'[r] # NoRow  BY <3>1 DEF Removed, NoRow
      <3>3. r \notin Listed'  BY <3>2 DEF Listed, RunStatus
      <3> QED  BY <3>2, <3>3 DEF Entries, Entry, Ledger!Removed
    <2>3. ASSUME NEW r \in Runs, r \notin rs PROVE Entries'[r] = Entries[r]
      BY <2>1, <2>3, SameEntry
    <2> QED  BY <1>0, <2>2, <2>3
  <1>5. CASE \E rs \in SUBSET Listed : (\A r \in rs : terminalRun(row[r].status)) /\ Remove(rs)
    <2>1. PICK rs \in SUBSET Listed : (\A r \in rs : terminalRun(row[r].status)) /\ Remove(rs)
      BY <1>5
    <2>2. rs \subseteq Runs  BY DEF Listed
    <2>3. \A r \in rs : Entries[r].status \in Ledger!Settled
      BY <2>1, <2>2, EntryFacts DEF terminalRun, Ledger!Settled
    <2>4. Ledger!Prune(rs)  BY <2>1, <2>3, <1>4 DEF Ledger!Prune
    <2> QED  BY <2>2, <2>4 DEF Ledger!Next
  <1>6. CASE \E t \in Threads : Remove(RunsOf(t))
    <2>1. PICK t \in Threads : Remove(RunsOf(t))  BY <1>6
    <2>2. RunsOf(t) \subseteq Listed  BY DEF RunsOf
    <2>3. Entries' = [r \in Runs |-> IF r \in RunsOf(t) THEN Ledger!Removed ELSE Entries[r]]
      BY <2>1, <2>2, <1>4
    <2>4. \A r \in Runs : r \in RunsOf(t) <=> Ledger!Listed(r) /\ Entries[r].thread = t
      BY EntryFacts DEF RunsOf
    <2>5. Ledger!DeleteThread(t)  BY <2>3, <2>4 DEF Ledger!DeleteThread
    <2> QED  BY <2>5 DEF Ledger!Next
  <1> QED  BY <1>1, <1>2, <1>3, <1>5, <1>6 DEF RowStep, SettlesOnce

\* Whatever interleaves, on however many servers, a run is created once, a key
\* names at most one listed run of its thread, a run settles once and only a
\* settled run is pruned: the control plane implements RunLedger.
THEOREM LedgerIsKept == Spec => ImplementsRunLedger
  <1>1. Init => Ledger!Init
    <2> SUFFICES ASSUME Init PROVE Ledger!Init  OBVIOUS
    <2>1. \A r \in Runs : row[r] = NoRow  BY DEF Init
    <2>2. CInv  BY InitCInv
    <2>3. \A r \in Runs : Entry(r) = Ledger!NoEntry  BY <2>1, <2>2, EntryFacts DEF CInv
    <2> QED  BY <2>3 DEF Ledger!Init, Entries
  <1>2. CInv /\ CInv' /\ [Next]_vars => [Ledger!Next]_Entries
    BY NextCInv, LedgerStep
  <1> QED  BY <1>1, <1>2, CInvariance, PTL DEF Spec, ImplementsRunLedger, Ledger!Spec
=============================================================================
