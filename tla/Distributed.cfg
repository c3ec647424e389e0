SPECIFICATION DistributedSpec
CONSTANTS
  q1 = q1  q2 = q2  tk1 = tk1  tk2 = tk2  tk3 = tk3  k1 = k1  p1 = p1  p2 = p2
  v1 = v1  v2 = v2  w1 = w1  w2 = w2  d1 = d1  d2 = d2
  TaskIDs = {1, 2}
  Tokens = {tk1, tk2, tk3}
  Workers = {q1, q2}
  Payloads = {p1, p2}
  Keys = {k1}
  NoKey = NoKey  NoToken = NoToken  NoWorker = NoWorker
  Postgres = TRUE
  Lag = 0
  Delays = {0, 1}
  Durations = {1, 2}
  Limit = 2
  MaxTime = 3
  Requests <- MCRequests
  Threads = {1}
  Layers <- TwoSteps
  Values = {v1, v2}
  NoValue = NoValue
  Pool = {w1, w2}
  Slots = {1}
  Drivers = {d1, d2}
  AtomicWorkers = {w2}
  MaxClaims = 4
  MaxPuts = 2
  MaxFaults = 1
  Handlers = {w1, w2}
  Tasks = {1}
  Answers = {1, 2}
  Noise = {0, 10}
  MaxIncarnations = 2
  MaxDeliveries = 4
  MaxPrunes = 2
SYMMETRY Symmetry
CHECK_DEADLOCK FALSE
INVARIANTS
  TasksOwnedOnce
  ResultsKept
  CompletedOnce
PROPERTIES
  LiveLeaseNotStolen
  ImplementsTaskQueue
