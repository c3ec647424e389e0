SPECIFICATION ExecutionSpec
CONSTANTS
  v1 = v1  v2 = v2
  Nodes = {1, 2}
  Layers <- TwoLayers
  Asks <- AskTwice
  Handled = {1, 2}
  HandlerAsks <- HandlersAsk
  Cached = {2}
  GateBefore = {}
  GateAfter = {}
  Values = {v1, v2}
  NoResult = NoResult
  Limit = 2
  Replays = TRUE
  MaxCps = 3
  MaxFaults = 2
  Units = {"node", "task"}
  BodyResults = {"ok", "error", "interrupt", "panic", "command", "raised", "misdirected"}
  RunTimeout = 3
  IdleTimeout = 2
  MaxAttempts = 2
  MaxClock = 4
  Hosts = {"entrypoint", "plain", "node"}
  Clients = {1, 2}
  TaskIDs = {1, 2}
  Body <- TwoTasks
  Persistent = {2}
  Asking = {1}
  TaskAttempts <- FirstRetried
  MaxConcurrency = 1
  Inputs = {1, 2}
  AnswerValues = {1, 2}
  MaxThreadCheckpoints = 3
  MaxInvocations = 4
  MaxMishaps = 1
  START = "S"
  END = "E"
  Calls <- BuilderCalls
  Options <- BuilderOptions
  MaxCalls = 7
CHECK_DEADLOCK FALSE
INVARIANTS
  WorkNotRepeated
  CommittedAsRecorded
  InterruptsAnswered
  NestedBranchesApart
  InvocationFaithful
  AttemptSound
  PlanRuns
  ToolCallsAnswered
PROPERTIES
  ThreadHistoryKept
