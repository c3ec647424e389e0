SPECIFICATION Spec
CONSTANTS
  state = state  extra = extra  NoGoto = NoGoto
  Nodes <- CycleNodes
  StartRoutes <- CycleStart
  Edges <- CycleEdges
  Joins <- CycleJoins
  Deferred <- CycleDeferred
  Channels <- CycleChannels
  Reads <- CycleReads
  Triggers <- CycleTriggers
  Outcomes <- CycleOutcomes
  RecursionLimit = 6
  MaxRuns = 1
CHECK_DEADLOCK FALSE
INVARIANT NoDeferredLeftBehind
