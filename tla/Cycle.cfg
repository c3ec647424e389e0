SPECIFICATION FairSpec
CONSTANTS
  state = state  extra = extra  NoGoto = NoGoto
  Nodes <- CycleNodes
  StartRoutes <- CycleStart
  Edges <- CycleEdges
  Joins <- CycleJoins
  Deferred <- CycleDeferred
  Channels <- CycleChannels
  Reads <- CycleReads
  Triggers <- CycleTriggers
  Outcomes <- CycleOutcomes
  RecursionLimit = 4
  MaxRuns = 2
CHECK_DEADLOCK FALSE
INVARIANTS
  JoinsWaitForAll
  DeferredRunLast
  RunConsistent
PROPERTIES
  RunsEnd
