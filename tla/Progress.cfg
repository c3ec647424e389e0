SPECIFICATION ProgressSpec
CONSTANTS
  v1 = v1  w1 = w1  w2 = w2  d1 = d1  NoValue = NoValue
  Nodes = {1, 2}
  Layers <- TwoLayers
  Asks <- AskOnce
  Handled = {1}
  HandlerAsks <- NoneAsk
  Cached = {}
  GateBefore = {2}
  GateAfter = {1}
  Values = {v1}
  NoResult = NoResult
  Limit = 2
  Replays = FALSE
  MaxCps = 0
  MaxFaults = 2
CHECK_DEADLOCK FALSE
INVARIANT
  GateRespected
PROPERTY
  RunsComplete
