SPECIFICATION EndingsSpec
CONSTANTS
  t1 = t1  t2 = t2  w1 = w1  w2 = w2
  Tasks = {t1, t2}
  Main = Main
  NoOne = NoOne
  Capacity = 1
  MaxSteps = 3
  Workers = {w1, w2}
  Events = 3
  Payloads = {1}
  BatchLimit = 2
  MaxReconnects = 1
  MaxRepeats = 1
  MaxPrunes = 1
  StreamKinds = {"graph", "functional", "batch"}
  Producers = {1, 2}
  Emissions <- TwoNodes
  ModeSets = {{"messages", "custom", "done"}, {"messages"}}
  Buffer = 0
  Items = 3
CHECK_DEADLOCK FALSE
INVARIANTS
  NoSendOnClosed
  WritesFindTheirCheckpoint
  DeliveredExactly
  StreamFaithful
PROPERTIES
  ImplementsOrderedLog
  FlushReturns
  SweeperStops
  InvocationsReturn
  StreamsEnd
