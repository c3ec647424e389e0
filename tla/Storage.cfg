SPECIFICATION StorageSpec
CONSTANTS
  Root = Root  Child = Child
  MaxID = 4
  MaxRuns = 3
  n1 = n1  n2 = n2  ch1 = ch1  ch2 = ch2  c1 = c1  c2 = c2  r1 = r1  r2 = r2
  Namespaces = {n1, n2}
  StateChannels = {ch1, ch2}
  MaxCheckpoints = 3
  MaxWrites = 1
  KeepLatest = 1
  Slots <- MCSlots
  ItemValues <- MCValues
  Fields = {"f", "g"}
  Filters <- MCFilters
  Paths <- MCPaths
  Sizes = {0, 1}
  DefaultLimit = 2
  DefaultNamespaces = 3
  StoreClients = {c1, c2}
  StoreKeys = {1, 2}
  StoreBatches <- MCBatches
  DefaultTTL = 1
  MaxStoreTime = 3
  MaxExecAttempts = 2
  MaxIssued = 3
  CacheRuns = {r1, r2}
  CacheKeys = {1, 2}
  CachedNodes = {"n1", "n2"}
  NodeOf <- TwoNodes
  TTL <- OneExpires
  CacheKinds = {"memory", "sqlite", "postgres", "redis"}
  MaxCacheTime = 2
  MaxValues = 2
  IndexKeys = {1, 2}
  Documents = {1, 2}
  IndexBatches <- MCIndexBatches
  MaxIntents = 5
  MaxIndexFaults = 3
  BarrierNames = {1, 2}
  ChannelWrites <- MCChannelWrites
  SnapshotFrequency = 2
  MaxChannelEvents = 3
SYMMETRY Symmetry
CHECK_DEADLOCK FALSE
INVARIANTS
  CheckpointsWhole
  QueriesExact
  IndexConverges
  FlushSound
  ChannelsFaithful
PROPERTIES
  ResultsStable
  BatchesAtomic
  CacheHonest
