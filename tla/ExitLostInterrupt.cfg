SPECIFICATION Spec
CONSTANTS
  Root = Root  Child = Child
  MaxID = 3
  MaxRuns = 2
CHECK_DEADLOCK FALSE
INVARIANT RecoveryBoundaryFlushed
