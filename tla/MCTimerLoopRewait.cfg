CONSTANTS
  a = a
  b = b
  t1 = t1
  t2 = t2
  Handles <- MCHandles
  Timers <- MCTimers
  None = None
  StopOp = StopOp
  Inactive = Inactive
  SqEntries = 2
  CqEntries = 2
  MaxTime = 3
  nanoseconds_per_second = 3
  MainScript <- RewaitScript

SPECIFICATION Spec

INVARIANT NoUseAfterFree
