CONSTANTS
  p1 = p1
  p2 = p2
  i1 = i1
  i2 = i2
  PostOps <- MCPostOps
  IoOps <- MCIoOps
  StopOp = StopOp
  Inactive = Inactive
  RemoteWake = RemoteWake
  SqEntries = 1
  CqEntries = 2

SPECIFICATION Spec

INVARIANT TypeOK
INVARIANT RingBudget
INVARIANT WakeupArmed
INVARIANT PostFifo
PROPERTY StartedOpsComplete
PROPERTY StopHonoured
