CONSTANTS
  n = n
  o1 = o1
  o2 = o2
  c0 = c0
  c1 = c1
  c2 = c2
  None = None
  Threads <- MCThreads
  Callbacks <- MCCallbacks
  SelfRemoving <- MCSelfRemoving
  Script <- MCScript

SPECIFICATION Spec

INVARIANT TypeOK
INVARIANT ListSound
INVARIANT NoAccessAfterFree
PROPERTY StopDelivered
PROPERTY DeregisterReturns
