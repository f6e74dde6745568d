CONSTANTS
  AcceptInterval = 2
  MaxTime = 4
  MillisRange = 64
SPECIFICATION Spec
INVARIANTS
  PendingWriteIsInFlight
