CONSTANTS
  LineSize = 4
  MaxHeaderBytes = 15
  BodySize = 2
  BytesPerTick = 2
  IdleTimeout = 1
  TotalTimeout = 2
SPECIFICATION Spec
INVARIANTS
  TypeOK
PROPERTIES
  TimeComesFromWholeRequest
  WaitingPhoneIsServed
