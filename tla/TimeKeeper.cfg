CONSTANTS
  MinEpoch = 2
  MaxEpoch = 4
  Tolerance = 1
  MaxOffset = 1
  Absent = Absent
  Corrupt = Corrupt
SPECIFICATION Spec
INVARIANTS
  TypeOK
  RtcAgreesWithClock
  UnconfirmedMeansForgotten
PROPERTIES
  DurableSpec
  TrustIsPairedWithRtc
  BootRestoresTrust
