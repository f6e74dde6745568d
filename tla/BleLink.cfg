CONSTANTS
  Phone = {p1, p2}
  NoPhone = NoPhone
  MaxBonds = 1
  Window = 1
  RecoveryInterval = 1
  MaxRecoveries = 3
  RetryAfter = 1
  MaxRetries = 2
  ResyncAfter = 2
  MaxFailures = 1
SPECIFICATION Spec
INVARIANTS
  AdvertisingIsOwned
PROPERTIES
  NewBondsAreAdmitted
  RecoveryIsTried
  ConnectedPhoneIsAskedAgain
