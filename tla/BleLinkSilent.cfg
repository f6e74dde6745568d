CONSTANTS
  Phone = {p1}
  NoPhone = NoPhone
  MaxBonds = 1
  Window = 1
  RecoveryInterval = 1
  MaxRecoveries = 3
  RetryAfter = 1
  MaxRetries = 1
  ResyncAfter = 1
  MaxFailures = 4
SPECIFICATION Spec
PROPERTIES
  ComesBackOnAir
