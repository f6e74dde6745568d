CONSTANTS
  BleWindow = 1
  SetupWindow = 2
  PortalRetry = 1
  PortalStopDelay = 1
  ModeTimeout = 1
  AutomationTimeout = 2
  WifiWindow = 3
  BleGrace = 1
  BleResync = 2
  WifiResync = 2
  MaxPortalStarts = 2
  Bssid = {a1, a2}
  NoBssid = NoBssid
  MaxAttempts = 2
  FailedCapacity = 1
  Rejectable = {}
SPECIFICATION Spec
INVARIANTS
  PortalRouteNeverScans
