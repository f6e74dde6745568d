CONSTANTS
  BleWindow = 1
  SetupWindow = 3
  PortalRetry = 1
  PortalStopDelay = 1
  ModeTimeout = 1
  AutomationTimeout = 2
  WifiWindow = 4
  BleGrace = 1
  BleResync = 2
  WifiResync = 3
  MaxPortalStarts = 2
  Bssid = {a1, a2, a3}
  NoBssid = NoBssid
  MaxAttempts = 2
  FailedCapacity = 2
  Rejectable = {"kBle", "kPortal", "kNtp"}
SPECIFICATION Spec
INVARIANTS
  RadioFollowsMode
  WifiIsAllowed
  AcceptedIsScheduled
PROPERTIES
  FailedIsNeverTried
  PortalOpenUntilSuccess
  WifiWorkEnds
  SearchGoesOn
