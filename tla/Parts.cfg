CONSTANTS
  Bssid = {1, 2, 3, 4}
  Rssi = {1, 2, 3}
  RankCapacity = 3
  FailedRoom = 2
  Host = {h1, h2}
  CookieName = {n1, n2}
  MaxCookies = 3
  MaxPair = 4
  MaxCookieBytes = 9
  MaxForms = 2
  MaxControls = 2
  Name = {"a"}
  NoName = "-"
  MaxTags = 3
  Lux = {0, 9, 14, 30}
  Boundary <- TwoBoundaries
  Fallback = 1
  SampleTime = 2
  SensorRetry = 3
  FrameTime = 1
  MaxBad = 3
  HoldTime = 3
SPECIFICATION Spec
INVARIANTS
  RankingIsBest
  JarIsSound
  SubmissionIsBestAllowed
  FieldsAreChosenWithCare
  BrightnessFollowsLight
  PanelShowsFrame
PROPERTIES
  SensorIsUsedAgain
  RecoveryIsDeliberate
