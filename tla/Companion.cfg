CONSTANTS
  Clock = {c1, c2}
  Quiet = {c2}
  MaxAttempts = 2
  MaxReconnects = 3
  MaxWrites = 2
SPECIFICATION Spec
INVARIANTS
  ManagerFollowsClocks
  AttemptIsTimed
  LinkFollowsWish
PROPERTIES
  ManualSyncEnds
