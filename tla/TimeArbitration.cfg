CONSTANTS
  AcceptInterval = 2
  MaxTime = 6
  MillisRange = 64
SPECIFICATION Spec
INVARIANTS
  CarefulWriteIsInFlight
PROPERTIES
  AcceptedWritesAreSpaced
  SupersededIsNeverTaken
  EveryWriteIsAnswered
