SPECIFICATION FairSpec
CONSTANTS
  MaxEvents = 3
  MaxProgress = 4
  Delay = 3
  Threshold = 1
  Interrupted = FALSE
INVARIANTS EventsInOrder NotSentRapidly
PROPERTIES LastProgressShown
CHECK_DEADLOCK FALSE
