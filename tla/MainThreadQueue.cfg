SPECIFICATION FairSpec
CONSTANTS
  Workers = {w1, w2}
  Main = main
  Calls = {c1}
  Timed = {f1, f2}
  Activate = activate
  Timeouts = {1, 2, 3}
  MaxNesting = 2
INVARIANTS MessagePerCall NoneRunTwice TimerCoversHead
PROPERTIES EveryTimerRuns
