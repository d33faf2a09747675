SPECIFICATION FairSpec
CONSTANTS
  Readers = {r1}
  Loaders = {l1, l2}
  Main = main
  Threads = {r1, l1, l2, main}
  NoThread = NoThread
  Files = {f1, f2}
  NoFile = NoFile
  Data = {0, 1, 2, 3}
  Keys = {k1, k2}
  MaxCacheEntries = 1
  SlowLoads = FALSE
  QuickToggles = FALSE
  MaxChanges = 3
INVARIANTS BlockingPermittedInProcess BlocksWithLoadedFile UnlockedReadsSafe CacheCurrent OneFilterSet
PROPERTIES KeepsProtocol Converges
CHECK_DEADLOCK FALSE
