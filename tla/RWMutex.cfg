SPECIFICATION FairMutexSpec
CONSTANTS
  Lockers = {t1, t2, t3}
  NoThread = NoThread
INVARIANTS Exclusion NoLostWakeup
PROPERTIES EveryRequestServed ImplementsRWLock
