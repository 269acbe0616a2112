\* Two targets that repeat and one that does not, any step may fail, two signals.
SPECIFICATION FairSpec
CONSTANTS
  r1 = r1
  r2 = r2
  o1 = o1
  Recurring <- TheRecurring
  Once <- TheOnce
  MaxSignals = 2
INVARIANTS LifecycleInv FinishedOnce NoFinishUnderClient MultiAlive
PROPERTIES LoopWithWorkStops
CHECK_DEADLOCK FALSE
