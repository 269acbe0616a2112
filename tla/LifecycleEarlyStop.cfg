\* One signal at any time.
SPECIFICATION FairSpec
CONSTANTS
  r1 = r1
  r2 = r2
  o1 = o1
  Recurring <- TheRecurring
  Once <- TheOnce
  MaxSignals = 1
PROPERTIES WokenMainReturns
CHECK_DEADLOCK FALSE
