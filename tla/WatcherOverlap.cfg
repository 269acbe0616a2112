\* One target, two transfers of it at a time, statements may fail.
SPECIFICATION Spec
CONSTANTS
  MaxId = 1
  Url = {u1, u2}
  Interval = {0, 5}
  Outcome <- AllOutcomes
  MaxOverlap = 2
  MaxEdits = 1
  MaxFlips = 1
  MaxRuns = 2
  IntModulus = 16384
  Faults = TRUE
  NoRow = NoRow
  NoTarget = NoTarget
  NoTransfer = NoTransfer
  NoAnswer = NoAnswer
INVARIANTS TypeOK TransferTargetAlive
PROPERTIES HealsOnNextChange NoResurrection ImplementsBoard
CHECK_DEADLOCK FALSE
