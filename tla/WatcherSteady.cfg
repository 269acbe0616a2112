\* One target whose checks may overlap, no statement fails, two starts of the
\* process (which may stop or crash at any time).  One of the intervals rings
\* once, and one (9 s) overflows an int of 14 bits.
SPECIFICATION FairSpec
CONSTANTS
  MaxId = 1
  Url = {u1, u2}
  Interval = {0, 5, 9}
  Outcome <- TwoOutcomes
  MaxOverlap = 2
  MaxEdits = 2
  MaxFlips = 2
  MaxRuns = 2
  IntModulus = 16384
  Faults = FALSE
  NoRow = NoRow
  NoTarget = NoTarget
  NoTransfer = NoTransfer
  NoAnswer = NoAnswer
INVARIANTS Coherent IInv
PROPERTIES Converges
CHECK_DEADLOCK FALSE
