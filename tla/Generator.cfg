SPECIFICATION Spec
CONSTANTS
  Base = 10
  IntModulus = 16
  IntStrLen = 3
  Entry <- Entries
  LongMax = 127
  Faults = TRUE
INVARIANTS GeneratorInv CompleteIfCompiles NumberedCompiles
CHECK_DEADLOCK FALSE
