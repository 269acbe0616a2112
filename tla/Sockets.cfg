\* Two descriptors, two blocks of memory; an allocation may fail.
SPECIFICATION FairSpec
CONSTANTS
  Fd = {f1, f2}
  Baton = {b1, b2}
  Null = Null
  Freed = Freed
  Faults = TRUE
INVARIANTS SocketsInv Faithful CallbackFindsMulti
PROPERTIES NothingLeft Served
CHECK_DEADLOCK FALSE
