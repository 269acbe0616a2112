\* One instance on a new database, one failure: a migration is skipped.
SPECIFICATION Spec
CONSTANTS
  old = old
  new = new
  new2 = new2
  Instance = {new}
  NMigrations <- OneBuild
  MaxMishaps = 1
INVARIANT InOrder
CHECK_DEADLOCK FALSE
