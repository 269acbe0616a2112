\* An instance of an old build and two of a new one side by side; up to two
\* statements may fail or instances die.
SPECIFICATION FairSpec
CONSTANTS
  old = old
  new = new
  new2 = new2
  Instance = {old, new, new2}
  NMigrations <- TwoBuilds
  MaxMishaps = 2
INVARIANTS VersionIsSchema OkIsCurrent NothingTwice MigrateInv
PROPERTIES OneAtATime SomeoneGetsThrough
CHECK_DEADLOCK FALSE
