\* Three runs of either command, two names.
SPECIFICATION FairSpec
CONSTANTS
  Runs = {r1, r2, r3}
  Names = {n1, n2}
  None = None
CHECK_DEADLOCK FALSE
INVARIANT TypeOK
INVARIANT ExitZero
PROPERTY NoOpWhenMigrated
PROPERTY RunsEnd
