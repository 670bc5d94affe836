\* Three overlapping runs, two roles, two faults.
SPECIFICATION FairSpec
CONSTANTS
  Runs = {r1, r2, r3}
  NumRoles = 2
  MaxFaults = 2
INVARIANT TypeOK
INVARIANT CompleteOnSuccess
INVARIANT FailsForAReason
PROPERTY Converges
