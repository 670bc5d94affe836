\* Two calls, a pool of one, one failed request.
CONSTANTS
  Calls = {c1, c2}
  Configs = {plain}
  MaxContainers = 5
  MaxSize = 1
  MaxFaults = 1
  None = None
SPECIFICATION FairSpec
INVARIANT TypeOK
INVARIANT Exclusive
INVARIANT PoolBounded
INVARIANT OrphansFromFaults
 
PROPERTY CallProgress
