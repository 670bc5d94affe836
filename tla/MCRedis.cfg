\* Two instances, two overlapping calls, commands that fail, crashes.
CONSTANTS
  Instances = {i1, i2}
  Agents = {a1}
  Calls = {c1, c2}
  Expiries <- MCExpiries
  Second = 1
  CacheTtl = 1
  MayFail = TRUE
  MaxRegistrations = 2
  MaxTime = 2
  None = None
SPECIFICATION Spec
SYMMETRY Symmetry
INVARIANT TypeOK
INVARIANT OnlyWritten
PROPERTY NeverRevived
