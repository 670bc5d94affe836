\* One instance, two overlapping calls, no failures.
CONSTANTS
  Instances = {i1}
  Agents = {a1}
  Calls = {c1, c2}
  Expiries <- MCLongExpiries
  Second = 1
  CacheTtl = 1
  MayFail = FALSE
  MaxRegistrations = 2
  MaxTime = 2
  None = None
SPECIFICATION Spec
PROPERTY RegisteredAtKept
