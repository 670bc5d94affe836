\* One instance, one call at a time, Redis always answers.
CONSTANTS
  Instances = {i1}
  Agents = {a1}
  Calls = {c1}
  Expiries <- MCExpiries
  Second = 4
  CacheTtl = 2
  MayFail = FALSE
  MaxRegistrations = 2
  MaxTime = 12
  None = None
SPECIFICATION Spec
PROPERTY ImplementsPort
