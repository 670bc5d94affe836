CONSTANTS
  Agents = {a1, a2}
  Expiries <- MCExpiries
  MaxRegistrations = 3
  MaxTime = 4
  None = None
SPECIFICATION Spec
INVARIANT TypeOK
PROPERTY ImplementsPort
