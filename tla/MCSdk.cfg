\* Two calls that may ask for different scopes; time for tokens to expire.
SPECIFICATION Spec
CONSTANTS
  Calls = {c1, c2}
  Scopes = {tools, agents}
  None = None
  Lifetimes = {3}
  Margin = 1
  TokenTimeout = 1
  RequestTimeout = 1
  MaxTime = 3
CHECK_DEADLOCK FALSE
INVARIANT TypeOK
INVARIANT AtMostOnce
INVARIANT Truthful
INVARIANT FreshRetry
INVARIANT NeverExpired
SYMMETRY MCSymmetry
