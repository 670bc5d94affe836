\* One call at a time, two configurations, no failed request.
CONSTANTS
  Calls = {c1}
  Configs = {plain, egress}
  MaxContainers = 3
  MaxSize = 1
  MaxFaults = 0
  None = None
SPECIFICATION Spec
INVARIANT ConfiguredForCall
