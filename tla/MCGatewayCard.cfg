\* One request, one agent.
CONSTANTS
  Requests = {r1}
  Agents = {a1}
  None = None
SPECIFICATION Spec
INVARIANT CardChecked
