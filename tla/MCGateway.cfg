\* Two requests, one agent.
CONSTANTS
  Requests = {r1, r2}
  Agents = {a1}
  None = None
SPECIFICATION FairSpec
INVARIANT TypeOK
INVARIANT OneVerdict
INVARIANT EffectsRecorded
INVARIANT AuthorizedEffects
INVARIANT RefusalsRepeatable
INVARIANT CardVerdicts
PROPERTY Answered
PROPERTY ImplementsPort
