SPECIFICATION FairHealthSpec
CONSTANTS
  Resources = {r}
  Requests = {q, s}
  Mutations = {s}
  Monitor = Monitor
  Recording = {q, Monitor}
  Threshold = 2
  MaxFailures = 3
INVARIANTS
  HealthTypeOK
  FlagIsCount
  PollFollowsFlag
  RefetchFollowsFlag
PROPERTIES
  RecoversWhenUp
