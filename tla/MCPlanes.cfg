SPECIFICATION AgentSpec
CONSTANTS
  Requests = {}
  Switchers = {}
  SignOuts = {}
  Loaders = {}
  Confirmers = {}
  OidcLoops = {l}
  StandaloneLoops = {}
  Waiters <- MCWaiters
  SignInStores = {"oidc"}
  HasContactPlane = TRUE
  HasReload = TRUE
  Families = {f1}
  FlightIds <- MCFlightIds
  MaxRotations = 1
  None = None
INVARIANTS
  PlanesExclusive
\* A tab whose last session has ended may stay signed out for good.
CHECK_DEADLOCK FALSE
