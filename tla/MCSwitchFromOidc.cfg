SPECIFICATION AgentSpec
CONSTANTS
  Requests = {r}
  Switchers = {r}
  SignOuts = {}
  Loaders = {}
  Confirmers = {}
  OidcLoops = {}
  StandaloneLoops = {}
  Waiters <- MCWaiters
  SignInStores = {"oidc"}
  HasContactPlane = FALSE
  HasReload = TRUE
  Families = {f1, f2}
  FlightIds <- MCFlightIds
  MaxRotations = 1
  None = None
INVARIANTS
  BearerIsPersisted
\* A tab whose last session has ended may stay signed out for good.
CHECK_DEADLOCK FALSE
