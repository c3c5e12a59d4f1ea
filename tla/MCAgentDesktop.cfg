SPECIFICATION AgentSpec
CONSTANTS
  Requests = {r}
  Switchers = {r}
  SignOuts = {}
  Loaders = {}
  Confirmers = {}
  OidcLoops = {}
  StandaloneLoops = {l}
  Waiters <- MCWaiters
  SignInStores = {"standalone"}
  HasContactPlane = FALSE
  HasReload = FALSE
  Families = {f1, f2}
  FlightIds <- MCFlightIds
  MaxRotations = 1
  None = None
INVARIANTS
  SingleFlight
  KilledOnlyAfterLoss
  RenewalInv
PROPERTIES
  ImplementsGrant
\* A tab whose last session has ended may stay signed out for good.
CHECK_DEADLOCK FALSE
