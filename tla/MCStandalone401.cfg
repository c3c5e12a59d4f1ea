SPECIFICATION AgentSpec
CONSTANTS
  Requests = {}
  Switchers = {}
  SignOuts = {}
  Loaders = {d}
  Confirmers = {}
  OidcLoops = {}
  StandaloneLoops = {}
  Waiters <- MCWaiters
  SignInStores = {"standalone"}
  HasContactPlane = FALSE
  HasReload = TRUE
  Families = {f1}
  FlightIds <- MCFlightIds
  MaxRotations = 1
  None = None
PROPERTIES
  RenewedSurvives401
\* A tab whose last session has ended may stay signed out for good.
CHECK_DEADLOCK FALSE
