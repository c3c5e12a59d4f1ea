SPECIFICATION FairAgentSpec
CONSTANTS
  Requests = {}
  Switchers = {}
  SignOuts = {}
  Loaders = {}
  Confirmers = {c}
  OidcLoops = {l}
  StandaloneLoops = {k}
  Waiters <- MCWaiters
  SignInStores = {"oidc", "standalone"}
  HasContactPlane = TRUE
  HasReload = TRUE
  Families = {f1}
  FlightIds <- MCFlightIds
  MaxRotations = 1
  None = None
INVARIANTS
  BearerIsPersisted
PROPERTIES
  GateIsReleased
  DeadGrantSignsOut
  EveryCallerHears
\* A tab whose last session has ended may stay signed out for good.
CHECK_DEADLOCK FALSE
