SPECIFICATION AgentSpec
CONSTANTS
  Requests = {r}
  Switchers = {}
  SignOuts = {}
  Loaders = {}
  Confirmers = {c}
  OidcLoops = {l}
  StandaloneLoops = {k}
  Waiters <- MCWaiters
  SignInStores = {"oidc"}
  HasContactPlane = FALSE
  HasReload = TRUE
  Families = {f1}
  FlightIds <- MCFlightIds
  MaxRotations = 1
  None = None
INVARIANTS
  AgentTypeOK
  GateHolds
  ConfirmedIsHonoured
  ShownIsBacked
  BrowserInv
  EndedIsCleared
PROPERTIES
  ImplementsRenewal
  RenewsOnlyWhenDue
  EndsOnlyTheLost
  RenewedSurvives401
\* A tab whose last session has ended may stay signed out for good.
CHECK_DEADLOCK FALSE
