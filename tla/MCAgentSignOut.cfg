SPECIFICATION FairAgentSpec
CONSTANTS
  Requests = {}
  Switchers = {}
  SignOuts = {o}
  Loaders = {d}
  Confirmers = {}
  OidcLoops = {}
  StandaloneLoops = {l}
  Waiters <- MCWaiters
  SignInStores = {"standalone"}
  HasContactPlane = FALSE
  HasReload = FALSE
  Families = {f1}
  FlightIds <- MCFlightIds
  MaxRotations = 1
  None = None
PROPERTIES
  LostSessionLeaves
\* A tab whose last session has ended may stay signed out for good.
CHECK_DEADLOCK FALSE
