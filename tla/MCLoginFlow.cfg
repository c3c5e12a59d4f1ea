SPECIFICATION FairLoginSpec
CONSTANTS
  Builds = {"web", "desktop"}
  Flows = {f1, f2, f3}
  MaxCallbackRetries = 2
  MaxReports = 2
  LoginPage = LoginPage
  None = None
INVARIANTS
  GuardMeansListening
  CapturedIsPending
  LoginInv
PROPERTIES
  ImplementsCodeFlow
  NoCodeTwice
  ExchangesTheLatest
  LoopEnds
