SPECIFICATION FairLoginSpec
CONSTANTS
  Builds = {"desktop"}
  Flows = {f1, f2}
  MaxCallbackRetries = 2
  MaxReports = 1
  LoginPage = LoginPage
  None = None
PROPERTIES
  GuardIsReleased
