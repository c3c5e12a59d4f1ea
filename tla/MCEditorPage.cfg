SPECIFICATION FairEditorSpec
CONSTANTS
  Hosts = {"web", "desktop"}
  Builds = {b1, b2}
INVARIANTS
  EditorInv
  GuardFollowsForm
  ProbeIsDue
PROPERTIES
  EditsLeaveByConsent
  StaleIsReplaced
