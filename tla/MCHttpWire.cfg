SPECIFICATION Spec
CONSTANTS
  Deployments <- MCDeployments
  Tabs = {t1, t2}
  NoHandle = NoHandle
  Scopes = {"root", "domain"}
  MaxSessions = 2
  MaxGrants = 3
INVARIANTS WireConsistent ForeignPagesWriteNothing
PROPERTIES LogoutEnds RefreshAnswersAreTrue
CHECK_DEADLOCK FALSE
SYMMETRY Symmetric
