SPECIFICATION Spec
CONSTANTS
  UserIDs <- MCUsers
  Roles = {"admin", "editor"}
  Permissions = {"p1"}
  TenantIDs = {"t1", "t2"}
  InitialTenants = {"t1"}
  NoTenant = NoTenant
  Root = Root
  KeyIDs = {"k1", "k2", "k3"}
  KeyPrefixes = {"p", "q"}
  KeyPrefix <- MCPrefix
  NoValue = NoValue
  Requests = {r1, r2, r3}
  Deployments <- MCDeployments
  InitialUsers <- MCInitialUsers
  BatchSize = 2
SYMMETRY Symmetric
INVARIANTS
  NothingDangles
  AdmittedHadStanding
  PolicyReachesUnlessDeleted
PROPERTIES
  UnsubmittedFieldKept
  EndingsAreFinal
CHECK_DEADLOCK FALSE
