CONSTANTS
  UserIDs = {u1, u2, u3, u4, u5}
  u1 = u1
  u2 = u2
  t1 = t1
  t2 = t2
  e1 = e1
  Unset = Unset
  Providers = {"google", "github"}
  Emails = {e1}
  NoEmail = NoEmail
  Tenants = {t1, t2}
  Profiles <- MCProfiles
  Setups <- MCSetups
  Accounts <- MCAccounts
  Requests = {r1, r2}
  StateTTL = 1
  LinkTokenTTL = 1
  MaxNonces = 1
  MaxTokens = 1
  MaxLinks = 2
  MaxTime = 2
SPECIFICATION Spec
CHECK_DEADLOCK FALSE
SYMMETRY Symmetric
INVARIANTS LinksConsistent SignInsAreProven NoncesAreHonoured
