CONSTANTS
  Names = {"login"}
  t1 = t1
  s1 = s1
  s2 = s2
  Tenants = {t1}
  Providers = {"stripe"}
  ActionIDs = {"notify"}
  Unset = Unset
  Configs <- MCConfigs
  Patches <- MCPatches
  OutEvents <- MCOutEvents
  MaxHooks = 2
  MaxEmits = 1
  MaxEdits = 2
  Setups <- MCSetups
  Ceiling = 8
  InboundRequests = {r1}
SPECIFICATION DeliveryFairSpec
CHECK_DEADLOCK FALSE
INVARIANTS HooksConsistent AttemptsAreTrue InboundIsHonest
PROPERTIES DeliveryEnds
