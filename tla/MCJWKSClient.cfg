SPECIFICATION FairSpec
CONSTANTS
  Requests = {r1, r2}
  FetchIDs = {f1, f2}
  NoFetch = NoFetch
  CacheTTL = 1
  MinRefreshInterval = 1
  HostInvalidates = TRUE
  MaxVersion = 1
  MaxTime = 1
INVARIANTS
  CacheIsSound
PROPERTIES
  NeverGoesBack
  VerifyEnds
