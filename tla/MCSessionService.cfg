SPECIFICATION TurnsSpec
CONSTANTS
  SessionIDs = {s1, s2}
  Grants = {g1, g2, g3}
  Users = {u1, u2}
  NoID = NoID
  NoGrant = NoGrant
  Requests = {r1, r2}
  RefreshTokenTTL = 1
  AccessTokenTTL = 1
  ClockSkew = 1
  AllCalls = TRUE
  MaxTime = 2
SYMMETRY Symmetric
INVARIANTS
  StoreConsistent
  SpentOrRevokedIsDead
  SafeInTurns
PROPERTIES
  DeletionIsSound
  RefinesTokenRotation
CHECK_DEADLOCK FALSE
