SPECIFICATION MCSpec
CONSTANTS
  UserIDs = {u1, u2}
  Emails = {e1, e2}
  Tokens = {t1, t2}
  Passwords = {p1, p2}
  LegacyPassword = p1
  NoID = NoID
  NoToken = NoToken
  Requests = {r1, r2}
  Features <- AllKinds
  TTL <- EqualTTL
  ClockSkew = 0
  AutoVerify = FALSE
  MaxTime = 1
SYMMETRY Symmetric
INVARIANTS
  StoreConsistent
  TokenServesOnceAsSent
  ProvenInTurns
PROPERTIES
  OldTokensAreRefused
  ChosenPasswordSurvives
CHECK_DEADLOCK FALSE
