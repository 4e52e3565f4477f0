SPECIFICATION Spec
SYMMETRY MCSymmetry
CONSTANTS
  ua = ua ub = ub r1 = r1 r2 = r2 c1 = c1 c2 = c2 n1 = n1 n2 = n2
  Users = {ua, ub}
  Requests = {r1, r2}
  Secrets = {"s1"}
  SMSCodes = {1}
  Phones = {ub}
  Unverified = {ub}
  Senders = {"sms", "magic"}
  Require2FA = FALSE
  Lazy = FALSE
  TOTPPeriod = 2
  TOTPSkew = 1
  TempTokenTTL = 1
  AccessTokenTTL = 1
  CodeTTL = 1
  ClockSkew = 0
  MaxTime = 2
  MaxCalls = 4
  MaxAdmin = 2
  Clients = {c1, c2}
  Nonces = {n1, n2}
  AuthCodeTTL = 1
  MaxCodes = 1
INVARIANTS SessionsConsistent CodesAreHonoured
PROPERTIES SecondFactorHolds LateFactorRefused
CHECK_DEADLOCK FALSE
