SPECIFICATION MailSpec
CONSTANTS
  u1 = u1  u2 = u2
  e1 = e1  e2 = e2  e3 = e3
  site = site  shop = shop  foreign = foreign
  UserIDs = {u1, u2}
  Emails = {e1, e2, e3}
  Tokens = {t1, t2}
  Passwords = {p1}
  NoID = NoID
  NoToken = NoToken
  Calls = {c1, c2, c3}
  Deployments <- MCDeployments
  NoSite = NoSite
  FirstEmail <- MCFirstEmail
  Passwordless = {u2}
  VerifiedUsers = {u2}
  Phones = {u1}
SYMMETRY Symmetric
INVARIANTS
  MailIsTrue
  AnswersAreTrue
  ChangeIsAnnounced
CHECK_DEADLOCK FALSE
