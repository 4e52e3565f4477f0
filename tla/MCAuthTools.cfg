SPECIFICATION FairSpec
CONSTANTS
  u1 = u1
  t1 = t1
  t2 = t2
  NoUser = NoUser
  NoTenant = NoTenant
  Names = {"login"}
  Wildcard = "*"
  Handlers = {"host", "bridge"}
  MaxSubs = 1
  Conns = {c1}
  Publishers = {p1, p2}
  Callbacks = {d1}
  Topics <- MCTopics
  Tenants = {t1, t2}
  SendBuffer = 1
  Deduplicate = TRUE
  MaxWire = 1
  Users = {u1}
  Events <- MCEvents
  Requested <- MCRequested
  Principals <- MCPrincipals
  Notices <- MCNotices
  Trackers = {p1}
  Notifiers = {p2}
  MaxEvents = 2
  MaxDistributed = 1
INVARIANTS StreamsConsistent FramesAreRight SinksAgree
CHECK_DEADLOCK FALSE
PROPERTIES NobodyHangs
