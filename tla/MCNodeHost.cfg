SPECIFICATION NodeFairSpec
CONSTANTS
  Transports = {t1, t2}
  NoTransport = NoTransport
  Runs = {n1, n2}
  NoRun = NoRun
  Readers = {c1, c2}
  Reload = Reload
  Subscriptions = {s1, s2}
  MaxTries = 2
  Requests = {r1, r2}
  ChannelRequests = {r2}
  Hello = Hello
  NoRequest = NoRequest
  MaxProcs = 2
CHECK_DEADLOCK FALSE
INVARIANTS
  TransportsAreOwned
  NothingStale
  TransportSound
PROPERTIES
  NeverReclaims
  ImplementsRequestReply
  NodeSettles
