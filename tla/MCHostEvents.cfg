SPECIFICATION EventsFairSpec
CONSTANTS
  Adapters = {"node", "bun"}
  Keys = {k1, k2}
  Loops = {l1, l2, l3}
  NoTimer = NoTimer
  MaxOpen = 2
  s1 = s1
  s2 = s2
  Sinks = {s1, s2}
  NoSink = NoSink
  Identity <- MCIdentity
  Plain = {s1}
  Swappers = {t1, t2}
  Registrars = {r1}
  NoOne = NoOne
  Events = {e1, e2}
  NulEvents = {e2}
  Capacity = 1
CHECK_DEADLOCK FALSE
INVARIANTS
  SinksSound
  ServedByOnePath
PROPERTY EventsEnd
