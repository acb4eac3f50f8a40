SPECIFICATION ClientFairSpec
CONSTANTS
  Retries = 2
  NoResult = NoResult
  MaxDepth = 2
  Statics = {add}
  Dynamics = {plugin}
  Wires = {oldWire, newWire}
  MaxGeneration = 3
  k1 = k1  k2 = k2  k3 = k3  d1 = d1  d2 = d2
  Commands = {d1, d2}
  Keys <- MCKeys
  CommandOf <- MCCommandOf
  Records = {r1, r2, r3}
  Capacities = {1, 2}
  Scopes = {s1, s2}
  Calls = {m1, m2, m3}
  MaxPending = 2
  Inputs = {i1, i2}
  Queries = {q1, q2, q3}
  Subscriptions = {e1, e2, e3}
  None = None
  Unused = Unused
CHECK_DEADLOCK FALSE
INVARIANTS
  AbortReachesNative
  NothingLeftBehind
  FramesSound
  HooksSound
PROPERTIES
  NoStartAfterAbort
  EntriesLeaveOnce
  ClientSettles
