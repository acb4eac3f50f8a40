SPECIFICATION ReloadFairSpec
CONSTANTS
  Bytes = {old, new, partial}
  Loadable = {old, new}
  Callers = {c1, c2}
  MaxFailures = 5
  None = None
  a = a  c = c  broken = broken  s1 = s1  s2 = s2
  Contents = {a, c, broken}
  Contract <- MCContract
  First = a
  Unresolvable = {broken}
  Foreign = Foreign
  Missing = Missing
  Unknown = Unknown
  MaxEdits = 2
CHECK_DEADLOCK FALSE
INVARIANTS
  BaselineSound
  DevLoopSound
PROPERTIES
  PublishedRightly
  ReloadEnds
