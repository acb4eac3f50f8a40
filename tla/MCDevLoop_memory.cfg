SPECIFICATION Spec
CONSTANTS
  a = a  c = c  broken = broken  s1 = s1  s2 = s2
  Contents = {a, c, broken}
  Contract <- MCContract
  First = a
  Unresolvable = {broken}
  Foreign = Foreign
  Missing = Missing
  None = None
  Unknown = Unknown
  MaxEdits = 2
CHECK_DEADLOCK FALSE
INVARIANT RememberedIsConsumed
