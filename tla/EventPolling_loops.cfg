SPECIFICATION Spec
CHECK_DEADLOCK FALSE
CONSTANTS
  Adapters = {"node", "bun"}
  Keys = {k1, k2}
  Loops = {l1, l2, l3}
  NoTimer = NoTimer
  MaxOpen = 2
INVARIANTS
  OneLoop
