SPECIFICATION FairSpec
CONSTANTS
  Initializers = {i1, i2}
  Given = {e1}
  Promises = {p1, p2, p3, p4}
  MayFail = {p1}
  Functions = {f1, f2}
  Nothing = Nothing
  MaxGeneration = 3
INVARIANTS
  LateResultsLose
  InitializationsOrdered
PROPERTIES
  CallsReachTheEngine
  CallsResume
