SPECIFICATION LifeSpec
CONSTANTS
  a = a
  b = b
  c = c
  Names = {a, b}
  MaxId = 4
  w1 = w1
  Wires = {w1, w2}
  k = k
  Caps = {k}
  Mutators = {m1, m2}
  Callers = {c1}
  Hosts = {h1}
  Builds <- MCBuilds
  NoOne = NoOne
  NoName = NoName
  NoCommand = NoCommand
  NoCap = NoCap
  NoSchema = NoSchema
  MaxGeneration = 2
  BuilderNames = {a, b, c}
  MaxAliases = 2
SYMMETRY MutatorSymmetry
CONSTRAINT FewChanges
CHECK_DEADLOCK FALSE
INVARIANTS
  Served
  IdsStable
  UnlockedCallsSound
  SchemasCurrent
PROPERTIES
  RecheckedMutations
