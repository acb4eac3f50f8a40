SPECIFICATION Spec
CONSTANTS
  Creates = {c1, c2}
  BytesCreates = {c2}
  Identity <- MCIdentity
  Resources = {}
  Sends = {e1}
  BytesSends = {}
  Completions = {}
  TooLarge = {}
  NulSends = {}
  Droppers = {d1, d2}
  MaxHandle = 2
CHECK_DEADLOCK FALSE
INVARIANT NoCallbackAfterDrop
