SPECIFICATION FairSpec
CONSTANTS
  c1 = c1
  c2 = c2
  NoCall = NoCall
  NoWorker = NoWorker
  Calls = {c1, c2}
  Workers = {w1, w2}
  IntoCalls = {c2}
  NullCallback = {c2}
  PayloadSize <- MCPayloadSize
  Limits = {1, 2}
  Hanging = {c1}
  QueueDepth = 1
INVARIANTS
  BooksBalance
PROPERTIES
  ImplementsAsyncCall
  CallsAndPoolEnd
