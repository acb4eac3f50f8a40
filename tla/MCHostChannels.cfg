SPECIFICATION ChannelsFairSpec
CONSTANTS
  Creates = {c1, c2}
  BytesCreates = {c2}
  Identity <- MCIdentity
  Resources = {r1}
  Sends = {e1, e2}
  BytesSends = {}
  Completions = {e2}
  TooLarge = {}
  NulSends = {}
  Droppers = {d1, d2}
  MaxHandle = 2
  LeaseHandles = {h1, h2}
  Webviews = {w1}
  App = App
  Closers = {k1, k2}
  Free = Free
CHECK_DEADLOCK FALSE
INVARIANTS
  NoCallbackAfterQuietDrop
  DropLeavesNothing
  LeasesAgree
PROPERTY ChannelsEnd
