SPECIFICATION Spec
CONSTANTS
  a = a
  b = b
  post = post
  other = other
  Local = Local
  Hubs = {a, b}
  Posts = {post, other}
  Pulls <- MCPulls
  Translators = {a}
  Tongues <- MCTongues
  Sound <- MCSound
  PageLimit = 1
  PendingMax = 1
  MaxTries = 1
  Times <- MCTimesTwo
  Redoes = {a}
  Lapsing = {other}
INVARIANTS
  TypeOK
PROPERTIES
  FreshForPeers
  NewestStays
