SPECIFICATION MadeFair
CONSTANTS
  a = a
  b = b
  post = post
  other = other
  Local = Local
  Hubs = {a, b}
  Posts = {post}
  Pulls <- MCPulls
  Translators = {a}
  Tongues <- MCTongues
  Sound <- MCSound
  PageLimit = 1
  PendingMax = 1
  MaxTries = 1
  Times <- MCTimesTwo
  Redoes = {a}
  Lapsing = {post}
PROPERTIES
  Delivered
  WaitsEnd
  TextsSpec

