SPECIFICATION MadeSpec
CONSTANTS
  a = a
  b = b
  upper = upper
  lower = lower
  Local = Local
  Root = Root
  Hubs = {a, b}
  Replies = {upper, lower}
  Parent <- MCParent
  Pulls <- MCPulls
  Writers = {a}
  Steps = {1}
  Levels = 40
  Depth = 32
  PageLimit = 1
  PendingMax = 2
  SettleLimit = 2
  MaxTries = 1
  Sound = {1, 3}
  Times <- MCTimes
  Standing <- MCStanding
  Deletable <- MCDeletable
  Redoes = {b}
  Lapsing = {b}
INVARIANTS
  StandsBeside
