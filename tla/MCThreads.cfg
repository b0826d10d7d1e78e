SPECIFICATION ThreadsSpec
CONSTANTS
  Posts = {1, 2, 3}
  None = 0
  Parent <- MCParent
  Author <- MCAuthor
  Names <- MCNames
  Levels = 40
  Depth = 32
  MaxTime = 3
  Deletable = {1, 2, 3}
CHECK_DEADLOCK FALSE
PROPERTIES
  NeverLost
