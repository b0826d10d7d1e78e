SPECIFICATION Spec
CONSTANTS
  ann = ann
  bob = bob
  cat = cat
  Posts = {1, 2, 3}
  None = 0
  Parent <- MCParent
  Author <- MCAuthor
  Names <- MCNames
  Holds <- MCHolds
  Levels = 40
  Depth = 32
  MaxTime = 2
  Deletable = {2}
  People = {ann}
  Readers = {ann, bob}
  Page = 1
  Buffer = 2
  PushMax = 1
  PageLimit = 1
  Joins = 1
  Breaks = 1
CHECK_DEADLOCK FALSE
ACTION_CONSTRAINTS
  Apart
INVARIANTS
  ThreadsTrue
  LivePageTrue
  AnsweredTold
  PagesFilled
