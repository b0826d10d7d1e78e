SPECIFICATION Spec
CONSTANTS
  one = one
  Page = Page
  Posts = {1, 2}
  None = 0
  Pictures = {one}
  Link <- MCLink
  Bare = {1, 2}
  Linked <- MCLinked
  QueueMax = 2
  List = 1
  PictureTries = 2
  ArchiveTries = 2
  Retries = 1
  Polls = 2
  Starts = 1
CHECK_DEADLOCK FALSE
PROPERTIES
  BackfillReachesAll
