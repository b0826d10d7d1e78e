SPECIFICATION Spec
CONSTANTS
  one = one
  Page = Page
  Posts = {1, 2}
  None = 0
  Pictures = {one}
  Link <- MCLinkPages
  Bare = {1, 2}
  Linked <- MCLinkedNone
  QueueMax = 1
  List = 1
  PictureTries = 2
  ArchiveTries = 2
  Retries = 0
  Polls = 1
  Starts = 1
CHECK_DEADLOCK FALSE
PROPERTIES
  NothingFetchedTwice
