SPECIFICATION FairSpec
CONSTANTS
  a = a
  b = b
  c = c
  alice = alice
  ra = ra
  rb = rb
  rc = rc
  Local = Local
  Hubs = {a, b}
  Authors = {alice, ra, rb, rc}
  Msgs = {1, 2, 3, 4, 5, 6, 7, 8}
  Env <- EnvModeration
  Admins <- MCAdmins
  PageLimit = 1
  Offers <- OffersModeration
  MaxRequests = 1
INVARIANTS
  LocalSeqIncreasing
  PulledKept
  BookmarksOfPosts
PROPERTIES
  Delivered
