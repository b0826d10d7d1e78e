SPECIFICATION Spec
CONSTANTS
  a = a
  b = b
  c = c
  alice = alice
  ra = ra
  rb = rb
  rc = rc
  Local = Local
  Hubs = {a, b}
  Authors = {alice, ra, rb, rc}
  Msgs = {1, 2, 3, 4, 5, 6}
  Env <- EnvMarks
  Admins <- MCAdmins
  PageLimit = 1
  Offers <- OffersMarks
  MaxRequests = 1
INVARIANTS
  IndexNeverInTheWay
  MarksMatchLog
PROPERTIES
  FeedSpec
