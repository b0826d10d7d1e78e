SPECIFICATION Spec
CONSTANTS
  a = a
  b = b
  c = c
  alice = alice
  ra = ra
  rb = rb
  rc = rc
  Local = Local
  Hubs = {a, b, c}
  Authors = {alice, ra, rb, rc}
  Msgs = {1, 2, 3, 4, 5}
  Env <- EnvThree
  Admins <- MCAdmins
  PageLimit = 1
  Offers <- OffersThree
  MaxRequests = 1
INVARIANTS
  RejectedForGood
