SPECIFICATION Spec
CONSTANTS
  x = x
  y = y
  alice = alice
  post = post
  gone = gone
  again = again
  face = face
  None = None
  Cids = {x}
  Authors = {alice}
  Msgs = {post, gone, again}
  Env <- MCEnv
  Direct = {post, gone, again}
  Served = {}
  Uploads <- Plain
  Pictures <- NoPictures
PROPERTIES
  RebuildKeepsCounts
