SPECIFICATION FairSpec
CONSTANTS
  x = x
  y = y
  alice = alice
  post = post
  gone = gone
  again = again
  face = face
  None = None
  Cids = {x}
  Authors = {alice}
  Msgs = {post, gone}
  Env <- MCEnv
  Direct = {post, gone}
  Served = {post, gone}
  Uploads <- Plain
  Pictures <- MCPictures
PROPERTIES
  StagedSwept
  KuboFollows
  Healed
