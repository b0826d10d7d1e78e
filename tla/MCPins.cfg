SPECIFICATION Spec
CONSTANTS
  x = x
  y = y
  alice = alice
  post = post
  gone = gone
  again = again
  face = face
  None = None
  Cids = {x, y}
  Authors = {alice}
  Msgs = {post, gone, face}
  Env <- MCEnv
  Direct = {post, face}
  Served = {post, gone, face}
  Uploads <- Minted
  Pictures <- MCPictures
INVARIANTS
  TypeOK
  RefsNeverOver
