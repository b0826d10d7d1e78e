SPECIFICATION MCSpec
CONSTANTS
  r1 = r1
  r2 = r2
  ann = ann
  bob = bob
  pic = pic
  None = None
  Reqs = {r1, r2}
  Words = {1, 2}
  Pictures <- MCPictures
  Keys <- MCKeys
  Seqs = 2
  Signs = 2
  Cids = {pic}
  Cooldown = TRUE
  RpcUnavailable = "deny"
  DraftMax = 1
  Hazards = 1
  Losses = 1
  Tries = 1
  Jobs = {1, 2}
  Uploaders = {ann, bob}
  QueueMax = 1
  NVENC = TRUE
  Vulkan = TRUE
  Restarts = 1
CHECK_DEADLOCK FALSE
INVARIANTS
  TypesOK
  OnePost
  NothingOfStrangers
  X264Tried
PROPERTIES
  Settled
  JobsEnd
