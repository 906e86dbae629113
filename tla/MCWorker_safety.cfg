CONSTANTS
  j1 = j1
  Jobs = {j1, j2}
  Requests = {j1, j2}
  Workers = {w1, w2}
  Callers = {w1, w2}
  Apis = {}
  Nodes = {n1}
  AllocIds = {a1, a2}
  Resources = {"gpus"}
  OtherKeys = {alloc_job}
  Priority <- SamePriority
  Total <- RoomForTwo
  Need <- OneOrTwo
  MayCrash = TRUE
  MayExpire = TRUE
  Unsteady = {}
  NoJob = NoJob
  None = None
SPECIFICATION WSpec
SYMMETRY WorkersAlike
INVARIANTS WInv LaunchedOnce TrainsWithResources
