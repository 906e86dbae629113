CONSTANTS
  j1 = j1
  Jobs = {j1, j2}
  Requests = {j1, j2}
  Workers = {w1}
  Callers = {w1}
  Apis = {c1}
  Nodes = {n1}
  AllocIds = {a1, a2}
  Resources = {"gpus"}
  OtherKeys = {alloc_job}
  Priority <- MixedPriority
  Total <- RoomForTwo
  Need <- OneEach
  MayCrash = FALSE
  MayExpire = FALSE
  Unsteady = {}
  NoJob = NoJob
  None = None
SPECIFICATION WFairSpec
INVARIANTS NoLostJob
PROPERTIES EverySubmittedSettles
