CONSTANTS
  j1 = j1
  Jobs = {j1}
  Requests = {j1}
  Workers = {w1}
  Callers = {w1}
  Apis = {}
  Nodes = {n1}
  AllocIds = {a1}
  Resources = {"gpus"}
  OtherKeys = {alloc_job}
  Priority <- SamePriority
  Total <- RoomForTwo
  Need <- OneEach
  MayCrash = FALSE
  MayExpire = FALSE
  Unsteady = {}
  NoJob = NoJob
  None = None
SPECIFICATION WFairSpec
PROPERTIES ResourcesComeBack
