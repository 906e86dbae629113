CONSTANTS
  j1 = j1
  Jobs = {j1}
  Workers = {w1, w2}
  Apis = {c1}
  Priority <- SamePriority
  MayCrash = TRUE
  MayExpire = TRUE
  NoJob = NoJob
SPECIFICATION JQFairSpec
PROPERTIES StuckJobRequeued
