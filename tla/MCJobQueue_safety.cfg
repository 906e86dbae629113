CONSTANTS
  j1 = j1
  Jobs = {j1, j2}
  Workers = {w1, w2}
  Apis = {c1}
  Priority <- MixedPriority
  MayCrash = TRUE
  MayExpire = TRUE
  NoJob = NoJob
SYMMETRY WorkersAlike
SPECIFICATION JQSpec
INVARIANTS OnePlace RecordFitsPlace
PROPERTIES OutcomeStands ImplementsLifecycle
