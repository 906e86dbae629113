CONSTANTS
  Jobs = {j1, j2}
  Coordinators = {c1, c2}
  Offers <- RoundOffers
  c1 = c1  j1 = j1
  MaxRounds = 2
  MaxFailures = 3
  NoPlan = NoPlan
  NoJob = NoJob
  Faults = {f1, f2}
  Culprits = {p1}
CHECK_DEADLOCK FALSE
SPECIFICATION MCFairSpec
INVARIANTS OneCoordinatorPerRound CompletedRoundHasEnded ShardsAssigned PenaltiesKept
PROPERTIES RoundsStayCompleted RoundEnds FaultsStayResolved
