CONSTANTS
  o1 = o1
  Owners = {o1}
  Jobs = {j1, j2}
  Callers = {c1, c2}
  Owner <- AllOfOne
  Units = {1, 2}
  Needs = {0, 1, 2}
  CreditRate = 2
  FreeTierCredits = 2
  MaxCredits = 3
  MaxCalls = 4
  Nobody = Nobody
  NoJob = NoJob
  Applicants = {1, 2, 3}
  Request <- Requests
  Income = {1, 40}
  Transfers = {1, 2, 3}
  Size <- OneOrTwo
  Limit = 3
  DayLength = 4
  Offsets <- Zones
  MaxDays = 2
  Uploads = {1, 2, 3}
  RemoteKeys = {k1}
  MaxWrites = 2
  NoKey = NoKey
CHECK_DEADLOCK FALSE
SPECIFICATION Spec
INVARIANTS NeverOverdrawn CreditsAddUp QuotaKept UsageKept BackupsKept
PROPERTIES GrantIsPaid LimitRecovers
