CONSTANTS
  small = small  large = large
  Nodes = {n1, n2}
  Resources = {"gpus", "cpus"}
  Callers = {c1, c2}
  Requests = {small, large}
  Total <- Capacity
  Need <- Needs
  AllocIds = {a1, a2, a3}
  OtherKeys = {wrong}
  Unsteady = {n1}
  None = None
SPECIFICATION RMSpec
SYMMETRY CallersAlike
INVARIANTS WithinCapacity AccountsExact
PROPERTIES ImplementsReservations
