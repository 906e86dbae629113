CONSTANTS
  Agents = {a1, a2}
  Calm = {a1}
  Lasting = {a2}
  MaxSignals = 2
SPECIFICATION Spec
INVARIANTS NAInv
PROPERTIES SignalEndsSession AgentExits
