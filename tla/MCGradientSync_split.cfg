CONSTANTS
  Peers = {p1, p2, p3}
  MaxPeers = 3
  Scorings = {{p1, p2, p3}}
  Main = Main
  NoAverage = NoAverage
CHECK_DEADLOCK FALSE
SPECIFICATION GSSpec
INVARIANTS OneModel
