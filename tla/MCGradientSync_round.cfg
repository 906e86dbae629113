CONSTANTS
  Peers = {p1, p2, p3}
  MaxPeers = 4
  Scorings <- SomeScores
  Main = Main
  NoAverage = NoAverage
  Nodes = {a, b, c}
  Seeds = {a}
  Lan = {b, c}
  Mortal = {a, c}
  Ttl = 1
CHECK_DEADLOCK FALSE
SPECIFICATION Spec
INVARIANTS PeersAgree AnswerOfEnough
PROPERTIES PeersGetAnswers TablesForget
