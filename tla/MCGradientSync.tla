--------------------------- MODULE MCGradientSync ---------------------------
(***************************************************************************)
(* A round of three peers with a coordinator that waits for one to four,   *)
(* and, in other behaviours, the peer tables of three nodes: a seed, and   *)
(* two nodes of one LAN.  part says which of the two moves: they share no  *)
(* state.                                                                  *)
(***************************************************************************)
EXTENDS GradientSync, PeerTable

VARIABLE part

vars == <<part, gsVars, ptVars>>

Init ==
  /\ part \in {"round", "tables"} /\ GSInit /\ PtInit
  /\ part = "tables" => numPeers = 1 /\ scored = {}

\* No peer has a contribution score yet, or all but one have.
SomeScores == {{}, Peers \ {CHOOSE p \in Peers : TRUE}}

RoundOnly(A) == part = "round" /\ A /\ UNCHANGED <<part, ptVars>>
TablesOnly(A) == part = "tables" /\ A /\ UNCHANGED <<part, gsVars>>

Next == RoundOnly(GSNext) \/ TablesOnly(PtNext)

Spec ==
  /\ Init /\ [][Next]_vars
  /\ WF_vars(RoundOnly(MainStep))
  /\ \A p \in Peers : WF_vars(RoundOnly(HandlerStep(p))) /\ WF_vars(RoundOnly(Send(p)))
  /\ WF_vars(TablesOnly(Tick))
  /\ \A n \in Nodes : WF_vars(TablesOnly(SenderStep(n)))

\* RoundCompletes, of the behaviours in which the round moves.
PeersGetAnswers == part = "round" => RoundCompletes
=============================================================================
