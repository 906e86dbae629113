----------------------------- MODULE PeerTable -----------------------------
(***************************************************************************)
(* The peer tables of p2p/peer.py, filled by p2p/discovery.py and spread   *)
(* by p2p/gossip.py.  Instead of last_seen a table holds ages, which grow  *)
(* together up to Stale; a datagram arrives at once, on some of its        *)
(* targets, or is lost.  The sender thread walks through the table of its  *)
(* node without a lock while the other threads add to it.                  *)
(***************************************************************************)
EXTENDS Integers, FiniteSets, Functions

CONSTANTS Nodes,
          Seeds,    \* the nodes that every node is configured with
          Lan,      \* the nodes that hear each other's broadcasts
          Mortal,   \* the nodes that may crash
          Ttl       \* the age up to which an entry is kept

ASSUME PeerAssumption ==
  /\ IsFiniteSet(Nodes) /\ Ttl \in Nat
  /\ Seeds \subseteq Nodes /\ Lan \subseteq Nodes /\ Mortal \subseteq Nodes

FanOut == 3
Stale == Ttl + 1

VARIABLES
  alive,
  table,  \* _peers: the age of the entry of each known peer
  sender  \* the sender thread: "sleep", "sweep" in remove_stale(), or "broken"

ptVars == <<alive, table, sender>>

PtInit ==
  /\ alive = Nodes
  /\ table = [n \in Nodes |-> << >>]
  /\ sender = [n \in Nodes |-> "sleep"]

Known(n) == DOMAIN table[n]

\* _merge() with add_or_update(): an entry that is unknown or newer is taken, and
\* its last_seen becomes the time of its arrival.
Merged(m, view) ==
  [p \in (Known(m) \cup DOMAIN view) \ {m} |->
     IF p \in DOMAIN view /\ (p \in Known(m) => view[p] < table[m][p]) THEN 0 ELSE table[m][p]]

\* An iteration over a table that grows raises RuntimeError, which ends the thread.
Shaken(m, newTable) ==
  IF sender[m] = "sweep" /\ DOMAIN newTable # Known(m) THEN "broken" ELSE sender[m]

\* The nodes hear of the peers in view.
Hear(nodes, view) ==
  LET heard == [m \in Nodes |-> IF m \in nodes THEN Merged(m, view) ELSE table[m]]
  IN  /\ table' = heard
      /\ sender' = [m \in Nodes |-> Shaken(m, heard[m])]

\* An entry as discovery passes it on: newer than any.
Hello(n) == [p \in {n} |-> -1]

\* _udp_broadcaster(), _udp_listener(), _on_peer_discovered()
Broadcast(n) ==
  /\ n \in alive \cap Lan
  /\ \E reached \in SUBSET ((alive \cap Lan) \ {n}) : Hear(reached, Hello(n))
  /\ UNCHANGED alive

\* _seed_dialer(): the seed answers with its own description.  local_api.py:66
\* binds 127.0.0.1, so that in fact only a seed on the same host answers; here any
\* seed may, which adds behaviours.
Dial(n, seed) ==
  /\ n \in alive /\ seed \in Seeds \cap alive
  /\ Hear({n}, Hello(seed))
  /\ UNCHANGED alive

\* _encode_table(): the table and the node itself, whose last_seen _heartbeat()
\* keeps at the present.
EncodedTable(n) == [p \in Known(n) \cup {n} |-> IF p = n THEN 0 ELSE table[n][p]]

\* A round of _sender(): some of the targets are reached.
Gossip(n) ==
  /\ n \in alive /\ sender[n] = "sleep" /\ Known(n) # {}
  /\ \E reached \in SUBSET Known(n) :
       LET heard == [m \in Nodes |-> IF m \in reached \cap alive
                                     THEN Merged(m, EncodedTable(n)) ELSE table[m]]
       IN  /\ Cardinality(reached) <= FanOut
           /\ table' = heard
           /\ sender' = [m \in Nodes |-> IF m = n THEN "sweep" ELSE Shaken(m, heard[m])]
  /\ UNCHANGED alive

\* Mutant of Fresh: nothing is stale.
AllFresh(n) == Known(n)

\* is_stale()
Fresh(n) == {p \in Known(n) : table[n][p] <= Ttl}

\* remove_stale()
RemoveStale(n) ==
  /\ n \in alive /\ sender[n] = "sweep"
  /\ table' = [table EXCEPT ![n] = Restrict(@, Fresh(n))]
  /\ sender' = [sender EXCEPT ![n] = "sleep"]
  /\ UNCHANGED alive

\* Time passes.
Tick ==
  /\ table' = [n \in Nodes |-> [p \in Known(n) |-> IF table[n][p] < Stale THEN table[n][p] + 1 ELSE Stale]]
  /\ UNCHANGED <<alive, sender>>

Crash(n) ==
  /\ n \in alive \cap Mortal
  /\ alive' = alive \ {n}
  /\ table' = [table EXCEPT ![n] = << >>]
  /\ sender' = [sender EXCEPT ![n] = "sleep"]

\* The identity is read from its file, the table is empty.
Restart(n) ==
  /\ n \notin alive
  /\ alive' = alive \cup {n}
  /\ UNCHANGED <<table, sender>>

PtNext ==
  \/ Tick
  \/ \E n \in Nodes :
       \/ Broadcast(n) \/ Gossip(n) \/ RemoveStale(n) \/ Crash(n) \/ Restart(n)
       \/ \E seed \in Seeds : Dial(n, seed)

PtSpec == PtInit /\ [][PtNext]_ptVars

SenderStep(n) == Gossip(n) \/ RemoveStale(n)

\* Clocks and the sender threads go on.
PtFairSpec ==
  /\ PtSpec
  /\ WF_ptVars(Tick)
  /\ \A n \in Nodes : WF_ptVars(SenderStep(n))

-----------------------------------------------------------------------------
(* What the tables promise *)

\* The types, and that no node is in its own table.
PtTypeOK ==
  /\ alive \subseteq Nodes
  /\ sender \in [Nodes -> {"sleep", "sweep", "broken"}]
  /\ DOMAIN table = Nodes
  /\ \A n \in Nodes : \A p \in Known(n) : p \in Nodes \ {n} /\ table[n][p] \in 0..Stale

\* A node that is left alone forgets the others, unless its sender thread was
\* broken.  With two nodes left this fails: each refreshes the other's entries.
LonelyNodeForgets ==
  \A n \in Nodes :
    <>[](alive = {n}) => <>[](sender[n] = "broken" \/ Known(n) = {})

\* Tables hold other nodes only, and none that a lonely node has not heard of.
TablesForget == []PtTypeOK /\ LonelyNodeForgets
=============================================================================
