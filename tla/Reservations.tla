---------------------------- MODULE Reservations ----------------------------
(***************************************************************************)
(* What the resource manager promises: a request is given what it needs on *)
(* one node in one step, if the node has that much left, under an id of    *)
(* its own; it keeps it until it is taken back, once and as a whole.  Of   *)
(* an unsteady node, which forgets what it gave, nothing is promised about *)
(* what is left.                                                           *)
(***************************************************************************)
EXTENDS Integers

CONSTANTS Ids, Nodes, Resources, Requests, Total, Need, Unsteady, None

VARIABLES
  given,   \* what each id stands for: a request and a node, or None
  drawn,   \* the ids given out so far
  booked   \* what is given away of each node

resVars == <<given, drawn, booked>>

Init ==
  /\ given = [a \in Ids |-> None]
  /\ drawn = {}
  /\ booked = [n \in Nodes |-> [r \in Resources |-> 0]]

Book(n, amounts) ==
  booked' = [booked EXCEPT ![n] = [r \in Resources |-> booked[n][r] + amounts[r]]]

Reserve(a, q, n) ==
  /\ a \notin drawn
  /\ n \in Unsteady \/ \A r \in Resources : booked[n][r] + Need[q][r] <= Total[n][r]
  /\ given' = [given EXCEPT ![a] = [request |-> q, node |-> n]]
  /\ drawn' = drawn \cup {a}
  /\ Book(n, Need[q])

TakeBack(a) ==
  /\ given[a] # None
  /\ given' = [given EXCEPT ![a] = None]
  /\ Book(given[a].node, [r \in Resources |-> -Need[given[a].request][r]])
  /\ UNCHANGED drawn

Next ==
  \E a \in Ids :
    TakeBack(a) \/ \E q \in Requests, n \in Nodes : Reserve(a, q, n)

Spec == Init /\ [][Next]_resVars
=============================================================================
