------------------------------ MODULE MCWorker ------------------------------
(* Two workers, and one node that fits j1 twice but not j1 and j2 at once. *)
EXTENDS Worker, TLC

CONSTANT j1

SamePriority == [j \in Jobs |-> "normal"]
MixedPriority == [j \in Jobs |-> IF j = j1 THEN "high" ELSE "low"]
RoomForTwo == [n \in Nodes |-> [r \in Resources |-> 2]]
OneEach == [q \in Requests |-> [r \in Resources |-> 1]]
OneOrTwo == [q \in Requests |-> [r \in Resources |-> IF q = j1 THEN 1 ELSE 2]]

WorkersAlike == Permutations(Workers) \cup Permutations(AllocIds)
=============================================================================
