-------------------------- MODULE MCResourceManager --------------------------
(* Two nodes that fit two small requests, or one large one, each; one unsteady. *)
EXTENDS ResourceManager, TLC

CONSTANTS small, large

Capacity == [n \in Nodes |-> [r \in Resources |-> 2]]
\* Two requests that compete for different resources.
Needs == [q \in Requests |->
            [r \in Resources |-> IF q = large /\ r = "gpus" THEN 2 ELSE 1]]

CallersAlike == Permutations(Callers) \cup Permutations(AllocIds)
=============================================================================
