----------------------------- MODULE MCJobQueue -----------------------------
(* Small instances of JobQueue: two jobs of equal or of different priority. *)
EXTENDS JobQueue, TLC

CONSTANT j1

SamePriority == [j \in Jobs |-> "normal"]
MixedPriority == [j \in Jobs |-> IF j = j1 THEN "high" ELSE "low"]

WorkersAlike == Permutations(Workers)
=============================================================================
