---------------------------- MODULE JobLifecycle ----------------------------
(***************************************************************************)
(* What the job queue promises: every job is at one place at a time, and   *)
(* moves from the queue to one free worker, back to the queue or to its    *)
(* end.  Nothing leaves the end and no worker holds two jobs.              *)
(***************************************************************************)
CONSTANTS Jobs, Workers

VARIABLE place   \* "new", "waiting", "over" or the worker that holds the job

Init == place = [j \in Jobs |-> "new"]

Free(w) == \A j \in Jobs : place[j] # w

Move(j, from, to) == place[j] = from /\ place' = [place EXCEPT ![j] = to]

Submitted(j) == Move(j, "new", "waiting")
Started(j, w) == Free(w) /\ Move(j, "waiting", w)
GivenBack(j, w) == Move(j, w, "waiting")
Ended(j) == \E p \in {"waiting"} \cup Workers : Move(j, p, "over")

Next ==
  \E j \in Jobs :
    \/ Submitted(j)
    \/ Ended(j)
    \/ \E w \in Workers : Started(j, w) \/ GivenBack(j, w)

Spec == Init /\ [][Next]_place
=============================================================================
