----------------------------- MODULE MCNodeAgent -----------------------------
(* Two agents of an owner: one that is sent up to MaxSignals signals and may  *)
(* run for longer than its session's key lives, and a calm one.               *)
EXTENDS NodeAgent

CONSTANT Calm  \* agents that are sent one signal at most

Next == NANext /\ \A a \in Calm : signals'[a] <= 1

Spec == NAInit /\ [][Next]_naVars /\ NAFairness
=============================================================================
