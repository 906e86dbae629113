--------------------------- MODULE MCOrchestrator ---------------------------
(* Rounds of two jobs by two coordinators; in other behaviours the plans of    *)
(* many offers; in others faults, which share no state with the rounds.        *)
EXTENDS Orchestrator, FaultHandler

CONSTANTS c1, j1

VARIABLE part

Machine(id, gpus, score) == [id |-> id, gpus |-> gpus, memory |-> 80, score |-> score]
Machines(id) == {Machine(id, 0, 0), Machine(id, 1, 10), Machine(id, 4, 30)}
Alike(n) == [p \in 1..n |-> Machine(p, 0, 10)]

\* No peers, or one shard for three peers.
RoundOffers ==
  {[strategy |-> "weighted", peers |-> << >>, shards |-> 2],
   [strategy |-> "weighted", peers |-> Alike(3), shards |-> 1]}

\* One to four machines of three kinds with up to seven shards.
PlanOffers ==
  [strategy : {"weighted", "capability"}, shards : {1, 2, 5, 7},
   peers : (Machines(1) \X Machines(2) \X Machines(3))
           \cup {<<m, Machine(2, 0, 0), n, Machine(4, 4, 30)>> : m \in Machines(1), n \in Machines(3)}]
  \cup [strategy : {"round_robin"}, shards : 0..7, peers : {Alike(n) : n \in 1..4}]

MCInit == OrInit /\ FhInit /\ part \in {"rounds", "plans", "faults"}

\* A single round of any plan; failures where there are up to two tasks.
PlanNext ==
  \/ version[j1] = 0 /\ StartRound(c1, j1)
  \/ \E o \in PlanOffers : BuildPlan(c1, o)
  \/ CoordinatorStep(c1)
  \/ \E t \in DOMAIN tasks[c1] :
       \/ MarkComplete(c1, t)
       \/ Cardinality(DOMAIN tasks[c1]) <= 2 /\ MarkFailed(c1, t)

Faultless(A) == part # "faults" /\ A /\ UNCHANGED <<part, fhVars>>
FaultsOnly(A) == part = "faults" /\ A /\ UNCHANGED <<part, orVars>>

MCNext ==
  \/ part = "rounds" /\ Faultless(OrNext)
  \/ part = "plans" /\ Faultless(PlanNext)
  \/ FaultsOnly(FhNext)

MCSpec == MCInit /\ [][MCNext]_<<orVars, fhVars, part>>

\* Coordinators and handlers go on, and peers report on the tasks they have.
MCFairSpec ==
  /\ MCSpec
  /\ \A c \in Coordinators :
       /\ WF_orVars(Faultless(CoordinatorStep(c)))
       /\ WF_orVars(Faultless(\E t \in PendingTasks(c) : MarkComplete(c, t)))
  /\ \A f \in Faults : WF_fhVars(FaultsOnly(HandlerGoesOn(f)))
=============================================================================
