------------------------ MODULE Orchestrator_proofs ------------------------
(***************************************************************************)
(* That rounds have one coordinator each and end with no task pending,     *)
(* that their plans leave no shard out, and that faults count once against *)
(* their peers, for any number of jobs, coordinators, rounds, peers,       *)
(* shards, faults and failures.                                            *)
(***************************************************************************)
EXTENDS Orchestrator, FaultHandler, Sums, FiniteSetTheorems, TLAPS

Statuses == {"assigned", "retry", "completed", "failed"}

\* The part of the types that the invariants need.  That version stays within
\* MaxRounds, which only bounds the model, is not among it.
TablesTyped ==
  /\ version \in [Jobs -> Nat]
  /\ at \in [Coordinators -> Places]
  /\ job \in [Coordinators -> Jobs \cup {NoJob}]
  /\ round \in [Coordinators -> Nat]
  /\ \A c \in Coordinators : at[c] \in Working => job[c] \in Jobs

\* A round that a coordinator works on, or has worked on, was counted.
RoundWasCounted ==
  \A c \in Coordinators : job[c] \in Jobs => round[c] \in 1..version[job[c]]

CountInv ==
  TablesTyped /\ RoundWasCounted /\ OneCoordinatorPerRound

\* No round is counted.
LEMMA CountInitInv == OrInit => CountInv
BY OrchestratorAssumption
DEF OrInit, CountInv, TablesTyped, RoundWasCounted, OneCoordinatorPerRound,
    Places, Working

\* INCR: the round of c is later than every round of the job before it.
LEMMA StartRoundCounts ==
  ASSUME CountInv, NEW c \in Coordinators, NEW j \in Jobs, StartRound(c, j)
  PROVE  CountInv'
<1> USE OrchestratorAssumption DEF CountInv
<1>1. /\ version' = [version EXCEPT ![j] = version[j] + 1]
      /\ job' = [job EXCEPT ![c] = j]
      /\ round' = [round EXCEPT ![c] = version[j] + 1]
      /\ at' = [at EXCEPT ![c] = "save"]
      /\ at[c] = "idle"
  BY DEF StartRound, At
<1>2. TablesTyped'
  BY <1>1 DEF TablesTyped, Places, Working
<1>3. /\ job'[c] = j /\ round'[c] = version'[j] /\ version'[j] = version[j] + 1
      /\ version[j] \in Nat
      /\ \A d \in Coordinators \ {c} : job'[d] = job[d] /\ round'[d] = round[d] /\ at'[d] = at[d]
      /\ \A k \in Jobs \ {j} : version'[k] = version[k]
  BY <1>1 DEF TablesTyped
<1>4. RoundWasCounted'
  <2> SUFFICES ASSUME NEW d \in Coordinators, job'[d] \in Jobs
               PROVE  round'[d] \in 1..version'[job'[d]]
    BY DEF RoundWasCounted
  <2>1. CASE d = c
    BY <1>3, <2>1
  <2>2. CASE d # c
    <3>1. job'[d] = job[d] /\ round'[d] = round[d] /\ job[d] \in Jobs
      BY <1>3, <2>2
    <3>2. round[d] \in 1..version[job[d]]
      BY <3>1 DEF RoundWasCounted
    <3>3. /\ version[job[d]] \in Nat /\ version'[job[d]] \in Nat
          /\ version[job[d]] <= version'[job[d]]
      BY <1>3, <3>1 DEF TablesTyped
    <3> QED
      BY <3>1, <3>2, <3>3
  <2> QED
    BY <2>1, <2>2
<1>5. \A d \in Coordinators \ {c} : job[d] = j => round[d] # round'[c]
  BY <1>3 DEF RoundWasCounted, TablesTyped
<1>6. OneCoordinatorPerRound'
  BY <1>3, <1>5 DEF OneCoordinatorPerRound
<1> QED
  BY <1>2, <1>4, <1>6

\* The other steps count nothing, and none makes an idle coordinator work.
CountsNothing ==
  /\ UNCHANGED <<version, job, round>>
  /\ at' \in [Coordinators -> Places]
  /\ \A c \in Coordinators : at'[c] \in Working => at[c] \in Working

\* Such a step keeps what was counted.
LEMMA CountsNothingKeeps == ASSUME CountInv, CountsNothing PROVE CountInv'
BY DEF CountInv, CountsNothing, TablesTyped, RoundWasCounted, OneCoordinatorPerRound

\* Only start_round() counts.
LEMMA OtherStepsCountNothing ==
  ASSUME CountInv, [OrNext]_orVars,
         ~\E c \in Coordinators, j \in Jobs : StartRound(c, j)
  PROVE  CountsNothing
<1> USE DEF CountInv, TablesTyped, CountsNothing, Places, Working
<1>1. ASSUME NEW c \in Coordinators, CoordinatorStep(c) PROVE CountsNothing
  BY <1>1 DEF CoordinatorStep, SaveRound, SeeComplete, LoadRound, StoreRound, At
<1>2. ASSUME NEW c \in Coordinators, CoordinatorDies(c) PROVE CountsNothing
  BY <1>2 DEF CoordinatorDies, At
<1>3. ASSUME NEW c \in Coordinators, NEW o \in Offers, BuildPlan(c, o) PROVE CountsNothing
  <2>1. /\ at[c] = "plan" /\ UNCHANGED <<version, job, round>>
        /\ at' = [at EXCEPT ![c] = "work"] \/ at' = [at EXCEPT ![c] = "idle"]
    BY <1>3 DEF BuildPlan, At
  <2> QED
    BY <2>1
<1>4. ASSUME NEW c \in Coordinators, NEW t \in DOMAIN tasks[c], MarkComplete(c, t) \/ MarkFailed(c, t)
      PROVE  CountsNothing
  BY <1>4 DEF MarkComplete, MarkFailed
<1>5. ASSUME NEW j \in Jobs, NEW v \in RoundIds, RoundExpires(j, v) PROVE CountsNothing
  BY <1>5 DEF RoundExpires
<1>6. CASE UNCHANGED orVars
  BY <1>6 DEF orVars
<1> HIDE DEF CountInv, TablesTyped, CountsNothing, Places, Working
<1> QED
  BY <1>1, <1>2, <1>3, <1>4, <1>5, <1>6 DEF OrNext

\* Counting steps and others keep the invariant.
LEMMA CountInvStep == CountInv /\ [OrNext]_orVars => CountInv'
BY StartRoundCounts, OtherStepsCountNothing, CountsNothingKeeps

\* Every state of the specification satisfies the invariant.
LEMMA CountInvariance == OrSpec => []CountInv
BY CountInitInv, CountInvStep, PTL DEF OrSpec

\* start_round() gives no round to two coordinators (sync_manager.py:64), however
\* many there are of a job.
THEOREM RoundsHaveOneCoordinator == OrSpec => []OneCoordinatorPerRound
<1>1. CountInv => OneCoordinatorPerRound
  BY DEF CountInv
<1> QED
  BY <1>1, CountInvariance, PTL

-----------------------------------------------------------------------------
(* Rounds that are completed *)

\* A task table, and what MarkComplete and MarkFailed make of its entries.
IsTable(f) ==
  /\ f = [t \in DOMAIN f |-> f[t]]
  /\ \A t \in DOMAIN f : f[t] \in [status : Statuses, retries : Nat]

TableInv ==
  /\ at \in [Coordinators -> Places]
  /\ tasks = [c \in Coordinators |-> tasks[c]]
  /\ \A c \in Coordinators : IsTable(tasks[c])

EndInv == TableInv /\ CompletedRoundHasEnded

\* No coordinator has a table with tasks.
LEMMA EndInitInv == OrInit => EndInv
<1> SUFFICES ASSUME OrInit PROVE EndInv
  OBVIOUS
<1>1. TableInv
  BY DEF OrInit, TableInv, IsTable, Places, Working
<1>2. CompletedRoundHasEnded
  BY DEF OrInit, CompletedRoundHasEnded
<1> QED
  BY <1>1, <1>2 DEF EndInv

\* A coordinator that nothing happens to keeps its promise, as late only grows.
KeepsRound(c) ==
  /\ at'[c] = at[c] /\ job'[c] = job[c] /\ round'[c] = round[c]
  /\ tasks'[c] = tasks[c] /\ late \subseteq late'

\* What such a coordinator still has to do was allowed before.
LEMMA KeepsRoundKeeps ==
  ASSUME EndInv, NEW c \in Coordinators, KeepsRound(c), at'[c] \in {"load", "store"}
  PROVE  \A t \in PendingTasks(c)' : t[1] = job'[c] /\ t[2] = round'[c] => t \in late'
BY DEF EndInv, CompletedRoundHasEnded, KeepsRound, PendingTasks

\* A step that only one coordinator feels needs to be looked at there alone.
LEMMA OneCoordinatorMoves ==
  ASSUME EndInv, NEW c \in Coordinators, TableInv',
         \A d \in Coordinators \ {c} : KeepsRound(d),
         at'[c] \in {"load", "store"} =>
           \A t \in PendingTasks(c)' : t[1] = job'[c] /\ t[2] = round'[c] => t \in late'
  PROVE  EndInv'
<1>1. ASSUME NEW d \in Coordinators, at'[d] \in {"load", "store"}
      PROVE  \A t \in PendingTasks(d)' : t[1] = job'[d] /\ t[2] = round'[d] => t \in late'
  <2>1. CASE d = c
    BY <1>1, <2>1
  <2>2. CASE d # c
    BY <1>1, <2>2, KeepsRoundKeeps
  <2> QED
    BY <2>1, <2>2
<1> QED
  BY <1>1 DEF EndInv, CompletedRoundHasEnded

\* Steps that take no coordinator to the end of its round.
LEMMA StartRoundEnds ==
  ASSUME TablesTyped, EndInv, NEW c \in Coordinators, NEW j \in Jobs, StartRound(c, j) PROVE EndInv'
<1>1. TableInv'
  BY DEF EndInv, TableInv, StartRound, At, Places, Working
<1>2. \A d \in Coordinators \ {c} : KeepsRound(d)
  BY DEF EndInv, TableInv, TablesTyped, KeepsRound, StartRound, At
<1>3. at'[c] = "save"
  BY DEF EndInv, TableInv, StartRound, At
<1> QED
  BY <1>1, <1>2, <1>3, OneCoordinatorMoves

\* New tasks are those of a coordinator that is not at the end of its round.
LEMMA BuildPlanEnds ==
  ASSUME EndInv, NEW c \in Coordinators, NEW o \in Offers, BuildPlan(c, o) PROVE EndInv'
<1>1. UNCHANGED <<job, round, late>> /\ at'[c] \in {"work", "idle"}
  BY DEF BuildPlan, EndInv, TableInv, At
<1>2. /\ at' \in [Coordinators -> Places]
      /\ \A d \in Coordinators \ {c} : at'[d] = at[d]
  BY DEF BuildPlan, EndInv, TableInv, At, Places, Working
<1>3. \/ UNCHANGED tasks
      \/ \E new : tasks' = [tasks EXCEPT ![c] =
                    [t \in DOMAIN tasks[c] \cup new |->
                       IF t \in new THEN [status |-> "assigned", retries |-> 0] ELSE tasks[c][t]]]
  <2>1. CASE o.peers = << >>
    BY <2>1 DEF BuildPlan
  <2>2. CASE o.peers # << >>
    <3> DEFINE lists == PartitionShards(o.strategy, o.shards, o.peers)
               new == {<<job[c], round[c], p>> : p \in {p \in DOMAIN lists : lists[p] # {}}}
    <3>1. tasks' = [tasks EXCEPT ![c] =
             [t \in DOMAIN tasks[c] \cup new |->
                IF t \in new THEN [status |-> "assigned", retries |-> 0] ELSE @[t]]]
      BY <2>2 DEF BuildPlan
    <3> HIDE DEF new
    <3> QED
      BY <3>1
  <2> QED
    BY <2>1, <2>2
<1>4. /\ tasks' = [d \in Coordinators |-> tasks'[d]]
      /\ \A d \in Coordinators \ {c} : tasks'[d] = tasks[d]
      /\ IsTable(tasks'[c])
  <2>1. CASE UNCHANGED tasks
    BY <2>1 DEF EndInv, TableInv
  <2>2. ASSUME NEW new, tasks' = [tasks EXCEPT ![c] =
                    [t \in DOMAIN tasks[c] \cup new |->
                       IF t \in new THEN [status |-> "assigned", retries |-> 0] ELSE tasks[c][t]]]
        PROVE <1>4!:
    <3> DEFINE table == [t \in DOMAIN tasks[c] \cup new |->
                           IF t \in new THEN [status |-> "assigned", retries |-> 0] ELSE tasks[c][t]]
    <3>1. IsTable(table)
      BY DEF EndInv, TableInv, IsTable, Statuses
    <3> HIDE DEF table
    <3>2. tasks' = [tasks EXCEPT ![c] = table]
      BY <2>2 DEF table
    <3> QED
      BY <3>1, <3>2 DEF EndInv, TableInv
  <2> QED
    BY <1>3, <2>1, <2>2
<1>5. TableInv'
  BY <1>2, <1>4 DEF EndInv, TableInv
<1>6. \A d \in Coordinators \ {c} : KeepsRound(d)
  BY <1>1, <1>2, <1>4 DEF KeepsRound
<1> QED
  BY <1>1, <1>5, <1>6, OneCoordinatorMoves

\* A coordinator comes to the end of its round when all its tasks have ended.
LEMMA CoordinatorStepEnds ==
  ASSUME EndInv, NEW c \in Coordinators, CoordinatorStep(c) PROVE EndInv'
<1>1. /\ UNCHANGED <<job, round, tasks, late>>
      /\ at' \in [Coordinators -> Places]
      /\ \A d \in Coordinators \ {c} : at'[d] = at[d]
  BY DEF CoordinatorStep, SaveRound, SeeComplete, LoadRound, StoreRound, At, EndInv, TableInv,
         Places, Working
<1>2. TableInv'
  BY <1>1 DEF EndInv, TableInv
<1>3. \A d \in Coordinators \ {c} : KeepsRound(d)
  BY <1>1 DEF KeepsRound
<1>4. at'[c] \in {"load", "store"} => SeeComplete(c) \/ at[c] = "load"
  BY DEF CoordinatorStep, SaveRound, LoadRound, StoreRound, At, EndInv, TableInv
<1>5. ASSUME at'[c] \in {"load", "store"}
      PROVE  \A t \in PendingTasks(c)' : t[1] = job'[c] /\ t[2] = round'[c] => t \in late'
  <2>1. CASE SeeComplete(c)
    BY <1>1, <2>1 DEF SeeComplete, IsRoundComplete, Ended, PendingTasks
  <2>2. CASE at[c] = "load"
    BY <1>1, <2>2 DEF EndInv, CompletedRoundHasEnded, PendingTasks
  <2> QED
    BY <1>4, <1>5, <2>1, <2>2
<1> QED
  BY <1>2, <1>3, <1>5, OneCoordinatorMoves

\* A completed task is one less that is pending.
LEMMA MarkCompleteEnds ==
  ASSUME EndInv, NEW c \in Coordinators, NEW t \in DOMAIN tasks[c], MarkComplete(c, t)
  PROVE  EndInv'
<1> DEFINE table == [tasks[c] EXCEPT ![t] = [tasks[c][t] EXCEPT !.status = "completed"]]
<1>1. /\ UNCHANGED <<at, job, round, late>>
      /\ tasks' = [tasks EXCEPT ![c] = table]
  BY DEF MarkComplete
<1>2. /\ IsTable(table) /\ DOMAIN table = DOMAIN tasks[c]
      /\ table[t].status = "completed"
      /\ \A u \in DOMAIN table \ {t} : table[u] = tasks[c][u]
  BY DEF EndInv, TableInv, IsTable, Statuses
<1> HIDE DEF table
<1>3. /\ tasks'[c] = table /\ tasks' = [d \in Coordinators |-> tasks'[d]]
      /\ \A d \in Coordinators \ {c} : tasks'[d] = tasks[d]
  BY <1>1 DEF EndInv, TableInv
<1>4. TableInv'
  BY <1>1, <1>2, <1>3 DEF EndInv, TableInv
<1>5. \A d \in Coordinators \ {c} : KeepsRound(d)
  BY <1>1, <1>3 DEF KeepsRound
<1>6. PendingTasks(c)' \subseteq PendingTasks(c)
  BY <1>2, <1>3 DEF PendingTasks
<1> QED
  BY <1>1, <1>4, <1>5, <1>6, OneCoordinatorMoves DEF EndInv, CompletedRoundHasEnded

\* Only a task that had ended becomes pending anew, and then it is late.
LEMMA MarkFailedEnds ==
  ASSUME EndInv, NEW c \in Coordinators, NEW t \in DOMAIN tasks[c], MarkFailed(c, t)
  PROVE  EndInv'
<1> DEFINE entry == [retries |-> tasks[c][t].retries + 1,
                     status |-> IF tasks[c][t].retries + 1 >= MAX_RETRIES THEN "failed" ELSE "retry"]
           table == [tasks[c] EXCEPT ![t] = entry]
<1>1. /\ UNCHANGED <<at, job, round>>
      /\ tasks' = [tasks EXCEPT ![c] = table]
      /\ late \subseteq late' /\ (Ended(tasks[c][t]) => t \in late')
  BY DEF MarkFailed
<1>2. entry \in [status : Statuses, retries : Nat]
  BY DEF EndInv, TableInv, IsTable, Statuses, MAX_RETRIES
<1> HIDE DEF entry
<1>3. /\ IsTable(table) /\ DOMAIN table = DOMAIN tasks[c]
      /\ \A u \in DOMAIN table \ {t} : table[u] = tasks[c][u]
  BY <1>2 DEF EndInv, TableInv, IsTable
<1> HIDE DEF table
<1>4. /\ tasks'[c] = table /\ tasks' = [d \in Coordinators |-> tasks'[d]]
      /\ \A d \in Coordinators \ {c} : tasks'[d] = tasks[d]
  BY <1>1 DEF EndInv, TableInv
<1>5. TableInv'
  BY <1>1, <1>3, <1>4 DEF EndInv, TableInv
<1>6. \A d \in Coordinators \ {c} : KeepsRound(d)
  BY <1>1, <1>4 DEF KeepsRound
<1>7. \A u \in PendingTasks(c)' : u = t \/ u \in PendingTasks(c)
  BY <1>3, <1>4 DEF PendingTasks
<1>8. t \in PendingTasks(c) \/ Ended(tasks[c][t])
  BY DEF EndInv, TableInv, IsTable, Statuses, PendingTasks, Ended
<1>9. ASSUME at'[c] \in {"load", "store"}
      PROVE  \A u \in PendingTasks(c)' : u[1] = job'[c] /\ u[2] = round'[c] => u \in late'
  BY <1>1, <1>7, <1>8, <1>9 DEF EndInv, CompletedRoundHasEnded
<1> QED
  BY <1>5, <1>6, <1>9, OneCoordinatorMoves

\* Nothing is pending in a table that is gone.
LEMMA CoordinatorDiesEnds ==
  ASSUME EndInv, NEW c \in Coordinators, CoordinatorDies(c) PROVE EndInv'
<1>1. /\ UNCHANGED <<job, round, late>>
      /\ at' = [at EXCEPT ![c] = "gone"] /\ tasks' = [tasks EXCEPT ![c] = << >>]
  BY DEF CoordinatorDies, At
<1>2. IsTable(<< >>)
  BY DEF IsTable
<1>3. TableInv' /\ at'[c] = "gone"
  BY <1>1, <1>2 DEF EndInv, TableInv, Places
<1>4. \A d \in Coordinators \ {c} : KeepsRound(d)
  BY <1>1 DEF KeepsRound, EndInv, TableInv
<1> QED
  BY <1>3, <1>4, OneCoordinatorMoves

\* The steps taken together.
LEMMA EndInvStep == TablesTyped /\ EndInv /\ [OrNext]_orVars => EndInv'
<1> SUFFICES ASSUME TablesTyped, EndInv, [OrNext]_orVars PROVE EndInv'
  OBVIOUS
<1>1. CASE UNCHANGED <<at, job, round, tasks, late>>
  BY <1>1 DEF EndInv, TableInv, CompletedRoundHasEnded, PendingTasks
<1>2. ASSUME NEW j \in Jobs, NEW v \in RoundIds, RoundExpires(j, v) PROVE EndInv'
  BY <1>1, <1>2 DEF RoundExpires
<1>3. CASE UNCHANGED orVars
  BY <1>1, <1>3 DEF orVars
<1> QED
  BY <1>2, <1>3, StartRoundEnds, BuildPlanEnds, CoordinatorStepEnds, CoordinatorDiesEnds,
     MarkCompleteEnds, MarkFailedEnds
  DEF OrNext

\* complete_round() never stores a round with a pending task (task_dispatcher.py:140),
\* but for a task that was reported as failed after it had ended.
THEOREM CompletedRoundsHaveEnded == OrSpec => []CompletedRoundHasEnded
<1>1. CountInv => TablesTyped
  BY DEF CountInv
<1>2. OrSpec => []EndInv
  BY <1>1, CountInvariance, EndInitInv, EndInvStep, PTL DEF OrSpec
<1>3. EndInv => CompletedRoundHasEnded
  BY DEF EndInv
<1> QED
  BY <1>2, <1>3, PTL

-----------------------------------------------------------------------------
(* How the shards are divided *)

\* The larger of two integers.
LEMMA MaxOfTwo ==
  ASSUME NEW a \in Int, NEW b \in Int
  PROVE  Max({a, b}) = IF a >= b THEN a ELSE b
<1> DEFINE larger == IF a >= b THEN a ELSE b
<1>1. larger \in {a, b} /\ \A y \in {a, b} : larger >= y
  OBVIOUS
<1>2. \A x \in {a, b} : (\A y \in {a, b} : x >= y) => x = larger
  OBVIOUS
<1> HIDE DEF larger
<1>3. Max({a, b}) = larger
  BY <1>1, <1>2 DEF Max
<1> QED
  BY <1>3 DEF larger

\* Rounding adds no more than one unit.
LEMMA RoundedBound ==
  ASSUME NEW x \in Nat, NEW d \in Nat \ {0}
  PROVE  Rounded(x, d) \in Nat /\ d * Rounded(x, d) <= x + d
<1> DEFINE q == x \div d
<1>1. q \in Nat /\ d * q <= x
  BY Z3
<1>2. Rounded(x, d) \in {q, q + 1}
  BY DEF Rounded
<1> HIDE DEF q
<1>3. d * (q + 1) = d * q + d /\ d * q \in Nat
  BY <1>1, Z3
<1> QED
  BY <1>1, <1>2, <1>3

\* Sums of the first elements of a sequence.
LEMMA SumToSteps ==
  ASSUME NEW n \in Nat, NEW f, \A p \in 1..n : f[p] \in Int
  PROVE  /\ \A k \in 0..n : SumTo(f, k) \in Int
         /\ SumTo(f, 0) = 0
         /\ \A k \in 1..n : SumTo(f, k) = SumTo(f, k - 1) + f[k]
<1>0. \A k \in 0..n : IsFiniteSet(1..k)
  BY FS_Interval
<1>1. \A k \in 0..n : SumTo(f, k) \in Int
  BY <1>0, SumType DEF SumTo
<1>2. SumTo(f, 0) = 0
  <2>1. 1..0 = {}
    OBVIOUS
  <2> QED
    BY <2>1, SumEmpty DEF SumTo
<1>3. ASSUME NEW k \in 1..n PROVE SumTo(f, k) = SumTo(f, k - 1) + f[k]
  <2>1. k \notin 1..(k - 1) /\ 1..k = (1..(k - 1)) \cup {k} /\ k - 1 \in 0..n
    OBVIOUS
  <2>2. SumFunctionOnSet(f, (1..(k - 1)) \cup {k}) = SumFunctionOnSet(f, 1..(k - 1)) + f[k]
    <3> DEFINE T == 1..(k - 1)
    <3>1. IsFiniteSet(T) /\ k \notin T /\ \A y \in T \cup {k} : f[y] \in Int
      BY <1>0, <2>1
    <3> HIDE DEF T
    <3>2. SumFunctionOnSet(f, T \cup {k}) = SumFunctionOnSet(f, T) + f[k]
      BY <3>1, SumAdd
    <3> QED
      BY <3>2 DEF T
  <2> QED
    BY <2>1, <2>2 DEF SumTo
<1> QED
  BY <1>1, <1>2, <1>3

\* With no negative elements they do not decrease.
LEMMA SumToGrows ==
  ASSUME NEW n \in Nat, NEW f, \A p \in 1..n : f[p] \in Nat, NEW k \in 0..n, NEW m \in k..n
  PROVE  SumTo(f, k) <= SumTo(f, m) /\ SumTo(f, k) \in Nat
<1> DEFINE T == 1..m
           U == 1..k
<1>1. IsFiniteSet(T) /\ IsFiniteSet(U)
  BY FS_Interval
<1>2. U \in SUBSET T /\ \A p \in T : f[p] \in Nat /\ f[p] \in Int
  OBVIOUS
<1> HIDE DEF T, U
<1>3. SumFunctionOnSet(f, T) = SumFunctionOnSet(f, U) + SumFunctionOnSet(f, T \ U)
  BY <1>1, <1>2, SumSplit
<1>4. IsFiniteSet(T \ U) /\ \A p \in T \ U : f[p] \in Nat
  BY <1>1, <1>2, FS_Subset
<1>5. SumFunctionOnSet(f, T \ U) \in Nat /\ SumFunctionOnSet(f, U) \in Nat
  <2>1. SumFunctionOnSet(f, T \ U) \in Nat
    BY <1>4, SumNat
  <2>2. SumFunctionOnSet(f, U) \in Nat
    BY <1>1, <1>2, SumNat
  <2> QED
    BY <2>1, <2>2
<1>6. SumFunctionOnSet(f, U) <= SumFunctionOnSet(f, T)
  BY <1>3, <1>5
<1> QED
  BY <1>5, <1>6 DEF SumTo, T, U

\* What is known of the weights of at least one peer
WeightsOf(w, n) == n \in Nat \ {0} /\ w \in Seq(Nat) /\ Len(w) = n /\ \A p \in 1..n : w[p] >= 1

\* The shares before the first is corrected, for weights that sum up to total
Rough(shards, w, total) == [p \in 1..Len(w) |-> Max({1, Rounded(w[p] * shards, total)})]

\* Each peer gets at least one shard, and its fair share and one at most.
LEMMA RoughShares ==
  ASSUME NEW S \in Nat, NEW n, NEW w, WeightsOf(w, n)
  PROVE  LET W == SumTo(w, n)
         IN  /\ W \in Nat \ {0}
             /\ \A p \in 1..n : /\ w[p] \in Nat
                                /\ Rough(S, w, W)[p] \in Nat \ {0}
                                /\ W * Rough(S, w, W)[p] <= S * w[p] + W
<1> USE DEF WeightsOf
<1> DEFINE W == SumTo(w, n)
<1>1. n \in Nat \ {0} /\ \A p \in 1..n : w[p] \in Nat
  OBVIOUS
<1>2. IsFiniteSet(1..n) /\ 1 \in 1..n
  BY <1>1, FS_Interval
<1>3. W \in Nat /\ w[1] <= W
  BY <1>1, <1>2, SumNat DEF SumTo
<1>4. W \in Nat \ {0}
  BY <1>1, <1>2, <1>3
<1> HIDE DEF W
<1>5. ASSUME NEW p \in 1..n
      PROVE  Rough(S, w, W)[p] \in Nat \ {0} /\ W * Rough(S, w, W)[p] <= S * w[p] + W
  <2> DEFINE x == w[p] * S
             r == Rounded(x, W)
             m == Max({1, r})
  <2>1. x \in Nat /\ x = S * w[p]
    BY <1>1
  <2> HIDE DEF x
  <2>2. r \in Nat /\ W * r <= x + W
    BY <1>4, <2>1, RoundedBound
  <2> HIDE DEF r
  <2>3. m = IF 1 >= r THEN 1 ELSE r
    BY <2>2, MaxOfTwo
  <2>4. W * 1 = W
    BY <1>4
  <2> HIDE DEF m
  <2>5. m \in Nat \ {0} /\ W * m <= x + W
    BY <1>4, <2>1, <2>2, <2>3, <2>4
  <2>6. Rough(S, w, W)[p] = m
    BY DEF Rough, m, r, x
  <2> QED
    BY <2>1, <2>5, <2>6
<1> QED
  BY <1>1, <1>4, <1>5 DEF W

\* The shares with what the first gets, or gives, make up the number of the shards.
LEMMA CountsAddUp ==
  ASSUME NEW S \in Nat, NEW n, NEW w, WeightsOf(w, n)
  PROVE  /\ DOMAIN Counts(S, w) = 1..n
         /\ \A p \in 1..n : Counts(S, w)[p] \in Int
         /\ \A p \in 2..n : Counts(S, w)[p] = Rough(S, w, SumTo(w, n))[p]
         /\ Counts(S, w)[1] = S - SumFunctionOnSet(Rough(S, w, SumTo(w, n)), 2..n)
         /\ SumTo(Counts(S, w), n) = S
<1> DEFINE r == Rough(S, w, SumTo(w, n))
           c == Counts(S, w)
           t == SumTo(r, n)
<1>1. n \in Nat \ {0} /\ 1 \in 1..n /\ Len(w) = n
  BY DEF WeightsOf
<1>2. r = [p \in 1..n |-> r[p]] /\ \A p \in 1..n : r[p] \in Nat
  BY <1>1, RoughShares DEF Rough
<1>3. c = [r EXCEPT ![1] = r[1] + S - t]
  BY <1>1 DEF Counts, Rough
<1> HIDE DEF r, c, t
<1>4. IsFiniteSet(1..n) /\ \A p \in 1..n : r[p] \in Int
  <2>1. IsFiniteSet(1..n)
    BY <1>1, FS_Interval
  <2>2. \A p \in 1..n : r[p] \in Int
    BY <1>2
  <2> QED
    BY <2>1, <2>2
<1>5. t \in Int
  BY <1>4, SumType DEF SumTo, t
<1>6. /\ DOMAIN c = 1..n /\ c[1] = r[1] + S - t
      /\ \A p \in 1..n : c[p] \in Int
      /\ \A p \in (1..n) \ {1} : c[p] = r[p]
  BY <1>1, <1>2, <1>3, <1>5
<1>7. SumFunctionOnSet(c, 1..n) = SumFunctionOnSet(r, 1..n) + c[1] - r[1]
  <2> DEFINE T == 1..n
  <2>1. /\ IsFiniteSet(T) /\ 1 \in T
        /\ \A p \in T : r[p] \in Int /\ c[p] \in Int
        /\ \A p \in T \ {1} : c[p] = r[p]
    BY <1>1, <1>4, <1>6
  <2> HIDE DEF T
  <2>2. SumFunctionOnSet(c, T) = SumFunctionOnSet(r, T) + c[1] - r[1]
    BY <2>1, SumChange
  <2> QED
    BY <2>2 DEF T
<1>8. SumTo(c, n) = S
  <2>1. SumTo(c, n) = t + c[1] - r[1] /\ r[1] \in Int
    BY <1>1, <1>4, <1>7 DEF SumTo, t
  <2> QED
    BY <1>5, <1>6, <2>1
<1>9. t = r[1] + SumFunctionOnSet(r, 2..n) /\ SumFunctionOnSet(r, 2..n) \in Int
  <2>1. (1..n) \ {1} = 2..n
    BY <1>1
  <2>2. t = r[1] + SumFunctionOnSet(r, (1..n) \ {1})
    BY <1>1, <1>4, SumTakeOut DEF SumTo, t
  <2>3. IsFiniteSet(2..n) /\ \A p \in 2..n : r[p] \in Int
    <3>1. IsFiniteSet(2..n)
      BY <1>1, FS_Interval
    <3> QED
      BY <1>1, <1>4, <3>1
  <2> QED
    BY <2>1, <2>2, <2>3, SumType
<1>10. c[1] = S - SumFunctionOnSet(r, 2..n)
  BY <1>1, <1>2, <1>6, <1>9
<1> QED
  BY <1>6, <1>8, <1>10 DEF r, c

\* If the first peer's share is large enough, it gives away no more than it has.
LEMMA FirstHasEnough ==
  ASSUME NEW S \in Nat, NEW n, NEW w, WeightsOf(w, n), w[1] * S >= (n - 1) * SumTo(w, n)
  PROVE  Counts(S, w)[1] >= 0
<1> DEFINE W == SumTo(w, n)
           r == Rough(S, w, W)
           others == SumFunctionOnSet(w, 2..n)
           given == SumFunctionOnSet(r, 2..n)
<1>1. /\ n \in Nat \ {0} /\ 1 \in 1..n
      /\ W \in Nat \ {0}
      /\ \A p \in 1..n : w[p] \in Nat /\ r[p] \in Nat /\ W * r[p] <= S * w[p] + W
  <2>1. n \in Nat \ {0} /\ 1 \in 1..n
    BY DEF WeightsOf
  <2>2. W \in Nat \ {0} /\ \A p \in 1..n : w[p] \in Nat /\ r[p] \in Nat \ {0} /\ W * r[p] <= S * w[p] + W
    BY RoughShares
  <2> HIDE DEF W, r
  <2> QED
    BY <2>1, <2>2
<1>2. Counts(S, w)[1] = S - given
  BY CountsAddUp
<1>3. W = w[1] + others
  <2> DEFINE T == 1..n
  <2>1. IsFiniteSet(T) /\ 1 \in T
    BY <1>1, FS_Interval
  <2>2. \A p \in T : w[p] \in Int
    BY <1>1
  <2>3. T \ {1} = 2..n
    BY <1>1
  <2> HIDE DEF T
  <2>4. SumFunctionOnSet(w, T) = w[1] + SumFunctionOnSet(w, T \ {1})
    BY <2>1, <2>2, SumTakeOut
  <2> QED
    BY <2>3, <2>4 DEF SumTo, T
<1> HIDE DEF W, r, others, given
<1>4. w[1] * S >= (n - 1) * W
  BY DEF W
<1>5. IsFiniteSet(2..n) /\ Cardinality(2..n) = n - 1
  BY <1>1, FS_Interval
<1>6. others \in Int /\ given \in Int
  <2>1. \A p \in 2..n : r[p] \in Int /\ w[p] \in Int
    BY <1>1
  <2> QED
    BY <1>5, <2>1, SumType DEF others, given
<1>7. W * given <= S * others + W * (n - 1)
  <2>1. \A p \in 2..n : r[p] \in Int /\ w[p] \in Int /\ W * r[p] <= S * w[p] + W
    BY <1>1
  <2> QED
    BY <1>1, <1>5, <2>1, SumBound DEF others, given
<1>8. given <= S
  <2> DEFINE f == w[1]
             m == n - 1
  <2>1. f \in Nat /\ m \in Nat /\ W \in Nat /\ W > 0
    BY <1>1
  <2>2. f * S >= m * W /\ W = f + others /\ W * given <= S * others + W * m
    BY <1>3, <1>4, <1>7
  <2> HIDE DEF f, m
  <2>3. S * W = S * f + S * others /\ f * S = S * f /\ m * W = W * m
    BY <1>6, <2>1, <2>2, Z3
  <2>4. W * given <= S * W
    <3>1. S * W \in Int /\ S * f \in Int /\ S * others \in Int /\ W * m \in Int /\ W * given \in Int
      BY <1>6, <2>1
    <3> QED
      BY <2>2, <2>3, <3>1
  <2>5. ASSUME given > S PROVE FALSE
    <3>1. given - S - 1 \in Nat
      BY <1>6, <2>5
    <3>2. W * (given - S - 1) \in Nat
      BY <2>1, <3>1
    <3>3. W * (given - S - 1) = W * given - S * W - W
      BY <1>6, <2>1, Z3
    <3>4. W * given \in Int /\ S * W \in Int
      BY <1>6, <2>1
    <3> QED
      BY <2>1, <2>4, <3>2, <3>3, <3>4
  <2> QED
    BY <1>6, <2>5
<1> QED
  BY <1>2, <1>6, <1>8

\* Where a slice begins or ends: negative positions count from the end.
Position(S, i) == IF i < 0 THEN Max({0, i + S}) ELSE i

\* A position is a natural number, and an index that is one stands for itself.
LEMMA PositionType ==
  ASSUME NEW S \in Nat, NEW i \in Int
  PROVE  Position(S, i) \in Nat /\ (i >= 0 => Position(S, i) = i)
<1>1. CASE i < 0
  <2>1. Max({0, i + S}) = IF 0 >= i + S THEN 0 ELSE i + S
    BY MaxOfTwo
  <2> QED
    BY <1>1, <2>1 DEF Position
<1>2. CASE ~(i < 0)
  BY <1>2 DEF Position
<1> QED
  BY <1>1, <1>2

\* A slice lies between two positions.
LEMMA SliceIs ==
  ASSUME NEW S, NEW from, NEW to
  PROVE  Slice(S, from, to) =
           {s \in 0..(S - 1) : Position(S, from) <= s /\ s < Position(S, to)}
BY DEF Slice, Position

\* Slices of integer lengths that add up to all there is leave nothing out, whatever the
\* signs of the lengths.
LEMMA SlicesCover ==
  ASSUME NEW S \in Nat, NEW n \in Nat, NEW f, DOMAIN f = 1..n, \A p \in 1..n : f[p] \in Int,
         SumTo(f, n) = S
  PROVE  Covers(Slices(S, f), S)
<1> DEFINE lists == Slices(S, f)
           P(p) == Position(S, SumTo(f, p))
<1>1. /\ \A p \in 0..n : SumTo(f, p) \in Int
      /\ SumTo(f, 0) = 0
  BY SumToSteps
<1>2. \A p \in 0..n : P(p) \in Nat
  BY <1>1, PositionType
<1>3. P(0) = 0 /\ P(n) = S
  BY <1>1, PositionType
<1>4. /\ DOMAIN lists = 1..n
      /\ \A p \in 1..n : lists[p] = {s \in 0..(S - 1) : P(p - 1) <= s /\ s < P(p)}
  BY SliceIs DEF Slices
<1> HIDE DEF P, lists
<1>5. ASSUME NEW s \in 0..(S - 1) PROVE \E p \in 1..n : s \in lists[p]
  <2> DEFINE T == {p \in 0..n : s < P(p)}
  <2>1. n \in T
    BY <1>3
  <2>2. T \in SUBSET Nat /\ T # {}
    BY <2>1
  <2>3. PICK p \in T : \A q \in T : p <= q
    BY <2>2, SmallestOf
  <2>4. p \in 0..n /\ s < P(p) /\ p # 0
    BY <1>3, <2>3
  <2>5. p \in 1..n /\ p - 1 \in 0..n /\ p - 1 \notin T
    BY <2>3, <2>4
  <2>6. P(p - 1) <= s
    BY <1>2, <2>5
  <2> QED
    BY <1>4, <2>4, <2>5, <2>6
<1>6. \A p \in 1..n : lists[p] \subseteq 0..(S - 1)
  BY <1>4
<1> QED
  BY <1>4, <1>5, <1>6 DEF Covers, lists

\* Slices of natural lengths do not overlap.
LEMMA SlicesDisjoint ==
  ASSUME NEW S \in Nat, NEW n \in Nat, NEW f, DOMAIN f = 1..n, \A p \in 1..n : f[p] \in Nat
  PROVE  Disjoint(Slices(S, f))
<1> DEFINE lists == Slices(S, f)
           P(p) == SumTo(f, p)
<1>1. \A k \in 0..n, m \in 0..n : k <= m => P(k) <= P(m) /\ P(k) \in Nat /\ P(m) \in Nat
  <2> SUFFICES ASSUME NEW k \in 0..n, NEW m \in 0..n, k <= m PROVE P(k) <= P(m) /\ P(k) \in Nat /\ P(m) \in Nat
    OBVIOUS
  <2>1. m \in k..n /\ m \in m..n
    OBVIOUS
  <2> QED
    BY <2>1, SumToGrows
<1>2. /\ DOMAIN lists = 1..n
      /\ \A p \in 1..n : lists[p] = {s \in 0..(S - 1) : Position(S, P(p - 1)) <= s /\ s < Position(S, P(p))}
  BY SliceIs DEF Slices
<1> HIDE DEF P, lists
<1>3. \A p \in 0..n : Position(S, P(p)) = P(p) /\ P(p) \in Nat
  BY <1>1, PositionType
<1>4. ASSUME NEW p \in 1..n, NEW q \in 1..n, p < q PROVE lists[p] \cap lists[q] = {}
  <2>1. p \in 0..n /\ q - 1 \in 0..n /\ p <= q - 1
    BY <1>4
  <2>2. P(p) <= P(q - 1) /\ P(p) \in Nat /\ P(q - 1) \in Nat
    BY <1>1, <2>1
  <2>3. \A s \in lists[p] : s \in Nat /\ s < P(p)
    BY <1>2, <1>3, <2>1
  <2>4. \A s \in lists[q] : P(q - 1) <= s
    BY <1>2, <1>3, <2>1
  <2> QED
    BY <2>2, <2>3, <2>4
<1>5. \A p, q \in 1..n : p # q => p < q \/ q < p
  OBVIOUS
<1> QED
  BY <1>2, <1>4, <1>5 DEF Disjoint, lists

\* Shards are dealt round robin.
LEMMA RoundRobinDeals ==
  ASSUME NEW S \in Nat, NEW n \in Nat \ {0}
  PROVE  Covers(RoundRobin(S, n), S) /\ Disjoint(RoundRobin(S, n))
<1> DEFINE lists == RoundRobin(S, n)
<1>1. /\ DOMAIN lists = 1..n
      /\ \A p \in 1..n : lists[p] = {s \in 0..(S - 1) : s % n = p - 1}
  BY DEF RoundRobin
<1> HIDE DEF lists
<1>2. ASSUME NEW s \in 0..(S - 1) PROVE \E p \in 1..n : s \in lists[p]
  <2>1. s % n \in 0..(n - 1)
    OBVIOUS
  <2>2. (s % n) + 1 \in 1..n /\ s % n = ((s % n) + 1) - 1
    BY <2>1
  <2> QED
    BY <1>1, <2>2
<1>3. Covers(lists, S)
  BY <1>1, <1>2 DEF Covers
<1>4. Disjoint(lists)
  BY <1>1 DEF Disjoint
<1> QED
  BY <1>3, <1>4 DEF lists

\* The weights of the peers of an offer
LEMMA OfferWeights ==
  ASSUME NEW o \in Offers, o.peers # << >>
  PROVE  /\ Len(o.peers) \in Nat \ {0} /\ o.shards \in Nat
         /\ WeightsOf(Weights(o.strategy, o.peers), Len(o.peers))
<1> DEFINE n == Len(o.peers)
           w == Weights(o.strategy, o.peers)
<1>1. o.shards \in Nat /\ o.peers \in Seq(Range(o.peers)) /\ \A q \in Range(o.peers) : q.gpus \in Int /\ q.memory \in Int /\ q.score \in Int
  BY OrchestratorAssumption
<1>2. n \in Nat /\ DOMAIN o.peers = 1..n /\ n # 0
  <2> DEFINE s == o.peers
             R == Range(o.peers)
  <2>1. s \in Seq(R) /\ s # << >>
    BY <1>1
  <2> HIDE DEF s, R
  <2> QED
    BY <2>1 DEF s
<1>3. \A p \in 1..n : o.peers[p].gpus \in Int /\ o.peers[p].memory \in Int /\ o.peers[p].score \in Int
  BY <1>1, <1>2 DEF Range
<1>4. ASSUME NEW p \in 1..n PROVE w[p] \in Nat /\ w[p] >= 1
  <2> DEFINE peer == o.peers[p]
             m == Max({100 * peer.gpus + peer.memory, 10})
             k == Max({peer.score, 1})
  <2>0. peer.gpus \in Int /\ peer.memory \in Int /\ peer.score \in Int
    BY <1>3
  <2> HIDE DEF peer
  <2>1. m \in Nat /\ m >= 1
    <3>1. 100 * peer.gpus + peer.memory \in Int /\ 10 \in Int
      BY <2>0
    <3>2. m = IF 100 * peer.gpus + peer.memory >= 10 THEN 100 * peer.gpus + peer.memory ELSE 10
      BY <3>1, MaxOfTwo
    <3> HIDE DEF m
    <3> QED
      BY <3>1, <3>2
  <2>2. k \in Nat /\ k >= 1
    <3>1. k = IF peer.score >= 1 THEN peer.score ELSE 1
      BY <2>0, MaxOfTwo
    <3> HIDE DEF k
    <3> QED
      BY <2>0, <3>1
  <2> HIDE DEF m, k
  <2>3. w[p] = IF o.strategy = "capability" THEN m ELSE k
    BY <1>2 DEF Weights, CapabilityWeight, m, k, peer
  <2> QED
    BY <2>1, <2>2, <2>3
<1>5. w = [p \in 1..n |-> w[p]]
  BY <1>2 DEF Weights
<1> HIDE DEF w, n
<1>6. w \in Seq(Nat) /\ Len(w) = n
  BY <1>2, <1>4, <1>5
<1> QED
  BY <1>1, <1>2, <1>4, <1>6 DEF WeightsOf, n, w

\* partition_shards() gives out every shard of an offer ...
LEMMA PartitionCovers ==
  ASSUME NEW o \in Offers, o.peers # << >>
  PROVE  Covers(PartitionShards(o.strategy, o.shards, o.peers), o.shards)
<1> DEFINE n == Len(o.peers)
           w == Weights(o.strategy, o.peers)
           f == Counts(o.shards, w)
<1>1. n \in Nat \ {0} /\ o.shards \in Nat /\ WeightsOf(w, n)
  BY OfferWeights
<1>2. CASE o.strategy = "round_robin"
  BY <1>1, <1>2, RoundRobinDeals DEF PartitionShards
<1>3. CASE o.strategy # "round_robin"
  <2> HIDE DEF n, w
  <2>1. DOMAIN f = 1..n /\ (\A p \in 1..n : f[p] \in Int) /\ SumTo(f, n) = o.shards
    BY <1>1, CountsAddUp
  <2> HIDE DEF f
  <2>2. Covers(Slices(o.shards, f), o.shards)
    BY <1>1, <2>1, SlicesCover
  <2> QED
    BY <1>3, <2>2 DEF PartitionShards, WeightedPartition, f, w
<1> QED
  BY <1>2, <1>3

\* ... and none of them twice, where the first peer's share is large enough.
LEMMA PartitionDisjoint ==
  ASSUME NEW o \in Offers, o.peers # << >>, WellShared(o)
  PROVE  Disjoint(PartitionShards(o.strategy, o.shards, o.peers))
<1> DEFINE n == Len(o.peers)
           w == Weights(o.strategy, o.peers)
           f == Counts(o.shards, w)
           r == Rough(o.shards, w, SumTo(w, n))
<1>1. n \in Nat \ {0} /\ o.shards \in Nat /\ WeightsOf(w, n)
  BY OfferWeights
<1>2. CASE o.strategy = "round_robin"
  BY <1>1, <1>2, RoundRobinDeals DEF PartitionShards
<1>3. CASE o.strategy # "round_robin"
  <2>1. w[1] * o.shards >= (n - 1) * SumTo(w, n)
    BY <1>3 DEF WellShared
  <2> HIDE DEF n, w
  <2>2. f[1] >= 0 /\ DOMAIN f = 1..n /\ \A p \in 1..n : f[p] \in Int
    BY <1>1, <2>1, CountsAddUp, FirstHasEnough
  <2>3. \A p \in 2..n : f[p] = r[p]
    <3> DEFINE S == o.shards
    <3>1. S \in Nat /\ WeightsOf(w, n)
      BY <1>1
    <3> HIDE DEF S
    <3> QED
      BY <3>1, CountsAddUp DEF S
  <2>4. \A p \in 1..n : r[p] \in Nat \ {0}
    BY <1>1, RoughShares
  <2> HIDE DEF f, r
  <2>5. \A p \in 1..n : f[p] \in Nat
    <3> SUFFICES ASSUME NEW p \in 1..n PROVE f[p] \in Nat
      OBVIOUS
    <3>1. CASE p = 1
      BY <2>2, <3>1
    <3>2. CASE p # 1
      <4>1. p \in 2..n
        BY <1>1, <3>2
      <4> QED
        BY <2>3, <2>4, <4>1
    <3> QED
      BY <3>1, <3>2
  <2>6. Disjoint(Slices(o.shards, f))
    BY <1>1, <2>2, <2>5, SlicesDisjoint
  <2> QED
    BY <1>3, <2>6 DEF PartitionShards, WeightedPartition, f, w
<1> QED
  BY <1>2, <1>3

-----------------------------------------------------------------------------
(* What the plans hand out *)

\* The bound of the model on the rounds
RoundsBounded ==
  /\ \A j \in Jobs : version[j] <= MaxRounds
  /\ \A c \in Coordinators : round[c] <= MaxRounds

RecordsTyped ==
  /\ rounds \in [Jobs -> [RoundIds -> {"none", "open", "completed"}]]
  /\ failures \in Nat

\* The tasks in the tables are of rounds that were started.
TasksOfRounds ==
  \A c \in Coordinators : \A t \in DOMAIN tasks[c] : t[1] \in Jobs /\ t[2] \in 1..version[t[1]]

\* A plan is what partition_shards() makes of an offer with peers.
PlanOf(o) == [offer |-> o, lists |-> PartitionShards(o.strategy, o.shards, o.peers)]

PlansGiven ==
  /\ plan = [c \in Coordinators |-> plan[c]]
  /\ \A c \in Coordinators :
       plan[c] # NoPlan => \E o \in Offers : o.peers # << >> /\ plan[c] = PlanOf(o)

ShardInv == RoundsBounded /\ RecordsTyped /\ TasksOfRounds /\ PlansGiven

\* The invariants together say what the plans promise.
LEMMA ShardInvAssigns == CountInv /\ TableInv /\ ShardInv => ShardsAssigned
<1> SUFFICES ASSUME CountInv, TableInv, ShardInv PROVE ShardsAssigned
  OBVIOUS
<1>1. OrTypeOK
  <2>1. /\ version \in [Jobs -> 0..MaxRounds] /\ round \in [Coordinators -> 0..MaxRounds]
        /\ job \in [Coordinators -> Jobs \cup {NoJob}] /\ at \in [Coordinators -> Places]
    BY OrchestratorAssumption DEF CountInv, TablesTyped, ShardInv, RoundsBounded
  <2>2. ASSUME NEW c \in Coordinators
        PROVE  /\ at[c] \in Working => job[c] \in Jobs /\ round[c] \in RoundIds
               /\ job[c] \in Jobs => round[c] \in 1..version[job[c]]
    BY <2>1, <2>2 DEF CountInv, TablesTyped, RoundWasCounted, RoundIds
  <2>3. ASSUME NEW c \in Coordinators, NEW t \in DOMAIN tasks[c]
        PROVE  /\ t[1] \in Jobs /\ t[2] \in 1..version[t[1]]
               /\ tasks[c][t].status \in {"assigned", "retry", "completed", "failed"}
    BY <2>3 DEF ShardInv, TasksOfRounds, TableInv, IsTable, Statuses
  <2> QED
    BY <2>1, <2>2, <2>3 DEF OrTypeOK, ShardInv, RecordsTyped
<1>2. ASSUME NEW c \in Coordinators, plan[c] # NoPlan
      PROVE  /\ Covers(plan[c].lists, plan[c].offer.shards)
             /\ WellShared(plan[c].offer) => Disjoint(plan[c].lists)
  <2>1. PICK o \in Offers : o.peers # << >> /\ plan[c] = PlanOf(o)
    BY <1>2 DEF ShardInv, PlansGiven
  <2>2. plan[c].offer = o /\ plan[c].lists = PartitionShards(o.strategy, o.shards, o.peers)
    BY <2>1 DEF PlanOf
  <2> QED
    BY <2>1, <2>2, PartitionCovers, PartitionDisjoint
<1> QED
  BY <1>1, <1>2 DEF ShardsAssigned, EveryShardAssigned, ShardsAssignedOnce

\* Nothing is started and nothing planned.
LEMMA ShardInitInv == OrInit => ShardInv
BY OrchestratorAssumption
DEF OrInit, ShardInv, RoundsBounded, RecordsTyped, TasksOfRounds, PlansGiven

\* No version exceeds the number of rounds of all jobs.
LEMMA VersionInSum ==
  ASSUME CountInv, NEW j \in Jobs, SumFunctionOnSet(version, Jobs) < MaxRounds
  PROVE  version[j] + 1 <= MaxRounds
<1>1. \A k \in Jobs : version[k] \in Nat
  BY DEF CountInv, TablesTyped
<1>2. IsFiniteSet(Jobs) /\ MaxRounds \in Nat
  BY OrchestratorAssumption
<1>3. SumFunctionOnSet(version, Jobs) \in Nat /\ version[j] <= SumFunctionOnSet(version, Jobs)
  BY <1>1, <1>2, SumNat
<1> QED
  BY <1>1, <1>2, <1>3

\* INCR makes room for more tasks, and stays in the bound.
LEMMA StartRoundPlans ==
  ASSUME CountInv, ShardInv, NEW c \in Coordinators, NEW j \in Jobs, StartRound(c, j)
  PROVE  ShardInv'
<1>1. /\ version' = [version EXCEPT ![j] = version[j] + 1]
      /\ round' = [round EXCEPT ![c] = version[j] + 1]
      /\ UNCHANGED <<rounds, plan, tasks, failures>>
      /\ SumFunctionOnSet(version, Jobs) < MaxRounds
  BY DEF StartRound
<1>2. version \in [Jobs -> Nat] /\ round \in [Coordinators -> Nat] /\ MaxRounds \in Nat
  BY OrchestratorAssumption DEF CountInv, TablesTyped
<1>3. version[j] + 1 <= MaxRounds
  BY <1>1, VersionInSum
<1>4. RoundsBounded'
  BY <1>1, <1>2, <1>3 DEF ShardInv, RoundsBounded
<1>5. \A k \in Jobs : version[k] \in Nat /\ version'[k] \in Nat /\ version[k] <= version'[k]
  BY <1>1, <1>2
<1>6. TasksOfRounds'
  BY <1>1, <1>5 DEF ShardInv, TasksOfRounds
<1> QED
  BY <1>1, <1>4, <1>6 DEF ShardInv, RecordsTyped, PlansGiven

\* build_plan() adds tasks of the round in hand, and keeps the plan it made.
LEMMA BuildPlanPlans ==
  ASSUME CountInv, TableInv, ShardInv, NEW c \in Coordinators, NEW o \in Offers, BuildPlan(c, o)
  PROVE  ShardInv'
<1>1. UNCHANGED <<version, rounds, round, failures>> /\ at[c] = "plan"
  BY DEF BuildPlan
<1>2. CASE o.peers = << >>
  BY <1>1, <1>2 DEF BuildPlan, ShardInv, RoundsBounded, RecordsTyped, TasksOfRounds, PlansGiven
<1>3. CASE o.peers # << >>
  <2> DEFINE lists == PartitionShards(o.strategy, o.shards, o.peers)
             new == {<<job[c], round[c], p>> : p \in {p \in DOMAIN lists : lists[p] # {}}}
             table == [t \in DOMAIN tasks[c] \cup new |->
                         IF t \in new THEN [status |-> "assigned", retries |-> 0] ELSE tasks[c][t]]
  <2>1. /\ plan' = [plan EXCEPT ![c] = PlanOf(o)]
        /\ tasks' = [tasks EXCEPT ![c] = table]
    BY <1>3 DEF BuildPlan, PlanOf
  <2>2. \A t \in new : t[1] = job[c] /\ t[2] = round[c]
    OBVIOUS
  <2>3. job[c] \in Jobs /\ round[c] \in 1..version[job[c]]
    BY <1>1 DEF CountInv, TablesTyped, RoundWasCounted, Working
  <2>4. DOMAIN table = DOMAIN tasks[c] \cup new
    OBVIOUS
  <2> HIDE DEF new, table
  <2>5. /\ tasks'[c] = table
        /\ \A d \in Coordinators \ {c} : tasks'[d] = tasks[d]
    BY <2>1 DEF TableInv
  <2>6. TasksOfRounds'
    <3> SUFFICES ASSUME NEW d \in Coordinators, NEW t \in DOMAIN tasks'[d]
                 PROVE  t[1] \in Jobs /\ t[2] \in 1..version[t[1]]
      BY <1>1 DEF TasksOfRounds
    <3>1. CASE d = c /\ t \in new
      BY <2>2, <2>3, <3>1
    <3>2. CASE t \in DOMAIN tasks[d]
      BY <3>2 DEF ShardInv, TasksOfRounds
    <3> QED
      BY <2>4, <2>5, <3>1, <3>2
  <2>7. PlansGiven'
    BY <1>3, <2>1 DEF ShardInv, PlansGiven
  <2> QED
    BY <1>1, <2>6, <2>7 DEF ShardInv, RoundsBounded, RecordsTyped
<1> QED
  BY <1>2, <1>3

\* A coordinator that stores its record, looks at its tasks or reads the record.
LEMMA CoordinatorStepPlans ==
  ASSUME CountInv, ShardInv, NEW c \in Coordinators, CoordinatorStep(c) PROVE ShardInv'
<1>1. UNCHANGED <<version, round, plan, tasks, failures>>
  BY DEF CoordinatorStep, SaveRound, SeeComplete, LoadRound, StoreRound
<1>2. UNCHANGED rounds \/ Record(c, "open") \/ Record(c, "completed")
  BY DEF CoordinatorStep, SaveRound, SeeComplete, LoadRound, StoreRound
<1>3. RecordsTyped'
  BY <1>1, <1>2 DEF Record, ShardInv, RecordsTyped
<1> QED
  BY <1>1, <1>3 DEF ShardInv, RoundsBounded, TasksOfRounds, PlansGiven

\* Reports change the entries of the table, not which there are.
LEMMA ReportsPlan ==
  ASSUME TableInv, ShardInv, NEW c \in Coordinators, NEW t \in DOMAIN tasks[c],
         MarkComplete(c, t) \/ MarkFailed(c, t)
  PROVE  ShardInv'
<1>1. UNCHANGED <<version, rounds, round, plan>> /\ failures' \in Nat
  BY DEF MarkComplete, MarkFailed, ShardInv, RecordsTyped
<1>2. PICK entry : tasks' = [tasks EXCEPT ![c] = [tasks[c] EXCEPT ![t] = entry]]
  BY DEF MarkComplete, MarkFailed
<1>3. \A d \in Coordinators : DOMAIN tasks'[d] = DOMAIN tasks[d]
  BY <1>2 DEF TableInv
<1> QED
  BY <1>1, <1>3 DEF ShardInv, RoundsBounded, RecordsTyped, TasksOfRounds, PlansGiven

\* A table is lost with its coordinator.
LEMMA CoordinatorDiesPlans ==
  ASSUME TableInv, ShardInv, NEW c \in Coordinators, CoordinatorDies(c) PROVE ShardInv'
<1>1. /\ UNCHANGED <<version, rounds, round, failures>>
      /\ plan' = [plan EXCEPT ![c] = NoPlan] /\ tasks' = [tasks EXCEPT ![c] = << >>]
  BY DEF CoordinatorDies
<1>2. \A d \in Coordinators : tasks'[d] = << >> \/ tasks'[d] = tasks[d]
  BY <1>1 DEF TableInv
<1>3. TasksOfRounds'
  BY <1>1, <1>2 DEF ShardInv, TasksOfRounds
<1>4. PlansGiven'
  BY <1>1 DEF ShardInv, PlansGiven
<1> QED
  BY <1>1, <1>3, <1>4 DEF ShardInv, RoundsBounded, RecordsTyped

\* The steps taken together.
LEMMA ShardInvStep == CountInv /\ EndInv /\ ShardInv /\ [OrNext]_orVars => ShardInv'
<1> SUFFICES ASSUME CountInv, EndInv, ShardInv, [OrNext]_orVars PROVE ShardInv'
  OBVIOUS
<1>1. TableInv
  BY DEF EndInv
<1>2. ASSUME NEW j \in Jobs, NEW v \in RoundIds, RoundExpires(j, v) PROVE ShardInv'
  BY <1>2 DEF RoundExpires, ShardInv, RoundsBounded, RecordsTyped, TasksOfRounds, PlansGiven
<1>3. CASE UNCHANGED orVars
  BY <1>3 DEF orVars, ShardInv, RoundsBounded, RecordsTyped, TasksOfRounds, PlansGiven
<1> QED
  BY <1>1, <1>2, <1>3, StartRoundPlans, BuildPlanPlans, CoordinatorStepPlans,
     CoordinatorDiesPlans, ReportsPlan
  DEF OrNext

\* build_plan() (task_dispatcher.py:79): whatever the weights of however many peers round
\* to, every shard is in a list, and in one only where the first peer has enough to give
\* away; the tasks are of rounds that were started.
THEOREM PlansAssignEveryShard == OrSpec => []ShardsAssigned
<1>1. CountInv => TablesTyped
  BY DEF CountInv
<1>2. OrSpec => []EndInv
  BY <1>1, CountInvariance, EndInitInv, EndInvStep, PTL DEF OrSpec
<1>3. OrSpec => []ShardInv
  BY <1>2, CountInvariance, ShardInitInv, ShardInvStep, PTL DEF OrSpec
<1>4. CountInv /\ EndInv /\ ShardInv => ShardsAssigned
  BY ShardInvAssigns DEF EndInv
<1> QED
  BY <1>2, <1>3, <1>4, CountInvariance, PTL

-----------------------------------------------------------------------------
(* The records of the rounds *)

\* A round has a record only once it was counted, and none before its coordinator
\* stores the first.
RecordsFollow ==
  /\ \A j \in Jobs, v \in RoundIds : rounds[j][v] # "none" => v <= version[j]
  /\ \A c \in Coordinators : at[c] = "save" => rounds[job[c]][round[c]] = "none"

\* A coordinator at work has a round in hand.
LEMMA WorkingRound ==
  ASSUME CountInv, RoundsBounded, NEW c \in Coordinators, at[c] \in Working
  PROVE  job[c] \in Jobs /\ round[c] \in RoundIds
<1>1. job[c] \in Jobs /\ version[job[c]] \in Nat
  BY DEF CountInv, TablesTyped
<1>2. round[c] \in 1..version[job[c]] /\ version[job[c]] <= MaxRounds
  BY <1>1 DEF CountInv, RoundWasCounted, RoundsBounded
<1> QED
  BY <1>1, <1>2, OrchestratorAssumption DEF RoundIds

\* INCR gives a round that has no record yet.
LEMMA StartRoundFollows ==
  ASSUME CountInv, RecordsTyped, RecordsFollow, NEW c \in Coordinators, NEW j \in Jobs, StartRound(c, j)
  PROVE  RecordsFollow'
<1>1. /\ version' = [version EXCEPT ![j] = version[j] + 1]
      /\ job' = [job EXCEPT ![c] = j] /\ round' = [round EXCEPT ![c] = version[j] + 1]
      /\ at' = [at EXCEPT ![c] = "save"] /\ UNCHANGED rounds
  BY DEF StartRound, At
<1>2. /\ version \in [Jobs -> Nat] /\ at \in [Coordinators -> Places]
      /\ job \in [Coordinators -> Jobs \cup {NoJob}] /\ round \in [Coordinators -> Nat]
  BY DEF CountInv, TablesTyped
<1>3. version[j] + 1 \in RoundIds /\ ~(version[j] + 1 <= version[j])
  <2>1. version[j] + 1 <= MaxRounds
    BY VersionInSum DEF StartRound
  <2> QED
    BY <1>2, <2>1, OrchestratorAssumption DEF RoundIds
<1>4. rounds[j][version[j] + 1] = "none"
  BY <1>3 DEF RecordsFollow
<1>5. ASSUME NEW k \in Jobs, NEW v \in RoundIds, rounds'[k][v] # "none" PROVE v <= version'[k]
  <2>1. v <= version[k] /\ version[k] \in Nat /\ v \in Int
    BY <1>1, <1>2, <1>5 DEF RecordsFollow, RoundIds
  <2>2. version'[k] = version[k] \/ version'[k] = version[k] + 1
    BY <1>1, <1>2
  <2> QED
    BY <2>1, <2>2
<1>6. ASSUME NEW d \in Coordinators, at'[d] = "save" PROVE rounds'[job'[d]][round'[d]] = "none"
  <2>1. CASE d = c
    BY <1>1, <1>2, <1>4, <2>1
  <2>2. CASE d # c
    BY <1>1, <1>2, <1>6, <2>2 DEF RecordsFollow
  <2> QED
    BY <2>1, <2>2
<1> QED
  BY <1>5, <1>6 DEF RecordsFollow

\* A coordinator writes the record of its own round, which was counted and which is
\* nobody else's.
LEMMA CoordinatorStepFollows ==
  ASSUME CountInv, RoundsBounded, RecordsTyped, RecordsFollow,
         NEW c \in Coordinators, CoordinatorStep(c)
  PROVE  RecordsFollow'
<1>1. /\ UNCHANGED <<version, job, round>> /\ at[c] \in Working
      /\ \E l \in Places \ {"save"} : at' = [at EXCEPT ![c] = l]
  BY DEF CoordinatorStep, SaveRound, SeeComplete, LoadRound, StoreRound, At, Places, Working
<1>2. /\ at \in [Coordinators -> Places] /\ job[c] \in Jobs
      /\ round[c] \in RoundIds => round[c] <= version[job[c]]
  BY <1>1 DEF CountInv, TablesTyped, RoundWasCounted, RoundIds
<1>3. \A j \in Jobs, v \in RoundIds : rounds'[j][v] = rounds[j][v] \/ (j = job[c] /\ v = round[c])
  BY <1>2 DEF CoordinatorStep, SaveRound, SeeComplete, LoadRound, StoreRound, Record, RecordsTyped
<1>4. ASSUME NEW j \in Jobs, NEW v \in RoundIds, rounds'[j][v] # "none" PROVE v <= version'[j]
  BY <1>1, <1>2, <1>3, <1>4 DEF RecordsFollow
<1>5. ASSUME NEW d \in Coordinators, at'[d] = "save" PROVE rounds'[job'[d]][round'[d]] = "none"
  <2>1. d # c /\ at[d] = "save" /\ job[c] # NoJob
    BY <1>1, <1>2, <1>5, OrchestratorAssumption
  <2>4. job[d] \in Jobs /\ round[d] \in RoundIds
    BY <2>1, WorkingRound DEF Working
  <2>2. ~(job[d] = job[c] /\ round[d] = round[c])
    BY <2>1 DEF CountInv, OneCoordinatorPerRound
  <2>3. rounds'[job[d]][round[d]] = rounds[job[d]][round[d]]
    BY <1>3, <2>2, <2>4
  <2> QED
    BY <1>1, <2>1, <2>3 DEF RecordsFollow
<1> QED
  BY <1>4, <1>5 DEF RecordsFollow

\* Steps that store no record.
LEMMA OthersFollow ==
  ASSUME CountInv, RoundsBounded, RecordsTyped, RecordsFollow, UNCHANGED <<version, job, round>>,
         \A c \in Coordinators : at'[c] = "save" => at[c] = "save",
         \/ UNCHANGED rounds
         \/ \E j \in Jobs, v \in RoundIds : rounds' = [rounds EXCEPT ![j][v] = "none"]
  PROVE  RecordsFollow'
<1>1. CASE UNCHANGED rounds
  BY <1>1 DEF RecordsFollow
<1>2. ASSUME NEW j \in Jobs, NEW v \in RoundIds, rounds' = [rounds EXCEPT ![j][v] = "none"]
      PROVE  RecordsFollow'
  <2>1. \A k \in Jobs, w \in RoundIds : rounds'[k][w] = "none" \/ rounds'[k][w] = rounds[k][w]
    BY <1>2 DEF RecordsTyped
  <2>2. \A c \in Coordinators : at[c] = "save" => job[c] \in Jobs /\ round[c] \in RoundIds
    BY WorkingRound DEF Working
  <2> QED
    BY <2>1, <2>2 DEF RecordsFollow
<1> QED
  BY <1>1, <1>2

\* The steps taken together.
LEMMA RecordsFollowStep ==
  ASSUME CountInv, TableInv, RoundsBounded, RecordsTyped, RecordsFollow, [OrNext]_orVars
  PROVE  RecordsFollow'
<1> USE DEF TableInv
<1>1. ASSUME NEW c \in Coordinators, CoordinatorDies(c) PROVE RecordsFollow'
  BY <1>1, OthersFollow DEF CoordinatorDies, At
<1>2. ASSUME NEW c \in Coordinators, NEW o \in Offers, BuildPlan(c, o) PROVE RecordsFollow'
  <2>1. /\ UNCHANGED <<version, job, round, rounds>>
        /\ at' = [at EXCEPT ![c] = "work"] \/ at' = [at EXCEPT ![c] = "idle"]
    BY <1>2 DEF BuildPlan, At
  <2> QED
    BY <2>1, OthersFollow
<1>3. ASSUME NEW c \in Coordinators, NEW t \in DOMAIN tasks[c], MarkComplete(c, t) \/ MarkFailed(c, t)
      PROVE  RecordsFollow'
  BY <1>3, OthersFollow DEF MarkComplete, MarkFailed
<1>4. ASSUME NEW j \in Jobs, NEW v \in RoundIds, RoundExpires(j, v) PROVE RecordsFollow'
  BY <1>4, OthersFollow DEF RoundExpires
<1>5. CASE UNCHANGED orVars
  BY <1>5, OthersFollow DEF orVars
<1> HIDE DEF TableInv
<1> QED
  BY <1>1, <1>2, <1>3, <1>4, <1>5, StartRoundFollows, CoordinatorStepFollows DEF OrNext

\* Whatever coordinators start rounds of one job, die or see records expire: the
\* record of a completed round (sync_manager.py:64, 85) is never replaced by that
\* of an open one.
THEOREM RoundsAreNotReopened == OrSpec => RoundsStayCompleted
<1> DEFINE Kept == \A j \in Jobs, v \in RoundIds : rounds[j][v] = "completed" => rounds'[j][v] # "open"
           Inv == CountInv /\ EndInv /\ ShardInv /\ RecordsFollow
<1>1. OrInit => RecordsFollow
  BY DEF OrInit, RecordsFollow
<1>2. Inv /\ [OrNext]_orVars => RecordsFollow'
  BY RecordsFollowStep DEF EndInv, ShardInv
<1>3. CountInv => TablesTyped
  BY DEF CountInv
<1>4. OrSpec => []Inv
  <2>1. OrInit => Inv
    BY <1>1, CountInitInv, EndInitInv, ShardInitInv
  <2>2. Inv /\ [OrNext]_orVars => Inv'
    BY <1>2, <1>3, CountInvStep, EndInvStep, ShardInvStep
  <2> HIDE DEF Inv
  <2> QED
    BY <2>1, <2>2, PTL DEF OrSpec
<1>5. ASSUME Inv, OrNext PROVE Kept
  <2>0. RecordsTyped /\ RecordsFollow
    BY <1>5 DEF ShardInv
  <2>1. ASSUME NEW c \in Coordinators, SaveRound(c) PROVE Kept
    <3>1. rounds[job[c]][round[c]] = "none" /\ rounds' = [rounds EXCEPT ![job[c]][round[c]] = "open"]
      BY <2>0, <2>1 DEF SaveRound, Record, RecordsFollow
    <3> QED
      BY <2>0, <3>1 DEF RecordsTyped
  <2>2. ASSUME NEW c \in Coordinators, StoreRound(c) PROVE Kept
    BY <2>0, <2>2 DEF StoreRound, Record, RecordsTyped
  <2>3. ASSUME NEW j \in Jobs, NEW v \in RoundIds, RoundExpires(j, v) PROVE Kept
    BY <2>0, <2>3 DEF RoundExpires, RecordsTyped
  <2>4. UNCHANGED rounds => Kept
    OBVIOUS
  <2> HIDE DEF Kept
  <2> QED
    BY <1>5, <2>1, <2>2, <2>3, <2>4
    DEF OrNext, CoordinatorStep, SeeComplete, LoadRound, CoordinatorDies, StartRound, BuildPlan,
        MarkComplete, MarkFailed
<1>6. Inv /\ [OrNext]_orVars => [Kept]_rounds
  BY <1>5 DEF orVars
<1> HIDE DEF Inv
<1> QED
  BY <1>4, <1>6, PTL DEF OrSpec, RoundsStayCompleted

-----------------------------------------------------------------------------
(* The fault handler *)

\* The places of report().
HandlingPlaces == {"idle", "penalise", "expire", "elect", "read", "store", "done", "dead", "diedUntimed"}

\* The types, and what the place of report() says of the record.
HandlerInv ==
  /\ fault \in [Faults -> {"none", "pending", "auto", "manual"}]
  /\ kind \in [Faults -> Kinds \cup {"none"}] /\ culprit \in [Faults -> Culprits]
  /\ handling \in [Faults -> HandlingPlaces] /\ operator \subseteq Faults
  /\ penalty \in [Culprits -> Nat] /\ timed \subseteq Culprits
  /\ weighing \subseteq Faults /\ forgiven \subseteq Faults
  /\ \A f \in Faults : handling[f] = "idle" => fault[f] = "none" /\ f \notin operator
  /\ \A f \in Faults : handling[f] \in {"penalise", "expire"} => kind[f] = "wrong_result"
  /\ \A f \in Faults : handling[f] = "elect" => kind[f] = "coordinator_crash"
  /\ \A f \in Faults : handling[f] \in {"read", "store"} => kind[f] # "resource_exhausted"
  /\ \A f \in Faults : fault[f] = "auto" => handling[f] = "done" /\ kind[f] # "resource_exhausted"

\* Where report() may be once it has counted a fault
PastIncr == {"expire", "read", "store", "done", "dead", "diedUntimed"}

\* A fault is counted by its INCR, and by nothing else.
CountedByIncr ==
  /\ weighing \cap forgiven = {}
  /\ \A f \in weighing \cup forgiven : kind[f] = "wrong_result" /\ handling[f] \in PastIncr
  /\ \A f \in Faults :
       kind[f] = "wrong_result" /\ handling[f] \in {"expire", "read", "store", "done"} =>
         f \in weighing \cup forgiven

\* The counters are the numbers of the faults they have counted.
CountsExact == \A p \in Culprits : penalty[p] = Cardinality(weighing \cap FaultsOf(p))

\* A TTL was set by a report that is past its EXPIRE.
TimedByReport == \A p \in timed : \E g \in Timers : culprit[g] = p

\* The inductive invariant.
FhInv ==
  /\ HandlerInv /\ reelect \in BOOLEAN /\ CountedByIncr /\ CountsExact
  /\ PenaltiesEnd /\ TimedByReport /\ ForgivenByAnother

\* Sets of faults can be counted.
LEMMA FaultsFinite ==
  \A S : S \subseteq Faults => IsFiniteSet(S) /\ Cardinality(S) \in Nat
BY FaultAssumption, FS_Subset, FS_CardinalityType

\* The invariant says what the penalties promise: who is excluded was penalised.
LEMMA FhInvKept == FhInv => PenaltiesKept
<1> SUFFICES ASSUME FhInv PROVE PenaltiesKept
  OBVIOUS
<1>1. FhTypeOK
  BY DEF FhInv, HandlerInv, FhTypeOK, HandlingPlaces
<1>2. PenaltiesCounted
  BY DEF FhInv, HandlerInv, CountedByIncr, CountsExact, PenaltiesCounted
<1> QED
  BY <1>1, <1>2 DEF FhInv, PenaltiesKept

\* No fault is reported and no penalty counted.
LEMMA FhInitInv == FhInit => FhInv
<1> SUFFICES ASSUME FhInit PROVE FhInv
  OBVIOUS
<1>1. HandlerInv /\ PenaltiesEnd /\ CountedByIncr /\ TimedByReport /\ ForgivenByAnother
  BY DEF FhInit, HandlerInv, PenaltiesEnd, HandlingPlaces, CountedByIncr, TimedByReport, ForgivenByAnother
<1>2. ASSUME NEW p \in Culprits PROVE penalty[p] = Cardinality(weighing \cap FaultsOf(p))
  <2>1. weighing \cap FaultsOf(p) = {} /\ penalty[p] = 0
    BY DEF FhInit
  <2> QED
    BY <2>1, FS_EmptySet
<1>3. reelect \in BOOLEAN
  BY Zenon DEF FhInit
<1> QED
  BY <1>1, <1>2, <1>3 DEF FhInv, CountsExact

\* The record and the place of report(), step by step.
LEMMA HandlerStep == HandlerInv /\ [FhNext]_fhVars => HandlerInv'
<1> SUFFICES ASSUME HandlerInv, [FhNext]_fhVars PROVE HandlerInv'
  OBVIOUS
<1> USE DEF HandlerInv, HandlingPlaces, Kinds, Goes
<1>1. ASSUME NEW f \in Faults, NEW k \in Kinds, Report(f, k) PROVE HandlerInv'
  BY <1>1 DEF Report, FirstStep
<1>2. ASSUME NEW f \in Faults, Penalise(f) PROVE HandlerInv'
  <2>1. penalty' \in [Culprits -> Nat] /\ weighing' \subseteq Faults
    BY <1>2 DEF Penalise
  <2> QED
    BY <1>2, <2>1 DEF Penalise
<1>3. ASSUME NEW f \in Faults, SetTtl(f) PROVE HandlerInv'
  <2>1. timed' \subseteq Culprits
    BY <1>3 DEF SetTtl
  <2> QED
    BY <1>3, <2>1 DEF SetTtl
<1>8. ASSUME NEW f \in Faults, Reelect(f) PROVE HandlerInv'
  BY <1>8 DEF Reelect
<1>9. ASSUME NEW f \in Faults, ResolveGet(f) PROVE HandlerInv'
  <2>1. PICK to \in {"done", "store"} : handling' = [handling EXCEPT ![f] = to]
    BY <1>9 DEF ResolveGet
  <2> QED
    BY <1>9, <2>1 DEF ResolveGet
<1>10. ASSUME NEW f \in Faults, ResolveSet(f) PROVE HandlerInv'
  BY <1>10 DEF ResolveSet
<1>4. ASSUME NEW f \in Faults, OperatorGet(f) \/ OperatorSet(f) PROVE HandlerInv'
  BY <1>4 DEF OperatorGet, OperatorSet
<1>5. ASSUME NEW f \in Faults, FaultExpires(f) \/ ReporterDies(f) PROVE HandlerInv'
  BY <1>5 DEF FaultExpires, ReporterDies
<1>6. ASSUME NEW p \in Culprits, PenaltyExpires(p) PROVE HandlerInv'
  BY <1>6 DEF PenaltyExpires
<1>7. ASSUME ReelectExpires \/ UNCHANGED fhVars PROVE HandlerInv'
  BY <1>7 DEF ReelectExpires, fhVars
<1> HIDE DEF HandlerInv
<1> QED
  BY <1>1, <1>2, <1>3, <1>4, <1>5, <1>6, <1>7, <1>8, <1>9, <1>10 DEF FhNext, HandlerGoesOn

\* What the steps other than Report, INCR and the expiry of a counter share: they count
\* nothing, and a report goes on from where it is.
MovesOn(f, from, to) ==
  /\ UNCHANGED <<culprit, kind, penalty, weighing, forgiven>>
  /\ handling[f] = from /\ handling' = [handling EXCEPT ![f] = to]

\* A step of a report past EXPIRE, or its death.
LEMMA MoveKeeps ==
  ASSUME HandlerInv, CountedByIncr, CountsExact, PenaltiesEnd, TimedByReport, ForgivenByAnother,
         NEW f \in Faults, NEW from \in HandlingPlaces, NEW to \in HandlingPlaces,
         MovesOn(f, from, to), UNCHANGED timed,
         from = "expire" => to = "diedUntimed", from # "diedUntimed",
         from \in PastIncr => to \in PastIncr,
         to \in {"expire", "read", "store", "done"} =>
           from \in {"expire", "read", "store", "done"} \/ kind[f] # "wrong_result",
         from \in {"read", "store", "done", "dead"} => to \in {"read", "store", "done", "dead"}
  PROVE  CountedByIncr' /\ CountsExact' /\ PenaltiesEnd' /\ TimedByReport' /\ ForgivenByAnother'
<1> USE DEF HandlerInv, MovesOn
<1>1. /\ handling'[f] = to /\ handling[f] = from
      /\ \A g \in Faults \ {f} : handling'[g] = handling[g]
  OBVIOUS
<1>2. CountedByIncr'
  BY <1>1 DEF CountedByIncr
<1>3. CountsExact'
  BY DEF CountsExact, FaultsOf
<1>4. PenaltiesEnd'
  BY <1>1 DEF PenaltiesEnd, FaultsOf
<1>5. Timers \subseteq Timers'
  BY <1>1 DEF Timers
<1>6. TimedByReport'
  BY <1>5 DEF TimedByReport
<1>7. ForgivenByAnother'
  <2> SUFFICES ASSUME NEW h \in forgiven, handling'[h] \in {"expire", "diedUntimed"}
               PROVE  \E g \in Timers' : g # h /\ culprit[g] = culprit[h]
    BY DEF ForgivenByAnother
  <2>1. handling[h] \in {"expire", "diedUntimed"}
    BY <1>1, <1>2 DEF CountedByIncr, PastIncr
  <2> QED
    BY <1>5, <2>1 DEF ForgivenByAnother
<1> QED
  BY <1>2, <1>3, <1>4, <1>6, <1>7

\* The counters and TTLs, step by step: only INCR counts, and a key ends as a whole.
LEMMA PenaltiesStep ==
  ASSUME HandlerInv, CountedByIncr, CountsExact, PenaltiesEnd, TimedByReport, ForgivenByAnother,
         [FhNext]_fhVars
  PROVE  CountedByIncr' /\ CountsExact' /\ PenaltiesEnd' /\ TimedByReport' /\ ForgivenByAnother'
<1> DEFINE Goal == CountedByIncr' /\ CountsExact' /\ PenaltiesEnd' /\ TimedByReport' /\ ForgivenByAnother'
<1> HIDE DEF Goal
<1>1. ASSUME NEW f \in Faults, NEW k \in Kinds, Report(f, k) PROVE Goal
  <2>1. /\ UNCHANGED <<culprit, penalty, weighing, forgiven, timed>>
        /\ handling[f] = "idle" /\ f \notin weighing \cup forgiven
        /\ k = "wrong_result" => handling'[f] = "penalise"
        /\ kind'[f] = k
        /\ \A g \in Faults \ {f} : handling'[g] = handling[g] /\ kind'[g] = kind[g]
    BY <1>1 DEF Report, Goes, FirstStep, HandlerInv, CountedByIncr, PastIncr
  <2>2. CountedByIncr'
    BY <2>1 DEF CountedByIncr, HandlerInv
  <2>3. CountsExact'
    BY <2>1 DEF CountsExact, FaultsOf
  <2>4. PenaltiesEnd'
    BY <2>1 DEF PenaltiesEnd, FaultsOf
  <2>5. Timers \subseteq Timers'
    BY <2>1 DEF Timers, HandlerInv
  <2>6. TimedByReport'
    BY <2>1, <2>5 DEF TimedByReport
  <2>7. ForgivenByAnother'
    BY <2>1, <2>5 DEF ForgivenByAnother, HandlerInv
  <2> QED
    BY <2>2, <2>3, <2>4, <2>6, <2>7 DEF Goal
<1>2. ASSUME NEW f \in Faults, Penalise(f) PROVE Goal
  <2>1. /\ UNCHANGED <<culprit, kind, forgiven, timed>> /\ weighing' = weighing \cup {f}
        /\ handling[f] = "penalise" /\ f \notin weighing \cup forgiven /\ kind[f] = "wrong_result"
        /\ handling'[f] = "expire" /\ culprit[f] \in Culprits
        /\ \A g \in Faults \ {f} : handling'[g] = handling[g]
        /\ penalty'[culprit[f]] = penalty[culprit[f]] + 1
        /\ \A p \in Culprits \ {culprit[f]} : penalty'[p] = penalty[p]
    BY <1>2 DEF Penalise, Goes, HandlerInv, CountedByIncr, PastIncr
  <2>2. CountedByIncr'
    BY <2>1 DEF CountedByIncr, HandlerInv, PastIncr
  <2>3. ASSUME NEW p \in Culprits PROVE penalty'[p] = Cardinality((weighing \cap FaultsOf(p))')
    <3>1. penalty[p] = Cardinality(weighing \cap FaultsOf(p))
      BY DEF CountsExact
    <3>2. CASE p = culprit[f]
      <4>1. (weighing \cap FaultsOf(p))' = (weighing \cap FaultsOf(p)) \cup {f}
        BY <2>1, <3>2 DEF FaultsOf
      <4>2. IsFiniteSet(weighing \cap FaultsOf(p)) /\ f \notin weighing \cap FaultsOf(p)
        BY <2>1, FaultsFinite DEF HandlerInv
      <4>3. Cardinality((weighing \cap FaultsOf(p)) \cup {f}) = Cardinality(weighing \cap FaultsOf(p)) + 1
        BY <4>2, FS_AddElement
      <4> QED
        BY <2>1, <3>1, <3>2, <4>1, <4>3
    <3>3. CASE p # culprit[f]
      <4>1. (weighing \cap FaultsOf(p))' = weighing \cap FaultsOf(p)
        BY <2>1, <3>3 DEF FaultsOf
      <4> QED
        BY <2>1, <3>1, <3>3, <4>1
    <3> QED
      BY <3>2, <3>3
  <2>4. CountsExact'
    BY <2>3 DEF CountsExact
  <2>5. PenaltiesEnd'
    <3> SUFFICES ASSUME NEW p \in Culprits, penalty'[p] > 0, p \notin timed
                 PROVE  \E g \in FaultsOf(p)' : handling'[g] \in {"expire", "diedUntimed"}
      BY <2>1 DEF PenaltiesEnd
    <3>1. CASE p = culprit[f]
      BY <2>1, <3>1 DEF FaultsOf
    <3>2. CASE p # culprit[f]
      BY <2>1, <3>2 DEF PenaltiesEnd, FaultsOf
    <3> QED
      BY <3>1, <3>2
  <2>6. Timers \subseteq Timers'
    BY <2>1 DEF Timers, HandlerInv
  <2>7. TimedByReport'
    BY <2>1, <2>6 DEF TimedByReport
  <2>8. ForgivenByAnother'
    BY <2>1, <2>6 DEF ForgivenByAnother, HandlerInv
  <2> QED
    BY <2>2, <2>4, <2>5, <2>7, <2>8 DEF Goal
<1>3. ASSUME NEW f \in Faults, SetTtl(f) PROVE Goal
  <2>1. /\ UNCHANGED <<culprit, kind, penalty, weighing, forgiven>>
        /\ handling[f] = "expire" /\ handling'[f] = "read" /\ f \in weighing \cup forgiven
        /\ \A g \in Faults \ {f} : handling'[g] = handling[g]
        /\ timed' = IF penalty[culprit[f]] > 0 THEN timed \cup {culprit[f]} ELSE timed
    BY <1>3 DEF SetTtl, Goes, HandlerInv, CountedByIncr
  <2>2. CountedByIncr'
    BY <2>1 DEF CountedByIncr, PastIncr, HandlerInv
  <2>3. CountsExact'
    BY <2>1 DEF CountsExact, FaultsOf
  <2>4. PenaltiesEnd'
    BY <2>1 DEF PenaltiesEnd, FaultsOf
  <2>5. Timers \subseteq Timers' /\ f \in Timers'
    BY <2>1 DEF Timers, HandlerInv
  <2>6. TimedByReport'
    BY <2>1, <2>5 DEF TimedByReport
  <2>7. ForgivenByAnother'
    BY <2>1, <2>5 DEF ForgivenByAnother, HandlerInv
  <2> QED
    BY <2>2, <2>3, <2>4, <2>6, <2>7 DEF Goal
<1>4. ASSUME NEW f \in Faults, Reelect(f) \/ ResolveGet(f) \/ ResolveSet(f) \/ ReporterDies(f) PROVE Goal
  <2>1. UNCHANGED <<culprit, kind, penalty, weighing, forgiven, timed>>
    BY <1>4 DEF Reelect, ResolveGet, ResolveSet, ReporterDies
  <2>2. PICK from \in HandlingPlaces, to \in HandlingPlaces :
          /\ handling[f] = from /\ handling' = [handling EXCEPT ![f] = to]
          /\ from = "expire" => to = "diedUntimed"
          /\ from # "diedUntimed"
          /\ from \in PastIncr => to \in PastIncr
          /\ to \in {"expire", "read", "store", "done"} =>
               from \in {"expire", "read", "store", "done"} \/ from = "elect"
          /\ from \in {"read", "store", "done", "dead"} => to \in {"read", "store", "done", "dead"}
    BY <1>4 DEF Reelect, ResolveGet, ResolveSet, ReporterDies, Goes, HandlerInv, HandlingPlaces, PastIncr
  <2>3. from = "elect" => kind[f] # "wrong_result"
    BY <2>2 DEF HandlerInv
  <2> QED
    BY <2>1, <2>2, <2>3, MoveKeeps DEF Goal, MovesOn
<1>5. ASSUME UNCHANGED <<culprit, kind, handling, penalty, weighing, forgiven, timed>> PROVE Goal
  BY <1>5 DEF Goal, CountedByIncr, CountsExact, PenaltiesEnd, TimedByReport, ForgivenByAnother, Timers, FaultsOf
<1>6. ASSUME NEW f \in Faults, OperatorGet(f) \/ OperatorSet(f) \/ FaultExpires(f) PROVE Goal
  BY <1>5, <1>6 DEF OperatorGet, OperatorSet, FaultExpires
<1>7. ASSUME ReelectExpires \/ UNCHANGED fhVars PROVE Goal
  BY <1>5, <1>7 DEF ReelectExpires, fhVars
<1>8. ASSUME NEW p \in Culprits, PenaltyExpires(p) PROVE Goal
  <2>1. /\ UNCHANGED <<culprit, kind, handling>> /\ timed' = timed \ {p} /\ p \in timed
        /\ weighing' = weighing \ FaultsOf(p)
        /\ forgiven' = forgiven \cup (weighing \cap FaultsOf(p))
        /\ penalty'[p] = 0 /\ \A q \in Culprits \ {p} : penalty'[q] = penalty[q]
    BY <1>8 DEF PenaltyExpires, HandlerInv
  <2>2. weighing' \cup forgiven' = weighing \cup forgiven
    BY <2>1
  <2>3. CountedByIncr'
    BY <2>1, <2>2 DEF CountedByIncr
  <2>4. ASSUME NEW q \in Culprits PROVE penalty'[q] = Cardinality((weighing \cap FaultsOf(q))')
    <3>1. CASE q = p
      <4>1. (weighing \cap FaultsOf(q))' = {}
        BY <2>1, <3>1 DEF FaultsOf
      <4> QED
        BY <2>1, <3>1, <4>1, FS_EmptySet
    <3>2. CASE q # p
      <4>1. (weighing \cap FaultsOf(q))' = weighing \cap FaultsOf(q)
        BY <2>1, <3>2 DEF FaultsOf
      <4> QED
        BY <2>1, <3>2, <4>1 DEF CountsExact
    <3> QED
      BY <3>1, <3>2
  <2>5. CountsExact'
    BY <2>4 DEF CountsExact
  <2>6. PenaltiesEnd'
    BY <2>1 DEF PenaltiesEnd, FaultsOf
  <2>7. Timers' = Timers
    BY <2>1, <2>2 DEF Timers
  <2>8. TimedByReport'
    BY <2>1, <2>7 DEF TimedByReport
  <2>9. ForgivenByAnother'
    <3> SUFFICES ASSUME NEW h \in forgiven', handling[h] \in {"expire", "diedUntimed"}
                 PROVE  \E g \in Timers : g # h /\ culprit[g] = culprit[h]
      BY <2>1, <2>7 DEF ForgivenByAnother
    <3>1. CASE h \in forgiven
      BY <3>1 DEF ForgivenByAnother
    <3>2. CASE h \in weighing \cap FaultsOf(p)
      <4>1. PICK g \in Timers : culprit[g] = p
        BY <2>1 DEF TimedByReport
      <4>2. handling[g] \in {"read", "store", "done", "dead"}
        BY DEF Timers
      <4> QED
        BY <3>2, <4>1, <4>2 DEF FaultsOf
    <3> QED
      BY <2>1, <3>1, <3>2
  <2> QED
    BY <2>3, <2>5, <2>6, <2>8, <2>9 DEF Goal
<1> QED
  BY <1>1, <1>2, <1>3, <1>4, <1>6, <1>7, <1>8 DEF FhNext, HandlerGoesOn, Goal

\* The key of the election is there or not.
LEMMA ReelectStep == reelect \in BOOLEAN /\ [FhNext]_fhVars => reelect' \in BOOLEAN
BY Zenon DEF FhNext, HandlerGoesOn, Report, Penalise, SetTtl, Reelect, ResolveGet, ResolveSet, OperatorGet,
   OperatorSet, FaultExpires, ReporterDies, PenaltyExpires, ReelectExpires, fhVars

\* Every state of the specification satisfies the invariant.
LEMMA FhInvariance == FhSpec => []FhInv
<1>1. FhInv /\ [FhNext]_fhVars => FhInv'
  BY HandlerStep, PenaltiesStep, ReelectStep DEF FhInv
<1> QED
  BY <1>1, FhInitInv, PTL DEF FhSpec

\* Whatever reports interleave, expire or die (fault_handler.py:72-158): the penalties
\* of a peer are the faults counted since its key began, each once; a fault recorded as
\* peer_excluded_from_aggregation is one of them or fell to a TTL that a report set; and
\* a penalty without a TTL has a reporter at that step, or one that died there.
THEOREM PenaltiesAreKept == FhSpec => []PenaltiesKept
BY FhInvariance, FhInvKept, PTL

\* resolve() of fault_handler.py reads, changes and stores the record without a lock;
\* a resolved fault is pending again in no interleaving.
THEOREM ResolvedFaultStays == FhSpec => ResolvedStaysResolved
<1>1. ASSUME FhInv, [FhNext]_fhVars, NEW f \in Faults, fault[f] \in {"auto", "manual"}
      PROVE  fault'[f] # "pending"
  <2> USE <1>1 DEF FhInv, HandlerInv
  <2>1. ASSUME NEW g \in Faults, NEW k \in Kinds, Report(g, k) PROVE fault'[f] # "pending"
    BY <2>1 DEF Report
  <2>2. ASSUME NEW g \in Faults, HandlerGoesOn(g) PROVE fault'[f] # "pending"
    BY <2>2 DEF HandlerGoesOn, Penalise, SetTtl, Reelect, ResolveGet, ResolveSet
  <2>3. ASSUME NEW g \in Faults, OperatorGet(g) \/ OperatorSet(g) \/ FaultExpires(g) \/ ReporterDies(g)
        PROVE fault'[f] # "pending"
    BY <2>3 DEF OperatorGet, OperatorSet, FaultExpires, ReporterDies
  <2>4. ASSUME NEW p \in Culprits, PenaltyExpires(p) PROVE fault'[f] # "pending"
    BY <2>4 DEF PenaltyExpires
  <2>5. ASSUME ReelectExpires \/ UNCHANGED fhVars PROVE fault'[f] # "pending"
    BY <2>5 DEF ReelectExpires, fhVars
  <2> QED
    BY <2>1, <2>2, <2>3, <2>4, <2>5 DEF FhNext
<1>2. FhInv /\ [FhNext]_fhVars =>
        [\A f \in Faults : fault[f] \in {"auto", "manual"} => fault'[f] # "pending"]_fault
  BY <1>1
<1> QED
  BY <1>2, FhInvariance, PTL DEF FhSpec, ResolvedStaysResolved
=============================================================================
