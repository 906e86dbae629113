---------------------------- MODULE Orchestrator ----------------------------
(***************************************************************************)
(* The rounds of a training job: the task tables of the coordinators       *)
(* (orchestrator/task_dispatcher.py) and the rounds and model versions in  *)
(* Redis (orchestrator/sync_manager.py).  The repository has no            *)
(* coordinator program; the one here makes the calls in the only order     *)
(* that their arguments allow: start_round, build_plan, reports of peers,  *)
(* is_round_complete, complete_round.                                      *)
(***************************************************************************)
EXTENDS ShardPlan, FiniteSets

CONSTANTS
  Jobs, Coordinators,
  Offers,       \* what build_plan is called with: [strategy, peers, shards]
  MaxRounds,    \* bound: rounds of all jobs
  MaxFailures,  \* bound: calls of mark_failed
  NoPlan, NoJob

MAX_RETRIES == 3

ASSUME OrchestratorAssumption ==
  /\ MaxRounds \in Nat /\ MaxFailures \in Nat
  /\ NoJob \notin Jobs /\ IsFiniteSet(Jobs)
  /\ \A o \in Offers :
       /\ o.shards \in Nat /\ o.peers \in Seq(Range(o.peers))
       /\ \A p \in Range(o.peers) : p.gpus \in Int /\ p.memory \in Int /\ p.score \in Int

VARIABLES
  version,   \* sync:model_version:<job>
  rounds,    \* sync:round:<job>:<round>: none, open or completed
  at,        \* where each coordinator is
  job,       \* the job of its round
  round,     \* its round
  plan,      \* its DispatchPlan
  tasks,     \* its _active_tasks, by <<job, round, position of the peer>>
  failures,  \* how often mark_failed was called
  late       \* history: tasks reported as failed after they had ended

orVars == <<version, rounds, at, job, round, plan, tasks, failures, late>>

RoundIds == 1..MaxRounds
TaskIds == Jobs \X RoundIds \X Nat

OrInit ==
  /\ version = [j \in Jobs |-> 0]
  /\ rounds = [j \in Jobs |-> [v \in RoundIds |-> "none"]]
  /\ at = [c \in Coordinators |-> "idle"]
  /\ job = [c \in Coordinators |-> NoJob]
  /\ round = [c \in Coordinators |-> 0]
  /\ plan = [c \in Coordinators |-> NoPlan]
  /\ tasks = [c \in Coordinators |-> << >>]
  /\ failures = 0
  /\ late = {}

\* Where a coordinator has a round in hand.
Working == {"save", "plan", "work", "load", "store"}

At(c, l) == at' = [at EXCEPT ![c] = l]
Record(c, r) == rounds' = [rounds EXCEPT ![job[c]][round[c]] = r]

\* Mutant of StartRound: the version is read, and stored with the record.
StartRoundUncounted(c, j) ==
  /\ at[c] = "idle" /\ SumFunctionOnSet(version, Jobs) < MaxRounds
  /\ job' = [job EXCEPT ![c] = j]
  /\ round' = [round EXCEPT ![c] = version[j] + 1]
  /\ At(c, "save")
  /\ UNCHANGED <<version, rounds, plan, tasks, failures, late>>

\* start_round(): INCR gives the round its id ...
StartRound(c, j) ==
  /\ at[c] = "idle" /\ SumFunctionOnSet(version, Jobs) < MaxRounds
  /\ version' = [version EXCEPT ![j] = @ + 1]
  /\ job' = [job EXCEPT ![c] = j]
  /\ round' = [round EXCEPT ![c] = version[j] + 1]
  /\ At(c, "save")
  /\ UNCHANGED <<rounds, plan, tasks, failures, late>>

\* ... and the record is stored.
SaveRound(c) ==
  /\ at[c] = "save"
  /\ Record(c, "open")
  /\ At(c, "plan")
  /\ UNCHANGED <<version, job, round, plan, tasks, failures, late>>

\* build_plan(): a task for every peer with shards; ValueError without peers.
BuildPlan(c, offer) ==
  /\ at[c] = "plan"
  /\ \/ /\ offer.peers # << >>
        /\ LET lists == PartitionShards(offer.strategy, offer.shards, offer.peers)
               new == {<<job[c], round[c], p>> : p \in {p \in DOMAIN lists : lists[p] # {}}}
           IN  /\ plan' = [plan EXCEPT ![c] = [offer |-> offer, lists |-> lists]]
               /\ tasks' = [tasks EXCEPT ![c] =
                    [t \in DOMAIN tasks[c] \cup new |->
                       IF t \in new THEN [status |-> "assigned", retries |-> 0] ELSE @[t]]]
        /\ At(c, "work")
     \/ offer.peers = << >> /\ At(c, "idle") /\ UNCHANGED <<plan, tasks>>
  /\ UNCHANGED <<version, rounds, job, round, failures, late>>

Ended(task) == task.status \in {"completed", "failed"}

\* A peer reports that it has done its task.
MarkComplete(c, t) ==
  /\ t \in DOMAIN tasks[c]
  /\ tasks' = [tasks EXCEPT ![c][t].status = "completed"]
  /\ UNCHANGED <<version, rounds, at, job, round, plan, failures, late>>

\* A peer has failed, or is taken to have: also after it had completed the task.
MarkFailed(c, t) ==
  /\ t \in DOMAIN tasks[c] /\ failures < MaxFailures
  /\ tasks' = [tasks EXCEPT ![c][t] =
       [retries |-> @.retries + 1,
        status |-> IF @.retries + 1 >= MAX_RETRIES THEN "failed" ELSE "retry"]]
  /\ failures' = failures + 1
  /\ late' = IF Ended(tasks[c][t]) THEN late \cup {t} ELSE late
  /\ UNCHANGED <<version, rounds, at, job, round, plan>>

PendingTasks(c) == {t \in DOMAIN tasks[c] : tasks[c][t].status \in {"assigned", "retry"}}

\* Mutants of IsRoundComplete: a task that is to be retried does not count, or
\* every task of the table does.
NoTaskAssigned(c, v) ==
  \A t \in DOMAIN tasks[c] : t[2] = v => tasks[c][t].status # "assigned"
NeverComplete(c, v) ==
  \A t \in DOMAIN tasks[c] : t[2] = v => tasks[c][t].status = "completed"

\* The tasks of all jobs are looked at: a round is known by its number alone.
IsRoundComplete(c, v) == \A t \in DOMAIN tasks[c] : t[2] = v => Ended(tasks[c][t])

SeeComplete(c) ==
  /\ at[c] = "work" /\ IsRoundComplete(c, round[c])
  /\ At(c, "load")
  /\ UNCHANGED <<version, rounds, job, round, plan, tasks, failures, late>>

\* complete_round(): the record is read, or the ValueError ends the round ...
LoadRound(c) ==
  /\ at[c] = "load"
  /\ At(c, IF rounds[job[c]][round[c]] = "none" THEN "idle" ELSE "store")
  /\ UNCHANGED <<version, rounds, job, round, plan, tasks, failures, late>>

\* ... and stored with the hash of the model.
StoreRound(c) ==
  /\ at[c] = "store"
  /\ Record(c, "completed")
  /\ At(c, "idle")
  /\ UNCHANGED <<version, job, round, plan, tasks, failures, late>>

\* A coordinator goes away with its table.
CoordinatorDies(c) ==
  /\ at[c] # "gone"
  /\ At(c, "gone")
  /\ plan' = [plan EXCEPT ![c] = NoPlan]
  /\ tasks' = [tasks EXCEPT ![c] = << >>]
  /\ UNCHANGED <<version, rounds, job, round, failures, late>>

RoundExpires(j, v) ==
  /\ rounds[j][v] # "none"
  /\ rounds' = [rounds EXCEPT ![j][v] = "none"]
  /\ UNCHANGED <<version, at, job, round, plan, tasks, failures, late>>

CoordinatorStep(c) ==
  SaveRound(c) \/ SeeComplete(c) \/ LoadRound(c) \/ StoreRound(c)

OrNext ==
  \/ \E c \in Coordinators :
       \/ CoordinatorStep(c) \/ CoordinatorDies(c)
       \/ \E j \in Jobs : StartRound(c, j)
       \/ \E o \in Offers : BuildPlan(c, o)
       \/ \E t \in DOMAIN tasks[c] : MarkComplete(c, t) \/ MarkFailed(c, t)
  \/ \E j \in Jobs, v \in RoundIds : RoundExpires(j, v)

OrSpec == OrInit /\ [][OrNext]_orVars

-----------------------------------------------------------------------------
(* What the rounds guarantee *)

Places == Working \cup {"idle", "gone"}

OrTypeOK ==
  /\ version \in [Jobs -> 0..MaxRounds]
  /\ rounds \in [Jobs -> [RoundIds -> {"none", "open", "completed"}]]
  /\ at \in [Coordinators -> Places]
  /\ job \in [Coordinators -> Jobs \cup {NoJob}]
  /\ round \in [Coordinators -> 0..MaxRounds]
  /\ failures \in Nat
  /\ \A c \in Coordinators :
       /\ at[c] \in Working => job[c] \in Jobs /\ round[c] \in RoundIds
       /\ job[c] \in Jobs => round[c] \in 1..version[job[c]]
       /\ \A t \in DOMAIN tasks[c] :
            /\ t[1] \in Jobs /\ t[2] \in 1..version[t[1]]
            /\ tasks[c][t].status \in {"assigned", "retry", "completed", "failed"}

\* No two coordinators, such as an old one and the one elected in its place, ever
\* work on the same round: the INCR of start_round() gives each its own.
OneCoordinatorPerRound ==
  \A c, d \in Coordinators :
    c # d /\ job[c] = job[d] /\ job[c] # NoJob => round[c] # round[d]

\* A round is stored as completed only when none of its tasks is pending, but
\* for a task whose failure was reported after it had ended.  The record is
\* stored two commands after the tasks were looked at.
CompletedRoundHasEnded ==
  \A c \in Coordinators : at[c] \in {"load", "store"} =>
    \A t \in PendingTasks(c) : t[1] = job[c] /\ t[2] = round[c] => t \in late

\* A completed round is not opened again, which would drop the hash of its
\* model: start_round() stores an open record two commands after the INCR, and
\* another coordinator may complete, or an expiry remove, records of the same job
\* in between.
RoundsStayCompleted ==
  [][\A j \in Jobs, v \in RoundIds :
       rounds[j][v] = "completed" => rounds'[j][v] # "open"]_rounds

\* However the weights are rounded, every shard is in somebody's list: where
\* max(1, round(...)) gives away more than there is, counts[0] gets negative and
\* the slices still reach every shard.
EveryShardAssigned ==
  \A c \in Coordinators :
    plan[c] # NoPlan => Covers(plan[c].lists, plan[c].offer.shards)

\* The shares of the peers are at least what max(1, round(...)) may add to them.
WellShared(o) ==
  LET w == Weights(o.strategy, o.peers)
      n == Len(o.peers)
  IN  o.strategy = "round_robin" \/ w[1] * o.shards >= (n - 1) * SumTo(w, n)

\* Each shard is in one list when they are dealt round robin, and with weights
\* when the first peer's fair share is at least the number of the other peers.
ShardsAssignedOnce ==
  \A c \in Coordinators :
    plan[c] # NoPlan /\ WellShared(plan[c].offer) => Disjoint(plan[c].lists)

\* What build_plan() hands out: tasks of rounds that were started, with nothing lost,
\* and nothing twice where the weights allow it.
ShardsAssigned == OrTypeOK /\ EveryShardAssigned /\ ShardsAssignedOnce

\* A planned round is completed or given up, while the peers report on the tasks
\* they are assigned and the coordinator lives.
RoundEnds == \A c \in Coordinators : (at[c] = "work") ~> (at[c] \in {"idle", "gone"})
=============================================================================
