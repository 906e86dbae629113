------------------------------- MODULE Worker -------------------------------
(***************************************************************************)
(* The workers of src/worker.py: run() polls the job queue, asks the       *)
(* resource manager for resources, launches torchrun, watches it and       *)
(* completes the job.  A composition of JobQueue and ResourceManager, both *)
(* driven by the same processes; each action below is one call of the loop *)
(* or one Redis command of that call, and signals, crashes, API requests,  *)
(* compute nodes and TTLs come in between.                                 *)
(***************************************************************************)
EXTENDS JobQueue, ResourceManager

\* A worker is a caller of the resource manager and asks for its job.
ASSUME WorkerAssumption ==
  /\ Callers = Workers
  /\ Requests = Jobs
  /\ OtherKeys # {}

\* Where run() is.
Sites == {"poll", "allocate", "requeue", "launch", "launched", "train", "finish",
          "release", "dead"}

VARIABLES
  site,      \* where run() of each worker is
  alive,     \* <<w, j>>: a training process of j that w started is alive
  launches   \* how often torchrun was started for each job

runVars == <<site, alive, launches>>
vars == <<jqVars, rmVars, runVars>>

WInit ==
  /\ JQInit /\ RMInit
  /\ site = [w \in Workers |-> "poll"]
  /\ alive = {}
  /\ launches = [j \in Jobs |-> 0]

To(w, l) == site' = [site EXCEPT ![w] = l]

-----------------------------------------------------------------------------
(* The loop of run() *)

\* queue.dequeue()
Dequeue(w) ==
  /\ site[w] = "poll"
  /\ \/ (Pop(w) \/ PopEmpty(w) \/ GetPopped(w) \/ MarkRunning(w)) /\ UNCHANGED site
     \/ Claim(w) /\ To(w, "allocate")
  /\ UNCHANGED <<rmVars, alive, launches>>

\* Mutant of Denied: the result None of allocate() is not looked at.
DeniedIgnored(w) == NoResources(w) /\ To(w, "launch")

\* allocate() returns None: the job is to be requeued.
Denied(w) == NoResources(w) /\ To(w, "requeue")

\* rm.allocate() with what the job needs
Allocate(w) ==
  /\ site[w] = "allocate"
  /\ \/ ListKeys(w, hand[w]) /\ UNCHANGED site
     \/ (\E n \in Nodes : ReadNode(w, n) \/ LuaRefuse(w, n)) /\ UNCHANGED site
     \/ (\E n \in Nodes, a \in AllocIds : LuaAllocate(w, n, a)) /\ To(w, "launch")
     \/ Denied(w)
  /\ UNCHANGED <<jqVars, alive, launches>>

\* queue.submit(job): "put back in queue"
PutBack(w) ==
  /\ site[w] = "requeue"
  /\ Requeue(w)
  /\ To(w, "poll")
  /\ UNCHANGED <<rmVars, alive, launches>>

\* launch_training(): Popen has started torchrun.
Launch(w) ==
  /\ site[w] = "launch"
  /\ alive' = alive \cup {<<w, hand[w]>>}
  /\ launches' = [launches EXCEPT ![hand[w]] = @ + 1]
  /\ To(w, "launched")
  /\ UNCHANGED <<jqVars, rmVars>>

\* Mutant of LaunchFails: the job is put back in the queue.
LaunchFailsRequeue(w) ==
  /\ site[w] = "launch"
  /\ Requeue(w)
  /\ To(w, "poll")
  /\ UNCHANGED <<rmVars, alive, launches>>

\* launch_training() raises and the job is completed as failed.
LaunchFails(w) ==
  /\ site[w] = "launch"
  /\ Complete(w, "failed")
  /\ To(w, "finish")
  /\ UNCHANGED <<rmVars, alive, launches>>

\* current_proc and current_job are assigned: only now does the SIGTERM handler
\* know of the process.
Adopt(w) ==
  /\ site[w] = "launched"
  /\ To(w, "train")
  /\ UNCHANGED <<jqVars, rmVars, alive, launches>>

\* current_proc.poll() is not None
Exited(w) == <<w, hand[w]>> \notin alive

\* current_proc.poll() returns an exit code: queue.complete() begins.
Finish(w) ==
  /\ site[w] = "train"
  /\ Exited(w)
  /\ \E s \in Outcomes : Complete(w, s)
  /\ To(w, "finish")
  /\ UNCHANGED <<rmVars, alive, launches>>

\* The rest of queue.complete()
Finishing(w) ==
  /\ site[w] = "finish"
  /\ \/ WriteOutcome(w) /\ UNCHANGED site
     \/ ClearRunning(w) /\ To(w, "release")
  /\ UNCHANGED <<rmVars, alive, launches>>

\* rm.release(f"alloc:{job_id}"): the argument is made of the job's id and is
\* not the id that allocate() returned, so release() looks up another key.
Release(w) ==
  /\ site[w] = "release"
  /\ \E k \in OtherKeys : ReleaseGet(w, k)
  /\ To(w, "poll")
  /\ UNCHANGED <<jqVars, alive, launches>>

RunStep(w) ==
  \/ Dequeue(w) \/ Allocate(w) \/ PutBack(w) \/ Launch(w) \/ LaunchFails(w)
  \/ Adopt(w) \/ Finish(w) \/ Finishing(w) \/ Release(w)

-----------------------------------------------------------------------------
(* Signals, crashes, processes, nodes and requests *)

\* The training process ends, also when its worker is gone.
ProcessExits(w, j) ==
  /\ <<w, j>> \in alive
  /\ alive' = alive \ {<<w, j>>}
  /\ UNCHANGED <<jqVars, rmVars, site, launches>>

\* _handle_sigterm(): terminate current_proc, if it is assigned, and exit.
Sigterm(w) ==
  /\ Crash(w) /\ CallerCrash(w)
  /\ To(w, "dead")
  /\ alive' = IF site[w] = "train" THEN alive \ {<<w, hand[w]>>} ELSE alive
  /\ UNCHANGED launches

\* SIGKILL, or an exception that run() does not catch.
Killed(w) ==
  /\ Crash(w) /\ CallerCrash(w)
  /\ To(w, "dead")
  /\ UNCHANGED <<alive, launches>>

\* The container runtime starts run() again.
Restarted(w) ==
  /\ Restart(w)
  /\ To(w, "poll")
  /\ UNCHANGED <<rmVars, alive, launches>>

QueueEnvironment ==
  /\ \/ \E j \in Jobs : Submit(j) \/ RecordExpires(j)
     \/ \E c \in Apis : CancelStep(c) \/ ApiCrash(c) \/ \E j \in Jobs : CancelBegin(c, j)
     \/ \E w \in Workers : RunningExpires(w)
  /\ UNCHANGED <<rmVars, runVars>>

NodeEnvironment ==
  /\ \/ \E n \in Nodes : RegisterNode(n) \/ NodeExpires(n)
     \/ \E a \in AllocIds : AllocExpires(a)
  /\ UNCHANGED <<jqVars, runVars>>

WNext ==
  \/ \E w \in Workers : RunStep(w) \/ Sigterm(w) \/ Killed(w) \/ Restarted(w)
  \/ \E w \in Workers, j \in Jobs : ProcessExits(w, j)
  \/ QueueEnvironment
  \/ NodeEnvironment

WSpec == WInit /\ [][WNext]_vars

\* run() loops, a training process ends (train.py has a deadline), containers
\* are restarted, requests are handled and each compute node registers.
WFairness ==
  /\ \A w \in Workers : WF_vars(RunStep(w)) /\ WF_vars(Restarted(w))
  /\ \A w \in Workers, j \in Jobs : WF_vars(ProcessExits(w, j))
  /\ \A c \in Apis : WF_vars(CancelStep(c) /\ UNCHANGED <<rmVars, runVars>>)
  /\ \A n \in Nodes : WF_vars(n \notin online /\ RegisterNode(n) /\ UNCHANGED <<jqVars, runVars>>)

WFairSpec == WSpec /\ WFairness

-----------------------------------------------------------------------------
(* What the composition guarantees *)

Allocations(j) == {a \in AllocIds : alloc[a] # None /\ alloc[a].request = j}

\* The place of run() fixes what the queue and the resource manager do for the
\* worker: it launches with a job in hand, and calls release() without one.
WTypeOK ==
  /\ site \in [Workers -> Sites]
  /\ alive \in SUBSET (Workers \X Jobs)
  /\ launches \in [Jobs -> Nat]
  /\ \A w \in Workers :
       /\ pc[w] = "owned" <=> site[w] \in {"allocate", "requeue", "launch", "launched", "train"}
       /\ pc[w] \in {"get", "mark", "claim"} => site[w] = "poll"
       /\ pc[w] \in {"write", "clear"} <=> site[w] = "finish"
       /\ pc[w] = "dead" <=> site[w] = "dead"
       /\ site[w] # "allocate" => rmPc[w] = "idle"

\* A job that has left the queue for good: whoever holds it is at one of the
\* given places of run().
Beyond(j, places) ==
  /\ j \in submitted /\ ~InQueue(j)
  /\ \A w \in Workers : HeldBy(w, j) => site[w] \in places

\* "no double-execution" (job_queue.py:10) down to the processes: torchrun is
\* started at most once for a job in all its life, across requeues, worker
\* crashes, restarts and late cancellations; once started, the job is in no
\* queue, and in the hands of the worker that started it or of nobody.
LaunchedOnce ==
  \A j \in Jobs :
    /\ launches[j] <= 1
    /\ launches[j] = 1 => Beyond(j, {"launched", "train", "finish"})
    /\ \A w, v \in Workers : <<w, j>> \in alive /\ <<v, j>> \in alive => w = v

\* A job is given resources at most once, so that requeueing never books twice.
AllocatedOnce ==
  \A j \in Jobs : \A a, b \in Allocations(j) : a = b

\* No process trains without resources booked for it, while records do not
\* expire: Popen comes only after the allocation was stored.
TrainsWithResources ==
  \A w \in Workers, j \in Jobs : <<w, j>> \in alive => Allocations(j) # {}

\* The outcome of a job is stored after its process has ended, whoever died or
\* was restarted meanwhile: no process outlives the outcome of its job.
OutcomeAfterExit ==
  \A j \in Jobs : jobs[j] \in Outcomes => \A w \in Workers : <<w, j>> \notin alive

\* The rest makes the invariants above inductive.  A call of allocate() is for
\* the job in hand, and release() never finds an allocation.
CallsForHand ==
  \A w \in Workers :
    /\ rmPc[w] \in {"idle", "list"}
    /\ rmPc[w] = "list" => request[w] = hand[w]

\* A process belongs to the one worker that may still hold its job, and has
\* ended when that worker begins to complete the job.
ProcessOfHolder ==
  \A w \in Workers, j \in Jobs : <<w, j>> \in alive =>
    /\ launches[j] = 1
    /\ \A v \in Workers : HeldBy(v, j) => v = w /\ site[w] # "finish"

\* A job with an allocation is at its only launch or past it.
AllocatedIsBeyond ==
  \A j \in Jobs :
    Allocations(j) # {} => Beyond(j, {"launch", "launched", "train", "finish"})

\* The inductive invariant of Worker_proofs: the queue, the accounts, the loop of
\* run() and the processes agree, whoever crashes, restarts or is told to stop.
WInv ==
  /\ JQInv /\ RMTypeOK /\ WTypeOK
  /\ LaunchedOnce /\ AllocatedOnce /\ OutcomeAfterExit
  /\ CallsForHand /\ ProcessOfHolder /\ AllocatedIsBeyond

\* With room for all the jobs and no failures every submitted job settles.
EverySubmittedSettles ==
  \A j \in Jobs : (j \in submitted) ~> (jobs[j] \in Outcomes \cup {"cancelled"})

\* "tracks GPU/CPU availability across nodes" (resource_manager.py:2): what was
\* booked for a job becomes available again after the job has ended.
ResourcesComeBack ==
  \A j \in Jobs : (jobs[j] \in Outcomes) ~> (Allocations(j) = {})
=============================================================================
