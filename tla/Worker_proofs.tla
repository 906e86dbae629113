---------------------------- MODULE Worker_proofs ----------------------------
(***************************************************************************)
(* The workers use the queue and the resource manager as these are         *)
(* specified, so their invariants hold in the composition; on top of them, *)
(* no job is started twice, for any number of jobs, workers and nodes.     *)
(***************************************************************************)
EXTENDS Worker, JobQueue_proofs, ResourceManager_proofs

\* Every step of the composition is a step of the queue or leaves it alone.
LEMMA QueueStep ==
  ASSUME [WNext]_vars
  PROVE  [JQNext]_jqVars
<1> USE DEF JQNext, WorkerStep
<1>1. ASSUME NEW w \in Workers, Dequeue(w)
      PROVE  JQNext
  BY <1>1 DEF Dequeue
<1>2. ASSUME NEW w \in Workers, PutBack(w)
      PROVE  JQNext
  BY <1>2 DEF PutBack
<1>3. ASSUME NEW w \in Workers, LaunchFails(w) \/ Finish(w)
      PROVE  JQNext
  BY <1>3 DEF LaunchFails, Finish, Outcomes
<1>4. ASSUME NEW w \in Workers, Finishing(w)
      PROVE  JQNext
  BY <1>4 DEF Finishing
<1>5. ASSUME NEW w \in Workers, Sigterm(w) \/ Killed(w) \/ Restarted(w)
      PROVE  JQNext
  BY <1>5 DEF Sigterm, Killed, Restarted
<1>6. CASE QueueEnvironment
  BY <1>6 DEF QueueEnvironment
<1>7. ASSUME NEW w \in Workers, Allocate(w) \/ Launch(w) \/ Adopt(w) \/ Release(w)
      PROVE  UNCHANGED jqVars
  BY <1>7 DEF Allocate, Launch, Adopt, Release
<1>8. ASSUME NEW w \in Workers, NEW j \in Jobs, ProcessExits(w, j)
      PROVE  UNCHANGED jqVars
  BY <1>8 DEF ProcessExits
<1>9. CASE NodeEnvironment
  BY <1>9 DEF NodeEnvironment
<1>10. CASE UNCHANGED vars
  BY <1>10 DEF vars
<1> HIDE DEF JQNext, WorkerStep
<1> QED
  BY <1>1, <1>2, <1>3, <1>4, <1>5, <1>6, <1>7, <1>8, <1>9, <1>10 DEF WNext, RunStep

\* Every step of the composition is a step of the resource manager or leaves it
\* alone: a worker asks for the job it holds, and releases only keys that are no
\* allocation ids.
LEMMA AccountsStep ==
  ASSUME JQInv, WTypeOK, [WNext]_vars
  PROVE  [RMNext]_rmVars
<1> USE WorkerAssumption DEF RMNext
<1>1. ASSUME NEW w \in Workers, Allocate(w)
      PROVE  RMNext
  <2>1. hand[w] \in Requests
    BY <1>1, JobQueueAssumption DEF Allocate, JQInv, JQTypeOK, WTypeOK
  <2> QED
    BY <1>1, <2>1 DEF Allocate, Denied
<1>2. ASSUME NEW w \in Workers, Release(w)
      PROVE  RMNext
  BY <1>2 DEF Release
<1>3. ASSUME NEW w \in Workers, Sigterm(w) \/ Killed(w)
      PROVE  RMNext
  BY <1>3 DEF Sigterm, Killed
<1>4. CASE NodeEnvironment
  BY <1>4 DEF NodeEnvironment
<1>5. ASSUME NEW w \in Workers,
             \/ Dequeue(w) \/ PutBack(w) \/ Launch(w) \/ LaunchFails(w) \/ Adopt(w)
             \/ Finish(w) \/ Finishing(w) \/ Restarted(w)
      PROVE  UNCHANGED rmVars
  BY <1>5 DEF Dequeue, PutBack, Launch, LaunchFails, Adopt, Finish, Finishing, Restarted
<1>6. ASSUME NEW w \in Workers, NEW j \in Jobs, ProcessExits(w, j)
      PROVE  UNCHANGED rmVars
  BY <1>6 DEF ProcessExits
<1>7. CASE QueueEnvironment
  BY <1>7 DEF QueueEnvironment
<1>8. CASE UNCHANGED vars
  BY <1>8 DEF vars
<1> HIDE DEF RMNext
<1> QED
  BY <1>1, <1>2, <1>3, <1>4, <1>5, <1>6, <1>7, <1>8 DEF WNext, RunStep

\* Where run() is tells whether the worker holds a job.
LEMMA HandAtSite ==
  ASSUME WInv, NEW w \in Workers
  PROVE  /\ site[w] \in {"allocate", "requeue", "launch", "launched", "train", "finish"} =>
              hand[w] \in Jobs
         /\ site[w] \in {"release", "dead"} => hand[w] = NoJob
<1>1. pc[w] \in WorkerPcs /\ hand[w] \in Jobs \cup {NoJob}
  BY DEF WInv, JQInv, JQTypeOK
<1>2. hand[w] = NoJob <=> pc[w] \in {"poll", "dead"}
  BY DEF WInv, JQInv, JQTypeOK
<1> QED
  BY <1>1, <1>2 DEF WInv, WTypeOK, WorkerPcs

\* The place of run() goes along with the calls it makes.
LEMMA SiteStep ==
  ASSUME WInv, [WNext]_vars
  PROVE  WTypeOK'
<1> USE JobQueueAssumption, ResourceAssumption, WorkerAssumption
    DEF WInv, JQInv, JQTypeOK, RMTypeOK, WTypeOK, Sites,
        jqVars, redisVars, workerVars, apiVars, rmVars, callVars, runVars
<1>1. ASSUME NEW w \in Workers, site[w] = "poll", Pop(w),
             UNCHANGED <<site, rmVars, alive, launches>>
      PROVE  WTypeOK'
  BY <1>1 DEF Pop, Remove, Lowest, Goto
<1>2. ASSUME NEW w \in Workers, site[w] = "poll", PopEmpty(w),
             UNCHANGED <<site, rmVars, alive, launches>>
      PROVE  WTypeOK'
  BY <1>2 DEF PopEmpty
<1>3. ASSUME NEW w \in Workers, site[w] = "poll", GetPopped(w),
             UNCHANGED <<site, rmVars, alive, launches>>
      PROVE  WTypeOK'
  BY <1>3 DEF GetPopped, Goto
<1>4. ASSUME NEW w \in Workers, site[w] = "poll", MarkRunning(w),
             UNCHANGED <<site, rmVars, alive, launches>>
      PROVE  WTypeOK'
  BY <1>4 DEF MarkRunning, SetStatus, Goto
<1>5. ASSUME NEW w \in Workers, site[w] = "poll", Claim(w), To(w, "allocate"),
             UNCHANGED <<rmVars, alive, launches>>
      PROVE  WTypeOK'
  BY <1>5 DEF Claim, Goto, To
<1>6. ASSUME NEW w \in Workers, site[w] = "allocate", UNCHANGED <<jqVars, alive, launches>>,
             ListKeys(w, hand[w]), UNCHANGED site
      PROVE  WTypeOK'
  BY <1>6 DEF ListKeys, Ask, RMGoto, At
<1>7. ASSUME NEW w \in Workers, site[w] = "allocate", UNCHANGED <<jqVars, alive, launches>>,
             NEW n \in Nodes, ReadNode(w, n) \/ LuaRefuse(w, n), UNCHANGED site
      PROVE  WTypeOK'
  BY <1>7 DEF ReadNode, LuaRefuse, At
<1>8. ASSUME NEW w \in Workers, site[w] = "allocate", UNCHANGED <<jqVars, alive, launches>>,
             NEW n \in Nodes, NEW a \in AllocIds, LuaAllocate(w, n, a), To(w, "launch")
      PROVE  WTypeOK'
  BY <1>8 DEF LuaAllocate, RMGoto, At, To
<1>9. ASSUME NEW w \in Workers, site[w] = "allocate", UNCHANGED <<jqVars, alive, launches>>,
             NoResources(w), To(w, "requeue")
      PROVE  WTypeOK'
  BY <1>9 DEF NoResources, RMGoto, At, To
<1>10. ASSUME NEW w \in Workers, PutBack(w)
      PROVE  WTypeOK'
  BY <1>10 DEF PutBack, Requeue, Enqueue, SetStatus, Zadd, Goto, To
<1>11. ASSUME NEW w \in Workers, Launch(w)
      PROVE  WTypeOK'
  <2>1. hand[w] \in Jobs
    BY ONLY WInv, <1>11, HandAtSite DEF Launch
  <2>2. launches' = [launches EXCEPT ![hand[w]] = @ + 1] /\ launches' \in [Jobs -> Nat]
    BY <1>11, <2>1 DEF Launch
  <2> QED
    BY <1>11, <2>1, <2>2 DEF Launch, To
<1>12. ASSUME NEW w \in Workers, LaunchFails(w)
      PROVE  WTypeOK'
  BY <1>12 DEF LaunchFails, Complete, Goto, To
<1>13. ASSUME NEW w \in Workers, Adopt(w)
      PROVE  WTypeOK'
  BY <1>13 DEF Adopt, To
<1>14. ASSUME NEW w \in Workers, Finish(w)
      PROVE  WTypeOK'
  BY <1>14 DEF Finish, Complete, Goto, To
<1>15. ASSUME NEW w \in Workers, site[w] = "finish", WriteOutcome(w),
             UNCHANGED <<site, rmVars, alive, launches>>
      PROVE  WTypeOK'
  BY <1>15 DEF WriteOutcome, SetStatus, Goto
<1>16. ASSUME NEW w \in Workers, site[w] = "finish", ClearRunning(w), To(w, "release"),
             UNCHANGED <<rmVars, alive, launches>>
      PROVE  WTypeOK'
  BY <1>16 DEF ClearRunning, Goto, To
<1>17. ASSUME NEW w \in Workers, Release(w)
      PROVE  WTypeOK'
  <2>1. rmPc' = rmPc
    BY <1>17 DEF Release, ReleaseGet
  <2>2. site[w] = "release" /\ To(w, "poll") /\ UNCHANGED <<jqVars, alive, launches>>
    BY <1>17 DEF Release
  <2> QED
    BY <2>1, <2>2 DEF To
<1>18. ASSUME NEW w \in Workers, Sigterm(w) \/ Killed(w)
      PROVE  WTypeOK'
  <2>1. /\ pc' = [pc EXCEPT ![w] = "dead"] /\ rmPc' = [rmPc EXCEPT ![w] = "idle"]
        /\ site' = [site EXCEPT ![w] = "dead"] /\ launches' = launches
    BY <1>18 DEF Sigterm, Killed, Crash, Goto, CallerCrash, RMGoto, To
  <2>2. alive' \in SUBSET (Workers \X Jobs)
    BY <1>18 DEF Sigterm, Killed
  <2> QED
    BY <2>1, <2>2
<1>19. ASSUME NEW w \in Workers, Restarted(w)
      PROVE  WTypeOK'
  BY <1>19 DEF Restarted, Restart, Goto, To
<1>20. ASSUME NEW w \in Workers, NEW j \in Jobs, ProcessExits(w, j)
      PROVE  WTypeOK'
  BY <1>20 DEF ProcessExits
<1>21. ASSUME NEW j \in Jobs, Submit(j), UNCHANGED <<rmVars, runVars>>
      PROVE  WTypeOK'
  BY <1>21 DEF Submit, Enqueue, SetStatus, Zadd
<1>22. ASSUME NEW j \in Jobs, RecordExpires(j), UNCHANGED <<rmVars, runVars>>
      PROVE  WTypeOK'
  BY <1>22 DEF RecordExpires, SetStatus
<1>23. ASSUME NEW c \in Apis, UNCHANGED <<rmVars, runVars>>, CancelStep(c) \/ ApiCrash(c)
      PROVE  WTypeOK'
  BY <1>23 DEF CancelStep, CancelZrem, CancelGet, CancelSet, Remove,
      SetStatus, EndRequest, ApiCrash
<1>24. ASSUME NEW c \in Apis, NEW j \in Jobs, CancelBegin(c, j), UNCHANGED <<rmVars, runVars>>
      PROVE  WTypeOK'
  BY <1>24 DEF CancelBegin
<1>25. ASSUME NEW w \in Workers, RunningExpires(w), UNCHANGED <<rmVars, runVars>>
      PROVE  WTypeOK'
  BY <1>25 DEF RunningExpires
<1>26. ASSUME NEW n \in Nodes, RegisterNode(n) \/ NodeExpires(n), UNCHANGED <<jqVars, runVars>>
      PROVE  WTypeOK'
  BY <1>26 DEF RegisterNode, NodeExpires
<1>27. ASSUME NEW a \in AllocIds, AllocExpires(a), UNCHANGED <<jqVars, runVars>>
      PROVE  WTypeOK'
  BY <1>27 DEF AllocExpires
<1>28. ASSUME UNCHANGED vars
      PROVE  WTypeOK'
  BY <1>28 DEF vars
<1> QED
  BY <1>1, <1>2, <1>3, <1>4, <1>5, <1>6, <1>7, <1>8, <1>9, <1>10, <1>11,
     <1>12, <1>13, <1>14, <1>15, <1>16, <1>17, <1>18, <1>19, <1>20, <1>21,
     <1>22, <1>23, <1>24, <1>25, <1>26, <1>27, <1>28 DEF WNext, RunStep,
     Dequeue, Allocate, Denied, Finishing, QueueEnvironment, NodeEnvironment

\* Where run() may go while it keeps its job.
Moves(l) ==
  CASE l = "poll" -> {"poll", "allocate"}
    [] l = "allocate" -> {"allocate", "requeue", "launch"}
    [] l = "launch" -> {"launch", "launched", "finish"}
    [] l = "launched" -> {"launched", "train"}
    [] l = "train" -> {"train", "finish"}
    [] OTHER -> {l}

\* What a step may do to job j: a worker keeps it or pops it from the queue, and
\* it comes to a queue from an API server or from a worker without resources.
Passes(j) ==
  /\ submitted \subseteq submitted'
  /\ \A w \in Workers : hand'[w] = j =>
       \/ HeldBy(w, j) /\ site'[w] \in Moves(site[w])
       \/ InQueue(j) /\ site'[w] = "poll"
  /\ InQueue(j)' => \/ InQueue(j)
                   \/ j \notin submitted
                   \/ \E w \in Workers : HeldBy(w, j) /\ site[w] = "requeue"

\* Every step passes a job on as Passes says.
LEMMA PassStep ==
  ASSUME WInv, [WNext]_vars, NEW i \in Jobs
  PROVE  Passes(i)
<1> USE JobQueueAssumption, ResourceAssumption, WorkerAssumption
    DEF WInv, JQInv, JQTypeOK, OnePlace, WTypeOK, Passes, Moves, InQueue, HeldBy,
        jqVars, redisVars, workerVars, apiVars, rmVars, callVars, runVars
<1>1. ASSUME UNCHANGED <<submitted, queue, hand, site>>
      PROVE  Passes(i)
  BY <1>1
<1>2. ASSUME NEW w \in Workers, Dequeue(w)
      PROVE  Passes(i)
  <2>1. CASE site[w] = "poll" /\ Pop(w) /\ UNCHANGED site
    BY <2>1 DEF Pop, Remove, Lowest
  <2>2. CASE site[w] = "poll" /\ GetPopped(w) /\ UNCHANGED site
    BY <2>2 DEF GetPopped
  <2>3. CASE (PopEmpty(w) \/ MarkRunning(w)) /\ UNCHANGED site
    BY <2>3, <1>1 DEF PopEmpty, MarkRunning
  <2>4. CASE site[w] = "poll" /\ Claim(w) /\ To(w, "allocate")
    BY <2>4 DEF Claim, To
  <2> QED
    BY <1>2, <2>1, <2>2, <2>3, <2>4 DEF Dequeue
<1>3. ASSUME NEW w \in Workers, Allocate(w)
      PROVE  Passes(i)
  <2>1. /\ site[w] = "allocate" /\ UNCHANGED jqVars
        /\ UNCHANGED site \/ To(w, "launch") \/ To(w, "requeue")
    BY <1>3 DEF Allocate, Denied
  <2> QED
    BY <2>1 DEF To
<1>4. ASSUME NEW w \in Workers, PutBack(w)
      PROVE  Passes(i)
  BY <1>4 DEF PutBack, Requeue, Enqueue, Zadd, To
<1>5. ASSUME NEW w \in Workers, Launch(w) \/ LaunchFails(w) \/ Adopt(w) \/ Finish(w)
      PROVE  Passes(i)
  BY <1>5 DEF Launch, LaunchFails, Adopt, Finish, Complete, To
<1>6. ASSUME NEW w \in Workers, Finishing(w)
      PROVE  Passes(i)
  BY <1>6 DEF Finishing, WriteOutcome, ClearRunning, To
<1>7. ASSUME NEW w \in Workers, Release(w)
      PROVE  Passes(i)
  <2>1. hand[w] = NoJob
    BY ONLY WInv, <1>7, HandAtSite DEF Release
  <2> QED
    BY <1>7, <2>1 DEF Release, To
<1>8. ASSUME NEW w \in Workers, Sigterm(w) \/ Killed(w) \/ Restarted(w)
      PROVE  Passes(i)
  <2>1. /\ UNCHANGED <<submitted, queue>>
        /\ \A v \in Workers \ {w} : hand'[v] = hand[v] /\ site'[v] = site[v]
        /\ hand'[w] = NoJob
    BY <1>8 DEF Sigterm, Killed, Restarted, Crash, Restart, To
  <2> QED
    BY <2>1
<1>9. ASSUME NEW j \in Jobs, Submit(j), UNCHANGED site
      PROVE  Passes(i)
  BY <1>9 DEF Submit, Enqueue, Zadd
<1>10. ASSUME NEW c \in Apis, CancelStep(c), UNCHANGED site
       PROVE  Passes(i)
  <2>1. CASE CancelZrem(c)
    <3>1. queue' = [queue EXCEPT ![apiKey[c]] = @ \ {apiJob[c]}]
      BY <2>1 DEF CancelZrem, Remove
    <3>2. \A k \in QueueKeys : queue'[k] \subseteq queue[k]
      BY <3>1
    <3>3. UNCHANGED <<submitted, hand, site>>
      BY <1>10, <2>1 DEF CancelZrem
    <3> QED
      BY <3>2, <3>3
  <2>2. CASE CancelGet(c) \/ CancelSet(c)
    BY <1>10, <2>2, <1>1 DEF CancelGet, CancelSet
  <2> QED
    BY <1>10, <2>1, <2>2 DEF CancelStep
<1>11. CASE QueueEnvironment
  <2>1. ASSUME NEW j \in Jobs, RecordExpires(j), UNCHANGED site
        PROVE  Passes(i)
    BY <2>1, <1>1 DEF RecordExpires
  <2>2. ASSUME NEW c \in Apis, ApiCrash(c) \/ (\E j \in Jobs : CancelBegin(c, j)), UNCHANGED site
        PROVE  Passes(i)
    BY <2>2, <1>1 DEF ApiCrash, CancelBegin
  <2>3. ASSUME NEW w \in Workers, RunningExpires(w), UNCHANGED site
        PROVE  Passes(i)
    BY <2>3, <1>1 DEF RunningExpires
  <2> HIDE DEF Passes
  <2> QED
    BY <1>11, <1>9, <1>10, <2>1, <2>2, <2>3 DEF QueueEnvironment
<1>12. CASE NodeEnvironment \/ UNCHANGED vars
  BY <1>12, <1>1 DEF NodeEnvironment, vars
<1>13. ASSUME NEW w \in Workers, NEW j \in Jobs, ProcessExits(w, j)
       PROVE  Passes(i)
  BY <1>13, <1>1 DEF ProcessExits
<1> HIDE DEF Passes
<1> QED
  BY <1>2, <1>3, <1>4, <1>5, <1>6, <1>7, <1>8, <1>11, <1>12, <1>13 DEF WNext, RunStep

\* A job that is beyond the queue stays beyond it while run() goes on.
LEMMA BeyondStep ==
  ASSUME WInv, [WNext]_vars, NEW i \in Jobs, NEW S, "requeue" \notin S,
         \A l \in S : Moves(l) \subseteq S,
         Beyond(i, S)
  PROVE  Beyond(i, S)'
BY PassStep DEF Passes, Beyond, HeldBy

\* The places of run() that are left only towards its end.
LEMMA BeyondPlaces ==
  /\ \A l \in {"launched", "train", "finish"} : Moves(l) \subseteq {"launched", "train", "finish"}
  /\ \A l \in {"launch", "launched", "train", "finish"} :
       Moves(l) \subseteq {"launch", "launched", "train", "finish"}
BY DEF Moves

\* Only Launch starts a process, and counts it.
LEMMA ProcessStep ==
  ASSUME [WNext]_vars
  PROVE  \/ alive' \subseteq alive /\ UNCHANGED launches
         \/ \E w \in Workers : Launch(w)
BY DEF WNext, RunStep, Dequeue, Allocate, Denied, PutBack, LaunchFails, Adopt, Finish, Finishing, Release,
       ProcessExits, Sigterm, Killed, Restarted, QueueEnvironment, NodeEnvironment, runVars, vars

\* Only the allocation script, called for the job in hand, adds an allocation.
LEMMA AllocationStep ==
  ASSUME WInv, [WNext]_vars
  PROVE  \/ \A j \in Jobs : Allocations(j)' \subseteq Allocations(j)
         \/ \E w \in Workers, n \in Nodes, a \in AllocIds :
              /\ site[w] = "allocate" /\ UNCHANGED jqVars
              /\ LuaAllocate(w, n, a) /\ To(w, "launch")
<1>1. ASSUME UNCHANGED alloc
      PROVE  \A j \in Jobs : Allocations(j)' \subseteq Allocations(j)
  BY <1>1 DEF Allocations
<1>2. ASSUME NEW w \in Workers, Allocate(w)
      PROVE  \/ UNCHANGED alloc
             \/ \E n \in Nodes, a \in AllocIds :
                  /\ site[w] = "allocate" /\ UNCHANGED jqVars
                  /\ LuaAllocate(w, n, a) /\ To(w, "launch")
  BY <1>2 DEF Allocate, Denied, ListKeys, ReadNode, LuaRefuse, NoResources
<1>3. ASSUME NEW a \in AllocIds, AllocExpires(a)
      PROVE  \A j \in Jobs : Allocations(j)' \subseteq Allocations(j)
  BY <1>3 DEF AllocExpires, Allocations, WInv, RMTypeOK
<1>4. ASSUME NEW w \in Workers,
             \/ Dequeue(w) \/ PutBack(w) \/ Launch(w) \/ LaunchFails(w) \/ Adopt(w) \/ Finish(w)
             \/ Finishing(w) \/ Release(w) \/ Sigterm(w) \/ Killed(w) \/ Restarted(w)
             \/ \E j \in Jobs : ProcessExits(w, j)
      PROVE  UNCHANGED alloc
  BY <1>4 DEF Dequeue, PutBack, Launch, LaunchFails, Adopt, Finish, Finishing, Release, ReleaseGet,
              Sigterm, Killed, Restarted, CallerCrash, ProcessExits, rmVars
<1>5. CASE NodeEnvironment
  BY <1>5, <1>1, <1>3 DEF NodeEnvironment, RegisterNode, NodeExpires
<1>6. CASE QueueEnvironment \/ UNCHANGED vars
  BY <1>6, <1>1 DEF QueueEnvironment, vars, rmVars
<1> QED
  BY <1>1, <1>2, <1>4, <1>5, <1>6 DEF WNext, RunStep

\* Only complete() stores an outcome.
LEMMA OutcomeWritten ==
  ASSUME WInv, [WNext]_vars, NEW j \in Jobs, jobs'[j] \in Outcomes
  PROVE  jobs[j] \in Outcomes \/ \E w \in Workers : HeldBy(w, j) /\ site[w] = "finish"
<1> USE DEF WInv, JQInv, JQTypeOK, Outcomes, NoRecord, Status
<1>1. ASSUME NEW w \in Workers, WriteOutcome(w)
      PROVE  jobs[j] \in Outcomes \/ (HeldBy(w, j) /\ site[w] = "finish")
  BY <1>1 DEF WriteOutcome, SetStatus, HeldBy, WTypeOK
<1>2. ASSUME NEW i \in Jobs, Submit(i) \/ RecordExpires(i)
      PROVE  jobs[j] \in Outcomes
  BY <1>2 DEF Submit, RecordExpires, Enqueue, SetStatus
<1>3. ASSUME NEW c \in Apis, CancelStep(c) \/ ApiCrash(c) \/ \E i \in Jobs : CancelBegin(c, i)
      PROVE  jobs[j] \in Outcomes
  BY <1>3 DEF CancelStep, CancelZrem, CancelGet, CancelSet, ApiCrash, CancelBegin, SetStatus,
              redisVars
<1>4. ASSUME NEW w \in Workers, MarkRunning(w) \/ Requeue(w)
      PROVE  jobs[j] \in Outcomes
  BY <1>4 DEF MarkRunning, Requeue, Enqueue, SetStatus
<1>5. ASSUME NEW w \in Workers,
             \/ Pop(w) \/ PopEmpty(w) \/ GetPopped(w) \/ Claim(w) \/ ClearRunning(w)
             \/ \E s \in Outcomes : Complete(w, s)
             \/ Crash(w) \/ Restart(w) \/ RunningExpires(w)
      PROVE  jobs[j] \in Outcomes
  BY <1>5 DEF Pop, PopEmpty, GetPopped, Claim, ClearRunning, Complete, Crash, Restart,
              RunningExpires, redisVars
<1>6. CASE UNCHANGED jqVars
  BY <1>6 DEF jqVars, redisVars
<1> QED
  BY <1>1, <1>2, <1>3, <1>4, <1>5, <1>6, QueueStep DEF JQNext, WorkerStep

\* A worker begins to complete a job when its process has ended or never was.
LEMMA FinishBegins ==
  ASSUME WInv, [WNext]_vars, NEW w \in Workers, site'[w] = "finish"
  PROVE  site[w] \in {"finish", "launch"} \/ <<w, hand[w]>> \notin alive
BY DEF WInv, WTypeOK, WNext, RunStep, Dequeue, Allocate, Denied, PutBack, Launch, LaunchFails, Adopt,
       Exited, Finish, Finishing, Release, ProcessExits, Sigterm, Killed, Restarted, To,
       QueueEnvironment, NodeEnvironment, runVars, vars

\* torchrun is started for a job in hand that was never started, so never twice.
LEMMA LaunchedOnceStep ==
  ASSUME WInv, [WNext]_vars
  PROVE  LaunchedOnce' /\ ProcessOfHolder'
<1>1. ASSUME alive' \subseteq alive, UNCHANGED launches
      PROVE  LaunchedOnce' /\ ProcessOfHolder'
  <2>1. ASSUME NEW j \in Jobs, launches[j] = 1
        PROVE  Beyond(j, {"launched", "train", "finish"})'
    <3>1. Beyond(j, {"launched", "train", "finish"})
      BY <2>1 DEF WInv, LaunchedOnce
    <3> QED
      BY <3>1, BeyondStep, BeyondPlaces
  <2>2. LaunchedOnce'
    BY <1>1, <2>1 DEF WInv, LaunchedOnce
  <2>3. ASSUME NEW w \in Workers, NEW j \in Jobs, <<w, j>> \in alive',
               NEW v \in Workers, HeldBy(v, j)'
        PROVE  v = w /\ site'[w] # "finish"
    <3>1. <<w, j>> \in alive /\ launches[j] = 1
      BY <1>1, <2>3 DEF WInv, ProcessOfHolder
    <3>2. Beyond(j, {"launched", "train", "finish"})
      BY <3>1 DEF WInv, LaunchedOnce
    <3>3. HeldBy(v, j)
      BY <2>3, <3>2, PassStep DEF Passes, Beyond, HeldBy
    <3>4. v = w /\ site[w] \in {"launched", "train"}
      BY <3>1, <3>2, <3>3 DEF WInv, ProcessOfHolder, Beyond
    <3> QED
      BY <3>1, <3>3, <3>4, FinishBegins DEF HeldBy
  <2>4. ProcessOfHolder'
    BY <1>1, <2>3 DEF WInv, ProcessOfHolder
  <2> QED
    BY <2>2, <2>4
<1>2. ASSUME NEW w \in Workers, Launch(w)
      PROVE  LaunchedOnce' /\ ProcessOfHolder'
  <2>0. PICK j \in Jobs : j = hand[w]
    BY <1>2, HandAtSite DEF Launch
  <2>1. /\ site[w] = "launch" /\ UNCHANGED <<queue, submitted, hand>>
        /\ alive' = alive \cup {<<w, j>>}
        /\ launches' = [launches EXCEPT ![j] = @ + 1]
        /\ site' = [site EXCEPT ![w] = "launched"]
    BY <1>2, <2>0 DEF Launch, To, jqVars, redisVars, workerVars
  <2>2. launches[j] = 0
    BY <2>0, <2>1 DEF WInv, WTypeOK, LaunchedOnce, Beyond, HeldBy
  <2>3. launches'[j] = 1 /\ \A i \in Jobs \ {j} : launches'[i] = launches[i]
    BY <2>1, <2>2 DEF WInv, WTypeOK
  <2>4. j \in submitted /\ ~InQueue(j) /\ \A v \in Workers : HeldBy(v, j) => v = w
    BY <2>0, JobQueueAssumption DEF WInv, JQInv, OnePlace, InQueue, HeldBy
  <2>5. Beyond(j, {"launched", "train", "finish"})'
    BY <2>1, <2>4 DEF Beyond, InQueue, HeldBy, WInv, WTypeOK
  <2>6. \A v \in Workers : <<v, j>> \notin alive
    BY <2>2 DEF WInv, ProcessOfHolder
  <2>7. ASSUME NEW i \in Jobs \ {j}
        PROVE  launches'[i] = 1 => Beyond(i, {"launched", "train", "finish"})'
    BY <2>3, BeyondStep, BeyondPlaces DEF WInv, LaunchedOnce
  <2>8. LaunchedOnce'
    <3>1. \A i \in Jobs : launches'[i] <= 1
      BY <2>3 DEF WInv, LaunchedOnce
    <3>2. \A i \in Jobs : launches'[i] = 1 => Beyond(i, {"launched", "train", "finish"})'
      BY <2>5, <2>7
    <3>3. \A i \in Jobs : \A u, v \in Workers :
             <<u, i>> \in alive' /\ <<v, i>> \in alive' => u = v
      BY <2>1, <2>6 DEF WInv, LaunchedOnce
    <3> QED
      BY <3>1, <3>2, <3>3 DEF LaunchedOnce
  <2>9. ASSUME NEW u \in Workers, NEW i \in Jobs, <<u, i>> \in alive'
        PROVE  /\ launches'[i] = 1
               /\ \A v \in Workers : HeldBy(v, i)' => v = u /\ site'[u] # "finish"
    <3>1. CASE i = j
      BY <2>1, <2>3, <2>4, <2>6, <2>9, <3>1 DEF HeldBy, WInv, WTypeOK
    <3>2. CASE i # j
      <4>1. <<u, i>> \in alive
        BY <2>1, <2>9, <3>2
      <4> QED
        BY <2>1, <2>3, <3>2, <4>1 DEF WInv, ProcessOfHolder, HeldBy, WTypeOK
    <3> QED
      BY <3>1, <3>2
  <2> QED
    BY <2>8, <2>9 DEF ProcessOfHolder
<1> QED
  BY <1>1, <1>2, ProcessStep

\* An outcome is stored by the holder of the job, whose process has ended; a
\* job that is launched has no outcome yet.
LEMMA OutcomeAfterExitStep ==
  ASSUME WInv, [WNext]_vars
  PROVE  OutcomeAfterExit'
<1> SUFFICES ASSUME NEW j \in Jobs, jobs'[j] \in Outcomes,
                    NEW w \in Workers, <<w, j>> \in alive'
             PROVE  FALSE
  BY DEF OutcomeAfterExit
<1>1. CASE <<w, j>> \in alive
  <2>1. jobs[j] \notin Outcomes
    BY <1>1 DEF WInv, OutcomeAfterExit
  <2>2. PICK v \in Workers : HeldBy(v, j) /\ site[v] = "finish"
    BY <2>1, OutcomeWritten
  <2> QED
    BY <1>1, <2>2 DEF WInv, ProcessOfHolder
<1>2. CASE <<w, j>> \notin alive
  <2>1. PICK v \in Workers : Launch(v)
    BY <1>2, ProcessStep
  <2>2. j = hand[v] /\ site[v] = "launch" /\ jobs[j] \in Outcomes
    BY <1>2, <2>1 DEF Launch, jqVars, redisVars
  <2>3. pc[v] = "clear"
    BY <2>2 DEF WInv, JQInv, OutcomeIsLast, HeldBy
  <2> QED
    BY <2>2, <2>3 DEF WInv, WTypeOK
<1> QED
  BY <1>1, <1>2

\* allocate() is called for a job in hand that has no allocation.
LEMMA AllocatedOnceStep ==
  ASSUME WInv, [WNext]_vars
  PROVE  AllocatedOnce' /\ AllocatedIsBeyond'
<1> DEFINE S == {"launch", "launched", "train", "finish"}
<1>0. \A j \in Jobs : Allocations(j) # {} => Beyond(j, S)'
  BY BeyondStep, BeyondPlaces DEF WInv, AllocatedIsBeyond
<1>1. ASSUME \A j \in Jobs : Allocations(j)' \subseteq Allocations(j)
      PROVE  AllocatedOnce' /\ AllocatedIsBeyond'
  BY <1>0, <1>1 DEF WInv, AllocatedOnce, AllocatedIsBeyond
<1>2. ASSUME NEW w \in Workers, NEW n \in Nodes, NEW a \in AllocIds,
             site[w] = "allocate", UNCHANGED jqVars, LuaAllocate(w, n, a), To(w, "launch")
      PROVE  AllocatedOnce' /\ AllocatedIsBeyond'
  <2>0. PICK j \in Jobs : j = hand[w]
    BY <1>2, HandAtSite
  <2>1. request[w] = j
    BY <1>2, <2>0 DEF LuaAllocate, At, WInv, CallsForHand
  <2>2. alloc' = [alloc EXCEPT ![a] = [request |-> j, node |-> n]]
    BY <1>2, <2>1 DEF LuaAllocate
  <2>3. \A i \in Jobs \ {j} : Allocations(i)' \subseteq Allocations(i)
    BY <2>2 DEF Allocations, WInv, RMTypeOK
  <2>4. Allocations(j)' \subseteq Allocations(j) \cup {a}
    BY <2>2 DEF Allocations, WInv, RMTypeOK
  <2>5. Allocations(j) = {}
    BY <1>2, <2>0 DEF WInv, AllocatedIsBeyond, Beyond, HeldBy
  <2>6. Beyond(j, S)'
    BY <1>2, <2>0, JobQueueAssumption
    DEF Beyond, InQueue, HeldBy, To, jqVars, redisVars, workerVars, WInv, WTypeOK, JQInv, OnePlace
  <2>7. AllocatedOnce'
    BY <2>3, <2>4, <2>5 DEF WInv, AllocatedOnce
  <2>8. AllocatedIsBeyond'
    BY <1>0, <2>3, <2>6 DEF AllocatedIsBeyond
  <2> QED
    BY <2>7, <2>8
<1> QED
  BY <1>1, <1>2, AllocationStep

\* While allocate() runs the worker keeps its job, and no release() finds a record.
LEMMA CallsForHandStep ==
  ASSUME WInv, [WNext]_vars
  PROVE  CallsForHand'
<1> USE WorkerAssumption, ResourceAssumption
        DEF WInv, CallsForHand, RMTypeOK, WTypeOK, At, RMGoto, rmVars, callVars, jqVars, workerVars
<1>1. ASSUME UNCHANGED <<rmPc, request>>,
             \A v \in Workers : rmPc[v] = "list" => hand'[v] = hand[v]
      PROVE  CallsForHand'
  BY <1>1
<1>2. ASSUME NEW w \in Workers, Dequeue(w) \/ PutBack(w) \/ Finishing(w)
      PROVE  CallsForHand'
  <2>1. \A v \in Workers : rmPc[v] = "list" => v # w
    BY <1>2 DEF Dequeue, PutBack, Finishing
  <2>2. \A v \in Workers \ {w} : hand'[v] = hand[v]
    BY <1>2 DEF Dequeue, PutBack, Finishing, Pop, PopEmpty, GetPopped, MarkRunning, Claim, Requeue,
                WriteOutcome, ClearRunning, JQInv, JQTypeOK
  <2>3. UNCHANGED <<rmPc, request>>
    BY <1>2 DEF Dequeue, PutBack, Finishing
  <2> QED
    BY <1>1, <2>1, <2>2, <2>3
<1>3. ASSUME NEW w \in Workers, Allocate(w)
      PROVE  CallsForHand'
  BY <1>3 DEF Allocate, ListKeys, Ask, ReadNode, LuaRefuse, LuaAllocate, Denied, NoResources
<1>4. ASSUME NEW w \in Workers,
             \/ Launch(w) \/ LaunchFails(w) \/ Adopt(w) \/ Finish(w)
             \/ \E j \in Jobs : ProcessExits(w, j)
      PROVE  CallsForHand'
  BY <1>4, <1>1 DEF Launch, LaunchFails, Adopt, Finish, Complete, ProcessExits
<1>5. ASSUME NEW w \in Workers, Release(w)
      PROVE  CallsForHand'
  <2>1. UNCHANGED <<rmPc, request, hand>>
    BY <1>5 DEF Release, ReleaseGet
  <2> QED
    BY <2>1, <1>1
<1>6. ASSUME NEW w \in Workers, Sigterm(w) \/ Killed(w)
      PROVE  CallsForHand'
  <2>1. /\ rmPc' = [rmPc EXCEPT ![w] = "idle"]
        /\ \A v \in Workers \ {w} : request'[v] = request[v] /\ hand'[v] = hand[v]
    BY <1>6 DEF Sigterm, Killed, CallerCrash, Crash, JQInv, JQTypeOK
  <2> QED
    BY <2>1
<1>7. ASSUME NEW w \in Workers, Restarted(w)
      PROVE  CallsForHand'
  BY <1>7, <1>1 DEF Restarted, Restart
<1>8. CASE QueueEnvironment
  <2>1. UNCHANGED <<rmPc, request, hand>>
    BY <1>8 DEF QueueEnvironment, Submit, RecordExpires, CancelStep, CancelZrem, CancelGet, CancelSet,
                ApiCrash, CancelBegin, RunningExpires
  <2> QED
    BY <2>1, <1>1
<1>9. CASE NodeEnvironment \/ UNCHANGED vars
  <2>1. UNCHANGED <<rmPc, request, hand>>
    BY <1>9 DEF NodeEnvironment, RegisterNode, NodeExpires, AllocExpires, vars
  <2> QED
    BY <2>1, <1>1
<1> HIDE DEF CallsForHand
<1> QED
  BY <1>2, <1>3, <1>4, <1>5, <1>6, <1>7, <1>8, <1>9 DEF WNext, RunStep

-----------------------------------------------------------------------------
(* Resources before training, while no record expires *)

\* An allocation has an id that was drawn.
DrawnIds == \A a \in AllocIds : alloc[a] # None => a \in issued

\* The job that is about to be launched has its resources.
BookedToLaunch == \A w \in Workers : site[w] = "launch" => Allocations(hand[w]) # {}

\* Without expiries no allocation goes away: release() asks for another key.
LEMMA BookingsStay ==
  ASSUME Unsteady = {}, WInv, DrawnIds, [WNext]_vars
  PROVE  DrawnIds' /\ \A j \in Jobs : Allocations(j) \subseteq Allocations(j)'
<1>1. ASSUME UNCHANGED <<alloc, issued>>
      PROVE  DrawnIds' /\ \A j \in Jobs : Allocations(j) \subseteq Allocations(j)'
  BY <1>1 DEF Allocations, DrawnIds
<1>2. ASSUME NEW w \in Workers, NEW n \in Nodes, NEW a \in AllocIds, LuaAllocate(w, n, a)
      PROVE  DrawnIds' /\ \A j \in Jobs : Allocations(j) \subseteq Allocations(j)'
  <2>1. /\ alloc[a] = None
        /\ \A b \in AllocIds \ {a} : alloc'[b] = alloc[b]
        /\ issued' = issued \cup {a}
    BY <1>2 DEF LuaAllocate, FreshId, DrawnIds, WInv, RMTypeOK
  <2> QED
    BY <2>1 DEF Allocations, DrawnIds
<1>3. ASSUME NEW w \in Workers, Allocate(w)
      PROVE  UNCHANGED <<alloc, issued>> \/ \E n \in Nodes, a \in AllocIds : LuaAllocate(w, n, a)
  BY <1>3 DEF Allocate, Denied, ListKeys, ReadNode, LuaRefuse, NoResources
<1>4. ASSUME NEW w \in Workers,
             \/ Dequeue(w) \/ PutBack(w) \/ Launch(w) \/ LaunchFails(w) \/ Adopt(w) \/ Finish(w)
             \/ Finishing(w) \/ Release(w) \/ Sigterm(w) \/ Killed(w) \/ Restarted(w)
             \/ \E j \in Jobs : ProcessExits(w, j)
      PROVE  UNCHANGED <<alloc, issued>>
  BY <1>4 DEF Dequeue, PutBack, Launch, LaunchFails, Adopt, Finish, Finishing, Release, ReleaseGet,
              Sigterm, Killed, Restarted, CallerCrash, ProcessExits, rmVars
<1>5. CASE NodeEnvironment
  BY <1>5, <1>1 DEF NodeEnvironment, RegisterNode, NodeExpires, AllocExpires
<1>6. CASE QueueEnvironment \/ UNCHANGED vars
  BY <1>6, <1>1 DEF QueueEnvironment, vars, rmVars
<1> QED
  BY <1>1, <1>2, <1>3, <1>4, <1>5, <1>6 DEF WNext, RunStep

\* run() comes to the launch from an allocation for the job in hand, and stays there
\* with that job.
LEMMA LaunchAfterAllocate ==
  ASSUME WInv, [WNext]_vars, NEW w \in Workers, site'[w] = "launch"
  PROVE  /\ hand'[w] = hand[w]
         /\ \/ site[w] = "launch"
            \/ \E n \in Nodes, a \in AllocIds : LuaAllocate(w, n, a)
<1> DEFINE Goal == /\ hand'[w] = hand[w]
                   /\ \/ site[w] = "launch"
                      \/ \E n \in Nodes, a \in AllocIds : LuaAllocate(w, n, a)
<1> USE DEF To
<1>0. site \in [Workers -> Sites] /\ hand \in [Workers -> Jobs \cup {NoJob}]
  BY DEF WInv, WTypeOK, JQInv, JQTypeOK
<1>1. ASSUME NEW v \in Workers, Allocate(v) PROVE Goal
  <2>1. hand' = hand
    BY <1>1 DEF Allocate, jqVars, workerVars
  <2>2. CASE v = w
    BY <1>0, <1>1, <2>1, <2>2 DEF Allocate, Denied
  <2>3. CASE v # w
    BY <1>0, <1>1, <2>1, <2>3 DEF Allocate, Denied
  <2> QED
    BY <2>2, <2>3
<1>2. ASSUME NEW v \in Workers, Dequeue(v) \/ PutBack(v) \/ Finishing(v) PROVE Goal
  <2>1. v # w => hand'[w] = hand[w]
    BY <1>0, <1>2 DEF Dequeue, PutBack, Finishing, Pop, PopEmpty, GetPopped, MarkRunning, Claim,
                      Requeue, WriteOutcome, ClearRunning
  <2>2. v # w /\ site'[w] = site[w]
    BY <1>0, <1>2 DEF Dequeue, PutBack, Finishing
  <2> QED
    BY <2>1, <2>2
<1>3. ASSUME NEW v \in Workers, Launch(v) \/ LaunchFails(v) \/ Adopt(v) \/ Finish(v) \/ Release(v)
      PROVE  Goal
  <2>1. hand' = hand
    BY <1>3 DEF Launch, LaunchFails, Adopt, Finish, Release, Complete, jqVars, workerVars
  <2>2. v # w /\ site'[w] = site[w]
    BY <1>0, <1>3 DEF Launch, LaunchFails, Adopt, Finish, Release
  <2> QED
    BY <2>1, <2>2
<1>4. ASSUME NEW v \in Workers, Sigterm(v) \/ Killed(v) \/ Restarted(v) PROVE Goal
  <2>1. v # w /\ site'[w] = site[w]
    BY <1>0, <1>4 DEF Sigterm, Killed, Restarted
  <2>2. hand'[w] = hand[w]
    BY <1>0, <1>4, <2>1 DEF Sigterm, Killed, Restarted, Crash, Restart
  <2> QED
    BY <2>1, <2>2
<1>5. ASSUME NEW v \in Workers, NEW j \in Jobs, ProcessExits(v, j) PROVE Goal
  BY <1>5 DEF ProcessExits, jqVars, workerVars
<1>6. ASSUME QueueEnvironment PROVE Goal
  <2>1. UNCHANGED hand
    BY <1>6 DEF QueueEnvironment, Submit, RecordExpires, CancelStep, CancelZrem, CancelGet, CancelSet,
                ApiCrash, CancelBegin, RunningExpires, workerVars
  <2> QED
    BY <1>6, <2>1 DEF QueueEnvironment, runVars
<1>7. ASSUME NodeEnvironment \/ UNCHANGED vars PROVE Goal
  BY <1>7 DEF NodeEnvironment, vars, runVars, jqVars, workerVars
<1> HIDE DEF Goal, To
<1>8. ASSUME NEW v \in Workers, RunStep(v) \/ Sigterm(v) \/ Killed(v) \/ Restarted(v) PROVE Goal
  BY <1>1, <1>2, <1>3, <1>4, <1>8 DEF RunStep
<1>9. WNext => Goal
  BY <1>5, <1>6, <1>7, <1>8 DEF WNext
<1>10. Goal
  BY <1>7, <1>9
<1> QED
  BY <1>10 DEF Goal

\* A worker launches only what it has booked.
LEMMA BookedToLaunchStep ==
  ASSUME Unsteady = {}, WInv, DrawnIds, BookedToLaunch, [WNext]_vars
  PROVE  BookedToLaunch'
<1> SUFFICES ASSUME NEW w \in Workers, site'[w] = "launch" PROVE Allocations(hand[w])' # {}
  BY DEF BookedToLaunch
<1>1. hand'[w] = hand[w]
  BY LaunchAfterAllocate
<1>2. CASE site[w] = "launch"
  <2>1. hand[w] \in Jobs /\ Allocations(hand[w]) # {}
    BY <1>2, HandAtSite DEF BookedToLaunch
  <2>2. \A j \in Jobs : Allocations(j) \subseteq Allocations(j)'
    BY BookingsStay
  <2>3. PICK a : a \in Allocations(hand[w])
    BY <2>1
  <2>4. a \in AllocIds /\ alloc'[a] # None /\ alloc'[a].request = hand[w]
    BY <2>1, <2>2, <2>3 DEF Allocations
  <2> QED
    BY <1>1, <2>4 DEF Allocations
<1>3. ASSUME NEW n \in Nodes, NEW a \in AllocIds, LuaAllocate(w, n, a)
      PROVE  Allocations(hand[w])' # {}
  <2>1. request[w] = hand[w] /\ request[w] \in Requests
    BY <1>3, WorkerAssumption DEF LuaAllocate, At, WInv, CallsForHand, RMTypeOK
  <2>2. alloc'[a] = [request |-> hand[w], node |-> n]
    BY <1>3, <2>1 DEF LuaAllocate, WInv, RMTypeOK
  <2>3. alloc'[a] # None /\ alloc'[a].request = hand[w]
    BY <2>1, <2>2, ResourceAssumption DEF Records
  <2> QED
    BY <1>1, <2>3 DEF Allocations
<1> QED
  BY <1>2, <1>3, LaunchAfterAllocate

\* A process is launched with resources and keeps them.
LEMMA TrainsStep ==
  ASSUME Unsteady = {}, WInv, DrawnIds, BookedToLaunch, TrainsWithResources, [WNext]_vars
  PROVE  TrainsWithResources'
<1> SUFFICES ASSUME NEW w \in Workers, NEW j \in Jobs, <<w, j>> \in alive'
             PROVE  Allocations(j)' # {}
  BY DEF TrainsWithResources
<1>1. CASE <<w, j>> \in alive
  BY <1>1, BookingsStay DEF TrainsWithResources
<1>2. CASE <<w, j>> \notin alive
  <2>1. PICK v \in Workers : Launch(v)
    BY <1>2, ProcessStep
  <2>2. v = w /\ hand[w] = j /\ site[w] = "launch"
    BY <1>2, <2>1 DEF Launch
  <2>3. Allocations(j) # {}
    BY <2>2 DEF BookedToLaunch
  <2> QED
    BY <2>3, BookingsStay
<1> QED
  BY <1>1, <1>2

-----------------------------------------------------------------------------
(* The theorems *)

\* Nothing is queued, booked or running.
LEMMA WInit_WInv == WInit => WInv
<1> SUFFICES ASSUME WInit PROVE WInv
  OBVIOUS
<1>1. JQInv
  BY InitInv DEF WInit
<1>2. RMTypeOK
  BY ResourceAssumption DEF WInit, RMInit, RMTypeOK, NothingUsed, Records, At
<1>3. WTypeOK
  BY WorkerAssumption DEF WInit, JQInit, RMInit, WTypeOK, Sites
<1>4. \A j \in Jobs : Allocations(j) = {}
  BY DEF WInit, RMInit, Allocations
<1> QED
  BY <1>1, <1>2, <1>3, <1>4, WorkerAssumption
  DEF WInv, WInit, JQInit, RMInit, LaunchedOnce, AllocatedOnce, OutcomeAfterExit, CallsForHand,
      ProcessOfHolder, AllocatedIsBeyond, Outcomes, NoRecord

\* The queue, the accounts and the worker, step by step.
LEMMA WInvStep == WInv /\ [WNext]_vars => WInv'
<1> SUFFICES ASSUME WInv, [WNext]_vars PROVE WInv'
  OBVIOUS
<1>1. JQInv'
  BY QueueStep, InvStep DEF WInv
<1>2. RMTypeOK'
  BY AccountsStep, RMTypeStep DEF WInv
<1> QED
  BY <1>1, <1>2, SiteStep, LaunchedOnceStep, AllocatedOnceStep, OutcomeAfterExitStep,
     CallsForHandStep
  DEF WInv

\* The queue, the accounts, the loop of run() and the training processes agree, for
\* any number of workers and jobs and whatever crashes, restarts or is cancelled.
THEOREM WInvariance == WSpec => []WInv
BY WInit_WInv, WInvStep, PTL DEF WSpec

\* The places of run() go along with the calls of the queue and the accounts.
THEOREM WorkerTypeCorrect == WSpec => []WTypeOK
BY WInvariance, PTL DEF WInv

\* No job is executed twice: torchrun is started at most once per job, however
\* workers crash and restart and whatever is cancelled, requeued or expires.
THEOREM TorchrunStartedOnce == WSpec => []LaunchedOnce
BY WInvariance, PTL DEF WInv

\* No job is booked twice.
THEOREM OneAllocationPerJob == WSpec => []AllocatedOnce
BY WInvariance, PTL DEF WInv

\* No training process outlives the outcome stored for its job.
THEOREM OutcomeOnlyAfterExit == WSpec => []OutcomeAfterExit
BY WInvariance, PTL DEF WInv

\* While no compute node and no allocation record expires, every training process
\* has resources booked for its job: Popen comes after the allocation, in spite of
\* requeues, crashes and restarts (worker.py:81, worker.py:94).
THEOREM TrainsOnlyWithResources == Unsteady = {} => (WSpec => []TrainsWithResources)
<1> SUFFICES ASSUME Unsteady = {} PROVE WSpec => []TrainsWithResources
  OBVIOUS
<1> DEFINE Inv == DrawnIds /\ BookedToLaunch /\ TrainsWithResources
<1>1. WInit => Inv
  BY DEF WInit, RMInit, DrawnIds, BookedToLaunch, TrainsWithResources
<1>2. WInv /\ Inv /\ [WNext]_vars => Inv'
  BY BookingsStay, BookedToLaunchStep, TrainsStep
<1> QED
  BY <1>1, <1>2, WInvariance, PTL DEF WSpec
=============================================================================
