------------------------------ MODULE JobQueue ------------------------------
(***************************************************************************)
(* The Redis-backed job queue of src/scheduler/job_queue.py, shared by the *)
(* API servers, which submit and cancel jobs, and by the workers, which    *)
(* dequeue, requeue and complete them.                                     *)
(*                                                                         *)
(* Every Redis command (or MULTI pipeline) is one atomic action; a Python  *)
(* method that sends several commands is a sequence of actions of its      *)
(* caller, and any other caller may run in between.  A method of a worker  *)
(* is followed by pc[w], one of an API server by apiPc[c].                 *)
(***************************************************************************)
CONSTANTS Jobs,        \* job identifiers (a uuid4 each)
          Workers,     \* worker processes
          Apis,        \* API-server requests that may run at the same time
          Priority,    \* the priority each job is submitted with
          MayCrash,    \* whether workers and API servers may die
          MayExpire,   \* whether a record may outlive its Redis TTL
          NoJob

QueueKeys == {"high", "normal", "low"}

ASSUME JobQueueAssumption ==
  /\ NoJob \notin Jobs
  /\ Priority \in [Jobs -> QueueKeys]
  /\ MayCrash \in BOOLEAN
  /\ MayExpire \in BOOLEAN
  /\ {"new", "waiting", "over"} \cap Workers = {}   \* see Place below

\* Mutant of NextKey: the loop never reaches the last queue.
NextKeySkipsLow == [high |-> "normal", normal |-> "high", low |-> "high"]

\* QUEUE_KEYS.values() in order; after the last key the loop is over.
FirstKey == "high"
LastKey == "low"
NextKey == [high |-> "normal", normal |-> "low", low |-> "high"]

NoRecord == "no_record"
Outcomes == {"completed", "failed"}
Status == {"queued", "running", "cancelled", NoRecord} \cup Outcomes

WorkerPcs == {"poll", "get", "mark", "claim", "owned", "write", "clear", "dead"}
ApiPcs == {"idle", "zrem", "get", "set"}

VARIABLES
  jobs,       \* jobs:<id>        -> status of the stored record
  queue,      \* queue:<key>      -> members of the sorted set
  ahead,      \* for a queued job, the members of its queue with a lower score
  running,    \* running:<worker> -> job id
  submitted,  \* jobs an API server has created
  pc,         \* the next step of each worker
  scan,       \* the queue key that dequeue() looks at next
  hand,       \* the job that a worker has popped and still holds
  outcome,    \* the status that complete() is about to store, until it has
  apiPc, apiKey, apiJob   \* the cancel() that each API request is in

redisVars == <<jobs, queue, ahead, running>>
workerVars == <<pc, scan, hand, outcome>>
apiVars == <<apiPc, apiKey, apiJob>>
jqVars == <<redisVars, submitted, workerVars, apiVars>>

JQInit ==
  /\ jobs = [j \in Jobs |-> NoRecord]
  /\ queue = [k \in QueueKeys |-> {}]
  /\ ahead = [j \in Jobs |-> {}]
  /\ running = [w \in Workers |-> NoJob]
  /\ submitted = {}
  /\ pc = [w \in Workers |-> "poll"]
  /\ scan = [w \in Workers |-> FirstKey]
  /\ hand = [w \in Workers |-> NoJob]
  /\ outcome = [w \in Workers |-> NoRecord]
  /\ apiPc = [c \in Apis |-> "idle"]
  /\ apiKey = [c \in Apis |-> FirstKey]
  /\ apiJob = [c \in Apis |-> NoJob]

-----------------------------------------------------------------------------
(* Redis commands *)

SetStatus(j, s) == jobs' = [jobs EXCEPT ![j] = s]

\* ZADD with the time in the score: j goes behind all the members of its queue,
\* also when it was one of them.  The score is the client's time.time(), taken
\* before the pipeline (job_queue.py:105): where clocks differ or commits overtake
\* one another j may come before others, and equal scores are ordered by id.  No
\* property depends on the order.
Zadd(j) ==
  LET k == Priority[j] IN
  /\ queue' = [queue EXCEPT ![k] = @ \cup {j}]
  /\ ahead' = [i \in Jobs |-> IF i = j THEN queue[k] \ {j} ELSE ahead[i] \ {j}]

\* Mutant of Remove: the member is read and stays (ZRANGE for ZPOPMIN).
RemoveNothing(k, j) == UNCHANGED <<queue, ahead>>

\* ZREM and ZPOPMIN take j out of a sorted set, if it is a member.
Remove(k, j) ==
  /\ queue' = [queue EXCEPT ![k] = @ \ {j}]
  /\ ahead' = IF j \in queue[k]
              THEN [i \in Jobs |-> IF i = j THEN {} ELSE ahead[i] \ {j}]
              ELSE ahead

\* What ZPOPMIN may return.
Lowest(k) == {j \in queue[k] : ahead[j] = {}}

\* Mutant of Enqueue: one command of the pipeline is missing.
EnqueueWithoutZadd(j) == SetStatus(j, "queued") /\ UNCHANGED <<queue, ahead>>

\* submit(): one MULTI pipeline of SETEX jobs:<id> and ZADD.
Enqueue(j) == SetStatus(j, "queued") /\ Zadd(j)

-----------------------------------------------------------------------------
(* The API servers *)

\* Mutant of Submit: a repeated request keeps its job id.
SubmitAgain(j) ==
  /\ submitted' = submitted \cup {j}
  /\ Enqueue(j)
  /\ UNCHANGED <<running, workerVars, apiVars>>

\* POST /jobs creates a job with a fresh uuid and submits it.
Submit(j) ==
  /\ j \notin submitted
  /\ submitted' = submitted \cup {j}
  /\ Enqueue(j)
  /\ UNCHANGED <<running, workerVars, apiVars>>

\* DELETE /jobs/<id>, whose first call is cancel()'s loop over the queues.
CancelBegin(c, j) ==
  /\ apiPc[c] = "idle"
  /\ j \in submitted
  /\ apiPc' = [apiPc EXCEPT ![c] = "zrem"]
  /\ apiKey' = [apiKey EXCEPT ![c] = FirstKey]
  /\ apiJob' = [apiJob EXCEPT ![c] = j]
  /\ UNCHANGED <<redisVars, submitted, workerVars>>

CancelZrem(c) ==
  /\ apiPc[c] = "zrem"
  /\ Remove(apiKey[c], apiJob[c])
  /\ apiPc' = [apiPc EXCEPT ![c] = IF apiKey[c] = LastKey THEN "get" ELSE "zrem"]
  /\ apiKey' = [apiKey EXCEPT ![c] = NextKey[@]]
  /\ UNCHANGED <<jobs, running, submitted, workerVars, apiJob>>

\* The request handler returns.
EndRequest(c) ==
  /\ apiPc' = [apiPc EXCEPT ![c] = "idle"]
  /\ apiKey' = [apiKey EXCEPT ![c] = FirstKey]
  /\ apiJob' = [apiJob EXCEPT ![c] = NoJob]

\* _update_status(): GET, and return False (HTTP 404) when there is no record.
CancelGet(c) ==
  /\ apiPc[c] = "get"
  /\ \/ /\ jobs[apiJob[c]] = NoRecord
        /\ EndRequest(c)
     \/ /\ jobs[apiJob[c]] # NoRecord
        /\ apiPc' = [apiPc EXCEPT ![c] = "set"]
        /\ UNCHANGED <<apiKey, apiJob>>
  /\ UNCHANGED <<redisVars, submitted, workerVars>>

\* _update_status(): SETEX of the record that was read, with the new status.
CancelSet(c) ==
  /\ apiPc[c] = "set"
  /\ SetStatus(apiJob[c], "cancelled")
  /\ EndRequest(c)
  /\ UNCHANGED <<queue, ahead, running, submitted, workerVars>>

\* The API server dies while it handles the request.
ApiCrash(c) ==
  /\ MayCrash
  /\ apiPc[c] # "idle"
  /\ EndRequest(c)
  /\ UNCHANGED <<redisVars, submitted, workerVars>>

-----------------------------------------------------------------------------
(* The workers *)

Goto(w, l) == pc' = [pc EXCEPT ![w] = l]

\* dequeue(): ZPOPMIN on the next key finds a job.
Pop(w) ==
  /\ pc[w] = "poll"
  /\ \E j \in Lowest(scan[w]) :
       /\ Remove(scan[w], j)
       /\ hand' = [hand EXCEPT ![w] = j]
  /\ Goto(w, "get")
  /\ UNCHANGED <<jobs, running, submitted, scan, outcome, apiVars>>

\* dequeue(): ZPOPMIN finds nothing; after the last key dequeue() returns
\* None and the worker sleeps before it calls dequeue() again.
PopEmpty(w) ==
  /\ pc[w] = "poll"
  /\ queue[scan[w]] = {}
  /\ scan' = [scan EXCEPT ![w] = NextKey[@]]
  /\ UNCHANGED <<redisVars, submitted, pc, hand, outcome, apiVars>>

\* dequeue(): GET of the popped job's record; an id without one is dropped
\* and the loop goes on with the next key.
GetPopped(w) ==
  /\ pc[w] = "get"
  /\ \/ /\ jobs[hand[w]] # NoRecord
        /\ Goto(w, "mark")
        /\ UNCHANGED <<scan, hand>>
     \/ /\ jobs[hand[w]] = NoRecord
        /\ Goto(w, "poll")
        /\ scan' = [scan EXCEPT ![w] = NextKey[@]]
        /\ hand' = [hand EXCEPT ![w] = NoJob]
  /\ UNCHANGED <<redisVars, submitted, outcome, apiVars>>

MarkRunning(w) ==
  /\ pc[w] = "mark"
  /\ SetStatus(hand[w], "running")
  /\ Goto(w, "claim")
  /\ UNCHANGED <<queue, ahead, running, submitted, scan, hand, outcome, apiVars>>

\* dequeue() stores running:<worker> and returns the job.
Claim(w) ==
  /\ pc[w] = "claim"
  /\ running' = [running EXCEPT ![w] = hand[w]]
  /\ Goto(w, "owned")
  /\ scan' = [scan EXCEPT ![w] = FirstKey]
  /\ UNCHANGED <<jobs, queue, ahead, submitted, hand, outcome, apiVars>>

\* Mutant of Requeue: the job goes back to its queue and its record stays.
RequeueKeepsRecord(w) ==
  /\ pc[w] = "owned"
  /\ Zadd(hand[w])
  /\ Goto(w, "poll")
  /\ hand' = [hand EXCEPT ![w] = NoJob]
  /\ UNCHANGED <<jobs, running, submitted, scan, outcome, apiVars>>

\* The worker found no resources for the job and submits it again.
Requeue(w) ==
  /\ pc[w] = "owned"
  /\ Enqueue(hand[w])
  /\ Goto(w, "poll")
  /\ hand' = [hand EXCEPT ![w] = NoJob]
  /\ UNCHANGED <<running, submitted, scan, outcome, apiVars>>

\* complete(): GET of the record.
Complete(w, s) ==
  /\ pc[w] = "owned"
  /\ \/ /\ jobs[hand[w]] # NoRecord
        /\ outcome' = [outcome EXCEPT ![w] = s]
        /\ Goto(w, "write")
     \/ /\ jobs[hand[w]] = NoRecord
        /\ Goto(w, "clear")
        /\ UNCHANGED outcome
  /\ UNCHANGED <<redisVars, submitted, scan, hand, apiVars>>

\* complete(): SETEX of the record that was read, with its outcome.
WriteOutcome(w) ==
  /\ pc[w] = "write"
  /\ SetStatus(hand[w], outcome[w])
  /\ outcome' = [outcome EXCEPT ![w] = NoRecord]
  /\ Goto(w, "clear")
  /\ UNCHANGED <<queue, ahead, running, submitted, scan, hand, apiVars>>

\* complete(): DEL running:<worker>.
ClearRunning(w) ==
  /\ pc[w] = "clear"
  /\ running' = [running EXCEPT ![w] = NoJob]
  /\ hand' = [hand EXCEPT ![w] = NoJob]
  /\ Goto(w, "poll")
  /\ UNCHANGED <<jobs, queue, ahead, submitted, scan, outcome, apiVars>>

\* The worker dies between two commands: by SIGTERM, by SIGKILL or by an
\* exception of the Redis client, which run() does not catch.
Crash(w) ==
  /\ MayCrash
  /\ pc[w] # "dead"
  /\ Goto(w, "dead")
  /\ scan' = [scan EXCEPT ![w] = FirstKey]
  /\ hand' = [hand EXCEPT ![w] = NoJob]
  /\ outcome' = [outcome EXCEPT ![w] = NoRecord]
  /\ UNCHANGED <<redisVars, submitted, apiVars>>

\* The container is started again and run() begins anew.
Restart(w) ==
  /\ pc[w] = "dead"
  /\ Goto(w, "poll")
  /\ UNCHANGED <<redisVars, submitted, scan, hand, outcome, apiVars>>

-----------------------------------------------------------------------------
(* Redis TTLs: untimed, a key with a TTL may vanish at any time. *)

RecordExpires(j) ==
  /\ MayExpire
  /\ jobs[j] # NoRecord
  /\ SetStatus(j, NoRecord)
  /\ UNCHANGED <<queue, ahead, running, submitted, workerVars, apiVars>>

RunningExpires(w) ==
  /\ running[w] # NoJob
  /\ running' = [running EXCEPT ![w] = NoJob]
  /\ UNCHANGED <<jobs, queue, ahead, submitted, workerVars, apiVars>>

-----------------------------------------------------------------------------
WorkerStep(w) ==
  \/ Pop(w) \/ PopEmpty(w) \/ GetPopped(w) \/ MarkRunning(w) \/ Claim(w)
  \/ Requeue(w) \/ (\E s \in Outcomes : Complete(w, s))
  \/ WriteOutcome(w) \/ ClearRunning(w)

CancelStep(c) == CancelZrem(c) \/ CancelGet(c) \/ CancelSet(c)

JQNext ==
  \/ \E j \in Jobs : Submit(j) \/ RecordExpires(j)
  \/ \E c \in Apis : CancelStep(c) \/ ApiCrash(c) \/ \E j \in Jobs : CancelBegin(c, j)
  \/ \E w \in Workers : WorkerStep(w) \/ Crash(w) \/ Restart(w) \/ RunningExpires(w)

JQSpec == JQInit /\ [][JQNext]_jqVars

\* run() and the request handlers loop or return, a worker gives its job back
\* or completes it, and the container runtime restarts a dead worker.  Crashes
\* and TTLs are not fair: they need not happen.
JQFairness ==
  /\ \A w \in Workers :
       /\ WF_jqVars(WorkerStep(w))
       /\ SF_jqVars(\E s \in Outcomes : Complete(w, s))
       /\ WF_jqVars(Restart(w))
  /\ \A c \in Apis : WF_jqVars(CancelStep(c))

JQFairSpec == JQSpec /\ JQFairness

-----------------------------------------------------------------------------
(* What the queue guarantees *)

InQueue(j) == \E k \in QueueKeys : j \in queue[k]
HeldBy(w, j) == hand[w] = j
InHand(j) == \E w \in Workers : HeldBy(w, j)
Cancelling(j) == \E c \in Apis : apiJob[c] = j
Gone(j) == j \in submitted /\ ~InQueue(j) /\ ~InHand(j)

\* Every variable keeps the shape the code gives it; a worker holds a job
\* exactly in the steps between ZPOPMIN and the end of complete().
JQTypeOK ==
  /\ jobs \in [Jobs -> Status]
  /\ queue \in [QueueKeys -> SUBSET Jobs]
  /\ ahead \in [Jobs -> SUBSET Jobs]
  /\ running \in [Workers -> Jobs \cup {NoJob}]
  /\ submitted \in SUBSET Jobs
  /\ pc \in [Workers -> WorkerPcs]
  /\ scan \in [Workers -> QueueKeys]
  /\ hand \in [Workers -> Jobs \cup {NoJob}]
  /\ outcome \in [Workers -> Outcomes \cup {NoRecord}]
  /\ apiPc \in [Apis -> ApiPcs]
  /\ apiKey \in [Apis -> QueueKeys]
  /\ apiJob \in [Apis -> Jobs \cup {NoJob}]
  /\ \A w \in Workers : hand[w] = NoJob <=> pc[w] \in {"poll", "dead"}
  /\ \A w \in Workers : outcome[w] \in Outcomes <=> pc[w] = "write"
  /\ \A c \in Apis : apiJob[c] = NoJob <=> apiPc[c] = "idle"

\* "Workers pop jobs atomically (no double-execution)" (job_queue.py:10): a
\* job is held by at most one worker, and a held job is in no queue, whatever
\* requeues, cancellations and crashes happen around it.
OnePlace ==
  /\ \A w, v \in Workers : hand[w] # NoJob /\ hand[w] = hand[v] => w = v
  /\ \A w \in Workers : \A k \in QueueKeys : hand[w] \notin queue[k]
  /\ \A k \in QueueKeys : \A j \in queue[k] : k = Priority[j] /\ j \in submitted
  /\ \A w \in Workers : hand[w] # NoJob => hand[w] \in submitted

\* A queued job is never shown as running, completed or failed: the status
\* can be that of a cancellation or be gone, since cancel() and the TTL do not
\* know of the requeue of worker.py:89.
QueuedStatus ==
  \A j \in Jobs : InQueue(j) => jobs[j] \in {"queued", "cancelled", NoRecord}

\* complete() is the last thing a worker does with a job: a job with an outcome
\* is in no queue and its worker has only running:<worker> left to delete.
OutcomeIsLast ==
  \A j \in Jobs : jobs[j] \in Outcomes =>
    /\ ~InQueue(j)
    /\ \A w \in Workers : HeldBy(w, j) => pc[w] = "clear"

\* The stored status of a job agrees with where the job is, although no command
\* of job_queue.py changes both and cancel() may come in between.
RecordFitsPlace == QueuedStatus /\ OutcomeIsLast

\* Only a submitted job has a record or can be cancelled.
KnownJobs ==
  /\ \A j \in Jobs \ submitted : jobs[j] = NoRecord
  /\ \A c \in Apis : apiJob[c] # NoJob => apiJob[c] \in submitted

\* The inductive invariant of JobQueue_proofs.
JQInv == JQTypeOK /\ OnePlace /\ KnownJobs /\ QueuedStatus /\ OutcomeIsLast

\* While no process dies, a job whose record says queued or running is in a
\* queue, in the hands of a worker, or being cancelled: none falls between the
\* separate commands of dequeue(), submit() and cancel().
NoLostJob ==
  \A j \in Jobs : jobs[j] \in {"queued", "running"} =>
    InQueue(j) \/ InHand(j) \/ Cancelling(j)

\* A job that is in no queue and in no worker's hands (cancelled while it was
\* queued, finished, dropped or lost) is never queued or executed again.
GoneStaysGone == [][\A j \in Jobs : Gone(j) => Gone(j)']_jqVars

\* The outcome of a job stands: after complete() only a late cancel(), which
\* does not look at the status it replaces, or the TTL changes the record.
OutcomeStands ==
  [][\A j \in Jobs : jobs[j] \in Outcomes =>
       jobs'[j] \in {jobs[j], "cancelled", NoRecord}]_jqVars

\* The queue implements JobLifecycle: the place of a job is the worker that
\* popped it, or the queue, or neither.
Place == [j \in Jobs |->
  IF j \notin submitted THEN "new"
  ELSE IF InQueue(j) THEN "waiting"
  ELSE IF InHand(j) THEN CHOOSE w \in Workers : HeldBy(w, j)
  ELSE "over"]

Lifecycle == INSTANCE JobLifecycle WITH place <- Place

\* Whatever the interleaving of the Redis commands of the workers and the API
\* servers, each step moves at most one job, and only as JobLifecycle allows:
\* a worker that holds a job starts no other, and an ended job stays ended.
ImplementsLifecycle == Lifecycle!Spec

\* "stuck jobs are auto-requeued by the reaper" (job_queue.py:11): a job that
\* is marked running while no worker holds it does not stay so.
StuckJobRequeued ==
  \A j \in Jobs : (jobs[j] = "running" /\ ~InHand(j)) ~> (jobs[j] # "running" \/ InHand(j))
=============================================================================
