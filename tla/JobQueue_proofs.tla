--------------------------- MODULE JobQueue_proofs ---------------------------
(***************************************************************************)
(* The safety of the job queue for any number of jobs, workers and API     *)
(* servers, with crashes and expired keys.  JQInv is inductive: OnePlace   *)
(* needs the types, and what the status of a job says about its place      *)
(* needs OnePlace, since only the holder of a job may write its status.    *)
(***************************************************************************)
EXTENDS JobQueue, TLAPS

\* Every step keeps the shape of the state.
LEMMA TypeStep ==
  ASSUME JQTypeOK, [JQNext]_jqVars
  PROVE  JQTypeOK'
<1> USE JobQueueAssumption DEF JQTypeOK, QueueKeys, Status, Outcomes, NoRecord, WorkerPcs, ApiPcs,
        FirstKey, LastKey, NextKey, jqVars, redisVars, workerVars, apiVars
<1>1. ASSUME NEW j \in Jobs, Submit(j)
      PROVE  JQTypeOK'
  BY <1>1 DEF Submit, Enqueue, SetStatus, Zadd
<1>2. ASSUME NEW j \in Jobs, RecordExpires(j)
      PROVE  JQTypeOK'
  BY <1>2 DEF RecordExpires, SetStatus
<1>3. ASSUME NEW c \in Apis, NEW j \in Jobs, CancelBegin(c, j)
      PROVE  JQTypeOK'
  BY <1>3 DEF CancelBegin
<1>4. ASSUME NEW c \in Apis, CancelZrem(c)
      PROVE  JQTypeOK'
  BY <1>4 DEF CancelZrem, Remove
<1>5. ASSUME NEW c \in Apis, CancelGet(c)
      PROVE  JQTypeOK'
  BY <1>5 DEF CancelGet, EndRequest
<1>6. ASSUME NEW c \in Apis, CancelSet(c)
      PROVE  JQTypeOK'
  BY <1>6 DEF CancelSet, SetStatus, EndRequest
<1>7. ASSUME NEW c \in Apis, ApiCrash(c)
      PROVE  JQTypeOK'
  BY <1>7 DEF ApiCrash, EndRequest
<1>8. ASSUME NEW w \in Workers, Pop(w)
      PROVE  JQTypeOK'
  BY <1>8 DEF Pop, Remove, Lowest, Goto
<1>9. ASSUME NEW w \in Workers, PopEmpty(w)
      PROVE  JQTypeOK'
  BY <1>9 DEF PopEmpty
<1>10. ASSUME NEW w \in Workers, GetPopped(w)
      PROVE  JQTypeOK'
  BY <1>10 DEF GetPopped, Goto
<1>11. ASSUME NEW w \in Workers, MarkRunning(w)
      PROVE  JQTypeOK'
  BY <1>11 DEF MarkRunning, SetStatus, Goto
<1>12. ASSUME NEW w \in Workers, Claim(w)
      PROVE  JQTypeOK'
  BY <1>12 DEF Claim, Goto
<1>13. ASSUME NEW w \in Workers, Requeue(w)
      PROVE  JQTypeOK'
  BY <1>13 DEF Requeue, Enqueue, SetStatus, Zadd, Goto
<1>14. ASSUME NEW w \in Workers, NEW s \in Outcomes, Complete(w, s)
      PROVE  JQTypeOK'
  BY <1>14 DEF Complete, Goto
<1>15. ASSUME NEW w \in Workers, WriteOutcome(w)
      PROVE  JQTypeOK'
  BY <1>15 DEF WriteOutcome, SetStatus, Goto
<1>16. ASSUME NEW w \in Workers, ClearRunning(w)
      PROVE  JQTypeOK'
  BY <1>16 DEF ClearRunning, Goto
<1>17. ASSUME NEW w \in Workers, Crash(w)
      PROVE  JQTypeOK'
  BY <1>17 DEF Crash, Goto
<1>18. ASSUME NEW w \in Workers, Restart(w)
      PROVE  JQTypeOK'
  BY <1>18 DEF Restart, Goto
<1>19. ASSUME NEW w \in Workers, RunningExpires(w)
      PROVE  JQTypeOK'
  BY <1>19 DEF RunningExpires
<1>20. CASE UNCHANGED jqVars
  BY <1>20
<1> QED
  BY <1>1, <1>2, <1>3, <1>4, <1>5, <1>6, <1>7, <1>8, <1>9, <1>10, <1>11,
     <1>12, <1>13, <1>14, <1>15, <1>16, <1>17, <1>18, <1>19, <1>20 DEF
     JQNext, WorkerStep, CancelStep

\* No step puts a job in two places: ZPOPMIN takes a job out of its only
\* queue, and only the worker that holds a job puts it back.
LEMMA OnePlaceStep ==
  ASSUME JQTypeOK, OnePlace, KnownJobs, [JQNext]_jqVars
  PROVE  OnePlace' /\ KnownJobs'
<1> USE JobQueueAssumption DEF JQTypeOK, OnePlace, KnownJobs, QueueKeys, Status, Outcomes, NoRecord, WorkerPcs, ApiPcs,
        FirstKey, LastKey, NextKey, jqVars, redisVars, workerVars, apiVars
<1>1. ASSUME NEW j \in Jobs, Submit(j)
      PROVE  OnePlace' /\ KnownJobs'
  BY <1>1 DEF Submit, Enqueue, SetStatus, Zadd
<1>2. ASSUME NEW j \in Jobs, RecordExpires(j)
      PROVE  OnePlace' /\ KnownJobs'
  BY <1>2 DEF RecordExpires, SetStatus
<1>3. ASSUME NEW c \in Apis, NEW j \in Jobs, CancelBegin(c, j)
      PROVE  OnePlace' /\ KnownJobs'
  BY <1>3 DEF CancelBegin
<1>4. ASSUME NEW c \in Apis, CancelZrem(c)
      PROVE  OnePlace' /\ KnownJobs'
  BY <1>4 DEF CancelZrem, Remove
<1>5. ASSUME NEW c \in Apis, CancelGet(c)
      PROVE  OnePlace' /\ KnownJobs'
  BY <1>5 DEF CancelGet, EndRequest
<1>6. ASSUME NEW c \in Apis, CancelSet(c)
      PROVE  OnePlace' /\ KnownJobs'
  BY <1>6 DEF CancelSet, SetStatus, EndRequest
<1>7. ASSUME NEW c \in Apis, ApiCrash(c)
      PROVE  OnePlace' /\ KnownJobs'
  BY <1>7 DEF ApiCrash, EndRequest
<1>8. ASSUME NEW w \in Workers, Pop(w)
      PROVE  OnePlace' /\ KnownJobs'
  BY <1>8 DEF Pop, Remove, Lowest, Goto
<1>9. ASSUME NEW w \in Workers, PopEmpty(w)
      PROVE  OnePlace' /\ KnownJobs'
  BY <1>9 DEF PopEmpty
<1>10. ASSUME NEW w \in Workers, GetPopped(w)
      PROVE  OnePlace' /\ KnownJobs'
  <2>1. /\ hand' = hand \/ hand' = [hand EXCEPT ![w] = NoJob]
        /\ UNCHANGED <<jobs, queue, submitted, apiJob>>
    BY <1>10 DEF GetPopped
  <2>2. \A v \in Workers : hand'[v] = hand[v] \/ hand'[v] = NoJob
    BY <2>1
  <2> QED
    BY <2>1, <2>2
<1>11. ASSUME NEW w \in Workers, MarkRunning(w)
      PROVE  OnePlace' /\ KnownJobs'
  BY <1>11 DEF MarkRunning, SetStatus, Goto
<1>12. ASSUME NEW w \in Workers, Claim(w)
      PROVE  OnePlace' /\ KnownJobs'
  BY <1>12 DEF Claim, Goto
<1>13. ASSUME NEW w \in Workers, Requeue(w)
      PROVE  OnePlace' /\ KnownJobs'
  BY <1>13 DEF Requeue, Enqueue, SetStatus, Zadd, Goto
<1>14. ASSUME NEW w \in Workers, NEW s \in Outcomes, Complete(w, s)
      PROVE  OnePlace' /\ KnownJobs'
  BY <1>14 DEF Complete, Goto
<1>15. ASSUME NEW w \in Workers, WriteOutcome(w)
      PROVE  OnePlace' /\ KnownJobs'
  BY <1>15 DEF WriteOutcome, SetStatus, Goto
<1>16. ASSUME NEW w \in Workers, ClearRunning(w)
      PROVE  OnePlace' /\ KnownJobs'
  BY <1>16 DEF ClearRunning, Goto
<1>17. ASSUME NEW w \in Workers, Crash(w)
      PROVE  OnePlace' /\ KnownJobs'
  BY <1>17 DEF Crash, Goto
<1>18. ASSUME NEW w \in Workers, Restart(w)
      PROVE  OnePlace' /\ KnownJobs'
  BY <1>18 DEF Restart, Goto
<1>19. ASSUME NEW w \in Workers, RunningExpires(w)
      PROVE  OnePlace' /\ KnownJobs'
  BY <1>19 DEF RunningExpires
<1>20. CASE UNCHANGED jqVars
  BY <1>20
<1> QED
  BY <1>1, <1>2, <1>3, <1>4, <1>5, <1>6, <1>7, <1>8, <1>9, <1>10, <1>11,
     <1>12, <1>13, <1>14, <1>15, <1>16, <1>17, <1>18, <1>19, <1>20 DEF
     JQNext, WorkerStep, CancelStep

\* The status of a job in a queue, or with an outcome, follows its place: who
\* writes "running" or an outcome holds the job.
LEMMA StatusStep ==
  ASSUME JQTypeOK, OnePlace, QueuedStatus, OutcomeIsLast, [JQNext]_jqVars
  PROVE  QueuedStatus' /\ OutcomeIsLast'
<1> USE JobQueueAssumption DEF JQTypeOK, OnePlace, QueuedStatus, OutcomeIsLast,
        InQueue, HeldBy, QueueKeys, Status, Outcomes, NoRecord, WorkerPcs, ApiPcs,
        FirstKey, LastKey, NextKey, jqVars, redisVars, workerVars, apiVars
<1>1. ASSUME NEW j \in Jobs, Submit(j)
      PROVE  QueuedStatus' /\ OutcomeIsLast'
  BY <1>1 DEF Submit, Enqueue, SetStatus, Zadd
<1>2. ASSUME NEW j \in Jobs, RecordExpires(j)
      PROVE  QueuedStatus' /\ OutcomeIsLast'
  BY <1>2 DEF RecordExpires, SetStatus
<1>3. ASSUME NEW c \in Apis, NEW j \in Jobs, CancelBegin(c, j)
      PROVE  QueuedStatus' /\ OutcomeIsLast'
  BY <1>3 DEF CancelBegin
<1>4. ASSUME NEW c \in Apis, CancelZrem(c)
      PROVE  QueuedStatus' /\ OutcomeIsLast'
  BY <1>4 DEF CancelZrem, Remove
<1>5. ASSUME NEW c \in Apis, CancelGet(c)
      PROVE  QueuedStatus' /\ OutcomeIsLast'
  BY <1>5 DEF CancelGet, EndRequest
<1>6. ASSUME NEW c \in Apis, CancelSet(c)
      PROVE  QueuedStatus' /\ OutcomeIsLast'
  BY <1>6 DEF CancelSet, SetStatus, EndRequest
<1>7. ASSUME NEW c \in Apis, ApiCrash(c)
      PROVE  QueuedStatus' /\ OutcomeIsLast'
  BY <1>7 DEF ApiCrash, EndRequest
<1>8. ASSUME NEW w \in Workers, Pop(w)
      PROVE  QueuedStatus' /\ OutcomeIsLast'
  BY <1>8 DEF Pop, Remove, Lowest, Goto
<1>9. ASSUME NEW w \in Workers, PopEmpty(w)
      PROVE  QueuedStatus' /\ OutcomeIsLast'
  BY <1>9 DEF PopEmpty
<1>10. ASSUME NEW w \in Workers, GetPopped(w)
      PROVE  QueuedStatus' /\ OutcomeIsLast'
  BY <1>10 DEF GetPopped, Goto
<1>11. ASSUME NEW w \in Workers, MarkRunning(w)
      PROVE  QueuedStatus' /\ OutcomeIsLast'
  BY <1>11 DEF MarkRunning, SetStatus, Goto
<1>12. ASSUME NEW w \in Workers, Claim(w)
      PROVE  QueuedStatus' /\ OutcomeIsLast'
  BY <1>12 DEF Claim, Goto
<1>13. ASSUME NEW w \in Workers, Requeue(w)
      PROVE  QueuedStatus' /\ OutcomeIsLast'
  BY <1>13 DEF Requeue, Enqueue, SetStatus, Zadd, Goto
<1>14. ASSUME NEW w \in Workers, NEW s \in Outcomes, Complete(w, s)
      PROVE  QueuedStatus' /\ OutcomeIsLast'
  BY <1>14 DEF Complete, Goto
<1>15. ASSUME NEW w \in Workers, WriteOutcome(w)
      PROVE  QueuedStatus' /\ OutcomeIsLast'
  BY <1>15 DEF WriteOutcome, SetStatus, Goto
<1>16. ASSUME NEW w \in Workers, ClearRunning(w)
      PROVE  QueuedStatus' /\ OutcomeIsLast'
  BY <1>16 DEF ClearRunning, Goto
<1>17. ASSUME NEW w \in Workers, Crash(w)
      PROVE  QueuedStatus' /\ OutcomeIsLast'
  BY <1>17 DEF Crash, Goto
<1>18. ASSUME NEW w \in Workers, Restart(w)
      PROVE  QueuedStatus' /\ OutcomeIsLast'
  BY <1>18 DEF Restart, Goto
<1>19. ASSUME NEW w \in Workers, RunningExpires(w)
      PROVE  QueuedStatus' /\ OutcomeIsLast'
  BY <1>19 DEF RunningExpires
<1>20. CASE UNCHANGED jqVars
  BY <1>20
<1> QED
  BY <1>1, <1>2, <1>3, <1>4, <1>5, <1>6, <1>7, <1>8, <1>9, <1>10, <1>11,
     <1>12, <1>13, <1>14, <1>15, <1>16, <1>17, <1>18, <1>19, <1>20 DEF
     JQNext, WorkerStep, CancelStep

\* While a worker deletes running:<worker>, the job it has completed or dropped
\* is neither queued nor running.
ClearedJobEnded ==
  \A w \in Workers : pc[w] = "clear" => jobs[hand[w]] \notin {"queued", "running"}

\* While no process dies, a command that takes a job from its place leaves it in
\* the hands of its process, and who lets go of it has ended it.
LEMMA PlaceKnownStep ==
  ASSUME ~MayCrash, JQTypeOK, OnePlace, KnownJobs, NoLostJob, ClearedJobEnded, [JQNext]_jqVars
  PROVE  NoLostJob' /\ ClearedJobEnded'
<1> USE JobQueueAssumption DEF JQTypeOK, OnePlace, KnownJobs, NoLostJob, ClearedJobEnded,
        InQueue, InHand, HeldBy, Cancelling, QueueKeys, Status, Outcomes, NoRecord, WorkerPcs, ApiPcs,
        FirstKey, LastKey, NextKey, jqVars, redisVars, workerVars, apiVars
<1>1. ASSUME NEW j \in Jobs, Submit(j)
      PROVE  NoLostJob' /\ ClearedJobEnded'
  BY <1>1 DEF Submit, Enqueue, SetStatus, Zadd
<1>2. ASSUME NEW j \in Jobs, RecordExpires(j)
      PROVE  NoLostJob' /\ ClearedJobEnded'
  BY <1>2 DEF RecordExpires, SetStatus
<1>3. ASSUME NEW c \in Apis, NEW j \in Jobs, CancelBegin(c, j)
      PROVE  NoLostJob' /\ ClearedJobEnded'
  BY <1>3 DEF CancelBegin
<1>4. ASSUME NEW c \in Apis, CancelZrem(c)
      PROVE  NoLostJob' /\ ClearedJobEnded'
  BY <1>4 DEF CancelZrem, Remove
<1>5. ASSUME NEW c \in Apis, CancelGet(c)
      PROVE  NoLostJob' /\ ClearedJobEnded'
  BY <1>5 DEF CancelGet, EndRequest
<1>6. ASSUME NEW c \in Apis, CancelSet(c)
      PROVE  NoLostJob' /\ ClearedJobEnded'
  BY <1>6 DEF CancelSet, SetStatus, EndRequest
<1>7. ASSUME NEW c \in Apis, ApiCrash(c)
      PROVE  NoLostJob' /\ ClearedJobEnded'
  BY <1>7 DEF ApiCrash, EndRequest
<1>8. ASSUME NEW w \in Workers, Pop(w)
      PROVE  NoLostJob' /\ ClearedJobEnded'
  BY <1>8 DEF Pop, Remove, Lowest, Goto
<1>9. ASSUME NEW w \in Workers, PopEmpty(w)
      PROVE  NoLostJob' /\ ClearedJobEnded'
  BY <1>9 DEF PopEmpty
<1>10. ASSUME NEW w \in Workers, GetPopped(w)
      PROVE  NoLostJob' /\ ClearedJobEnded'
  <2>1. CASE jobs[hand[w]] # NoRecord
    BY <1>10, <2>1 DEF GetPopped, Goto
  <2>2. CASE jobs[hand[w]] = NoRecord
    BY <1>10, <2>2 DEF GetPopped, Goto
  <2> QED
    BY <2>1, <2>2
<1>11. ASSUME NEW w \in Workers, MarkRunning(w)
      PROVE  NoLostJob' /\ ClearedJobEnded'
  BY <1>11 DEF MarkRunning, SetStatus, Goto
<1>12. ASSUME NEW w \in Workers, Claim(w)
      PROVE  NoLostJob' /\ ClearedJobEnded'
  BY <1>12 DEF Claim, Goto
<1>13. ASSUME NEW w \in Workers, Requeue(w)
      PROVE  NoLostJob' /\ ClearedJobEnded'
  <2>0. PICK i \in Jobs : i = hand[w]
    BY <1>13 DEF Requeue
  <2>1. /\ i # NoJob /\ i \in submitted /\ pc[w] = "owned" /\ Priority[i] \in QueueKeys
        /\ queue' = [queue EXCEPT ![Priority[i]] = @ \cup {i}]
        /\ jobs' = [jobs EXCEPT ![i] = "queued"]
        /\ pc' = [pc EXCEPT ![w] = "poll"]
        /\ hand' = [hand EXCEPT ![w] = NoJob]
        /\ UNCHANGED apiJob
    BY <1>13, <2>0 DEF Requeue, Enqueue, SetStatus, Zadd, Goto
  <2>2. \A v \in Workers : hand[v] = i => v = w
    BY <2>0, <2>1
  <2>3. InQueue(i)'
    BY <2>1
  <2>4. ASSUME NEW j \in Jobs, j # i, InQueue(j) PROVE InQueue(j)'
    BY <2>1, <2>4
  <2>5. ASSUME NEW j \in Jobs, j # i, InHand(j) PROVE InHand(j)'
    BY <2>0, <2>1, <2>5
  <2> QED
    BY <2>1, <2>2, <2>3, <2>4, <2>5
<1>14. ASSUME NEW w \in Workers, NEW s \in Outcomes, Complete(w, s)
      PROVE  NoLostJob' /\ ClearedJobEnded'
  BY <1>14 DEF Complete, Goto
<1>15. ASSUME NEW w \in Workers, WriteOutcome(w)
      PROVE  NoLostJob' /\ ClearedJobEnded'
  BY <1>15 DEF WriteOutcome, SetStatus, Goto
<1>16. ASSUME NEW w \in Workers, ClearRunning(w)
      PROVE  NoLostJob' /\ ClearedJobEnded'
  BY <1>16 DEF ClearRunning, Goto
<1>17. ASSUME NEW w \in Workers, Crash(w)
      PROVE  NoLostJob' /\ ClearedJobEnded'
  BY <1>17 DEF Crash, Goto
<1>18. ASSUME NEW w \in Workers, Restart(w)
      PROVE  NoLostJob' /\ ClearedJobEnded'
  BY <1>18 DEF Restart, Goto
<1>19. ASSUME NEW w \in Workers, RunningExpires(w)
      PROVE  NoLostJob' /\ ClearedJobEnded'
  BY <1>19 DEF RunningExpires
<1>20. CASE UNCHANGED jqVars
  BY <1>20
<1> QED
  BY <1>1, <1>2, <1>3, <1>4, <1>5, <1>6, <1>7, <1>8, <1>9, <1>10, <1>11,
     <1>12, <1>13, <1>14, <1>15, <1>16, <1>17, <1>18, <1>19, <1>20 DEF
     JQNext, WorkerStep, CancelStep

\* A job that is nowhere is in nobody's power to bring back.
LEMMA GoneStep ==
  ASSUME JQInv, NEW i \in Jobs, Gone(i), [JQNext]_jqVars
  PROVE  Gone(i)'
<1> USE JobQueueAssumption DEF JQInv, JQTypeOK, OnePlace, Gone, InQueue, InHand, HeldBy,
        QueueKeys, Status, Outcomes, NoRecord, WorkerPcs, ApiPcs,
        FirstKey, LastKey, NextKey, jqVars, redisVars, workerVars, apiVars
<1>1. ASSUME NEW j \in Jobs, Submit(j)
      PROVE  Gone(i)'
  BY <1>1 DEF Submit, Enqueue, SetStatus, Zadd
<1>2. ASSUME NEW j \in Jobs, RecordExpires(j)
      PROVE  Gone(i)'
  BY <1>2 DEF RecordExpires, SetStatus
<1>3. ASSUME NEW c \in Apis, NEW j \in Jobs, CancelBegin(c, j)
      PROVE  Gone(i)'
  BY <1>3 DEF CancelBegin
<1>4. ASSUME NEW c \in Apis, CancelZrem(c)
      PROVE  Gone(i)'
  BY <1>4 DEF CancelZrem, Remove
<1>5. ASSUME NEW c \in Apis, CancelGet(c)
      PROVE  Gone(i)'
  BY <1>5 DEF CancelGet, EndRequest
<1>6. ASSUME NEW c \in Apis, CancelSet(c)
      PROVE  Gone(i)'
  BY <1>6 DEF CancelSet, SetStatus, EndRequest
<1>7. ASSUME NEW c \in Apis, ApiCrash(c)
      PROVE  Gone(i)'
  BY <1>7 DEF ApiCrash, EndRequest
<1>8. ASSUME NEW w \in Workers, Pop(w)
      PROVE  Gone(i)'
  BY <1>8 DEF Pop, Remove, Lowest, Goto
<1>9. ASSUME NEW w \in Workers, PopEmpty(w)
      PROVE  Gone(i)'
  BY <1>9 DEF PopEmpty
<1>10. ASSUME NEW w \in Workers, GetPopped(w)
      PROVE  Gone(i)'
  BY <1>10 DEF GetPopped, Goto
<1>11. ASSUME NEW w \in Workers, MarkRunning(w)
      PROVE  Gone(i)'
  BY <1>11 DEF MarkRunning, SetStatus, Goto
<1>12. ASSUME NEW w \in Workers, Claim(w)
      PROVE  Gone(i)'
  BY <1>12 DEF Claim, Goto
<1>13. ASSUME NEW w \in Workers, Requeue(w)
      PROVE  Gone(i)'
  BY <1>13 DEF Requeue, Enqueue, SetStatus, Zadd, Goto
<1>14. ASSUME NEW w \in Workers, NEW s \in Outcomes, Complete(w, s)
      PROVE  Gone(i)'
  BY <1>14 DEF Complete, Goto
<1>15. ASSUME NEW w \in Workers, WriteOutcome(w)
      PROVE  Gone(i)'
  BY <1>15 DEF WriteOutcome, SetStatus, Goto
<1>16. ASSUME NEW w \in Workers, ClearRunning(w)
      PROVE  Gone(i)'
  BY <1>16 DEF ClearRunning, Goto
<1>17. ASSUME NEW w \in Workers, Crash(w)
      PROVE  Gone(i)'
  BY <1>17 DEF Crash, Goto
<1>18. ASSUME NEW w \in Workers, Restart(w)
      PROVE  Gone(i)'
  BY <1>18 DEF Restart, Goto
<1>19. ASSUME NEW w \in Workers, RunningExpires(w)
      PROVE  Gone(i)'
  BY <1>19 DEF RunningExpires
<1>20. CASE UNCHANGED jqVars
  BY <1>20
<1> QED
  BY <1>1, <1>2, <1>3, <1>4, <1>5, <1>6, <1>7, <1>8, <1>9, <1>10, <1>11,
     <1>12, <1>13, <1>14, <1>15, <1>16, <1>17, <1>18, <1>19, <1>20 DEF
     JQNext, WorkerStep, CancelStep

\* No worker writes the record of a job that has an outcome.
LEMMA OutcomeStep ==
  ASSUME JQInv, NEW i \in Jobs, jobs[i] \in Outcomes, [JQNext]_jqVars
  PROVE  jobs'[i] \in {jobs[i], "cancelled", NoRecord}
<1> USE JobQueueAssumption DEF JQInv, JQTypeOK, OnePlace, KnownJobs, OutcomeIsLast, InQueue, HeldBy,
        QueueKeys, Status, Outcomes, NoRecord, WorkerPcs, ApiPcs,
        FirstKey, LastKey, NextKey, jqVars, redisVars, workerVars, apiVars
<1>1. ASSUME NEW j \in Jobs, Submit(j)
      PROVE  jobs'[i] \in {jobs[i], "cancelled", NoRecord}
  BY <1>1 DEF Submit, Enqueue, SetStatus, Zadd
<1>2. ASSUME NEW j \in Jobs, RecordExpires(j)
      PROVE  jobs'[i] \in {jobs[i], "cancelled", NoRecord}
  BY <1>2 DEF RecordExpires, SetStatus
<1>3. ASSUME NEW c \in Apis, NEW j \in Jobs, CancelBegin(c, j)
      PROVE  jobs'[i] \in {jobs[i], "cancelled", NoRecord}
  BY <1>3 DEF CancelBegin
<1>4. ASSUME NEW c \in Apis, CancelZrem(c)
      PROVE  jobs'[i] \in {jobs[i], "cancelled", NoRecord}
  BY <1>4 DEF CancelZrem, Remove
<1>5. ASSUME NEW c \in Apis, CancelGet(c)
      PROVE  jobs'[i] \in {jobs[i], "cancelled", NoRecord}
  BY <1>5 DEF CancelGet, EndRequest
<1>6. ASSUME NEW c \in Apis, CancelSet(c)
      PROVE  jobs'[i] \in {jobs[i], "cancelled", NoRecord}
  BY <1>6 DEF CancelSet, SetStatus, EndRequest
<1>7. ASSUME NEW c \in Apis, ApiCrash(c)
      PROVE  jobs'[i] \in {jobs[i], "cancelled", NoRecord}
  BY <1>7 DEF ApiCrash, EndRequest
<1>8. ASSUME NEW w \in Workers, Pop(w)
      PROVE  jobs'[i] \in {jobs[i], "cancelled", NoRecord}
  BY <1>8 DEF Pop, Remove, Lowest, Goto
<1>9. ASSUME NEW w \in Workers, PopEmpty(w)
      PROVE  jobs'[i] \in {jobs[i], "cancelled", NoRecord}
  BY <1>9 DEF PopEmpty
<1>10. ASSUME NEW w \in Workers, GetPopped(w)
      PROVE  jobs'[i] \in {jobs[i], "cancelled", NoRecord}
  BY <1>10 DEF GetPopped, Goto
<1>11. ASSUME NEW w \in Workers, MarkRunning(w)
      PROVE  jobs'[i] \in {jobs[i], "cancelled", NoRecord}
  BY <1>11 DEF MarkRunning, SetStatus, Goto
<1>12. ASSUME NEW w \in Workers, Claim(w)
      PROVE  jobs'[i] \in {jobs[i], "cancelled", NoRecord}
  BY <1>12 DEF Claim, Goto
<1>13. ASSUME NEW w \in Workers, Requeue(w)
      PROVE  jobs'[i] \in {jobs[i], "cancelled", NoRecord}
  BY <1>13 DEF Requeue, Enqueue, SetStatus, Zadd, Goto
<1>14. ASSUME NEW w \in Workers, NEW s \in Outcomes, Complete(w, s)
      PROVE  jobs'[i] \in {jobs[i], "cancelled", NoRecord}
  BY <1>14 DEF Complete, Goto
<1>15. ASSUME NEW w \in Workers, WriteOutcome(w)
      PROVE  jobs'[i] \in {jobs[i], "cancelled", NoRecord}
  BY <1>15 DEF WriteOutcome, SetStatus, Goto
<1>16. ASSUME NEW w \in Workers, ClearRunning(w)
      PROVE  jobs'[i] \in {jobs[i], "cancelled", NoRecord}
  BY <1>16 DEF ClearRunning, Goto
<1>17. ASSUME NEW w \in Workers, Crash(w)
      PROVE  jobs'[i] \in {jobs[i], "cancelled", NoRecord}
  BY <1>17 DEF Crash, Goto
<1>18. ASSUME NEW w \in Workers, Restart(w)
      PROVE  jobs'[i] \in {jobs[i], "cancelled", NoRecord}
  BY <1>18 DEF Restart, Goto
<1>19. ASSUME NEW w \in Workers, RunningExpires(w)
      PROVE  jobs'[i] \in {jobs[i], "cancelled", NoRecord}
  BY <1>19 DEF RunningExpires
<1>20. CASE UNCHANGED jqVars
  BY <1>20
<1> QED
  BY <1>1, <1>2, <1>3, <1>4, <1>5, <1>6, <1>7, <1>8, <1>9, <1>10, <1>11,
     <1>12, <1>13, <1>14, <1>15, <1>16, <1>17, <1>18, <1>19, <1>20 DEF
     JQNext, WorkerStep, CancelStep

-----------------------------------------------------------------------------
(* The invariant *)

\* Before anything is submitted no job is anywhere.
LEMMA InitInv == JQInit => JQInv
BY JobQueueAssumption
DEF JQInit, JQInv, JQTypeOK, OnePlace, KnownJobs, QueuedStatus, OutcomeIsLast, InQueue,
    HeldBy, QueueKeys, Status, Outcomes, NoRecord, WorkerPcs, ApiPcs, FirstKey

\* The three parts of the invariant rest on each other.
LEMMA InvStep == JQInv /\ [JQNext]_jqVars => JQInv'
BY TypeStep, OnePlaceStep, StatusStep DEF JQInv

\* Every state of the specification satisfies the invariant.
LEMMA Invariance == JQSpec => []JQInv
BY InitInv, InvStep, PTL DEF JQSpec

\* The state keeps its shape, and a worker holds a job exactly in the steps
\* between the ZPOPMIN of dequeue() and the end of complete().
THEOREM QueueTypeCorrect == JQSpec => []JQTypeOK
BY Invariance, PTL DEF JQInv

\* No double execution (job_queue.py:10): at any time a job is in one queue,
\* with one worker, or nowhere.
THEOREM NoDoubleExecution == JQSpec => []OnePlace
BY Invariance, PTL DEF JQInv

\* What the stored status of a job says about the queues and the workers.
THEOREM StatusFollowsPlace == JQSpec => []RecordFitsPlace
<1>1. JQInv => RecordFitsPlace
  BY DEF JQInv, RecordFitsPlace
<1> QED
  BY <1>1, Invariance, PTL

\* While no process dies, dequeue(), submit() and cancel() lose no job between
\* their commands: a job shown as queued or running is somewhere.  A worker that
\* leaves a job in complete() has made its record say that it ended.
THEOREM NoJobFallsBetween == ~MayCrash => (JQSpec => []NoLostJob)
<1> SUFFICES ASSUME ~MayCrash PROVE JQSpec => []NoLostJob
  OBVIOUS
<1>1. JQInit => NoLostJob /\ ClearedJobEnded
  BY DEF JQInit, NoLostJob, ClearedJobEnded, NoRecord
<1>2. NoLostJob /\ ClearedJobEnded /\ JQInv /\ [JQNext]_jqVars => NoLostJob' /\ ClearedJobEnded'
  BY PlaceKnownStep DEF JQInv
<1> QED
  BY <1>1, <1>2, Invariance, PTL DEF JQSpec

\* A job that left the queue and its worker never comes back.
THEOREM EndedJobNeverRuns == JQSpec => GoneStaysGone
<1>1. JQInv /\ [JQNext]_jqVars => [\A j \in Jobs : Gone(j) => Gone(j)']_jqVars
  BY GoneStep
<1> QED
  BY <1>1, Invariance, PTL DEF JQSpec, GoneStaysGone

\* The outcome that complete() stored is replaced by a late cancel() at most.
THEOREM OutcomeIsFinal == JQSpec => OutcomeStands
<1>1. JQInv /\ [JQNext]_jqVars =>
        [\A j \in Jobs : jobs[j] \in Outcomes =>
           jobs'[j] \in {jobs[j], "cancelled", NoRecord}]_jqVars
  BY OutcomeStep
<1> QED
  BY <1>1, Invariance, PTL DEF JQSpec, OutcomeStands

-----------------------------------------------------------------------------
(* Refinement of JobLifecycle *)

\* Under the invariant the three cases of Place exclude one another.
LEMMA PlaceIs ==
  ASSUME JQInv, NEW j \in Jobs
  PROVE  /\ j \notin submitted => Place[j] = "new"
         /\ InQueue(j) => Place[j] = "waiting"
         /\ \A w \in Workers : HeldBy(w, j) => Place[j] = w
         /\ Gone(j) => Place[j] = "over"
BY JobQueueAssumption
DEF JQInv, JQTypeOK, OnePlace, Place, InQueue, InHand, HeldBy, Gone

\* The same in the next state.
LEMMA PlaceIsNext ==
  ASSUME JQInv', NEW j \in Jobs
  PROVE  /\ j \notin submitted' => Place'[j] = "new"
         /\ InQueue(j)' => Place'[j] = "waiting"
         /\ \A w \in Workers : HeldBy(w, j)' => Place'[j] = w
         /\ Gone(j)' => Place'[j] = "over"
BY JobQueueAssumption
DEF JQInv, JQTypeOK, OnePlace, Place, InQueue, InHand, HeldBy, Gone

\* A step that touches one job i moves only i.
LEMMA MoveOne ==
  ASSUME JQInv, JQInv', NEW i \in Jobs, NEW to,
         Place'[i] = to,
         \A j \in Jobs \ {i} :
           /\ j \in submitted' <=> j \in submitted
           /\ \A k \in QueueKeys : j \in queue'[k] <=> j \in queue[k]
           /\ \A w \in Workers : hand'[w] = j <=> hand[w] = j
  PROVE  Place' = [Place EXCEPT ![i] = to]
<1>1. ASSUME NEW j \in Jobs \ {i}
      PROVE  Place'[j] = Place[j]
  <2>1. CASE j \notin submitted
    BY <2>1, PlaceIs, PlaceIsNext
  <2>2. CASE InQueue(j)
    BY <2>2, PlaceIs, PlaceIsNext DEF InQueue
  <2>3. CASE InHand(j)
    BY <2>3, PlaceIs, PlaceIsNext DEF InHand, HeldBy
  <2>4. CASE Gone(j)
    BY <2>4, PlaceIs, PlaceIsNext DEF Gone, InHand, InQueue, HeldBy
  <2> QED
    BY <2>1, <2>2, <2>3, <2>4 DEF Gone
<1>2. Place = [j \in Jobs |-> Place[j]] /\ Place' = [j \in Jobs |-> Place'[j]]
  BY DEF Place
<1> QED
  BY <1>1, <1>2

\* Every step of the queue is a step of JobLifecycle or leaves it alone.
LEMMA LifecycleStep ==
  ASSUME JQInv, JQInv', [JQNext]_jqVars
  PROVE  [Lifecycle!Next]_Place
<1> USE JobQueueAssumption
<1>0. ASSUME UNCHANGED <<queue, submitted, hand>>
      PROVE  UNCHANGED Place
  BY <1>0 DEF Place, InQueue, InHand, HeldBy
<1>1. ASSUME NEW j \in Jobs, Submit(j)
      PROVE  Lifecycle!Next
  <2>1. Place[j] = "new"
    BY <1>1, PlaceIs DEF Submit
  <2>2. j \in queue'[Priority[j]]
    BY <1>1 DEF Submit, Enqueue, Zadd, JQInv, JQTypeOK
  <2>3. Place'[j] = "waiting"
    BY <2>2, PlaceIsNext DEF InQueue
  <2>4. Place' = [Place EXCEPT ![j] = "waiting"]
    BY <1>1, <2>3, MoveOne DEF Submit, Enqueue, Zadd, workerVars, JQInv, JQTypeOK
  <2> QED
    BY <2>1, <2>4 DEF Lifecycle!Next, Lifecycle!Submitted, Lifecycle!Move
<1>2. ASSUME NEW c \in Apis, CancelZrem(c)
      PROVE  Lifecycle!Next \/ UNCHANGED Place
  <2>0. apiJob[c] \in Jobs
    BY <1>2 DEF CancelZrem, JQInv, JQTypeOK
  <2>1. CASE apiJob[c] \in queue[apiKey[c]]
    <3>1. apiKey[c] = Priority[apiJob[c]]
      BY <2>1 DEF JQInv, OnePlace, JQTypeOK
    <3>2. Place[apiJob[c]] = "waiting"
      BY <2>0, <2>1, PlaceIs DEF InQueue, JQInv, JQTypeOK
    <3>3. Gone(apiJob[c])'
      BY <1>2, <2>0, <2>1, <3>1
      DEF CancelZrem, Remove, Gone, InQueue, InHand, HeldBy, workerVars, JQInv, JQTypeOK, OnePlace
    <3>4. Place' = [Place EXCEPT ![apiJob[c]] = "over"]
      BY <1>2, <2>0, <3>3, PlaceIsNext, MoveOne
      DEF CancelZrem, Remove, workerVars, JQInv, JQTypeOK
    <3> QED
      BY <2>0, <3>2, <3>4 DEF Lifecycle!Next, Lifecycle!Ended, Lifecycle!Move
  <2>2. CASE apiJob[c] \notin queue[apiKey[c]]
    <3>1. UNCHANGED <<queue, submitted, hand>>
      BY <1>2, <2>2 DEF CancelZrem, Remove, workerVars, JQInv, JQTypeOK
    <3> QED
      BY <3>1, <1>0
  <2> QED
    BY <2>1, <2>2
<1>3. ASSUME NEW w \in Workers, Pop(w)
      PROVE  Lifecycle!Next
  <2>1. PICK j \in Lowest(scan[w]) : Remove(scan[w], j) /\ hand' = [hand EXCEPT ![w] = j]
    BY <1>3 DEF Pop
  <2>2. j \in Jobs /\ scan[w] \in QueueKeys /\ j \in queue[scan[w]]
    BY <2>1 DEF Lowest, JQInv, JQTypeOK
  <2>3. Place[j] = "waiting"
    BY <2>2, PlaceIs DEF InQueue
  <2>4. Place'[j] = w
    BY <2>1, <2>2, PlaceIsNext DEF HeldBy, JQInv, JQTypeOK
  <2>5. hand[w] = NoJob
    BY <1>3 DEF Pop, JQInv, JQTypeOK
  <2>6. Lifecycle!Free(w)
    <3>1. ASSUME NEW i \in Jobs, Place[i] = w
          PROVE  FALSE
      <4>1. "new" # w /\ "waiting" # w /\ "over" # w
        BY JobQueueAssumption
      <4>2. PICK v \in Workers : HeldBy(v, i)
        BY <3>1, <4>1, PlaceIs DEF Gone, InHand
      <4>3. v = w
        BY <3>1, <4>2, PlaceIs
      <4> QED
        BY <2>5, <4>2, <4>3 DEF HeldBy
    <3> QED
      BY <3>1 DEF Lifecycle!Free
  <2>7. \A i \in Jobs \ {j} :
          /\ \A k \in QueueKeys : i \in queue'[k] <=> i \in queue[k]
          /\ \A v \in Workers : hand'[v] = i <=> hand[v] = i
    <3>1. queue' = [queue EXCEPT ![scan[w]] = @ \ {j}]
      BY <2>1 DEF Remove
    <3>2. \A i \in Jobs \ {j}, k \in QueueKeys : i \in queue'[k] <=> i \in queue[k]
      BY <3>1 DEF JQInv, JQTypeOK
    <3>3. \A v \in Workers : hand'[v] = IF v = w THEN j ELSE hand[v]
      BY <2>1 DEF JQInv, JQTypeOK
    <3> QED
      BY <2>5, <3>2, <3>3
  <2>8. Place' = [Place EXCEPT ![j] = w]
    BY <1>3, <2>2, <2>4, <2>7, MoveOne DEF Pop
  <2> QED
    BY <2>2, <2>3, <2>6, <2>8 DEF Lifecycle!Next, Lifecycle!Started, Lifecycle!Move
<1>4. ASSUME NEW w \in Workers, Requeue(w)
      PROVE  Lifecycle!Next
  <2>. hand[w] \in Jobs
    <3>1. pc[w] = "owned"
      BY <1>4 DEF Requeue
    <3>2. JQTypeOK
      BY DEF JQInv
    <3> QED
      BY <3>1, <3>2 DEF JQTypeOK
  <2>0. PICK j \in Jobs : j = hand[w]
    OBVIOUS
  <2>1. j \in submitted
    BY <2>0, JobQueueAssumption DEF JQInv, OnePlace
  <2>2. Place[j] = w
    BY <2>0, PlaceIs DEF HeldBy
  <2>3. Place'[j] = "waiting"
    <3>1. j \in queue'[Priority[j]] /\ Priority[j] \in QueueKeys
      BY <1>4, <2>0 DEF Requeue, Enqueue, Zadd, JQInv, JQTypeOK
    <3> QED
      BY <3>1, PlaceIsNext DEF InQueue
  <2>4. \A i \in Jobs \ {j} :
          /\ \A k \in QueueKeys : i \in queue'[k] <=> i \in queue[k]
          /\ \A v \in Workers : hand'[v] = i <=> hand[v] = i
    BY <1>4, <2>0 DEF Requeue, Enqueue, Zadd, JQInv, JQTypeOK
  <2>5. Place' = [Place EXCEPT ![j] = "waiting"]
    BY <1>4, <2>1, <2>3, <2>4, MoveOne DEF Requeue
  <2> QED
    BY <2>2, <2>5 DEF Lifecycle!Next, Lifecycle!GivenBack, Lifecycle!Move
<1>5. ASSUME NEW w \in Workers, UNCHANGED <<queue, submitted>>,
             hand' = [hand EXCEPT ![w] = NoJob]
      PROVE  Lifecycle!Next \/ UNCHANGED Place
  <2>1. CASE hand[w] = NoJob
    <3>1. hand' = hand
      BY <1>5, <2>1 DEF JQInv, JQTypeOK
    <3> QED
      BY <1>0, <1>5, <3>1
  <2>2. CASE hand[w] # NoJob
    <3>0. PICK j \in Jobs : j = hand[w]
      BY <2>2 DEF JQInv, JQTypeOK
    <3>1. j \in submitted
      BY <2>2, <3>0 DEF JQInv, OnePlace
    <3>2. Place[j] = w
      BY <3>0, PlaceIs DEF HeldBy
    <3>3. \A v \in Workers : hand'[v] = IF v = w THEN NoJob ELSE hand[v]
      BY <1>5 DEF JQInv, JQTypeOK
    <3>4. \A v \in Workers : hand'[v] # j
      BY <2>2, <3>0, <3>3 DEF JQInv, OnePlace, JQTypeOK
    <3>5. Gone(j)'
      BY <1>5, <3>0, <3>1, <3>4 DEF Gone, InQueue, InHand, HeldBy, JQInv, OnePlace
    <3>6. \A i \in Jobs \ {j} : \A v \in Workers : hand'[v] = i <=> hand[v] = i
      BY <3>0, <3>3
    <3>7. Place' = [Place EXCEPT ![j] = "over"]
      BY <1>5, <3>1, <3>5, <3>6, PlaceIsNext, MoveOne
    <3> QED
      BY <3>2, <3>7 DEF Lifecycle!Next, Lifecycle!Ended, Lifecycle!Move
  <2> QED
    BY <2>1, <2>2
<1>6. ASSUME NEW w \in Workers, GetPopped(w) \/ ClearRunning(w) \/ Crash(w)
      PROVE  Lifecycle!Next \/ UNCHANGED Place
  <2>1. \/ UNCHANGED <<queue, submitted, hand>>
        \/ UNCHANGED <<queue, submitted>> /\ hand' = [hand EXCEPT ![w] = NoJob]
    BY <1>6 DEF GetPopped, ClearRunning, Crash, redisVars
  <2> QED
    BY <2>1, <1>0, <1>5
<1>7. ASSUME NEW w \in Workers,
             \/ PopEmpty(w) \/ MarkRunning(w) \/ Claim(w) \/ WriteOutcome(w)
             \/ \E s \in Outcomes : Complete(w, s)
             \/ Restart(w) \/ RunningExpires(w)
      PROVE  UNCHANGED Place
  <2>1. UNCHANGED <<queue, submitted, hand>>
    BY <1>7 DEF PopEmpty, MarkRunning, Claim, WriteOutcome, Complete, Restart,
                RunningExpires, redisVars, workerVars
  <2> QED
    BY <2>1, <1>0
<1>8. ASSUME NEW w \in Workers,
             WorkerStep(w) \/ Crash(w) \/ Restart(w) \/ RunningExpires(w)
      PROVE  Lifecycle!Next \/ UNCHANGED Place
  BY <1>8, <1>3, <1>4, <1>6, <1>7 DEF WorkerStep
<1>9. ASSUME NEW c \in Apis,
             CancelStep(c) \/ ApiCrash(c) \/ \E j \in Jobs : CancelBegin(c, j)
      PROVE  Lifecycle!Next \/ UNCHANGED Place
  <2>1. CASE CancelZrem(c)
    BY <2>1, <1>2
  <2>2. CASE ~CancelZrem(c)
    <3>1. UNCHANGED <<queue, submitted, hand>>
      BY <1>9, <2>2 DEF CancelStep, CancelGet, CancelSet, ApiCrash, CancelBegin,
                        redisVars, workerVars
    <3> QED
      BY <3>1, <1>0
  <2> QED
    BY <2>1, <2>2
<1>10. ASSUME NEW j \in Jobs, Submit(j) \/ RecordExpires(j)
       PROVE  Lifecycle!Next \/ UNCHANGED Place
  <2>1. RecordExpires(j) => UNCHANGED <<queue, submitted, hand>>
    BY DEF RecordExpires, workerVars
  <2> QED
    BY <2>1, <1>10, <1>0, <1>1
<1>11. CASE UNCHANGED jqVars
  <2>1. UNCHANGED <<queue, submitted, hand>>
    BY <1>11 DEF jqVars, redisVars, workerVars
  <2> QED
    BY <2>1, <1>0
<1> QED
  BY <1>8, <1>9, <1>10, <1>11 DEF JQNext

\* The commands of the queue, in any interleaving and with crashes between any
\* two of them, implement the lifecycle: one place per job, one job per worker.
THEOREM QueueImplementsLifecycle == JQSpec => ImplementsLifecycle
<1>1. JQInit => Lifecycle!Init
  BY DEF JQInit, Place, Lifecycle!Init
<1>2. JQInv /\ JQInv' /\ [JQNext]_jqVars => [Lifecycle!Next]_Place
  BY LifecycleStep
<1> QED
  BY <1>1, <1>2, Invariance, PTL DEF JQSpec, ImplementsLifecycle, Lifecycle!Spec

=============================================================================
