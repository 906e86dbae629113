----------------------------- MODULE TaskRunner -----------------------------
(***************************************************************************)
(* node_agent/task_runner.py: run_task() starts torchrun and a monitor     *)
(* thread that waits for the process and forgets it.  The monitor reads    *)
(* self._proc without the lock, and recognises its task by the job's id    *)
(* alone.  stop() holds the lock while it waits for the process to end;    *)
(* the flag that it clears is never read.                                  *)
(***************************************************************************)
EXTENDS Integers, FiniteSets

CONSTANTS Tasks,   \* the calls of run_task()
          JobOf,   \* the job_id of each
          Idle     \* None

ASSUME TaskAssumption == IsFiniteSet(Tasks) /\ Idle \notin Tasks /\ JobOf \in [Tasks -> STRING]

VARIABLES
  task,     \* what became of each call: new, refused, running or over
  proc,     \* self._proc: the call that launched it
  current,  \* self._current_job_id
  monitor,  \* where the monitor thread of each call is
  watched,  \* the process that each monitor waits for
  stopper,  \* where stop() is
  earlier   \* history: the tasks that ran when stop() was called

taVars == <<task, proc, current, monitor, watched, stopper, earlier>>

TaInit ==
  /\ task = [c \in Tasks |-> "new"]
  /\ proc = Idle /\ current = "none"
  /\ monitor = [c \in Tasks |-> "none"] /\ watched = [c \in Tasks |-> Idle]
  /\ stopper = "idle" /\ earlier = {}

Running == {c \in Tasks : task[c] = "running"}

LockFree == stopper # "wait"

\* is_busy(), and the test of run_task() and of stop()
Busy == proc \in Running

\* run_task() launches the process and its monitor.
RunTask(c) ==
  /\ task[c] = "new" /\ LockFree /\ ~Busy
  /\ task' = [task EXCEPT ![c] = "running"]
  /\ proc' = c /\ current' = JobOf[c]
  /\ monitor' = [monitor EXCEPT ![c] = "read"]
  /\ UNCHANGED <<watched, stopper, earlier>>

\* The node is busy, or Popen() raises.
Refuse(c) ==
  /\ task[c] = "new" /\ LockFree
  /\ task' = [task EXCEPT ![c] = "refused"]
  /\ UNCHANGED <<proc, current, monitor, watched, stopper, earlier>>

TaskEnds(c) ==
  /\ task[c] = "running"
  /\ task' = [task EXCEPT ![c] = "over"]
  /\ UNCHANGED <<proc, current, monitor, watched, stopper, earlier>>

\* proc = self._proc: it may be that of a later task by now, or None.
MonitorReads(c) ==
  /\ monitor[c] = "read"
  /\ watched' = [watched EXCEPT ![c] = proc]
  /\ monitor' = [monitor EXCEPT ![c] = "wait"]
  /\ UNCHANGED <<task, proc, current, stopper, earlier>>

\* Mutant of MonitorForgets: the id is not compared.
MonitorForgetsAny(c) ==
  /\ monitor[c] = "wait" /\ watched[c] \notin Running /\ LockFree
  /\ monitor' = [monitor EXCEPT ![c] = "ended"]
  /\ proc' = Idle /\ current' = "none"
  /\ UNCHANGED <<task, watched, stopper, earlier>>

\* proc.wait() has returned, and the monitor has the lock.
MonitorForgets(c) ==
  /\ monitor[c] = "wait" /\ watched[c] \notin Running /\ LockFree
  /\ monitor' = [monitor EXCEPT ![c] = "ended"]
  /\ IF current = JobOf[c] THEN proc' = Idle /\ current' = "none" ELSE UNCHANGED <<proc, current>>
  /\ UNCHANGED <<task, watched, stopper, earlier>>

\* stop() terminates the process and waits for it ...
Stop ==
  /\ stopper = "idle"
  /\ stopper' = IF Busy THEN "wait" ELSE "stopped"
  /\ earlier' = Running
  /\ UNCHANGED <<task, proc, current, monitor, watched>>

\* ... until it ends, or for 10 seconds.
StopReturns ==
  /\ stopper = "wait"
  /\ \/ ~Busy /\ stopper' = "stopped"
     \/ Busy /\ stopper' = "raised"
  /\ UNCHANGED <<task, proc, current, monitor, watched, earlier>>

TaNext ==
  \/ Stop \/ StopReturns
  \/ \E c \in Tasks : RunTask(c) \/ Refuse(c) \/ TaskEnds(c) \/ MonitorReads(c) \/ MonitorForgets(c)

TaSpec == TaInit /\ [][TaNext]_taVars

-----------------------------------------------------------------------------
(* What the runner promises *)

\* The types, and that the runner holds a process of the job whose id it has.
TaTypeOK ==
  /\ task \in [Tasks -> {"new", "refused", "running", "over"}]
  /\ monitor \in [Tasks -> {"none", "read", "wait", "ended"}]
  /\ watched \in [Tasks -> Tasks \cup {Idle}]
  /\ stopper \in {"idle", "wait", "stopped", "raised"}
  /\ earlier \subseteq Tasks
  /\ IF proc = Idle THEN current = "none" ELSE proc \in Tasks /\ current = JobOf[proc]

\* Another call for the job of c was made, and its monitor has ended.
StartedAgain(c) ==
  \E d \in Tasks \ {c} : JobOf[d] = JobOf[c] /\ monitor[d] = "ended"

\* "Manages a single training subprocess per node" (task_runner.py:21): the process
\* that runs is the one that the runner holds and stop() will find, however late
\* the monitors are.  When a job is started again under its id the monitor of the
\* first process may forget the second.
NoTaskLost == \A c \in Running : proc = c \/ StartedAgain(c)

\* When stop() has returned, no task that ran before it runs on; when it raised the
\* task does, and a task that is started later is not refused.
StopEndsTask ==
  stopper = "stopped" => \A c \in Running \cap earlier : StartedAgain(c)

\* The fields of the runner agree with the processes that run.
RunnerKeepsTasks == TaTypeOK /\ NoTaskLost /\ StopEndsTask
=============================================================================
