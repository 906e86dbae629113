# TLA+ models of distributed-training

This directory holds the formal models of the `distributed-training` system: a
job queue and resource manager in Redis, workers that launch `torchrun`, and a
peer-to-peer layer in which people lend their machines and earn credits. TLC
checks the models on small instances; TLAPS proves the theorems listed below for
every value of the constants.

All paths in this file are relative to `src/distributed-training/`.

## The system

| Component | State | Operations | Hard behaviour |
|---|---|---|---|
| Job queue, `src/scheduler/job_queue.py` | Redis: `jobs:<id>`, three sorted sets, `running:<worker>` | submit, cancel, dequeue, heartbeat, complete | methods of several Redis commands run concurrently with each other and with crashes and TTLs |
| REST API, `api/main.py` | none of its own | submit, cancel, list, cluster | any number of concurrent requests |
| Resource manager, `src/scheduler/resource_manager.py` | Redis: `node:<id>`, `alloc:<id>` | register, heartbeat, allocate, release | a stale snapshot before the Lua script, a stale record before the release script |
| Worker, `src/worker.py` | the local variables of `run()`, a `torchrun` child | one loop | SIGTERM, SIGKILL and restarts at any point; requeueing; a child that outlives its worker |
| Training, `src/train.py`, `src/trainer/` | model, optimizer, step counters | the training loop | a deadline, a restart from a checkpoint |
| Checkpoints, `src/utils/checkpoint.py` | files and the `latest.pt` link | save, load_latest | crash between the removal and the creation of the link; rotation by name |
| Credit engine, `ledger/credits.py` | Redis counters, `credits:reserved:<job>` | award, grant_free_tier, reserve, release_reservation | check-then-act in several commands |
| Contribution ledger, `ledger/contribution.py` | Redis session records and totals | start_session, end_session | a session ended twice |
| Quota, `ledger/quota.py` | Redis `quota:active:<owner>` | check, increment_active, decrement_active | check-then-increment, read-then-decrement |
| Node agent, `node_agent/` | agent status, the session, one training subprocess | start, run, stop, run_task | threads, signals and HTTP requests in one process |
| Peer table and gossip, `p2p/peer.py`, `p2p/gossip.py`, `p2p/discovery.py` | the peer table of each node | add_or_update, remove_stale, merge | views that refresh each other |
| Gradient exchange, `p2p/gradient_sync.py` | the buffer of the coordinator | serve_aggregation, submit_gradients | one thread per peer, a peer that never sends |
| Task dispatcher, `orchestrator/task_dispatcher.py` | the task table | build_plan, mark_complete, mark_failed | shards lost or duplicated, late and repeated reports |
| Sync manager, `orchestrator/sync_manager.py` | Redis: version and rounds | start_round, complete_round, is_peer_stale | read-modify-write of a round |
| Fault handler, `orchestrator/fault_handler.py` | Redis fault records | report, resolve | read-modify-write, automatic resolution |
| Rate limiter, `cloud/rate_limiter.py` | Redis counters per day | check, consume | check-then-consume |
| Backup, `cloud/backup.py` | S3 objects or files, Redis records | upload, download | crash between the object and its record, two uploads under one key |
| AWS script, `scripts/aws_train.py` | the account: role, profile, group, instance | one run | every call may raise, Ctrl+C anywhere, what an earlier run left |

Every component of this table has a module. Not part of the models are the
desktop menu bar, the mobile store, the shell scripts, container and Kubernetes
manifests, `E-toll` (an Android client of single screens) and the MATLAB
number-plate recognition; PROJECT.json gives the reason for each.

Interactions: the API and the workers share only Redis; a worker calls the queue
and the resource manager and starts one `torchrun` at a time. A node agent calls
the contribution ledger, its task runner and the peer-to-peer layer; its local
HTTP server calls back into the agent from another thread. The quota reads the
ledger and the credits. The orchestrator's task dispatcher, sync manager and
fault handler are plain objects that a coordinator would call; nothing in the
repository wires them together.

### What makes each component correct

* Queue: a job is in one place at a time, is executed once, and its outcome is
  the last that happens to it; every job settles when nobody crashes.
* Resource manager: the live allocations on a node fit it; the counters are
  their sum; an allocation does not move.
* Worker: torchrun runs once per job, with resources, and never after the job's
  outcome is stored; resources come back.
* Credits: no balance is negative; the counters of an owner agree; no settlement
  creates credits; spent credits are charges of jobs; a marked grant is paid.
* Gradient exchange: all peers apply one average, made of enough peers; a round
  ends.
* Node agent: an agent that is asked to stop exits, ends its session if that has
  not expired, and the owner is credited for it once.
* Quota, rate limiter: what is counted is what happened, and the limit (of the
  rates: between two midnights) holds where calls do not interleave; a dead
  caller does not use the quota up for ever.
* Task runner: the process that runs is the one that the runner knows.
* Dispatcher and sync manager: every shard is dealt; a round has one
  coordinator, completes once every task has ended, and stays completed.
* Fault handler: the penalties of a peer are counted one by one and end
  together, with a TTL that a report has set; a resolved fault stays so.
* Peer table: a node that is left alone forgets the others.
* Training and checkpoints: ranks are in the same collective operation; in a
  directory of its own a whole checkpoint survives every crash; every run ends.
* AWS script: no instance is left behind unnoticed; the profile has its
  policies.
* Backup: what is downloaded is what was uploaded, and the last upload can be.

The hazards of each, with their lines, are in PROJECT.json ("hazards").

## The modules

`JobQueue` models every Redis command of the queue as one action. `jobs`,
`queue` and `running` are the Redis keys; `ahead[j]` is the set of members with
a lower score than `j`, which is all that ZPOPMIN needs of the scores. A worker
in `dequeue()` or `complete()` is at `pc[w]` with the popped job in `hand[w]`; a
cancelling request is at `apiPc[c]`. `JobLifecycle` is what the queue promises:
a job is new, waiting, with one worker, or over, and never comes back.

`ResourceManager` models the node and allocation records. `ListKeys` and
`ReadNode` take the snapshot of `allocate()` key by key, `LuaAllocate` and
`LuaRefuse` are the script on one node of the snapshot, `ReleaseGet` and
`LuaRelease` the two steps of `release()`. `Unsteady` is the set of nodes that
may register again, lose their record to its TTL, or have allocations that
expire or are released by two callers at once; `AccountsExact` speaks of the
others, while every other property speaks of all. `Booked` is what the live
allocations on a node need, whatever its counter says, and `WithinCapacity`
bounds it, not the counter. The scripts trust the counter, so it holds until the
counter falls below what is booked: at a second registration of a node that has
live allocations, or a release of one that is no longer stored. The history
variable `undercounted` holds the nodes to which that has happened.
`Reservations` is what the manager promises: what a request needs is booked in
one step, on a node that has it, under an id of its own, and taken back once and
as a whole. The refinement maps what is booked to the sums over the live
allocations, so the counters, snapshots and scripts are not part of the promise.

`Worker` composes both: `site[w]` is the place of `run()`, and each action is a
step of `run()` together with the step of the queue or the resource manager that
it makes. `alive` holds the `torchrun` processes, which outlive a killed worker;
`launches[j]` counts the starts. Job outcomes are chosen freely.

`CreditEngine` has one action per Redis command; the Lua script of `reserve()`
is one action. `step[c]` is the next command of a call, `owner`, `job` and
`amount` its arguments. Credits are integers. The history variables `used` (what
a job was charged) and `lost` (what a call that died was about to move) make the
accounts balance at every step and not only at rest. `refunding` holds the jobs
whose reservation a settlement has read, and `twice` those whose reservation two
settlements refund: what credits the owner of such a job has is not bounded by
what he was given.

`GradientSync` is one round: `server` is the thread of `serve_aggregation()`,
`handler[p]` the thread of a connection, `peer[p]` the peer at the other end. An
average is the pair of the peers whose weights and the peers whose gradients
went into it. `numPeers` is chosen with the initial state, so one run covers
coordinators that wait for fewer, as many, or more peers than there are. So is
`scored`, the peers whose weight is not 0 (one of the `Scorings`): when none of
those whose weights are summed up has one, the division raises, the handler
closes its connection without an answer, and `serve_aggregation()` ends without
an average. The history variable `late` records that somebody failed or a
timeout cut short a wait that would have ended by itself.

`NodeAgent` has the stack of an agent's main thread and its HTTP thread:
`step[a][t]` is where the call of `stop()` by `t` is, with `t` a signal's
handler (handlers nest), the `finally` of `run()`, or the HTTP thread. An
exception or `sys.exit()` unwinds the frames below (`Ended`), and the end of the
main thread takes the daemon thread with it (`Exit`). Sessions count as one unit
each in `total`. The session of an agent in `Lasting` may outlive the 30 days of
its key (`SessionExpires`, `expired`), after which `end_session()` finds nothing
to end and nobody is credited. `posted` and `broken` record that an agent was
sent a POST /stop, and that it was killed or its task did not end.

`ShardPlan` holds the partitions of the task dispatcher and the election as
operators: round robin, and the weighted partition with Python's rounding of
halves to even, `max(1, ...)`, and slices with negative indices. `Covers` and
`Disjoint` are the reference. `Orchestrator` is the task table of a coordinator
and the records of the sync manager: `at[c]` is the next Redis command or call
of coordinator `c`, `tasks[c]` its `_active_tasks`. The repository has no
coordinator program: the actions come in the order that the arguments and
results of the calls force. `FaultHandler` has one action per Redis command of
`report()`, its handlers and `resolve()`; the history variables `weighing` and
`forgiven` hold the faults that the counters of penalties have counted, and
those whose counter has expired since.

`Checkpoints` are the file operations of `save()`; a file holds the number of
its save, or 0 while it is torn. `Training` extends it with the ranks of
`train.py` (`program = "train.py"`) and of the trainer classes: `at[r]` is the
place of a rank in the loop, and `MeetForward`, `MeetBackward` are the
collective operations, which happen when all ranks are in them. The clock of
each rank passes its deadline on its own (`DeadlinePasses`).

`AwsScript` has one step per call to AWS that changes something; `CallFails`,
`Interrupt` and `Kill` break the run off at any of them, and another run finds
the account as it was left. `broke` records where a run was broken off and how,
`spoiled` that an earlier one was broken off between the calls that make the
role and the profile. `TaskRunner` has the runner's fields, the processes, one
monitor thread per call of `run_task()`, and `stop()`, which holds the lock
while it waits.

`PeerTable` keeps ages instead of times of last contact; a datagram reaches some
of its targets or none. `Quota` has the reads of `check()` and the commands of
`increment_active()` and `decrement_active()` as steps, `RateLimiter` the check
and the recording of a transfer, with the clock's zone chosen with the initial
state: `recent` counts the bytes since the last midnight, local or of UTC, and
`excused` holds the transfers that overlapped or were under way at that
midnight. `Backup` has the object and the record of an upload. The bucket
backend replaces an object at once; the local one opens the file, which
truncates it, and writes it later, so that what two uploads write beside each
other may be mixed (`overlapped`).

Variables marked "history" in their declarations belong to no code: they record
what happened, for a property to speak of.

Each `MC...` module gives the instance of one module, or of several:
`MCGradientSync`, `MCOrchestrator`, `MCTraining` and `MCLedger` hold components
that share no state, and `part` says which of them moves in a behaviour. Their
behaviours are the union of those of the components, so that one run asks the
questions of all at the cost of a sum, not of a product. Each `..._proofs`
module holds theorems: `Peers_proofs` those about `GradientSync`, `NodeAgent`
and `PeerTable`, `Ledger_proofs` those about `CreditEngine`, `Quota`,
`RateLimiter` and `Backup`, `Orchestrator_proofs` those about `ShardPlan` and
`FaultHandler` too, `Training_proofs` those about `Checkpoints`, `AwsScript` and
`TaskRunner` too. `Sums` holds the lemmas about sums over finite sets that they
use. Operators called mutants ("Mutant of ...") are not part of the
specifications: they are the wrong versions of a definition that the property
named in PROJECT.json must be able to tell from the right one.

## The runs

| Run | What it asks | Bounds |
|---|---|---|
| `jobqueue_safety` | one place, records that fit it, outcomes stand, refinement of `JobLifecycle` | 2 jobs of different priority, 2 workers, 1 cancelling API thread, crashes, restarts, TTLs |
| `jobqueue_reaper` | violated: nobody requeues a stuck job | 1 job, 2 workers |
| `resources_accounts` | live allocations fit, exact accounts, refinement of `Reservations` | 2 nodes (one unsteady), 2 resources, 2 callers, 3 allocation ids |
| `worker_safety` | the inductive invariant, one launch, resources before training | 2 jobs that do not fit together, 2 workers, SIGTERM, SIGKILL, restarts, expiring job records |
| `worker_settles` | no job is lost, every job settles | 2 jobs of different priority, 1 worker, 1 API thread, no failures |
| `worker_leak` | violated: resources are not given back | 1 job, 1 worker, no failures |
| `gradients_round` | enough peers, one average, the round ends; tables forget | 3 peers, 1 to 4 expected, of which two or none have a weight, failures and timeouts; 3 nodes of which 2 may crash |
| `gradients_split` | violated: coordinator and peers apply different averages | 3 peers, 1 to 3 expected |
| `agent_stop` | one credit, exit, a signal ends the session | 2 agents, one sent a single signal, one sent two and with a session that may expire; POST /stop, stuck tasks, kills |
| `orchestrator_rounds` | rounds, completed rounds, shards, penalties, faults | 2 jobs, 2 coordinators, 2 rounds, 3 failures; 1 to 4 machines of 3 kinds with up to 7 shards; 2 faults of any kind |
| `training_runs` | same operation, checkpoints, little lost work, the account, the task runner, everything ends | 2 ranks, 3 epochs, 2 runs in a directory, 2 checkpoints kept; 2 runs of the script; 3 tasks of 2 jobs |
| `credits_accounts` | overdraft, balances, created credits, the grant; quota; rates; backup | 2 jobs, 2 callers, 4 calls; 3 jobs of 3 tiers; 3 transfers, 2 days of 4 ticks, 3 zones; 3 uploads of a file, local or in a bucket |

A property that joins several names them: the runs check, under one name each,
`RecordFitsPlace` (the status of a queued job, and that an outcome is the last
thing that happens), `WInv` (with `AllocatedOnce` and `OutcomeAfterExit`),
`NAInv` (with `CreditedOnce` and `EndedAgentIsStopped`), `ShardsAssigned`,
`PenaltiesKept`, `FaultsStayResolved`, `CheckpointsKept`, `AccountKept`,
`RunnerKeepsTasks`, `CreditsAddUp`, `QuotaKept`, `UsageKept`, `BackupsKept`,
`TablesForget` and `RunsEnd`. The parts are named definitions with a comment of
their own, next to the property. Each module has one type invariant, which is
one of those parts.

### The bounds

Two workers, two requests or two threads are what it takes for one to come
between two commands of another, and a third would repeat what the second can
do; two jobs make priorities and the competition for resources. The bounds on
counters have names: `AllocIds` (allocations ever made), `MaxCalls`,
`MaxCredits`, `Units` and `Needs` (calls, and amounts of one and two, enough for
a balance to be exact or short by one and for a reservation to be refunded in
part, or, when nothing was used, as a whole: a second refund of it exceeds what
was earned), `MaxPeers`, `MaxSignals` (the second signal is the first that can
nest), `MaxRounds` and `MaxFailures` (two rounds are what a predecessor and its
successor need; three failures are `MAX_RETRIES`), `MaxRuns` and `MaxStarts`
(the second finds what the first left), `MaxDays` (a day and the next), `Income`
(amounts that reach each tier) and `MaxWrites` (a file that changes once under
its name). A day of four ticks has zones a quarter of a day behind and half a
day ahead of UTC. Three epochs with two checkpoints kept let the rotation remove
one. The theorems do without: `AllocIds`, `MaxCalls`, `MaxPeers`, `MaxSignals`,
`MaxRounds`, `MaxFailures` and `Tasks` are any.

Deadlock is checked, except where a behaviour may rightly stop: a round of
gradients or of tasks that is over, a coordinator that has gone, training runs
and script runs that have ended, owners who have made all their calls.

### Fairness

Only what the code and its runtime do by themselves is fair: threads and loops
that are not blocked go on, containers are restarted by their runtime, a compute
node registers, a training process ends (train.py has a deadline), and timeouts
and TTLs that a liveness property waits for elapse. Submitting, cancelling,
signals, POST /stop, peers that connect, crashes and kills are never fair. The
queue alone needs strong fairness of `Complete`, since a worker chooses between
completing and requeueing for ever; in `Worker` the choice is that of `run()`
and weak fairness is enough.

* `RoundEnds` assumes that peers report on the tasks they have.
* `PeersGetAnswers` is about a round in which somebody has a weight, and nobody
  fails or is late.
* `TablesForget` assumes that clocks tick and the sender thread goes round;
  datagrams may all be lost.
* `LimitRecovers` assumes that the key's TTL elapses and callers go on.
* `RunsEnd` assumes that ranks which are not in a collective go on, that a
  collective whose ranks are all in it completes, that one which cannot complete
  times out, and that AWS answers.
* `FaultsStayResolved` assumes that a handler goes on unless its process dies.

## The proofs

TLAPS proves, for all values of the constants that meet the named assumptions:

* `JobQueue_proofs`: `JQTypeOK`, `OnePlace`, `RecordFitsPlace`, `GoneStaysGone`,
  `OutcomeStands`, and the refinement of `JobLifecycle`. The invariant is
  `JQInv`: that a worker may not be given a job twice needs `OnePlace` with the
  type invariant's link between `pc` and `hand`; that outcomes are last needs
  that nobody cancels or requeues a job that was never submitted (`KnownJobs`).
  `NoLostJob`, provided that nobody crashes (`~MayCrash`): who takes a job from
  its place holds it, and clears `running:<worker>` only after its outcome is
  stored (`ClearedJobEnded`).
* `ResourceManager_proofs`: `RMTypeOK` and `WithinCapacity`: the counter of a
  node that has a record covers what is booked on it (`Covered`), the script
  that books keeps the counter within the capacity, and a step that frees an
  allocation lowers the counter by no more than what it needed, unless it puts
  the node in `undercounted`; so capacity needs no knowledge of the snapshots.
  `AccountsExact`: a step changes one allocation and one counter by the same
  amount (`ExactInv`: one caller at a time releases an allocation of a steady
  node, and it holds the record that is still stored). `ImplementsReservations`,
  the refinement: the script that books is `Reserve`, whatever snapshot it was
  sent from, the script that releases or a TTL is `TakeBack`, and every other
  step is a stutter; that an id is not used twice needs that every stored id was
  drawn (`Drawn`).
* `Sums`: what adding an element to a set, changing a function at one point, or
  taking the union of two sets does to a sum. The recursive function behind
  `SumFunctionOnSet` is shown to be unrolled as its definition says by looking
  at a smallest set for which it is not, since `<` on the numbers is
  well-founded.
* `Worker_proofs`: `WInv`, which says that queue, accounts, loop and processes
  agree; from it `LaunchedOnce`, `AllocatedOnce` and `OutcomeAfterExit`; and
  `TrainsWithResources`, provided that nothing expires (`Unsteady = {}`). `WInv`
  adds to the components' invariants where a job's holder may be once it has an
  allocation (`AllocatedIsBeyond`) or a process (`ProcessOfHolder`), and that
  `release()` never finds anything (`CallsForHand`), without which an allocation
  could be made twice.
* `Ledger_proofs`: `CETypeOK` and `NeverOverdrawn` (a balance falls only in the
  script that tested it; a refund is a maximum with zero); `CreditsAddUp` (each
  command moves an amount between two of the counters, the calls on their way
  and what died with one, so both sums of an owner stay what they were; and what
  a job was charged covers the refunds under way and what may still be refunded,
  `RefundInv`, unless its reservation is refunded twice, so that nobody spends
  less than nothing and no credit is created); that a marked grant was paid, is
  on its way or died with its call (`GrantInv`, the safety half of
  `GrantIsPaid`); `UsageKept` (what was recorded since the last midnight is in
  today's bucket, whose key is not deleted before the next one, `UsageLasts`; an
  allowed transfer still fits when it is recorded, unless another one is between
  its two steps or a midnight has come, `AllowedFits`); `BackupsKept` (the three
  things that a restore compares were written by one upload, or the record is
  not the last under its key, `LastWriterStands`; uploads that have one local
  file open together have overlapped, `BesideIsOverlap`); `QuotaKept`
  (`CountInv`: a job is admitted only while the counter is exact, at most one is
  not yet in it, and it fits); and that a positive counter has an expiry, or a
  caller that sets it or died before it did (`WillExpire`, the safety half of
  `LimitRecovers`).
* `Peers_proofs`: `GSTypeOK`, `PeersAgree` and `AnswerOfEnough`. `SumOfAll`: a
  handler that averages has seen all peers, so nobody can still be added.
  `NAInv`: whoever is past the flag has cleared it (`PastTheFlag`), and among
  the frames of the main thread an ending one unwinds the rest. The safety half
  of `SignalEndsSession`: an agent that no second signal, kill, POST /stop or
  stuck task disturbs is either in `run()`, with no more than the handler of
  that signal on top (`AtWork`), or has ended its session, if that has not
  expired. For the peer tables `PtTypeOK`, and that the only node alive hears of
  nobody: what is in its table was there before and is at least as old
  (`OnlyAges`), which leaves of `LonelyNodeForgets` that its clock and sender
  thread go on.
* `Training_proofs`, for `RunnerKeepsTasks`: a monitor that waits while its call
  is still the last waits for its own process (`OwnProcessWatched`); so one that
  gets the lock and finds its job's id forgets a process that has ended, or one
  of the same id, which is what `StartedAgain` excepts. For `OperationsMatch`:
  every rank that still meets the others comes next to the same collective
  operation (`NextOp`), wherever it is on the way there. For `CheckpointsKept`:
  a file of an epoch holds that epoch, `latest.pt` points to the last one, and
  what the rotation removes is not the last (`FilesOfEpochs`, `LinkIsLast`);
  that no rank dies alone while rank 0 saves is `FailTogether`. For
  `LittleWorkLost`: no file is later than the epoch after that of `latest.pt`
  (`FilesOfTrainer`). For `AccountKept`: what the account holds follows from the
  place of the script, or from where an earlier run was broken off
  (`ProfileInHand`, `InstanceInHand`).
* `Orchestrator_proofs`: `OneCoordinatorPerRound`, from an invariant that rounds
  in hand were counted in `version`; and `CompletedRoundHasEnded`: tasks are
  added in `BuildPlan` only, before the round is looked at, and a task that has
  ended is pending again only when it is reported as failed, which `late`
  records. For `PenaltiesKept`: a fault is counted from its INCR on and not
  before (`CountedByIncr`), the counter of a peer is the number of its faults
  that were counted since the key began (`CountsExact`), and a counter with a
  TTL has a report that set one (`TimedByReport`); and `ResolvedStaysResolved`,
  the safety half of `FaultsStayResolved`. For `ShardsAssigned`: the positions
  that the weighted partition cuts at grow and end at or beyond the number of
  shards, so the slices between them cover the shards, and are disjoint where
  the last position is not beyond it (`PartitionCovers`, `PartitionDisjoint`);
  that a plan is what the partition gave is `ShardInv`. And
  `RoundsStayCompleted`, that no step opens a completed round again: only
  `start_round()` stores an open record, and the round that it has just counted
  cannot have one yet, since a record is of a round that was counted before and
  of one coordinator (`RecordsFollow`).

The assumptions on the constants are named next to them: sets of numbers where
the code has numbers, absent values that are not among the present ones, and
that jobs, callers and the machines of an offer are finitely many, without which
the sums and plans would mean nothing.

Model-checked only:

* liveness (`EverySubmittedSettles`, `GrantIsPaid`, `LimitRecovers`,
  `PeersGetAnswers`, `TablesForget`, `SignalEndsSession`, `AgentExits`,
  `RoundEnds`, `RunsEnd`, half of `FaultsStayResolved`): fairness and ENABLED
  are out of the prover's reach. Every invariant, action property and refinement
  that a passing run checks is a theorem.

## Where the code and its documentation differ

Shown by a run:

* job_queue.py:11 names a reaper; there is none (`jobqueue_reaper`).
* worker.py:67 releases `alloc:<job id>`, which is never the id of an allocation
  (`worker_leak`).
* gradient_sync.py:96: joins time out and the coordinator averages without the
  slow peers, whose handlers then average with them (`gradients_split`).

Met while modelling, and visible in the models as the exceptions that the
properties make:

* worker.py:89 puts a job back after a cancellation has cleared the queues, so a
  cancelled job can be queued (`RecordFitsPlace` allows it).
* resource_manager.py:107: two releases of one allocation both subtract it, and
  resource_manager.py:62 resets the counter of a node whose allocations are
  live. The counter is then below what is booked, and the scripts may overbook
  the node (`WithinCapacity` excepts it through `undercounted`, `AccountsExact`
  through `Unsteady`).
* credits.py:47 says "Thread-safe via Redis atomic operations": credits.py:75,
  two requests both see no grant, and the owner is awarded it twice;
  credits.py:120, two settlements of one job both refund it, and the owner has
  credits that nobody gave him (`SpentIsCharged` and `NoneCreated` except such
  owners through `twice`). The counters move alike, so that they still agree
  with each other.
* gradient_sync.py:165 divides by the sum of the weights, which are scores that
  default to 0.0 (peer.py:49): in a round in which nobody has one every handler
  and `serve_aggregation()` raise (`PeersGetAnswers` asks for a score).
* gradient_sync.py:149 and :151: handlers wait for ever for a missing peer, and
  a peer accepted beyond `num_peers` changes the average (`PeersAgree` and
  `PeersGetAnswers` are about as many peers as expected). The round's id is sent
  and never compared.
* agent.py:122: POST /stop and a signal can credit a session twice
  (`CreditedOnce` excludes POST /stop). agent.py:7 promises "graceful shutdown,
  end contribution session"; a second signal, or POST /stop, ends the process
  before the session is ended (`SignalEndsSession` is about one signal).
* contribution.py:124: the key of a session lives for 30 days and nothing renews
  it; an agent that ran for longer ends no session, and its owner gets nothing
  (`expired`).
* contribution.py:141: `from_dict()` raises TypeError, so `end_session()` never
  returns; the totals are already updated by then.
* task_dispatcher.py:181: `max(1, round(...))` may give away more shards than
  there are; the lists then overlap, though nothing is lost
  (`ShardsAssignedOnce` asks for `WellShared`). task_dispatcher.py:119: a task
  that is reported as failed after it had ended is pending again (`late`), a
  failed one may be completed.
* sync_manager.py:65: nothing keeps two coordinators of a job from working on
  two rounds at once; no property asks for it.
* fault_handler.py:129 says "If quorum lost → pause round"; no quorum is looked
  at, the fault is resolved as reassigned.
* fault_handler.py:153: a reporter that dies between INCR and EXPIRE leaves a
  penalty that never ends (`diedUntimed`). The TTL is that of the whole key, so
  that a report renews the penalties before it, and a penalty counted just
  before the key expires is forgotten at once (`forgiven`): a penalty may last
  for more or less than the day.
* checkpoint.py:73: between the removal of `latest.pt` and its creation nothing
  can be loaded (`cut`); checkpoint.py:78: in the directory of an earlier run
  the rotation may remove what was saved last, and `latest.pt` dangles (the
  properties are about a directory of its own).
* train.py:178 logs "stopping cleanly" on a deadline; each rank has its own
  clock, and one that leaves the loop lets the others wait in a collective until
  that times out (`RunsEnd` holds because it does).
* base_trainer.py: `validate()` calls `train_step()` under `no_grad()`, whose
  `backward()` raises: a trainer with a validation loader fails in its first
  epoch.
* aws_train.py:190 says "Ctrl+C to detach, instance keeps running" and :229
  "Detached from logs. Instance is still running."; `main()` terminates it
  afterwards unless `--no-terminate` was given. `NoInstanceLeft` asks nothing of
  a detached run. A role or profile that a run left which was broken off between
  the calls that make them is taken for complete (`spoiled`).
* task_runner.py:21 says "Manages a single training subprocess per node"; a job
  that is started again under its id may be forgotten by the monitor of its
  first process, after which another starts beside it. Line 22 speaks of a
  callback, of which there is none, and `run_task()` does not look at the flag
  of `stop()`.
* peer.py:161 sets `last_seen` to the time of arrival, so that two live nodes
  refresh each other's entries of a dead one for ever; gossip.py:72 walks
  through a table that other threads extend, which ends the sender thread
  (`broken`).
* quota.py:157 and :173: two submissions both pass at the limit (`raced`); the
  counter expires after a day, though power users may run 72 hours (`expired`);
  a caller that dies between INCR and EXPIRE leaves a counter without TTL
  (`cut`).
* rate_limiter.py:41 says "Buckets reset at UTC midnight"; the key has the local
  day, and its expiry is the UTC midnight read as a local time. West of UTC
  usage is therefore kept over UTC's midnight; east of it the key is deleted as
  soon as it is written while UTC is a day behind (`UtcBehind`).
  rate_limiter.py:9 says "Checked before every upload/download operation";
  nothing in the repository calls the limiter, and the caller of the model is
  inferred.
* backup.py:196: each of two uploads that have one local file open writes at an
  offset of its own, and may leave a mixture that no record verifies
  (`overlapped`).
* backup.py:87: an upload that breaks off leaves an object without record, and
  an upload under the same key makes earlier records unverifiable
  (`LastUploadRestorable` is about the last).

## Not modelled

Left out of the modelled components: logging, the transaction log of the
credits, job configurations, the read-only endpoints, the `heartbeat()` of the
queue and of the nodes, which only renew TTLs (whether one renews a TTL in time
is not looked at: it may elapse at any moment, where the configuration lets it),
`is_peer_stale()`, a comparison that nothing calls, `FSDPTrainer`, which has the
loop of the DDPTrainer with other collectives, mDNS (a node registers a service,
for which nobody listens), the choice of ports, the arithmetic of averaging and
of `verify_integrity()`, and encryption, which is the identity that data are
encrypted with.

Configuration (`src/utils/config.py` and the settings files), data loading and
monitoring are values, files and log lines without a protocol. The desktop menu
polls the agent's HTTP API (menu_bar.py:108: when the agent cannot be reached
`_agent_running` keeps its value, and the menu still offers to stop it), the
mobile store shows what the same API answers, the manifests contribute the
restarts of the models. `E-toll` and the number-plate detection have no shared
state that a model would say anything about.

## What is left

* The orchestrator's callers, once the repository has any: today the order of
  the calls is inferred from their arguments.
* A composition of the node agent with the task runner: `stop()` of the agent
  calls `stop()` of the runner, whose timeout is an outcome in `NodeAgent` and a
  step in `TaskRunner`.
