------------------------------ MODULE Training ------------------------------
(***************************************************************************)
(* The training programs: run() of src/train.py, and the loop of           *)
(* src/trainer/base_trainer.py with the DDPTrainer, which has no deadline. *)
(* The ranks meet in the collective operations of torch.distributed: the   *)
(* buffers are broadcast in every forward pass, also of the validation,    *)
(* and the gradients are averaged in every backward pass.  Rank 0 saves    *)
(* checkpoints in a directory that later runs find.                        *)
(***************************************************************************)
EXTENDS Checkpoints

CONSTANTS World,         \* the number of ranks
          Epochs,
          TrainSamples, ValSamples, BatchSize,
          MaxRuns        \* bound: runs with the same directory

ASSUME TrainingAssumption ==
  /\ World \in Nat \ {0} /\ BatchSize \in Nat \ {0} /\ MaxRuns \in Nat \ {0}
  /\ Epochs \in Nat /\ TrainSamples \in Nat /\ ValSamples \in Nat

Ranks == 0..(World - 1)

\* make_distributed_loader(): the sampler and the loader drop what is left over,
\* so that every rank has the same number of batches.
BatchesPerRank(samples, size) == (samples \div World) \div size
Batches == BatchesPerRank(TrainSamples, BatchSize)
ValBatches == BatchesPerRank(ValSamples, 2 * BatchSize)

VARIABLES
  program,  \* train.py, trainer, or validating: a trainer with a val_loader
  boxed,    \* train.py has --max_minutes
  at,       \* where each rank is
  epoch, batch, step,
  late,     \* ranks whose clock is past their deadline
  runs,     \* how often the program was started
  cut,      \* history: where save() was when the machine went away
  resumed   \* the epoch of the file that the run began from, -1 for none

runVars == <<program, boxed, runs, cut, resumed>>
rankVars == <<at, epoch, batch, step, late>>
trVars == <<runVars, rankVars, ckVars>>

TrInit ==
  /\ CkInit
  /\ program \in {"train.py", "trainer", "validating"}
  /\ boxed \in IF program = "train.py" THEN BOOLEAN ELSE {FALSE}
  /\ at = [r \in Ranks |-> "epoch"]
  /\ epoch = [r \in Ranks |-> 0] /\ batch = [r \in Ranks |-> 0]
  /\ step = [r \in Ranks |-> 0]
  /\ late = {}
  /\ runs = 1 /\ cut = {} /\ resumed = -1

To(r, l) == at' = [at EXCEPT ![r] = l]

\* The deadline passes on the clock of one rank.
DeadlinePasses(r) ==
  /\ boxed /\ r \notin late
  /\ late' = late \cup {r}
  /\ UNCHANGED <<runVars, ckVars, at, epoch, batch, step>>

\* for epoch in range(...): the deadline is looked at first.
BeginEpoch(r) ==
  /\ at[r] = "epoch"
  /\ To(r, IF epoch[r] >= Epochs \/ r \in late THEN "ended" ELSE "batch")
  /\ batch' = [batch EXCEPT ![r] = 0]
  /\ UNCHANGED <<runVars, ckVars, epoch, step, late>>

\* Mutant of NextBatch: the sampler leaves rank 0 one batch more than the others.
NextBatchUneven(r) ==
  /\ at[r] = "batch"
  /\ IF batch[r] < Batches + (IF r = 0 THEN 1 ELSE 0) /\ r \notin late
     THEN To(r, "forward") /\ UNCHANGED batch
     ELSE To(r, IF program = "trainer" THEN "validated" ELSE "val")
          /\ batch' = [batch EXCEPT ![r] = 0]
  /\ UNCHANGED <<runVars, ckVars, epoch, step, late>>

\* for batch in train_loader: the deadline ends the loop of this rank.
NextBatch(r) ==
  /\ at[r] = "batch"
  /\ IF batch[r] < Batches /\ r \notin late
     THEN To(r, "forward") /\ UNCHANGED batch
     ELSE To(r, IF program = "trainer" THEN "validated" ELSE "val")
          /\ batch' = [batch EXCEPT ![r] = 0]
  /\ UNCHANGED <<runVars, ckVars, epoch, step, late>>

\* Mutant of NextValBatch: the validation is run in full after the deadline.
NextValBatchInFull(r) ==
  /\ at[r] = "val"
  /\ To(r, IF batch[r] < ValBatches THEN "evaluate" ELSE "validated")
  /\ UNCHANGED <<runVars, ckVars, epoch, batch, step, late>>

\* for batch in val_loader
NextValBatch(r) ==
  /\ at[r] = "val"
  /\ To(r, IF batch[r] < ValBatches /\ r \notin late THEN "evaluate" ELSE "validated")
  /\ UNCHANGED <<runVars, ckVars, epoch, batch, step, late>>

\* The buffers are broadcast, in a forward pass of training or of validation.
\* Here no rank leaves before all are in it, which is stricter than a broadcast:
\* its root may go on, through batches of validation, before the others come.
MeetForward ==
  /\ \A r \in Ranks : at[r] \in {"forward", "evaluate"}
  /\ at' = [r \in Ranks |-> IF at[r] = "forward" THEN "backward" ELSE "evaluated"]
  /\ UNCHANGED <<runVars, ckVars, epoch, batch, step, late>>

\* The gradients are averaged.
MeetBackward ==
  /\ \A r \in Ranks : at[r] = "backward"
  /\ at' = [r \in Ranks |-> "update"]
  /\ UNCHANGED <<runVars, ckVars, epoch, batch, step, late>>

\* optimizer.step(), global_step += 1
Update(r) ==
  /\ at[r] = "update"
  /\ To(r, "batch")
  /\ step' = [step EXCEPT ![r] = @ + 1]
  /\ batch' = [batch EXCEPT ![r] = @ + 1]
  /\ UNCHANGED <<runVars, ckVars, epoch, late>>

\* The next batch of the validation.  BaseTrainer.validate() calls train_step(),
\* whose backward() raises under no_grad(); teardown() follows.
Evaluated(r) ==
  /\ at[r] = "evaluated"
  /\ batch' = [batch EXCEPT ![r] = @ + 1]
  /\ To(r, IF program = "validating" THEN "failed" ELSE "val")
  /\ UNCHANGED <<runVars, ckVars, epoch, step, late>>

NextEpoch(r) ==
  /\ To(r, "epoch")
  /\ epoch' = [epoch EXCEPT ![r] = @ + 1]

\* train.py saves when something was validated and the accuracy has improved;
\* the trainer saves every epoch and leaves global_step at 0.
EndEpoch(r) ==
  /\ at[r] = "validated"
  /\ \/ /\ r # 0 \/ program = "train.py"
        /\ NextEpoch(r) /\ UNCHANGED ckVars
     \/ /\ r = 0
        /\ \/ program = "train.py" /\ batch[r] > 0 /\ BeginSave(<<epoch[r], step[r]>>)
           \/ program # "train.py" /\ BeginSave(<<epoch[r], 0>>)
        /\ To(r, "save") /\ UNCHANGED epoch
  /\ UNCHANGED <<runVars, batch, step, late>>

Save ==
  /\ at[0] = "save"
  /\ SaveStep /\ UNCHANGED <<runVars, rankVars>>

EndOfSave ==
  /\ at[0] = "save"
  /\ EndSave /\ NextEpoch(0)
  /\ UNCHANGED <<runVars, batch, step, late>>

Waiting(r) == at[r] \in {"forward", "evaluate", "backward"}

\* The ranks that are left are in different operations, or wait for one that has
\* left the group.
Mismatched ==
  /\ \A r \in Ranks : Waiting(r) \/ at[r] \in {"ended", "failed"}
  /\ \E r \in Ranks : Waiting(r)
  /\ \E r \in Ranks : at[r] # "backward"
  /\ \E r \in Ranks : at[r] \notin {"forward", "evaluate"}

Over == \A r \in Ranks : at[r] \in {"ended", "failed"}

\* All ranks are gone, one of them in save() perhaps.
GroupDies ==
  /\ at' = [r \in Ranks |-> IF at[r] = "ended" THEN "ended" ELSE "failed"]
  /\ SaverDies
  /\ UNCHANGED <<program, boxed, runs, resumed, epoch, batch, step, late>>

\* The collective times out, and torchrun ends the group when a rank has failed.
GroupFails ==
  /\ ~Over /\ (Mismatched \/ \E r \in Ranks : at[r] = "failed")
  /\ GroupDies /\ UNCHANGED cut

\* The machine goes away.
GroupKilled == ~Over /\ GroupDies /\ cut' = cut \cup {saver}

\* Mutant of FirstEpoch: the epoch of the checkpoint is not looked at.
FirstEpochZero == 0

\* load_checkpoint()
FirstEpoch == IF Loadable THEN link[1] + 1 ELSE 0

\* The program is started again.  train.py begins anew; a caller of the trainer
\* loads what latest.pt points to, and fails when that cannot be read.
RunAgain ==
  /\ Over /\ runs < MaxRuns
  /\ program # "train.py" /\ link \in Names => Loadable
  /\ LET first == IF program = "train.py" THEN 0 ELSE FirstEpoch
     IN  epoch' = [r \in Ranks |-> first] /\ resumed' = first - 1
  /\ at' = [r \in Ranks |-> "epoch"]
  /\ batch' = [r \in Ranks |-> 0] /\ step' = [r \in Ranks |-> 0]
  /\ late' = {}
  /\ runs' = runs + 1
  /\ UNCHANGED <<program, boxed, cut, ckVars>>

RankStep(r) ==
  BeginEpoch(r) \/ NextBatch(r) \/ NextValBatch(r) \/ Update(r) \/ Evaluated(r) \/ EndEpoch(r)

GroupStep == MeetForward \/ MeetBackward \/ Save \/ EndOfSave \/ GroupFails

TrNext ==
  \/ \E r \in Ranks : RankStep(r) \/ DeadlinePasses(r)
  \/ GroupStep \/ GroupKilled \/ RunAgain

TrSpec == TrInit /\ [][TrNext]_trVars

TrFairSpec == TrSpec /\ WF_trVars(GroupStep) /\ \A r \in Ranks : WF_trVars(RankStep(r))

-----------------------------------------------------------------------------
(* What the training guarantees *)

RankPlaces == {"epoch", "batch", "forward", "backward", "update", "val", "evaluate",
               "evaluated", "validated", "save", "ended", "failed"}

\* The types, and that rank 0 is in save() exactly while a file is being saved.
TrTypeOK ==
  /\ at \in [Ranks -> RankPlaces]
  /\ epoch \in [Ranks -> Nat] /\ batch \in [Ranks -> Nat] /\ step \in [Ranks -> Nat]
  /\ late \subseteq Ranks
  /\ runs \in 1..MaxRuns
  /\ saver \in {"idle", "write", "unlink", "link", "rotate"}
  /\ saves \in Nat
  /\ link \in Nat \X Nat \cup {NoFile}
  /\ \A f \in Names : f \in Nat \X Nat /\ files[f] \in 0..saves
  /\ \A r \in Ranks : at[r] = "save" => r = 0
  /\ saver # "idle" <=> at[0] = "save"

\* However the ranks are delayed, and whenever a deadline passes on one of them,
\* the ranks that wait in a collective operation wait in the same one, of the same
\* batch: none takes part with a batch of the validation in a training step.
OperationsMatch ==
  \A r, q \in Ranks : Waiting(r) /\ Waiting(q) =>
    at[r] = at[q] /\ <<epoch[r], batch[r], step[r]>> = <<epoch[q], batch[q], step[q]>>

\* In a directory of its own, and between saves, latest.pt is the newest file,
\* it is whole, and at most keep_last_n files are there.
LatestIsNewest ==
  runs = 1 /\ cut = {} /\ saver = "idle" /\ saves > 0 =>
    /\ Loadable /\ files[link] = saves
    /\ Cardinality(Names) <= keep_last_n

\* Once a checkpoint was saved in a directory of its own there is always a whole
\* one, at whatever step of a later save the process dies.
SomeCheckpointSurvives ==
  runs = 1 /\ saves > 0 => \E f \in Names : files[f] # 0

\* What the files of a run in a directory of its own can be relied on for.
CheckpointsKept == TrTypeOK /\ LatestIsNewest /\ SomeCheckpointSurvives

\* A trainer that resumes does not repeat more than the last epoch that was
\* saved, unless an earlier process died while latest.pt was missing.
LittleWorkLost ==
  [][runs' = runs + 1 /\ program = "trainer" /\ "link" \notin cut =>
       \A f \in Names : files[f] # 0 => epoch'[0] >= f[1]]_trVars

\* Every run comes to its end, with a deadline or without; and without one each
\* rank gets through all its epochs, unless the machine goes away or a trainer
\* has something to validate.
RanksEnd ==
  []<>(Over /\ (boxed \/ cut # {} \/ program = "validating" \/ \A r \in Ranks : at[r] = "ended"))
=============================================================================
