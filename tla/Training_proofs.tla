--------------------------- MODULE Training_proofs ---------------------------
(***************************************************************************)
(* Training: that the ranks stay in step, that rank 0 leaves checkpoints   *)
(* to go on from, that the task runner loses no process but of a job that  *)
(* was started again, and that the AWS script leaves an account in order,  *)
(* for any number of ranks, epochs, calls and runs.                        *)
(***************************************************************************)
EXTENDS Training, TaskRunner, AwsScript, Sums, FiniteSetTheorems, TLAPS

-----------------------------------------------------------------------------
(* The ranks *)

\* The collective operation that comes next, from the head of each loop on.
NoOp == "none"
OpOfEpoch(e, s) ==
  IF e >= Epochs THEN NoOp
  ELSE IF 0 < Batches THEN <<"forward", e, 0, s>>
  ELSE IF program # "trainer" /\ 0 < ValBatches THEN <<"evaluate", e, 0, s>>
  ELSE NoOp
OpOfVal(e, b, s) == IF b < ValBatches THEN <<"evaluate", e, b, s>> ELSE OpOfEpoch(e + 1, s)
OpOfBatch(e, b, s) ==
  IF b < Batches THEN <<"forward", e, b, s>>
  ELSE IF program = "trainer" THEN OpOfEpoch(e + 1, s) ELSE OpOfVal(e, 0, s)

\* The collective operation that a rank is in, or comes to unless its deadline passes.
NextOp(r) ==
  CASE at[r] = "epoch" -> OpOfEpoch(epoch[r], step[r])
    [] at[r] = "batch" -> OpOfBatch(epoch[r], batch[r], step[r])
    [] at[r] = "update" -> OpOfBatch(epoch[r], batch[r] + 1, step[r] + 1)
    [] at[r] = "val" -> OpOfVal(epoch[r], batch[r], step[r])
    [] at[r] = "evaluated" ->
         IF program = "validating" THEN NoOp ELSE OpOfVal(epoch[r], batch[r] + 1, step[r])
    [] at[r] \in {"validated", "save"} -> OpOfEpoch(epoch[r] + 1, step[r])
    [] OTHER -> <<at[r], epoch[r], batch[r], step[r]>>

\* Whoever is past its deadline, or has left, meets the others no more.
Meets(r) == at[r] \notin {"ended", "failed"} /\ (r \in late => Waiting(r))

\* All ranks that meet come to the same operation of the same batch.
InStep == \A r, q \in Ranks : Meets(r) /\ Meets(q) => NextOp(r) = NextOp(q)

RankShape ==
  /\ at \in [Ranks -> RankPlaces]
  /\ epoch \in [Ranks -> Nat] /\ batch \in [Ranks -> Nat] /\ step \in [Ranks -> Nat]

\* save() has its file from the beginning of the write on.
SaverNames == (saver # "idle" => name \in Nat \X Nat) /\ (saver = "write" => name \in Names)
TypeInv == TrTypeOK /\ SaverNames

\* All ranks are at their first epoch and the directory is empty.
LEMMA TypeInvInit == TrInit => TypeInv
BY TrainingAssumption DEF TrInit, CkInit, TypeInv, TrTypeOK, SaverNames, RankPlaces, Ranks, Names

\* Each step keeps the shape of the state.
LEMMA TypeInvStep == TypeInv /\ [TrNext]_trVars => TypeInv'
<1> SUFFICES ASSUME TypeInv, [TrNext]_trVars PROVE TypeInv'
  OBVIOUS
<1> USE TrainingAssumption DEF TypeInv, TrTypeOK, SaverNames, RankPlaces
<1>0. 0 \in Ranks
  BY DEF Ranks
<1>1. ASSUME NEW r \in Ranks, BeginEpoch(r) PROVE TypeInv'
  BY <1>1 DEF BeginEpoch, To, runVars, ckVars, Names
<1>2. ASSUME NEW r \in Ranks, NextBatch(r) \/ NextValBatch(r) \/ Update(r) \/ Evaluated(r) PROVE TypeInv'
  <2>1. PICK l \in RankPlaces \ {"save"} : at' = [at EXCEPT ![r] = l] /\ at[r] # "save"
    BY <1>2 DEF NextBatch, NextValBatch, Update, Evaluated, To
  <2>2. batch' \in [Ranks -> Nat] /\ step' \in [Ranks -> Nat]
    BY <1>2 DEF NextBatch, NextValBatch, Update, Evaluated
  <2>3. UNCHANGED <<epoch, late, runs, files, link, saver, name, saves>>
    BY <1>2 DEF NextBatch, NextValBatch, Update, Evaluated, runVars, ckVars
  <2> QED
    BY <1>0, <2>1, <2>2, <2>3 DEF Names
<1>4. ASSUME NEW r \in Ranks, EndEpoch(r) PROVE TypeInv'
  <2>1. CASE NextEpoch(r) /\ UNCHANGED ckVars
    BY <1>4, <2>1 DEF EndEpoch, NextEpoch, To, runVars, ckVars, Names
  <2>2. CASE \E n \in Nat \X Nat : r = 0 /\ BeginSave(n) /\ To(r, "save") /\ UNCHANGED epoch
    <3>1. PICK n \in Nat \X Nat : r = 0 /\ BeginSave(n) /\ To(r, "save") /\ UNCHANGED epoch
      BY <2>2
    <3>2. /\ DOMAIN files' = DOMAIN files \cup {n} /\ files'[n] = 0
          /\ \A f \in DOMAIN files \ {n} : files'[f] = files[f]
          /\ name' = n /\ saver' = "write" /\ UNCHANGED <<link, saves>> /\ saver = "idle"
      BY <3>1 DEF BeginSave, Write, Names
    <3>3. /\ at' = [at EXCEPT ![0] = "save"] /\ at[0] = "validated"
          /\ UNCHANGED <<epoch, batch, step, late, runs>>
      BY <1>4, <3>1 DEF EndEpoch, To, runVars
    <3> QED
      BY <1>0, <3>1, <3>2, <3>3 DEF Names
  <2> QED
    BY <1>4, <2>1, <2>2 DEF EndEpoch
<1>5. ASSUME NEW r \in Ranks, DeadlinePasses(r) PROVE TypeInv'
  BY <1>5 DEF DeadlinePasses, runVars, ckVars, Names
<1>6. ASSUME MeetForward \/ MeetBackward PROVE TypeInv'
  BY <1>6, <1>0 DEF MeetForward, MeetBackward, runVars, ckVars, Names
<1>7. ASSUME RunAgain PROVE TypeInv'
  <2>1. UNCHANGED ckVars /\ saver = "idle"
    BY <1>7, <1>0 DEF RunAgain, Over
  <2>2. PICK e \in Nat : epoch' = [r \in Ranks |-> e]
    <3>1. Loadable => link[1] \in Nat
      BY DEF Loadable
    <3> QED
      BY <1>7, <3>1 DEF RunAgain, FirstEpoch
  <2> QED
    BY <1>7, <2>1, <2>2, <1>0 DEF RunAgain, ckVars, Names
<1>8. ASSUME GroupFails \/ GroupKilled PROVE TypeInv'
  BY <1>0, <1>8 DEF GroupFails, GroupKilled, GroupDies, SaverDies, Names
<1>9. ASSUME Save PROVE TypeInv'
  <2>1. UNCHANGED <<at, epoch, batch, step, late, runs, name>> /\ at[0] = "save"
    BY <1>9 DEF Save, runVars, rankVars, SaveStep, EndWrite, Unlink, Link, Rotate
  <2>2. CASE EndWrite
    <3>1. /\ DOMAIN files' = DOMAIN files /\ files'[name] = saves + 1 /\ saves' = saves + 1
          /\ \A f \in DOMAIN files \ {name} : files'[f] = files[f]
          /\ saver' = "unlink" /\ UNCHANGED link
      BY <2>2 DEF EndWrite, Write, Names
    <3> QED
      BY <2>1, <3>1 DEF Names
  <2>3. CASE Unlink \/ Link
    BY <2>1, <2>3 DEF Unlink, Link, Names
  <2>4. CASE Rotate
    <3>1. /\ DOMAIN files' = DOMAIN files \ {Oldest}
          /\ \A f \in DOMAIN files' : files'[f] = files[f]
          /\ UNCHANGED <<link, saver, saves>> /\ saver = "rotate"
      BY <2>4 DEF Rotate, Restrict, Names
    <3> QED
      BY <2>1, <3>1 DEF Names
  <2> QED
    BY <1>9, <2>2, <2>3, <2>4 DEF Save, SaveStep
<1>10. ASSUME EndOfSave PROVE TypeInv'
  BY <1>0, <1>10 DEF EndOfSave, EndSave, NextEpoch, To, runVars, Names
<1>11. CASE UNCHANGED trVars
  BY <1>11 DEF trVars, runVars, rankVars, ckVars, Names
<1> HIDE DEF TypeInv
<1> QED
  BY <1>1, <1>2, <1>4, <1>5, <1>6, <1>7, <1>8, <1>9, <1>10, <1>11
  DEF TrNext, RankStep, GroupStep

StepInv == RankShape /\ InStep

\* Ranks that wait for the same next operation are in it.
LEMMA StepInvMatches == StepInv => OperationsMatch
BY DEF StepInv, InStep, RankShape, RankPlaces, Meets, NextOp, Waiting, OperationsMatch

\* All ranks begin with the same operation before them.
LEMMA StepInitInv == TrInit => StepInv
BY DEF TrInit, StepInv, InStep, RankShape, RankPlaces, NextOp, Meets

\* A step of one rank leads it to the operation that was next.
LEMMA RankKeepsStep ==
  ASSUME StepInv, NEW r \in Ranks, program' = program,
         \A q \in Ranks \ {r} : /\ at'[q] = at[q] /\ epoch'[q] = epoch[q]
                                /\ batch'[q] = batch[q] /\ step'[q] = step[q]
                                /\ q \in late' <=> q \in late,
         Meets(r)' => Meets(r) /\ NextOp(r)' = NextOp(r),
         RankShape'
  PROVE  StepInv'
<1>1. ASSUME NEW q \in Ranks \ {r} PROVE Meets(q)' = Meets(q) /\ NextOp(q)' = NextOp(q)
  BY <1>1 DEF Meets, NextOp, Waiting, OpOfEpoch, OpOfVal, OpOfBatch
<1>2. ASSUME NEW p \in Ranks, NEW q \in Ranks, Meets(p)', Meets(q)'
      PROVE  NextOp(p)' = NextOp(q)'
  <2>1. Meets(p) /\ Meets(q) /\ NextOp(p)' = NextOp(p) /\ NextOp(q)' = NextOp(q)
    BY <1>1, <1>2
  <2> QED
    BY <2>1 DEF StepInv, InStep
<1> QED
  BY <1>2 DEF StepInv, InStep

\* The steps of one rank lead to its next operation, and a meeting leads all on.
LEMMA StepInvStep == StepInv /\ TrTypeOK' /\ [TrNext]_trVars => StepInv'
<1> SUFFICES ASSUME StepInv, TrTypeOK', [TrNext]_trVars PROVE StepInv'
  OBVIOUS
<1>0. RankShape
  BY DEF StepInv
<1>1. ASSUME NEW r \in Ranks, BeginEpoch(r) PROVE StepInv'
  <2>1. /\ at[r] = "epoch" /\ UNCHANGED <<program, epoch, step, late>>
        /\ at' = [at EXCEPT ![r] = IF epoch[r] >= Epochs \/ r \in late THEN "ended" ELSE "batch"]
        /\ batch' = [batch EXCEPT ![r] = 0]
    BY <1>1 DEF BeginEpoch, To, runVars
  <2>2. RankShape'
    BY <1>0, <2>1 DEF RankShape, RankPlaces
  <2>3. Meets(r)' => Meets(r) /\ NextOp(r)' = NextOp(r)
    <3> SUFFICES ASSUME Meets(r)' PROVE Meets(r) /\ NextOp(r)' = NextOp(r)
      OBVIOUS
    <3>1. ~(epoch[r] >= Epochs) /\ r \notin late /\ at'[r] = "batch" /\ batch'[r] = 0
      BY <1>0, <2>1 DEF Meets, RankShape
    <3>2. NextOp(r) = OpOfEpoch(epoch[r], step[r]) /\ NextOp(r)' = OpOfBatch(epoch[r], 0, step[r])'
      BY <2>1, <3>1 DEF NextOp
    <3>3. OpOfBatch(epoch[r], 0, step[r])' = OpOfBatch(epoch[r], 0, step[r])
      BY <2>1 DEF OpOfBatch, OpOfVal, OpOfEpoch
    <3>4. OpOfBatch(epoch[r], 0, step[r]) = OpOfEpoch(epoch[r], step[r])
      BY <3>1 DEF OpOfBatch, OpOfVal, OpOfEpoch
    <3> QED
      BY <2>1, <3>1, <3>2, <3>3, <3>4 DEF Meets
  <2> QED
    BY <2>1, <2>2, <2>3, <1>0, RankKeepsStep DEF RankShape
<1>2. ASSUME NEW r \in Ranks, NextBatch(r) \/ NextValBatch(r) PROVE StepInv'
  <2>1. UNCHANGED <<program, epoch, step, late>> /\ at[r] \in {"batch", "val"}
    BY <1>2 DEF NextBatch, NextValBatch, runVars
  <2>2. RankShape'
    BY <1>0, <1>2, <2>1 DEF RankShape, RankPlaces, NextBatch, NextValBatch, To
  <2>3. Meets(r)' => Meets(r) /\ NextOp(r)' = NextOp(r)
    BY <1>0, <1>2, <2>1 DEF RankShape, NextBatch, NextValBatch, To, Meets, Waiting, NextOp,
                            OpOfBatch, OpOfVal, OpOfEpoch
  <2> QED
    BY <1>2, <2>1, <2>2, <2>3, <1>0, RankKeepsStep DEF RankShape, NextBatch, NextValBatch, To
<1>3. ASSUME NEW r \in Ranks, Update(r) \/ Evaluated(r) PROVE StepInv'
  <2>1. UNCHANGED <<program, epoch, late>> /\ at[r] \in {"update", "evaluated"}
    BY <1>3 DEF Update, Evaluated, runVars
  <2>2. RankShape'
    BY <1>0, <1>3, <2>1 DEF RankShape, RankPlaces, Update, Evaluated, To
  <2>3. Meets(r)' => Meets(r) /\ NextOp(r)' = NextOp(r)
    BY <1>0, <1>3, <2>1 DEF RankShape, Update, Evaluated, To, Meets, Waiting, NextOp,
                            OpOfBatch, OpOfVal, OpOfEpoch
  <2> QED
    BY <1>3, <2>1, <2>2, <2>3, <1>0, RankKeepsStep DEF RankShape, Update, Evaluated, To
<1>4. ASSUME NEW r \in Ranks,
             UNCHANGED <<program, batch, step, late>>, at[r] \in {"validated", "save"},
             \/ at' = [at EXCEPT ![r] = "epoch"] /\ epoch' = [epoch EXCEPT ![r] = @ + 1]
             \/ at' = [at EXCEPT ![r] = "save"] /\ epoch' = epoch
      PROVE  StepInv'
  <2>2. RankShape'
    BY <1>0, <1>4 DEF RankShape, RankPlaces
  <2>3. Meets(r)' => Meets(r) /\ NextOp(r)' = NextOp(r)
    BY <1>0, <1>4 DEF RankShape, Meets, Waiting, NextOp, OpOfEpoch
  <2> QED
    BY <1>4, <2>2, <2>3, <1>0, RankKeepsStep DEF RankShape
<1>5. ASSUME NEW r \in Ranks, DeadlinePasses(r) PROVE StepInv'
  <2>1. UNCHANGED <<program, at, epoch, batch, step>> /\ late' = late \cup {r}
    BY <1>5 DEF DeadlinePasses, runVars
  <2>2. RankShape'
    BY <1>0, <2>1 DEF RankShape
  <2>3. Meets(r)' => Meets(r) /\ NextOp(r)' = NextOp(r)
    BY <2>1 DEF Meets, Waiting, NextOp, OpOfBatch, OpOfVal, OpOfEpoch
  <2> QED
    BY <2>1, <2>2, <2>3, RankKeepsStep
<1>6. ASSUME MeetForward \/ MeetBackward PROVE StepInv'
  <2>1. /\ UNCHANGED <<program, epoch, batch, step, late>>
        /\ \A r \in Ranks : Waiting(r)
        /\ \A r \in Ranks : at'[r] = IF at[r] = "forward" THEN "backward"
                                     ELSE IF at[r] = "evaluate" THEN "evaluated" ELSE "update"
    BY <1>6 DEF MeetForward, MeetBackward, Waiting, runVars
  <2>2. RankShape'
    BY <1>0, <1>6, <2>1 DEF RankShape, RankPlaces, MeetForward, MeetBackward
  <2>3. ASSUME NEW r \in Ranks, NEW q \in Ranks PROVE NextOp(r)' = NextOp(q)'
    <3>1. Meets(r) /\ Meets(q)
      BY <2>1 DEF Meets, Waiting
    <3>2. NextOp(r) = NextOp(q)
      BY <3>1 DEF StepInv, InStep
    <3>3. at[r] = at[q] /\ epoch[r] = epoch[q] /\ batch[r] = batch[q] /\ step[r] = step[q]
      BY <2>1, <3>2 DEF NextOp, Waiting
    <3> QED
      BY <2>1, <3>3 DEF NextOp, OpOfBatch, OpOfVal, OpOfEpoch
  <2> QED
    BY <2>2, <2>3 DEF StepInv, InStep
<1>7. ASSUME RunAgain PROVE StepInv'
  <2>1. PICK e : epoch' = [r \in Ranks |-> e]
    BY <1>7 DEF RunAgain
  <2>2. RankShape'
    BY DEF TrTypeOK, RankShape
  <2>3. \A r \in Ranks : NextOp(r)' = OpOfEpoch(e, 0)'
    BY <1>7, <2>1 DEF RunAgain, NextOp
  <2> QED
    BY <2>2, <2>3 DEF StepInv, InStep
<1>8. ASSUME GroupFails \/ GroupKilled PROVE StepInv'
  BY <1>0, <1>8 DEF GroupFails, GroupKilled, GroupDies, StepInv, RankShape, RankPlaces, InStep, Meets
<1>9. ASSUME UNCHANGED <<program, at, epoch, batch, step, late>> PROVE StepInv'
  <2>1. RankShape'
    BY <1>0, <1>9 DEF RankShape
  <2>2. ASSUME NEW r \in Ranks PROVE Meets(r)' = Meets(r) /\ NextOp(r)' = NextOp(r)
    BY <1>9 DEF Meets, NextOp, Waiting, OpOfEpoch, OpOfVal, OpOfBatch
  <2> QED
    BY <2>1, <2>2 DEF StepInv, InStep
<1>13. ASSUME NEW r \in Ranks, EndEpoch(r) PROVE StepInv'
  <2>1. \/ at' = [at EXCEPT ![r] = "epoch"] /\ epoch' = [epoch EXCEPT ![r] = @ + 1]
        \/ at' = [at EXCEPT ![r] = "save"] /\ epoch' = epoch
    BY <1>13 DEF EndEpoch, NextEpoch, To
  <2>2. UNCHANGED <<program, batch, step, late>> /\ at[r] \in {"validated", "save"}
    BY <1>13 DEF EndEpoch, runVars
  <2> HIDE DEF StepInv
  <2> QED
    BY <1>4, <2>1, <2>2
<1>10. ASSUME EndOfSave PROVE StepInv'
  <2>1. 0 \in Ranks
    BY TrainingAssumption DEF Ranks
  <2>2. at' = [at EXCEPT ![0] = "epoch"] /\ epoch' = [epoch EXCEPT ![0] = @ + 1]
    BY <1>10 DEF EndOfSave, NextEpoch, To
  <2>3. UNCHANGED <<program, batch, step, late>> /\ at[0] \in {"validated", "save"}
    BY <1>10 DEF EndOfSave, runVars
  <2> HIDE DEF StepInv
  <2> QED
    BY <1>4, <2>1, <2>2, <2>3
<1>11. ASSUME Save PROVE StepInv'
  BY <1>9, <1>11 DEF Save, runVars, rankVars
<1>12. CASE UNCHANGED trVars
  BY <1>9, <1>12 DEF trVars, runVars, rankVars
<1> HIDE DEF StepInv
<1> QED
  BY <1>1, <1>2, <1>3, <1>5, <1>6, <1>7, <1>8, <1>10, <1>11, <1>12, <1>13
  DEF TrNext, RankStep, GroupStep

\* For any number of ranks, epochs, samples and any batch size, in train.py and the
\* trainers: however the ranks are delayed, and on whichever of them the deadline
\* passes, those that wait in a collective operation wait in the same one.
THEOREM RanksStayInStep == TrSpec => []OperationsMatch
<1>1. TypeInv' => TrTypeOK'
  BY DEF TypeInv
<1> QED
  BY <1>1, TypeInvInit, TypeInvStep, StepInitInv, StepInvStep, StepInvMatches, PTL DEF TrSpec

-----------------------------------------------------------------------------
(* Checkpoints *)

\* Rotation removes a file of an earlier epoch than another.
LEMMA OldestIsEarlier ==
  ASSUME \A f \in Names : f \in Nat \X Nat,
         \A f, g \in Names : f[1] = g[1] => f = g,
         Cardinality(Names) > keep_last_n
  PROVE  Oldest \in Names /\ \E g \in Names : Oldest[1] < g[1]
<1>1. Names # {}
  BY FS_EmptySet, KeepAssumption
<1> DEFINE Firsts == {f[1] : f \in Names}
<1>2. Firsts \in SUBSET Nat /\ Firsts # {}
  BY <1>1
<1>3. PICK m \in Firsts : \A n \in Firsts : m <= n
  BY <1>2, SmallestOf
<1>4. PICK f \in Names : f[1] = m
  OBVIOUS
<1>5. \A g \in Names \ {f} : Before(f, g)
  <2> SUFFICES ASSUME NEW g \in Names \ {f} PROVE f[1] < g[1]
    BY DEF Before
  <2>1. m <= g[1] /\ g[1] # f[1]
    BY <1>3, <1>4
  <2> QED
    BY <1>2, <1>4, <2>1
<1>6. Oldest \in Names /\ \A g \in Names \ {Oldest} : Before(Oldest, g)
  BY <1>5 DEF Oldest
<1>7. PICK g \in Names : g # Oldest
  <2> SUFFICES ASSUME Names = {Oldest} PROVE FALSE
    BY <1>6, Zenon
  <2> QED
    BY FS_Singleton, KeepAssumption
<1>8. Oldest[1] < g[1]
  BY <1>6, <1>7 DEF Before
<1> QED
  BY <1>6, <1>8

\* Whoever has failed, or will in the validation of the trainer.
Fails(r) == at[r] = "failed" \/ (program = "validating" /\ at[r] = "evaluated")

\* No rank fails alone: the others were in the same operation, or have ended.
FailTogether == \A r, q \in Ranks : Fails(r) => at[q] = "ended" \/ Fails(q)

\* When the machine goes away the run is over.
CutIsOver == cut # {} => Over

\* The files of the first run: one of each epoch, none after the present one, which
\* has a file from the beginning of save() on.
FilesOfEpochs ==
  /\ \A f, g \in Names : f[1] = g[1] => f = g
  /\ \A f \in Names : f[1] <= epoch[0]
  /\ \A f \in Names : f[1] = epoch[0] => at[0] \in {"save", "failed"}
  /\ saver # "idle" => name \in Names /\ name[1] = epoch[0]

\* Between the saves, and while the next file is written, latest.pt is the last one.
LinkIsLast ==
  /\ saver \in {"idle", "write"} /\ cut = {} /\ saves > 0 =>
       link \in Names /\ files[link] = saves /\ link[1] < epoch[0]
  /\ saver \in {"unlink", "link", "rotate"} => files[name] = saves /\ saves > 0
  /\ saver = "rotate" => link = name
  /\ saver = "idle" /\ cut = {} => Cardinality(Names) <= keep_last_n

\* What holds of a directory until the program is started again.
FirstRunInv == runs = 1 => CutIsOver /\ FilesOfEpochs /\ LinkIsLast /\ SomeCheckpointSurvives

\* The inductive invariant.
CkInv == TypeInv /\ StepInv /\ FailTogether /\ FirstRunInv

\* The invariant says what the files can be relied on for.
LEMMA CkInvKept == CkInv => CheckpointsKept
BY DEF CkInv, TypeInv, FirstRunInv, FilesOfEpochs, LinkIsLast, SomeCheckpointSurvives, CheckpointsKept,
       LatestIsNewest, Loadable

\* The directory is empty.
LEMMA CkInvInit == TrInit => CkInv
<1> SUFFICES ASSUME TrInit PROVE CkInv
  OBVIOUS
<1>1. TypeInv /\ StepInv
  BY TypeInvInit, StepInitInv
<1>2. Names = {} /\ Cardinality(Names) <= keep_last_n
  <2>1. Names = {}
    BY DEF TrInit, CkInit, Names
  <2> QED
    BY <2>1, FS_EmptySet, KeepAssumption
<1>3. FailTogether
  BY DEF TrInit, FailTogether, Fails
<1>4. FirstRunInv
  BY <1>2 DEF TrInit, CkInit, FirstRunInv, CutIsOver, FilesOfEpochs, LinkIsLast, SomeCheckpointSurvives
<1> QED
  BY <1>1, <1>3, <1>4 DEF CkInv

\* All ranks leave the validation that fails, or none.
LEMMA FailTogetherStep ==
  ASSUME TypeInv, StepInv, FailTogether, [TrNext]_trVars
  PROVE  FailTogether'
<1> USE DEF FailTogether, Fails, TypeInv, TrTypeOK
<1>1. ASSUME NEW r \in Ranks, RankStep(r) PROVE FailTogether'
  <2>1. /\ program' = program /\ at[r] \notin {"ended", "failed"}
        /\ \A q \in Ranks \ {r} : at'[q] = at[q]
    BY <1>1 DEF RankStep, BeginEpoch, NextBatch, NextValBatch, Update, Evaluated, EndEpoch,
                NextEpoch, To, runVars
  <2>2. at'[r] = "failed" => program = "validating" /\ at[r] = "evaluated"
    BY <1>1 DEF RankStep, BeginEpoch, NextBatch, NextValBatch, Update, Evaluated, EndEpoch,
                NextEpoch, To, RankPlaces
  <2>3. at'[r] # "evaluated"
    BY <1>1 DEF RankStep, BeginEpoch, NextBatch, NextValBatch, Update, Evaluated, EndEpoch,
                NextEpoch, To, RankPlaces
  <2>4. program = "validating" /\ at[r] = "evaluated" => at'[r] = "failed"
    BY <1>1 DEF RankStep, BeginEpoch, NextBatch, NextValBatch, Update, Evaluated, EndEpoch,
                NextEpoch, To, RankPlaces
  <2>5. \A q \in Ranks : Fails(q)' => Fails(q)
    BY <2>1, <2>2, <2>3
  <2>6. \A q \in Ranks : at[q] = "ended" \/ Fails(q) => at'[q] = "ended" \/ Fails(q)'
    BY <2>1, <2>4
  <2> QED
    BY <2>5, <2>6
<1>2. ASSUME MeetForward \/ MeetBackward PROVE FailTogether'
  <2>1. CASE MeetBackward
    BY <2>1 DEF MeetBackward
  <2>2. CASE MeetForward
    <3>1. ASSUME NEW r \in Ranks, NEW q \in Ranks PROVE at[r] = at[q]
      BY <2>2, StepInvMatches DEF MeetForward, OperationsMatch, Waiting
    <3> QED
      BY <2>2, <3>1 DEF MeetForward, runVars
  <2> QED
    BY <1>2, <2>1, <2>2
<1>3. ASSUME UNCHANGED <<program, at>> PROVE FailTogether'
  BY <1>3
<1>4. ASSUME NEW r \in Ranks, DeadlinePasses(r) PROVE FailTogether'
  BY <1>3, <1>4 DEF DeadlinePasses, runVars
<1>5. ASSUME Save PROVE FailTogether'
  BY <1>3, <1>5 DEF Save, runVars, rankVars
<1>6. CASE UNCHANGED trVars
  BY <1>3, <1>6 DEF trVars, runVars, rankVars
<1>7. ASSUME EndOfSave PROVE FailTogether'
  BY <1>7 DEF EndOfSave, NextEpoch, To, runVars
<1>8. ASSUME GroupFails \/ GroupKilled PROVE FailTogether'
  BY <1>8 DEF GroupFails, GroupKilled, GroupDies
<1>9. ASSUME RunAgain PROVE FailTogether'
  BY <1>9 DEF RunAgain
<1> HIDE DEF FailTogether
<1> QED
  BY <1>1, <1>2, <1>4, <1>5, <1>6, <1>7, <1>8, <1>9 DEF TrNext, GroupStep

\* No group dies by itself while rank 0 is in save().
LEMMA FailsBetweenSaves ==
  ASSUME TypeInv, FailTogether, GroupFails
  PROVE  saver = "idle"
<1>1. 0 \in Ranks
  BY TrainingAssumption DEF Ranks
<1>2. at[0] # "save"
  <2>1. CASE Mismatched
    BY <1>1, <2>1 DEF Mismatched, Waiting
  <2>2. CASE \E r \in Ranks : at[r] = "failed"
    BY <1>1, <2>2 DEF FailTogether, Fails
  <2> QED
    BY <2>1, <2>2 DEF GroupFails
<1> QED
  BY <1>2 DEF TypeInv, TrTypeOK

\* Each file operation of save(), and a process that dies at any of them.
LEMMA FirstRunStep ==
  ASSUME TypeInv, FailTogether, FirstRunInv, [TrNext]_trVars
  PROVE  FirstRunInv'
<1> SUFFICES ASSUME runs' = 1
             PROVE  (CutIsOver /\ FilesOfEpochs /\ LinkIsLast /\ SomeCheckpointSurvives)'
  BY DEF FirstRunInv
<1> DEFINE Goal == (CutIsOver /\ FilesOfEpochs /\ LinkIsLast /\ SomeCheckpointSurvives)'
<1> SUFFICES Goal
  OBVIOUS
<1>0. 0 \in Ranks /\ epoch[0] \in Nat /\ saves \in Nat /\ \A f \in Names : f[1] \in Nat
  BY TrainingAssumption DEF Ranks, TypeInv, TrTypeOK
<1>1. ~RunAgain
  BY DEF RunAgain, TypeInv, TrTypeOK
<1>2. runs = 1
  BY <1>1 DEF TrNext, RankStep, GroupStep, BeginEpoch, NextBatch, NextValBatch, Update, Evaluated,
              EndEpoch, DeadlinePasses, MeetForward, MeetBackward, Save, EndOfSave, GroupFails,
              GroupKilled, GroupDies, trVars, runVars
<1>3. CutIsOver /\ FilesOfEpochs /\ LinkIsLast /\ SomeCheckpointSurvives
  BY <1>2 DEF FirstRunInv
\* The files stay, and so do the epoch of rank 0 and what it does.
<1>4. ASSUME UNCHANGED <<files, link, saver, name, saves, cut>>, epoch'[0] = epoch[0],
             at[0] \in {"save", "failed"} => at'[0] \in {"save", "failed"},
             Over => Over'
      PROVE  Goal
  BY <1>2, <1>3, <1>4 DEF CutIsOver, FilesOfEpochs, LinkIsLast, SomeCheckpointSurvives, Names
<1>5. ASSUME NEW r \in Ranks, RankStep(r), ckVars' = ckVars, UNCHANGED epoch PROVE Goal
  <2>1. /\ at[r] \notin {"save", "failed", "ended"} /\ \A q \in Ranks \ {r} : at'[q] = at[q]
        /\ cut' = cut
    BY <1>5 DEF RankStep, BeginEpoch, NextBatch, NextValBatch, Update, Evaluated, EndEpoch,
                NextEpoch, To, runVars, TypeInv, TrTypeOK, BeginSave
  <2> QED
    BY <1>0, <1>4, <1>5, <2>1 DEF ckVars, Over
<1>6. ASSUME NEW r \in Ranks, EndEpoch(r) PROVE Goal
  <2>1. at[r] = "validated" /\ cut' = cut /\ cut = {}
    BY <1>3, <1>6 DEF EndEpoch, runVars, CutIsOver, Over
  <2>2. ASSUME NextEpoch(r), UNCHANGED ckVars PROVE Goal
    <3>1. /\ \A q \in Ranks \ {r} : epoch'[q] = epoch[q]
          /\ \A q \in Ranks \ {r} : at'[q] = at[q]
      BY <1>0, <2>2 DEF NextEpoch, To, TypeInv, TrTypeOK
    <3>2. UNCHANGED <<files, link, saver, name, saves>>
      BY <2>2 DEF ckVars
    <3>3. CASE r # 0
      <4>1. epoch'[0] = epoch[0] /\ at'[0] = at[0]
        BY <1>0, <3>1, <3>3
      <4>2. ~Over
        BY <2>1 DEF Over
      <4> QED
        BY <1>4, <2>1, <3>2, <4>1, <4>2
    <3>4. CASE r = 0
      <4>1. epoch'[0] = epoch[0] + 1 /\ saver = "idle"
        BY <1>0, <2>1, <2>2, <3>4 DEF NextEpoch, TypeInv, TrTypeOK
      <4>2. FilesOfEpochs'
        BY <1>0, <1>3, <3>2, <4>1 DEF FilesOfEpochs, Names
      <4>3. LinkIsLast'
        BY <1>0, <1>3, <2>1, <3>2, <4>1 DEF LinkIsLast, Names
      <4> QED
        BY <1>2, <1>3, <2>1, <3>2, <4>2, <4>3 DEF CutIsOver, SomeCheckpointSurvives, Names
    <3> QED
      BY <3>3, <3>4
  <2>3. ASSUME NEW n \in Nat \X Nat, n[1] = epoch[0], r = 0, BeginSave(n), To(r, "save"), UNCHANGED epoch
        PROVE  Goal
    <3>1. /\ DOMAIN files' = DOMAIN files \cup {n} /\ files'[n] = 0
          /\ \A f \in DOMAIN files \ {n} : files'[f] = files[f]
          /\ name' = n /\ saver' = "write" /\ UNCHANGED <<link, saves>> /\ saver = "idle"
      BY <2>3 DEF BeginSave, Write, Names
    <3>2. at'[0] = "save" /\ epoch'[0] = epoch[0]
      BY <1>0, <2>3 DEF To, TypeInv, TrTypeOK
    <3>3. \A f \in Names : f[1] < epoch[0]
      BY <1>0, <1>3, <2>1, <2>3 DEF FilesOfEpochs
    <3>4. FilesOfEpochs'
      BY <1>0, <1>3, <2>3, <3>1, <3>2, <3>3 DEF FilesOfEpochs, Names
    <3>5. LinkIsLast'
      BY <1>0, <1>3, <2>1, <2>3, <3>1, <3>2, <3>3 DEF LinkIsLast, Names
    <3>6. SomeCheckpointSurvives'
      BY <1>0, <1>2, <2>1, <3>1, <3>5 DEF LinkIsLast, SomeCheckpointSurvives, Names
    <3> QED
      BY <2>1, <3>4, <3>5, <3>6 DEF CutIsOver
  <2> HIDE DEF Goal
  <2>4. epoch[r] \in Nat /\ step[r] \in Nat
    BY DEF TypeInv, TrTypeOK
  <2>5. ASSUME r = 0, BeginSave(<<epoch[r], step[r]>>), To(r, "save"), UNCHANGED epoch PROVE Goal
    BY <2>3, <2>4, <2>5
  <2>6. ASSUME r = 0, BeginSave(<<epoch[r], 0>>), To(r, "save"), UNCHANGED epoch PROVE Goal
    BY <2>3, <2>4, <2>6
  <2> QED
    BY <1>6, <2>2, <2>5, <2>6 DEF EndEpoch
<1>7. ASSUME Save PROVE Goal
  <2>1. /\ UNCHANGED <<at, epoch, cut>> /\ at[0] = "save" /\ saver # "idle" /\ cut = {}
    BY <1>0, <1>3, <1>7 DEF Save, runVars, rankVars, CutIsOver, Over, TypeInv, TrTypeOK
  <2>2. CutIsOver'
    BY <2>1 DEF CutIsOver
  <2>3. CASE EndWrite
    <3>1. /\ DOMAIN files' = DOMAIN files /\ files'[name] = saves + 1 /\ saves' = saves + 1
          /\ \A f \in DOMAIN files \ {name} : files'[f] = files[f]
          /\ saver' = "unlink" /\ saver = "write" /\ UNCHANGED <<link, name>>
      BY <2>1, <1>3, <2>3 DEF EndWrite, Write, Names, FilesOfEpochs
    <3>2. FilesOfEpochs'
      BY <1>3, <2>1, <3>1 DEF FilesOfEpochs, Names
    <3>3. LinkIsLast'
      BY <1>0, <3>1 DEF LinkIsLast
    <3>4. SomeCheckpointSurvives'
      BY <1>0, <1>3, <2>1, <3>1 DEF SomeCheckpointSurvives, Names, FilesOfEpochs
    <3> QED
      BY <2>2, <3>2, <3>3, <3>4
  <2>4. CASE Unlink \/ Link
    <3>1. /\ UNCHANGED <<files, name, saves>> /\ saver \in {"unlink", "link"}
          /\ saver' \in {"link", "rotate"}
          /\ saver' = "rotate" => link' = name
      BY <2>4 DEF Unlink, Link
    <3>2. FilesOfEpochs'
      BY <1>3, <2>1, <3>1 DEF FilesOfEpochs, Names
    <3>3. LinkIsLast'
      BY <1>3, <2>1, <3>1 DEF LinkIsLast, Names
    <3>4. SomeCheckpointSurvives'
      BY <1>2, <1>3, <3>1 DEF SomeCheckpointSurvives, Names
    <3> QED
      BY <2>2, <3>2, <3>3, <3>4
  <2>5. CASE Rotate
    <3>1. /\ DOMAIN files' = DOMAIN files \ {Oldest}
          /\ \A f \in DOMAIN files' : files'[f] = files[f]
          /\ UNCHANGED <<link, name, saver, saves>> /\ saver = "rotate"
          /\ Cardinality(Names) > keep_last_n
      BY <2>5 DEF Rotate, Restrict, Names
    <3>2. Oldest \in Names /\ \E g \in Names : Oldest[1] < g[1]
      BY <1>3, <3>1, OldestIsEarlier DEF FilesOfEpochs, TypeInv, TrTypeOK
    <3>3. Oldest # name /\ name \in Names
      BY <1>0, <1>3, <3>1, <3>2 DEF FilesOfEpochs
    <3>4. FilesOfEpochs'
      BY <1>3, <2>1, <3>1, <3>3 DEF FilesOfEpochs, Names
    <3>5. LinkIsLast'
      BY <1>3, <2>1, <3>1, <3>3 DEF LinkIsLast, Names
    <3>6. SomeCheckpointSurvives'
      BY <1>0, <1>3, <3>1, <3>3 DEF SomeCheckpointSurvives, LinkIsLast, Names
    <3> QED
      BY <2>2, <3>4, <3>5, <3>6
  <2> QED
    BY <1>7, <2>3, <2>4, <2>5 DEF Save, SaveStep
<1>8. ASSUME EndOfSave PROVE Goal
  <2>1. /\ UNCHANGED <<files, link, name, saves, cut>> /\ saver = "rotate" /\ saver' = "idle"
        /\ Cardinality(Names) <= keep_last_n
        /\ epoch'[0] = epoch[0] + 1 /\ at[0] = "save"
    BY <1>0, <1>8 DEF EndOfSave, EndSave, NextEpoch, runVars, TypeInv, TrTypeOK
  <2>2. cut = {}
    BY <1>0, <1>3, <2>1 DEF CutIsOver, Over
  <2>3. FilesOfEpochs'
    BY <1>0, <1>3, <2>1 DEF FilesOfEpochs, Names
  <2>4. LinkIsLast'
    BY <1>0, <1>3, <2>1 DEF LinkIsLast, FilesOfEpochs, Names
  <2> QED
    BY <1>2, <1>3, <2>1, <2>2, <2>3, <2>4 DEF CutIsOver, SomeCheckpointSurvives, Names
<1>9. ASSUME GroupDies, (saver = "idle" /\ cut' = cut) \/ cut' = cut \cup {saver} PROVE Goal
  <2>1. /\ UNCHANGED <<files, link, name, saves, epoch>> /\ saver' = "idle"
        /\ \A r \in Ranks : at'[r] \in {"ended", "failed"}
        /\ at[0] \in {"save", "failed"} => at'[0] = "failed"
    BY <1>0, <1>9 DEF GroupDies, SaverDies
  <2>2. FilesOfEpochs'
    BY <1>3, <2>1 DEF FilesOfEpochs, Names
  <2>3. LinkIsLast'
    BY <1>3, <1>9, <2>1 DEF LinkIsLast, Names
  <2> QED
    BY <1>2, <1>3, <2>1, <2>2, <2>3 DEF CutIsOver, Over, SomeCheckpointSurvives, Names
<1>10. ASSUME GroupFails \/ GroupKilled PROVE Goal
  <2> HIDE DEF Goal
  <2> QED
    BY <1>9, <1>10, FailsBetweenSaves DEF GroupFails, GroupKilled
<1>11. ASSUME MeetForward \/ MeetBackward PROVE Goal
  <2>1. /\ UNCHANGED <<files, link, saver, name, saves, cut, epoch>>
        /\ at[0] \notin {"save", "failed", "ended"}
    BY <1>0, <1>11 DEF MeetForward, MeetBackward, runVars, ckVars
  <2> QED
    BY <1>0, <1>4, <2>1 DEF Over
<1>12. ASSUME NEW r \in Ranks, DeadlinePasses(r) PROVE Goal
  BY <1>4, <1>12 DEF DeadlinePasses, runVars, ckVars, Over
<1>13. CASE UNCHANGED trVars
  BY <1>4, <1>13 DEF trVars, runVars, rankVars, ckVars, Over
<1>14. ASSUME NEW r \in Ranks,
              BeginEpoch(r) \/ NextBatch(r) \/ NextValBatch(r) \/ Update(r) \/ Evaluated(r)
       PROVE  Goal
  <2> HIDE DEF Goal
  <2>1. RankStep(r) /\ ckVars' = ckVars /\ epoch' = epoch
    BY <1>14 DEF RankStep, BeginEpoch, NextBatch, NextValBatch, Update, Evaluated
  <2> QED
    BY <1>5, <2>1
<1> HIDE DEF Goal
<1> QED
  BY <1>1, <1>6, <1>7, <1>8, <1>10, <1>11, <1>12, <1>13, <1>14
  DEF TrNext, RankStep, GroupStep

\* The parts of the invariant, one after the other.
LEMMA CkInvariance == TrSpec => []CkInv
<1>1. CkInv /\ [TrNext]_trVars => CkInv'
  <2> SUFFICES ASSUME CkInv, [TrNext]_trVars PROVE CkInv'
    OBVIOUS
  <2>1. TypeInv'
    BY TypeInvStep DEF CkInv
  <2>2. StepInv'
    BY <2>1, StepInvStep DEF CkInv, TypeInv
  <2> QED
    BY <2>1, <2>2, FailTogetherStep, FirstRunStep DEF CkInv
<1> QED
  BY <1>1, CkInvInit, PTL DEF TrSpec

\* For any keep_last_n, number of ranks and epochs: once checkpoint.py has saved in
\* a directory of its own, a whole file is there at whatever file operation the
\* process dies, and between saves latest.pt is the newest.
THEOREM CheckpointsAreKept == TrSpec => []CheckpointsKept
BY CkInvariance, CkInvKept, PTL

-----------------------------------------------------------------------------
(* Trainers that resume *)

\* The epoch that a trainer would resume at.
ResumesAt == IF link \in Names THEN link[1] + 1 ELSE 0

\* A trainer's file is named by its epoch; none is later than the present epoch, which
\* is not later than the one after latest.pt, but while that is replaced.
FilesOfTrainer ==
  /\ \A f \in Names : f[2] = 0 /\ f[1] <= epoch[0]
  /\ saver # "link" => epoch[0] <= ResumesAt
  /\ saver # "idle" => name \in Names /\ name[1] = epoch[0]
  /\ saver = "rotate" => link = name

\* It holds over all runs, unless one died while latest.pt was missing.
TrainerInv == program = "trainer" /\ "link" \notin cut => FilesOfTrainer

\* There are no files, and the first epoch is the one to begin with.
LEMMA TrainerInit == TrInit => TrainerInv
BY TrainingAssumption DEF TrInit, CkInit, TrainerInv, FilesOfTrainer, ResumesAt, Names, Ranks

\* Epochs, saves, lost processes and restarts.
LEMMA TrainerStep ==
  ASSUME TypeInv, FailTogether, TrainerInv, [TrNext]_trVars
  PROVE  TrainerInv'
<1> SUFFICES ASSUME program' = "trainer", "link" \notin cut' PROVE FilesOfTrainer'
  BY DEF TrainerInv
<1>0. /\ 0 \in Ranks /\ epoch \in [Ranks -> Nat] /\ at \in [Ranks -> RankPlaces]
      /\ (saver # "idle" <=> at[0] = "save")
      /\ \A f \in Names : f \in Nat \X Nat
      /\ link \in Nat \X Nat \cup {NoFile}
  BY TrainingAssumption DEF Ranks, TypeInv, TrTypeOK
<1>1. program' = program /\ "link" \notin cut
  BY DEF TrNext, RankStep, GroupStep, BeginEpoch, NextBatch, NextValBatch, Update, Evaluated,
         EndEpoch, DeadlinePasses, MeetForward, MeetBackward, Save, EndOfSave, GroupFails,
         GroupKilled, GroupDies, RunAgain, trVars, runVars
<1>2. FilesOfTrainer
  BY <1>1 DEF TrainerInv
\* A lost process leaves the files, and latest.pt is there.
<1>3. ASSUME UNCHANGED <<files, link, name>>, epoch'[0] = epoch[0],
             saver' = saver \/ (saver' = "idle" /\ saver # "link")
      PROVE  FilesOfTrainer'
  BY <1>2, <1>3 DEF FilesOfTrainer, ResumesAt, Names
<1>4. ASSUME NEW r \in Ranks,
             BeginEpoch(r) \/ NextBatch(r) \/ NextValBatch(r) \/ Update(r) \/ Evaluated(r) \/ DeadlinePasses(r)
      PROVE  FilesOfTrainer'
  <2>1. UNCHANGED <<epoch, files, link, name, saver>>
    BY <1>4 DEF BeginEpoch, NextBatch, NextValBatch, Update, Evaluated, DeadlinePasses, ckVars
  <2> QED
    BY <1>3, <2>1
<1>5. ASSUME NEW r \in Ranks, EndEpoch(r) PROVE FilesOfTrainer'
  <2>1. CASE r # 0
    <3>1. epoch'[0] = epoch[0] /\ UNCHANGED <<files, link, name, saver>>
      BY <1>0, <1>5, <2>1 DEF EndEpoch, NextEpoch, ckVars
    <3> QED
      BY <1>3, <3>1
  <2>2. CASE r = 0
    <3>1. BeginSave(<<epoch[0], 0>>) /\ epoch' = epoch
      BY <1>1, <1>5, <2>2 DEF EndEpoch
    <3>2. PICK n \in Nat \X Nat : n = <<epoch[0], 0>>
      BY <1>0
    <3>3. /\ DOMAIN files' = DOMAIN files \cup {n}
          /\ name' = n /\ saver' = "write" /\ link' = link /\ saver = "idle"
      BY <3>1, <3>2 DEF BeginSave, Write, Names
    <3>4. ResumesAt' >= ResumesAt
      BY <1>0, <3>2, <3>3 DEF ResumesAt, Names
    <3>5. ResumesAt \in Int /\ ResumesAt' \in Int
      BY <1>0, <3>2, <3>3 DEF ResumesAt, Names
    <3> QED
      BY <1>0, <1>2, <3>1, <3>2, <3>3, <3>4, <3>5 DEF FilesOfTrainer, Names
  <2> QED
    BY <2>1, <2>2
<1>6. ASSUME Save PROVE FilesOfTrainer'
  <2>1. epoch' = epoch /\ saver # "idle"
    BY <1>0, <1>6 DEF Save, rankVars
  <2>2. CASE EndWrite
    <3>1. DOMAIN files' = DOMAIN files /\ UNCHANGED <<link, name>> /\ saver = "write" /\ saver' = "unlink"
      BY <1>2, <2>1, <2>2 DEF EndWrite, Write, Names, FilesOfTrainer
    <3> QED
      BY <1>2, <2>1, <3>1 DEF FilesOfTrainer, ResumesAt, Names
  <2>3. CASE Unlink
    BY <1>2, <2>1, <2>3 DEF Unlink, FilesOfTrainer, Names
  <2>4. CASE Link
    BY <1>0, <1>2, <2>1, <2>4 DEF Link, FilesOfTrainer, ResumesAt, Names
  <2>5. CASE Rotate
    <3>1. /\ DOMAIN files' = DOMAIN files \ {Oldest}
          /\ UNCHANGED <<link, name, saver>> /\ saver = "rotate"
          /\ Cardinality(Names) > keep_last_n
      BY <2>5 DEF Rotate, Restrict, Names
    <3>2. \A f, g \in Names : f[1] = g[1] => f = g
      BY <1>0, <1>2 DEF FilesOfTrainer
    <3>3. Oldest \in Names /\ \E g \in Names : Oldest[1] < g[1]
      BY <1>0, <3>1, <3>2, OldestIsEarlier
    <3>4. Oldest # name
      BY <1>0, <1>2, <3>1, <3>3 DEF FilesOfTrainer
    <3> QED
      BY <1>0, <1>2, <2>1, <3>1, <3>4 DEF FilesOfTrainer, ResumesAt, Names
  <2> QED
    BY <1>6, <2>2, <2>3, <2>4, <2>5 DEF Save, SaveStep
<1>7. ASSUME EndOfSave PROVE FilesOfTrainer'
  <2>1. /\ UNCHANGED <<files, link, name>> /\ saver = "rotate" /\ saver' = "idle"
        /\ epoch'[0] = epoch[0] + 1
    BY <1>0, <1>7 DEF EndOfSave, EndSave, NextEpoch
  <2> QED
    BY <1>0, <1>2, <2>1 DEF FilesOfTrainer, ResumesAt, Names
<1>8. ASSUME GroupFails \/ GroupKilled PROVE FilesOfTrainer'
  <2>1. saver # "link"
    BY <1>8, FailsBetweenSaves DEF GroupKilled
  <2>2. UNCHANGED <<files, link, name, epoch>> /\ saver' = "idle"
    BY <1>8 DEF GroupFails, GroupKilled, GroupDies, SaverDies
  <2> QED
    BY <1>3, <2>1, <2>2
<1>9. ASSUME RunAgain PROVE FilesOfTrainer'
  <2>1. UNCHANGED <<files, link, name, saver>> /\ saver = "idle"
    BY <1>0, <1>9 DEF RunAgain, Over, ckVars
  <2>2. epoch'[0] = ResumesAt
    BY <1>0, <1>1, <1>9 DEF RunAgain, FirstEpoch, Loadable, ResumesAt
  <2>3. epoch[0] <= ResumesAt /\ ResumesAt \in Nat
    BY <1>0, <1>2, <2>1 DEF FilesOfTrainer, ResumesAt
  <2> QED
    BY <1>0, <1>2, <2>1, <2>2, <2>3 DEF FilesOfTrainer, ResumesAt, Names
<1>10. ASSUME MeetForward \/ MeetBackward \/ UNCHANGED trVars PROVE FilesOfTrainer'
  <2>1. UNCHANGED <<epoch, files, link, name, saver>>
    BY <1>10 DEF MeetForward, MeetBackward, trVars, rankVars, ckVars
  <2> QED
    BY <1>3, <2>1
<1> QED
  BY <1>4, <1>5, <1>6, <1>7, <1>8, <1>9, <1>10 DEF TrNext, RankStep, GroupStep

\* However often a trainer dies and resumes from latest.pt, it does not repeat more
\* than the last epoch that was saved, unless an earlier process died while the link
\* was missing (checkpoint.py:73).
THEOREM LittleIsRepeated == TrSpec => LittleWorkLost
<1>1. CkInv /\ TrainerInv /\ [TrNext]_trVars => TrainerInv'
  BY TrainerStep DEF CkInv
<1>2. ASSUME CkInv, TrainerInv, [TrNext]_trVars, runs' = runs + 1, program = "trainer",
             "link" \notin cut, NEW f \in Names
      PROVE  epoch'[0] >= f[1]
  <2>1. RunAgain
    <3>1. runs \in Int
      BY <1>2 DEF CkInv, TypeInv, TrTypeOK
    <3>2. runs' # runs
      BY <1>2, <3>1
    <3> QED
      BY <1>2, <3>2 DEF TrNext, RankStep, GroupStep, BeginEpoch, NextBatch, NextValBatch, Update,
           Evaluated, EndEpoch, DeadlinePasses, MeetForward, MeetBackward, Save, EndOfSave, GroupFails,
           GroupKilled, GroupDies, trVars, runVars
  <2>2. TrainerInv'
    BY <1>1, <1>2
  <2>3. FilesOfTrainer' /\ Names' = Names /\ f \in Nat \X Nat
    BY <1>2, <2>1, <2>2 DEF TrainerInv, RunAgain, ckVars, Names, CkInv, TypeInv, TrTypeOK
  <2>4. epoch'[0] \in Nat
    <3>1. 0 \in Ranks /\ TypeInv'
      BY <1>2, TrainingAssumption, TypeInvStep DEF Ranks, CkInv
    <3> QED
      BY <3>1 DEF TypeInv, TrTypeOK
  <2> QED
    BY <2>3, <2>4 DEF FilesOfTrainer
<1>3. CkInv /\ TrainerInv /\ [TrNext]_trVars =>
        [runs' = runs + 1 /\ program = "trainer" /\ "link" \notin cut =>
           \A f \in Names : files[f] # 0 => epoch'[0] >= f[1]]_trVars
  <2> SUFFICES ASSUME CkInv, TrainerInv, [TrNext]_trVars
               PROVE  runs' = runs + 1 /\ program = "trainer" /\ "link" \notin cut =>
                        \A f \in Names : files[f] # 0 => epoch'[0] >= f[1]
    OBVIOUS
  <2> QED
    BY <1>2
<1> QED
  BY <1>1, <1>3, TrainerInit, CkInvariance, PTL DEF TrSpec, LittleWorkLost

-----------------------------------------------------------------------------
(* The task runner *)

\* A monitor that waits while its own call is the last waits for its own process.
OwnProcessWatched ==
  \A d \in Tasks : monitor[d] = "wait" /\ proc = d => watched[d] = d

\* A call that is yet to be made has no monitor, and stop() did not find it running.
NewIsUntouched ==
  \A c \in Tasks : task[c] = "new" => monitor[c] = "none" /\ c \notin earlier

TaInv ==
  /\ TaTypeOK
  /\ OwnProcessWatched
  /\ NewIsUntouched
  /\ NoTaskLost
  /\ StopEndsTask

\* No task was started.
LEMMA TaInitInv == TaInit => TaInv
BY TaskAssumption
DEF TaInit, TaInv, TaTypeOK, OwnProcessWatched, NewIsUntouched, NoTaskLost, StopEndsTask, Running

\* No monitor takes back that it has ended.
MonitorsStay == \A d \in Tasks : monitor[d] = "ended" => monitor'[d] = "ended"

\* A job that was started again under its id remains one.
LEMMA StartedAgainStays ==
  ASSUME MonitorsStay, NEW c, StartedAgain(c)
  PROVE  StartedAgain(c)'
BY DEF StartedAgain, MonitorsStay

\* What a step has to show: the processes that run on are held or were started again.
LEMMA RunningFrame ==
  ASSUME TaInv, MonitorsStay,
         NEW c, c \in Running, proc' = proc
  PROVE  (proc = c \/ StartedAgain(c))'
<1>1. proc = c \/ StartedAgain(c)
  BY DEF TaInv, NoTaskLost
<1> QED
  BY <1>1, StartedAgainStays

\* A task is launched: the runner was not busy, so whatever runs was started again.
LEMMA RunTaskInv == ASSUME TaInv, NEW c \in Tasks, RunTask(c) PROVE TaInv'
<1> USE TaskAssumption
<1>1. TaTypeOK'
  BY DEF TaInv, TaTypeOK, RunTask
<1>2. OwnProcessWatched' /\ NewIsUntouched'
  BY DEF TaInv, TaTypeOK, RunTask, OwnProcessWatched, NewIsUntouched
<1>3. MonitorsStay /\ Running' = Running \cup {c} /\ proc' = c
  BY DEF TaInv, TaTypeOK, RunTask, Running, NewIsUntouched, MonitorsStay
<1>4. \A d \in Running : StartedAgain(d)
  BY DEF TaInv, NoTaskLost, RunTask, Busy
<1>5. \A d \in Running : StartedAgain(d)'
  BY <1>3, <1>4, StartedAgainStays
<1>6. NoTaskLost'
  BY <1>3, <1>5 DEF NoTaskLost
<1>7. c \notin earlier' /\ stopper' = stopper
  BY DEF TaInv, NewIsUntouched, RunTask
<1>8. StopEndsTask'
  BY <1>3, <1>5, <1>7 DEF StopEndsTask
<1> QED
  BY <1>1, <1>2, <1>6, <1>8 DEF TaInv

\* The steps that leave the monitors' ends and the runner's fields alone.
LEMMA QuietInv ==
  ASSUME TaInv, NEW c \in Tasks, Refuse(c) \/ TaskEnds(c) \/ MonitorReads(c)
  PROVE  TaInv'
<1> USE TaskAssumption
<1>1. TaTypeOK'
  BY DEF TaInv, TaTypeOK, Refuse, TaskEnds, MonitorReads
<1>2. OwnProcessWatched' /\ NewIsUntouched'
  BY DEF TaInv, TaTypeOK, Refuse, TaskEnds, MonitorReads, OwnProcessWatched, NewIsUntouched
<1>3. /\ MonitorsStay /\ Running' \subseteq Running /\ proc' = proc
      /\ earlier' = earlier /\ stopper' = stopper
  BY DEF TaInv, TaTypeOK, Refuse, TaskEnds, MonitorReads, Running, MonitorsStay
<1>4. NoTaskLost'
  BY <1>3, RunningFrame DEF NoTaskLost
<1>5. StopEndsTask'
  BY <1>3, StartedAgainStays DEF StopEndsTask, TaInv
<1> QED
  BY <1>1, <1>2, <1>4, <1>5 DEF TaInv

\* A monitor forgets the process that the runner holds: if that runs, it is not the
\* monitor's own, and belongs to a call with the same id.
LEMMA MonitorForgetsInv == ASSUME TaInv, NEW d \in Tasks, MonitorForgets(d) PROVE TaInv'
<1> USE TaskAssumption
<1>1. TaTypeOK'
  BY DEF TaInv, TaTypeOK, MonitorForgets
<1>2. OwnProcessWatched' /\ NewIsUntouched'
  BY DEF TaInv, TaTypeOK, MonitorForgets, OwnProcessWatched, NewIsUntouched
<1>3. /\ MonitorsStay /\ Running' = Running /\ monitor'[d] = "ended"
      /\ earlier' = earlier /\ stopper' = stopper
  BY DEF TaInv, TaTypeOK, MonitorForgets, Running, MonitorsStay
<1>4. ASSUME NEW c \in Running PROVE (proc = c \/ StartedAgain(c))'
  <2>1. CASE proc' = proc
    BY <1>3, <2>1, RunningFrame
  <2>2. CASE proc # c
    <3>1. StartedAgain(c)
      BY <2>2 DEF TaInv, NoTaskLost
    <3> QED
      BY <1>3, <3>1, StartedAgainStays
  <2>3. CASE proc' # proc /\ proc = c
    <3>1. c \in Tasks /\ current = JobOf[d] /\ current = JobOf[c]
      BY <2>3 DEF MonitorForgets, TaInv, TaTypeOK, Running
    <3>2. d # c
      BY <2>3 DEF MonitorForgets, TaInv, OwnProcessWatched
    <3>3. JobOf[d] = JobOf[c] /\ monitor'[d] = "ended" /\ d \in Tasks \ {c}
      BY <1>3, <3>1, <3>2
    <3> QED
      BY <3>3 DEF StartedAgain
  <2> QED
    BY <2>1, <2>2, <2>3
<1>5. NoTaskLost'
  BY <1>3, <1>4 DEF NoTaskLost
<1>6. StopEndsTask'
  BY <1>3, StartedAgainStays DEF StopEndsTask, TaInv
<1> QED
  BY <1>1, <1>2, <1>5, <1>6 DEF TaInv

\* stop() returns only when the runner is not busy.
LEMMA StopInv == ASSUME TaInv, Stop \/ StopReturns PROVE TaInv'
<1> USE TaskAssumption
<1>1. UNCHANGED <<task, proc, current, monitor, watched>>
  BY DEF Stop, StopReturns
<1>2. MonitorsStay /\ Running' = Running
  BY <1>1 DEF MonitorsStay, Running
<1>3. TaTypeOK' /\ OwnProcessWatched' /\ NewIsUntouched'
  BY <1>1 DEF TaInv, TaTypeOK, Stop, StopReturns, OwnProcessWatched, NewIsUntouched, Running
<1>4. NoTaskLost'
  BY <1>1, <1>2, RunningFrame DEF NoTaskLost
<1>5. StopEndsTask'
  <2> SUFFICES ASSUME stopper' = "stopped", NEW c \in Running PROVE StartedAgain(c)
    BY <1>1, <1>2, StartedAgainStays DEF StopEndsTask
  <2>1. ~Busy
    BY DEF Stop, StopReturns
  <2> QED
    BY <2>1 DEF Busy, TaInv, NoTaskLost
<1> QED
  BY <1>3, <1>4, <1>5 DEF TaInv

\* The calls and the monitors taken together.
LEMMA TaStepInv == TaInv /\ [TaNext]_taVars => TaInv'
<1> SUFFICES ASSUME TaInv, [TaNext]_taVars PROVE TaInv'
  OBVIOUS
<1>1. CASE Stop \/ StopReturns
  BY <1>1, StopInv
<1>2. ASSUME NEW c \in Tasks, RunTask(c) PROVE TaInv'
  BY <1>2, RunTaskInv
<1>3. ASSUME NEW c \in Tasks, Refuse(c) \/ TaskEnds(c) \/ MonitorReads(c) PROVE TaInv'
  BY <1>3, QuietInv
<1>4. ASSUME NEW c \in Tasks, MonitorForgets(c) PROVE TaInv'
  BY <1>4, MonitorForgetsInv
<1>5. CASE UNCHANGED taVars
  BY <1>5
  DEF taVars, TaInv, TaTypeOK, OwnProcessWatched, NewIsUntouched, NoTaskLost, StopEndsTask,
      StartedAgain, Running
<1> QED
  BY <1>1, <1>2, <1>3, <1>4, <1>5 DEF TaNext

\* Every state of the specification satisfies the invariant.
LEMMA TaInvariance == TaSpec => []TaInv
BY TaInitInv, TaStepInv, PTL DEF TaSpec

\* For any number of calls of run_task(), and however late the monitors are, the
\* process that runs is the one that the runner holds, and once stop() has returned
\* nothing that ran before it runs on, unless its job was started again under the
\* same id.
THEOREM RunnerKeepsItsTasks == TaSpec => []RunnerKeepsTasks
<1>1. TaInv => RunnerKeepsTasks
  BY DEF TaInv, RunnerKeepsTasks
<1> QED
  BY <1>1, TaInvariance, PTL

-----------------------------------------------------------------------------
(* The AWS script *)

\* The places of the script.
Scripts == {"get_profile", "create_role", "attach", "create_profile", "add_role", "find_ami",
            "search_ami", "find_group", "create_group", "launch", "launched", "wait", "stream",
            "finally", "terminate", "ended"}

\* What a run leaves of the role and the profile when it is not broken off
Consistent ==
  \/ profile = "none" /\ role \in {-1, Policies}
  \/ profile = "ready" /\ role = Policies

\* The role and the profile while they are made, in an account that was not spoiled
ProfileInHand ==
  spoiled \/
    /\ pc = "get_profile" => Consistent
    /\ pc = "create_role" => profile = "none" /\ role \in {-1, Policies}
    /\ pc = "attach" => profile = "none" /\ role \in 0..(Policies - 1)
    /\ pc = "create_profile" => profile = "none" /\ role = Policies
    /\ pc = "add_role" => profile = "empty" /\ role = Policies
    /\ pc \in {"find_ami", "search_ami", "find_group", "create_group", "launch", "launched",
               "wait", "stream"} => profile = "ready" /\ role = Policies
    /\ pc \in {"finally", "terminate", "ended"} => Consistent \/ BrokeAt(ProfileSteps)

\* The script knows its instance, from the answer of run_instances() on.
InstanceInHand ==
  /\ pc \in Scripts \ {"launched", "wait", "stream", "finally", "terminate", "ended"} =>
       instance = "none"
  /\ pc \in {"wait", "stream"} => instance_id
  /\ pc \in {"launched", "terminate"} \/ instance_id => instance # "none"
  /\ pc = "finally" /\ Billed => instance_id \/ BrokeAt({"launched"})

\* The inductive invariant: what the account holds follows from the place of the script.
AwInv ==
  /\ pc \in Scripts /\ instance \in {"none", "pending", "running", "gone"}
  /\ role \in Int
  /\ ProfileInHand /\ InstanceInHand /\ AccountKept

\* The account is empty and the script is at its first call.
LEMMA AwInitInv == AwInit => AwInv
<1> SUFFICES ASSUME AwInit PROVE AwInv
  OBVIOUS
<1>1. pc = "get_profile" /\ instance = "none" /\ ~instance_id /\ role = -1 /\ profile = "none"
  BY DEF AwInit
<1>2. ProfileInHand
  BY <1>1 DEF ProfileInHand, Consistent
<1>3. InstanceInHand /\ AccountKept
  BY <1>1 DEF InstanceInHand, Scripts, Billed, AccountKept, NoInstanceLeft, ProfileWorks
<1> QED
  BY <1>1, <1>2, <1>3 DEF AwInv, Scripts

\* The calls in groups: the profile, the network, the instance, and what breaks them off.
LEMMA AwInvStep == AwInv /\ [AwNext]_awVars => AwInv'
<1> SUFFICES ASSUME AwInv, [AwNext]_awVars PROVE AwInv'
  OBVIOUS
<1> USE DEF AwInv, Scripts, Consistent, ProfileInHand, InstanceInHand, AccountKept,
            NoInstanceLeft, ProfileWorks, Billed, BrokeAt, ProfileSteps, Policies, Goto,
            accountVars, machineVars, scriptVars, awVars
<1>1. ASSUME GetProfile \/ CreateRole \/ AttachPolicy \/ CreateProfile \/ AddRole PROVE AwInv'
  BY <1>1 DEF GetProfile, CreateRole, AttachPolicy, CreateProfile, AddRole
<1>2. ASSUME FindAmi \/ FindGroup \/ CreateGroup PROVE AwInv'
  BY <1>2 DEF FindAmi, FindGroup, CreateGroup
<1>3. ASSUME Launch \/ Launched \/ WaitRunning PROVE AwInv'
  BY <1>3 DEF Launch, Launched, WaitRunning
<1>4. ASSUME Stream \/ StreamTimesOut \/ Finally \/ Terminate PROVE AwInv'
  BY <1>4 DEF Stream, StreamTimesOut, Finally, Terminate
<1>5. ASSUME CallFails \/ TerminateFails \/ Detach PROVE AwInv'
  BY <1>5 DEF CallFails, TerminateFails, Detach, BreakAt, Tried
<1>6. ASSUME Interrupt \/ Kill PROVE AwInv'
  BY <1>6 DEF Interrupt, Kill, BreakAt, Tried
<1>7. ASSUME StartAgain PROVE AwInv'
  BY <1>7 DEF StartAgain, Fresh
<1>8. ASSUME InstanceMoves \/ Boots \/ Signals \/ UserDataFails \/ UNCHANGED awVars PROVE AwInv'
  BY <1>8 DEF InstanceMoves, Boots, Signals, UserDataFails, UserDataTo
<1> HIDE DEF AwInv
<1> QED
  BY <1>1, <1>2, <1>3, <1>4, <1>5, <1>6, <1>7, <1>8 DEF AwNext, Proceeds, MustFail

\* Whatever call to AWS fails and whenever aws_train.py is interrupted: a run that
\* may terminate its instance and was not detached leaves it only when it was broken
\* off before it knew the instance or while it was terminating it, or was killed; and
\* an instance runs with a complete profile unless an earlier run was broken off
\* between two calls that make one.
THEOREM AccountIsKept == AwSpec => []AccountKept
<1>1. AwInv => AccountKept
  BY DEF AwInv
<1> QED
  BY <1>1, AwInitInv, AwInvStep, PTL DEF AwSpec
=============================================================================
