----------------------------- MODULE MCTraining -----------------------------
(***************************************************************************)
(* The training programs, the AWS script and the task runner, side by      *)
(* side: part says which of them moves, the others stay where they began.  *)
(***************************************************************************)
EXTENDS Training, AwsScript, TaskRunner

VARIABLE part

vars == <<part, trVars, awVars, taVars>>

\* The first job is started again after the second.
JobIds == [c \in Tasks |-> IF c = 2 THEN "second" ELSE "first"]

Init ==
  /\ part \in {"training", "aws", "tasks"}
  /\ TrInit /\ AwInit /\ TaInit
  /\ part # "aws" => no_terminate
  /\ part # "training" => program = "trainer"

TrainingOnly(A) == part = "training" /\ A /\ UNCHANGED <<part, awVars, taVars>>
AwsOnly(A) == part = "aws" /\ A /\ UNCHANGED <<part, trVars, taVars>>
TasksOnly(A) == part = "tasks" /\ A /\ UNCHANGED <<part, trVars, awVars>>

Next == TrainingOnly(TrNext) \/ AwsOnly(AwNext) \/ TasksOnly(TaNext)

Spec ==
  /\ Init /\ [][Next]_vars
  /\ WF_vars(TrainingOnly(GroupStep))
  /\ \A r \in Ranks : WF_vars(TrainingOnly(RankStep(r)))
  /\ WF_vars(AwsOnly(Proceeds)) /\ WF_vars(AwsOnly(StreamTimesOut)) /\ WF_vars(AwsOnly(InstanceMoves))

TrainingEnds == part = "training" => RanksEnd
AwsEnds == part = "aws" => ScriptEnds

\* Training ends, with a deadline or without (train.py:190), and so does the script
\* that started it, whatever fails.
RunsEnd == TrainingEnds /\ AwsEnds
=============================================================================
