----------------------------- MODULE AwsScript -----------------------------
(***************************************************************************)
(* scripts/aws_train.py: the script prepares the account, launches one     *)
(* instance whose user data trains, follows the log and terminates the     *)
(* instance.  Every call to AWS is a step that may raise; Ctrl+C and a     *)
(* kill may come between any two; the script may be started again in the   *)
(* account that an earlier run left.                                       *)
(***************************************************************************)
EXTENDS Integers

CONSTANT MaxStarts  \* bound: runs of the script

ASSUME MaxStartsAssumption == MaxStarts \in Nat \ {0}

Policies == 2  \* attach_role_policy() is called for SSM and for S3

VARIABLES
  pc,          \* where the script is
  no_terminate,
  instance_id, \* whether the variable of main() is set
  broke,       \* history: where and how this run was broken off
  spoiled,     \* history: an earlier run was broken off at one of the ProfileSteps
  starts,
  role,        \* how many policies the role has, -1 without a role
  profile,     \* "none", "empty", or "ready" with its role
  group,       \* whether the security group exists
  instance,    \* of this run: "none", "pending", "running", "gone"
  job,         \* the user data: "boot", "training", "done" or "broken"
  waited         \* the deadline of wait_for_log() has passed

accountVars == <<role, profile, group>>
machineVars == <<instance, job>>
scriptVars == <<no_terminate, instance_id, broke, spoiled, starts>>
awVars == <<pc, waited, accountVars, machineVars, scriptVars>>

Fresh ==
  /\ pc' = "get_profile" /\ instance_id' = FALSE
  /\ no_terminate' \in BOOLEAN
  /\ instance' = "none" /\ job' = "boot" /\ waited' = FALSE

AwInit ==
  /\ pc = "get_profile" /\ instance_id = FALSE
  /\ no_terminate \in BOOLEAN
  /\ broke = {} /\ spoiled = FALSE /\ starts = 1
  /\ role = -1 /\ profile = "none" /\ group = FALSE
  /\ instance = "none" /\ job = "boot" /\ waited = FALSE

Goto(from, to) == pc = from /\ pc' = to

-----------------------------------------------------------------------------
(* get_or_create_iam_profile() *)

\* A profile of that name is used as it is.
GetProfile ==
  /\ Goto("get_profile", IF profile # "none" THEN "find_ami" ELSE "create_role")
  /\ UNCHANGED <<waited, accountVars, machineVars, scriptVars>>

\* EntityAlreadyExists skips the policies.
CreateRole ==
  /\ Goto("create_role", IF role # -1 THEN "create_profile" ELSE "attach")
  /\ role' = IF role # -1 THEN role ELSE 0
  /\ UNCHANGED <<waited, profile, group, machineVars, scriptVars>>

AttachPolicy ==
  /\ Goto("attach", IF role + 1 < Policies THEN "attach" ELSE "create_profile")
  /\ role' = role + 1
  /\ UNCHANGED <<waited, profile, group, machineVars, scriptVars>>

CreateProfile ==
  /\ Goto("create_profile", "add_role")
  /\ profile' = "empty"
  /\ UNCHANGED <<waited, role, group, machineVars, scriptVars>>

AddRole ==
  /\ Goto("add_role", "find_ami")
  /\ profile' = "ready"
  /\ UNCHANGED <<waited, role, group, machineVars, scriptVars>>

-----------------------------------------------------------------------------
(* find_ami(), get_or_create_security_group(), the launch *)

\* The known image, or the newest of a search when it cannot be described.
FindAmi ==
  /\ \/ Goto("find_ami", "find_group")
     \/ Goto("find_ami", "search_ami")
     \/ Goto("search_ami", "find_group")
  /\ UNCHANGED <<waited, accountVars, machineVars, scriptVars>>

\* A ClientError of the description is passed over, and a group created.
FindGroup ==
  /\ \/ Goto("find_group", "launch") /\ group
     \/ Goto("find_group", "create_group")
  /\ UNCHANGED <<waited, accountVars, machineVars, scriptVars>>

\* Creating a group of a name that is taken raises.
CreateGroup ==
  /\ Goto("create_group", "launch") /\ ~group
  /\ group' = TRUE
  /\ UNCHANGED <<waited, role, profile, machineVars, scriptVars>>

\* run_instances() has launched the instance ...
Launch ==
  /\ Goto("launch", "launched")
  /\ instance' = "pending"
  /\ UNCHANGED <<waited, job, accountVars, scriptVars>>

\* Mutant of Launched: the identifier is set when the instance runs.
LaunchedLate ==
  /\ Goto("launched", "wait")
  /\ instance_id' = (instance = "running")
  /\ UNCHANGED <<waited, no_terminate, broke, spoiled, starts, accountVars, machineVars>>

\* ... and instance_id is set from its answer.
Launched ==
  /\ Goto("launched", "wait")
  /\ instance_id' = TRUE
  /\ UNCHANGED <<waited, no_terminate, broke, spoiled, starts, accountVars, machineVars>>

\* The waiter returns when the instance runs.
WaitRunning ==
  /\ Goto("wait", "stream") /\ instance = "running"
  /\ UNCHANGED <<waited, accountVars, machineVars, scriptVars>>

-----------------------------------------------------------------------------
(* wait_for_log(), terminate() *)

\* The marker is found, or the deadline passed.  An instance that is not
\* registered with SSM yet is asked again.
Stream ==
  /\ Goto("stream", "finally") /\ (job = "done" \/ waited)
  /\ UNCHANGED <<waited, accountVars, machineVars, scriptVars>>

StreamTimesOut ==
  /\ pc = "stream" /\ ~waited /\ waited' = TRUE
  /\ UNCHANGED <<pc, accountVars, machineVars, scriptVars>>

\* Mutant of Finally: an instance that never ran is not terminated.
FinallyKeepsPending ==
  /\ Goto("finally", IF instance = "running" /\ ~no_terminate THEN "terminate" ELSE "ended")
  /\ UNCHANGED <<waited, accountVars, machineVars, scriptVars>>

Finally ==
  /\ Goto("finally", IF instance_id /\ ~no_terminate THEN "terminate" ELSE "ended")
  /\ UNCHANGED <<waited, accountVars, machineVars, scriptVars>>

Terminate ==
  /\ Goto("terminate", "ended")
  /\ instance' = "gone"
  /\ UNCHANGED <<waited, job, accountVars, scriptVars>>

-----------------------------------------------------------------------------
(* What breaks a run off *)

BreakAt(places) ==
  /\ broke' = broke \cup places
  /\ UNCHANGED <<waited, no_terminate, instance_id, spoiled, starts, accountVars, machineVars>>

Tried == pc \notin {"finally", "terminate", "ended"}

\* A call raises, and has no effect, or its answer is lost: the finally clause
\* follows.
CallFails == Tried /\ pc' = "finally" /\ BreakAt({pc})

\* The group exists although it was not found; the instance goes while it is
\* waited for.
MustFail ==
  /\ \/ pc = "create_group" /\ group
     \/ pc = "wait" /\ instance = "gone"
  /\ CallFails

\* terminate_instances() raises: a message is printed.
TerminateFails == Goto("terminate", "ended") /\ BreakAt({pc})

\* Ctrl+C: main() catches it, its finally clause does not.
Interrupt ==
  /\ pc \notin {"stream", "ended"}
  /\ pc' = (IF Tried THEN "finally" ELSE "ended")
  /\ BreakAt({pc})

\* Ctrl+C in wait_for_log(), "to detach, instance keeps running": whether it or
\* main() catches it, the finally clause follows.
Detach == Goto("stream", "finally") /\ BreakAt({"detached"})

Kill == pc # "ended" /\ pc' = "ended" /\ BreakAt({"killed", pc})

BrokeAt(places) == broke \cap places # {}

\* Where the calls made so far have left a role or a profile that the next run
\* takes for complete: a role without its policies, a profile without its role.
ProfileSteps == {"attach", "add_role"}

StartAgain ==
  /\ pc = "ended" /\ starts < MaxStarts
  /\ starts' = starts + 1
  /\ broke' = {} /\ spoiled' = (spoiled \/ BrokeAt(ProfileSteps))
  /\ Fresh
  /\ UNCHANGED accountVars

-----------------------------------------------------------------------------
(* The instance: make_user_data() *)

\* A spot instance may go at any time.
InstanceMoves ==
  /\ \/ instance = "pending" /\ instance' = "running"
     \/ instance \in {"pending", "running"} /\ instance' = "gone"
  /\ UNCHANGED <<pc, waited, job, accountVars, scriptVars>>

UserDataTo(from, to) ==
  /\ instance = "running" /\ job \in from /\ job' = to
  /\ UNCHANGED <<pc, waited, instance, accountVars, scriptVars>>

\* The commands run under set -e, the marker is touched by the last one.
Boots == UserDataTo({"boot"}, "training")
Signals == UserDataTo({"training"}, "done")
UserDataFails == UserDataTo({"boot", "training"}, "broken")

Proceeds ==
  \/ GetProfile \/ CreateRole \/ AttachPolicy \/ CreateProfile \/ AddRole
  \/ FindAmi \/ FindGroup \/ CreateGroup \/ Launch \/ Launched \/ WaitRunning
  \/ Stream \/ Finally \/ Terminate \/ MustFail

AwNext ==
  \/ Proceeds \/ StreamTimesOut
  \/ CallFails \/ TerminateFails \/ Interrupt \/ Detach \/ Kill \/ StartAgain
  \/ InstanceMoves \/ Boots \/ Signals \/ UserDataFails

AwSpec == AwInit /\ [][AwNext]_awVars

AwFairSpec ==
  /\ AwSpec
  /\ WF_awVars(Proceeds) /\ WF_awVars(StreamTimesOut) /\ WF_awVars(InstanceMoves)

-----------------------------------------------------------------------------
(* What the script promises *)

Billed == instance \in {"pending", "running"}

\* A run that may terminate its instance leaves it behind only when it was broken
\* off before it knew the instance or while it was terminating it, or when it was
\* killed.  Of a run that was detached nothing is asked: it was told that its
\* instance keeps running (aws_train.py:190, 229), and terminates it.
NoInstanceLeft ==
  pc = "ended" /\ Billed /\ ~no_terminate =>
    BrokeAt({"launched", "finally", "terminate", "killed", "detached"})

\* An instance is launched with the role and both policies, unless an earlier run
\* was broken off, by an error, Ctrl+C or a kill, inside get_or_create_iam_profile()
\* after it had created the role or the profile and before that was complete.
ProfileWorks ==
  instance # "none" /\ (profile # "ready" \/ role # Policies) => spoiled

\* What a run leaves in the account of its user, wherever it is broken off.
AccountKept == NoInstanceLeft /\ ProfileWorks

\* Every run ends, whatever becomes of the instance and of its user data.
ScriptEnds == []<>(pc = "ended")
=============================================================================
