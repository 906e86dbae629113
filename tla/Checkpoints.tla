---------------------------- MODULE Checkpoints ----------------------------
(***************************************************************************)
(* The checkpoint directory of src/utils/checkpoint.py: save() writes a    *)
(* file, replaces the link latest.pt and removes the files that sort       *)
(* first.  Each file operation is a step, so that a crash may come in      *)
(* between.  A file is named by its epoch and step.                        *)
(***************************************************************************)
EXTENDS Integers, FiniteSets, Functions

CONSTANTS keep_last_n,
          NoFile

ASSUME KeepAssumption == keep_last_n \in Nat \ {0}

VARIABLES
  files,  \* the files: the number of the save that each holds, 0 when torn
  link,   \* what latest.pt points to
  saver,  \* where save() is
  name,   \* the file that save() writes
  saves   \* how many files were written

ckVars == <<files, link, saver, name, saves>>

CkInit ==
  /\ files = << >>
  /\ link = NoFile
  /\ saver = "idle"
  /\ name = NoFile
  /\ saves = 0

Names == DOMAIN files

\* The order of the file names
Before(a, b) == a[1] < b[1] \/ (a[1] = b[1] /\ a[2] < b[2])

Write(n, content) == files' = [f \in Names \cup {n} |-> IF f = n THEN content ELSE files[f]]

\* Mutant of BeginSave: all saves have one file name.
BeginSaveSameName(n) ==
  /\ saver = "idle"
  /\ Write(<<0, 0>>, 0)
  /\ name' = <<0, 0>>
  /\ saver' = "write"
  /\ UNCHANGED <<link, saves>>

\* torch.save() opens the file, which truncates one of the same name.
BeginSave(n) ==
  /\ saver = "idle"
  /\ Write(n, 0)
  /\ name' = n
  /\ saver' = "write"
  /\ UNCHANGED <<link, saves>>

\* torch.save() has written everything.
EndWrite ==
  /\ saver = "write"
  /\ Write(name, saves + 1)
  /\ saves' = saves + 1
  /\ saver' = "unlink"
  /\ UNCHANGED <<link, name>>

\* if os.path.islink(link): os.remove(link)
Unlink ==
  /\ saver = "unlink"
  /\ link' = NoFile
  /\ saver' = "link"
  /\ UNCHANGED <<files, name, saves>>

Link ==
  /\ saver = "link"
  /\ link' = name
  /\ saver' = "rotate"
  /\ UNCHANGED <<files, name, saves>>

\* checkpoints.pop(0)
Oldest == CHOOSE f \in Names : \A g \in Names \ {f} : Before(f, g)

\* while len(checkpoints) > keep_last_n
Rotate ==
  /\ saver = "rotate" /\ Cardinality(Names) > keep_last_n
  /\ files' = Restrict(files, Names \ {Oldest})
  /\ UNCHANGED <<link, saver, name, saves>>

EndSave ==
  /\ saver = "rotate" /\ Cardinality(Names) <= keep_last_n
  /\ saver' = "idle"
  /\ UNCHANGED <<files, link, name, saves>>

\* load_latest() finds a file that torch.load() can read.
Loadable == link \in Names /\ files[link] # 0

\* The process is gone, whatever it was saving.
SaverDies == saver' = "idle" /\ UNCHANGED <<files, link, name, saves>>

SaveStep == EndWrite \/ Unlink \/ Link \/ Rotate
=============================================================================
