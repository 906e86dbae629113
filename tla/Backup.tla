------------------------------- MODULE Backup -------------------------------
(***************************************************************************)
(* cloud/backup.py: an upload puts the checkpoint's object and saves a     *)
(* record of its checksum; a download reads the record and the object.     *)
(* Uploads of several processes interleave and may die between the two.    *)
(* An object is keyed by owner, job and file name, a record by a new id.   *)
(***************************************************************************)
EXTENDS Integers, FiniteSets, Functions

CONSTANTS Uploads,     \* the calls of upload(); their number is also the record's id
          RemoteKeys,
          MaxWrites,   \* bound: how often a checkpoint file is written
          NoKey

ASSUME BackupAssumption ==
  /\ IsFiniteSet(Uploads) /\ Uploads \subseteq Nat \ {0}
  /\ MaxWrites \in Nat /\ NoKey \notin RemoteKeys

VARIABLES
  backend,   \* "local" writes a file, "bucket" puts an object at once
  content,   \* the checkpoint files: how often each was written
  identity,  \* which identity the node has: it is what the data are encrypted with
  objects,   \* of each key its data, 0 when half written or mixed, and the identity
  records,   \* backup:<owner>:<id>: the key, the checksum, and the identity
  doingUp,   \* the step of each upload
  key, data, \* its file, and what it has read of it
  touched,   \* history: the upload that wrote last under each key
  overlapped,\* history: the uploads that wrote a file while another one wrote it
  restored   \* history: the downloads that succeeded: the record and the data

baVars == <<backend, content, identity, objects, records, doingUp, key, data, touched,
            overlapped, restored>>

BaInit ==
  /\ backend \in {"local", "bucket"}
  /\ content = [k \in RemoteKeys |-> 1]
  /\ identity = 1
  /\ objects = << >> /\ records = << >>
  /\ doingUp = [u \in Uploads |-> "new"]
  /\ key = [u \in Uploads |-> NoKey] /\ data = [u \in Uploads |-> 0]
  /\ touched = [k \in RemoteKeys |-> 0] /\ overlapped = {} /\ restored = {}

Upload(u, from, to) == doingUp[u] = from /\ doingUp' = [doingUp EXCEPT ![u] = to]

With(f, x, value) == [y \in DOMAIN f \cup {x} |-> IF y = x THEN value ELSE f[y]]

\* What upload u writes under its key
PutData(u, written) ==
  /\ objects' = With(objects, key[u], [data |-> written, identity |-> identity])
  /\ touched' = [touched EXCEPT ![key[u]] = u]
  /\ UNCHANGED <<backend, content, identity, records, key, data, restored>>

\* The checkpoint is written again, or written first by a later run of the job.
WriteCheckpoint(k) ==
  /\ content[k] < MaxWrites
  /\ content' = [content EXCEPT ![k] = @ + 1]
  /\ UNCHANGED <<backend, identity, objects, records, doingUp, key, data, touched, overlapped, restored>>

\* The identity file is lost, and another identity generated: by a new process,
\* after the uploads of the old one.
LoseIdentity ==
  /\ identity = 1 /\ identity' = 2
  /\ \A u \in Uploads : doingUp[u] \notin {"put", "write", "record"}
  /\ UNCHANGED <<backend, content, objects, records, doingUp, key, data, touched, overlapped, restored>>

\* The file is read.
ReadCheckpoint(u, k) ==
  /\ Upload(u, "new", "put")
  /\ key' = [key EXCEPT ![u] = k] /\ data' = [data EXCEPT ![u] = content[k]]
  /\ UNCHANGED <<backend, content, identity, objects, records, touched, overlapped, restored>>

\* The other uploads that have opened the file of u and not closed it
WritersBeside(u) == {v \in Uploads \ {u} : doingUp[v] = "write" /\ key[v] = key[u]}

\* _local_put() truncates the file and writes it from its own offset, so that what
\* uploads write that have it open at once may be mixed.
LocalPut(u) ==
  \/ /\ Upload(u, "put", "write")
     /\ PutData(u, 0)
     /\ overlapped' = IF WritersBeside(u) = {} THEN overlapped
                      ELSE overlapped \cup {u} \cup WritersBeside(u)
  \/ /\ Upload(u, "write", "record")
     /\ \/ PutData(u, data[u])
        \/ u \in overlapped /\ PutData(u, 0)
     /\ UNCHANGED overlapped

\* _put_object(): a bucket replaces the object at once.
PutObject(u) ==
  \/ backend = "local" /\ LocalPut(u)
  \/ /\ backend = "bucket" /\ Upload(u, "put", "record")
     /\ PutData(u, data[u]) /\ UNCHANGED overlapped

\* _save_record()
SaveRecord(u) ==
  /\ Upload(u, "record", "done")
  /\ records' = With(records, u, [remote_key |-> key[u], checksum |-> data[u],
                                  identity |-> identity])
  /\ UNCHANGED <<backend, content, identity, objects, key, data, touched, overlapped, restored>>

\* The put raises, or the process dies; of a local file some may be written.
UploadDies(u) ==
  /\ \E s \in {"put", "write", "record"} : Upload(u, s, "dead")
  /\ IF doingUp[u] = "write"
     THEN \E written \in {0, objects[key[u]].data} : PutData(u, written)
     ELSE UNCHANGED <<backend, content, identity, objects, records, key, data, touched, restored>>
  /\ UNCHANGED overlapped

\* The record expires after 90 days, the object stays.
RecordExpires(u) ==
  /\ u \in DOMAIN records
  /\ records' = Restrict(records, DOMAIN records \ {u})
  /\ UNCHANGED <<backend, content, identity, objects, doingUp, key, data, touched, overlapped, restored>>

\* Mutant of Verified: the checksum is not compared.
VerifiedBlindly(r) ==
  r.remote_key \in DOMAIN objects /\ objects[r.remote_key].identity = identity

\* download() gets the object, can decrypt it, and finds the recorded checksum.
Verified(r) ==
  /\ r.remote_key \in DOMAIN objects
  /\ objects[r.remote_key].identity = identity
  /\ objects[r.remote_key].data = r.checksum

\* A download that is not verified writes nothing.
Download(u) ==
  /\ u \in DOMAIN records /\ Verified(records[u])
  /\ restored' = restored \cup {<<u, objects[records[u].remote_key].data>>}
  /\ UNCHANGED <<backend, content, identity, objects, records, doingUp, key, data, touched, overlapped>>

BaNext ==
  \/ LoseIdentity
  \/ \E k \in RemoteKeys : WriteCheckpoint(k)
  \/ \E u \in Uploads :
       \/ PutObject(u) \/ SaveRecord(u) \/ UploadDies(u) \/ RecordExpires(u) \/ Download(u)
       \/ \E k \in RemoteKeys : ReadCheckpoint(u, k)

BaSpec == BaInit /\ [][BaNext]_baVars

-----------------------------------------------------------------------------
(* What the backup promises *)

\* The types, and that every record names an object: an upload that breaks off
\* leaves at most an object that no record lists.
BaTypeOK ==
  /\ content \in [RemoteKeys -> Nat] /\ identity \in 1..2
  /\ doingUp \in [Uploads -> {"new", "put", "write", "record", "done", "dead"}]
  /\ DOMAIN records \subseteq Uploads /\ DOMAIN objects \subseteq RemoteKeys
  /\ \A u \in DOMAIN records : records[u].remote_key \in DOMAIN objects

\* The upload that wrote last under a key can be downloaded as soon as it is
\* recorded, whatever the uploads before it and beside it did, while the node has
\* the identity that it was encrypted with: of an object in a bucket, and of a local
\* file unless it was open to two uploads at once (backup.py:196).
LastUploadRestorable ==
  \A k \in RemoteKeys :
    /\ touched[k] \in DOMAIN records \ overlapped
    /\ records[touched[k]].identity = identity
    => Verified(records[touched[k]])

\* A download returns what was read at the upload of that record: never the
\* object of a later upload with the same name, nor one that is half written or mixed.
DownloadsAreWhole == \A r \in restored : r[2] = data[r[1]]

\* What is recorded can be had back, and nothing else is given out for it.
BackupsKept == BaTypeOK /\ LastUploadRestorable /\ DownloadsAreWhole
=============================================================================
