---------------------------- MODULE BackupProofs ----------------------------
(***************************************************************************)
(* Proofs about Backup, for any uploads, retention and number of runs,     *)
(* restores and faults.                                                    *)
(***************************************************************************)
EXTENDS Backup, FiniteSetTheorems, WellFoundedInduction, TLAPS

-----------------------------------------------------------------------------
(* The inductive invariant *)

Typed == TypeOK /\ runs \in 0 .. MaxRuns

\* The archive has its name for good.
IsClosed == job.pc \in {"resolving", "removing", "pruning", "uploading", "pruningRemote"}
IsPruned == job.pc \in {"pruning", "uploading", "pruningRemote"}

\* What the run under way has done to its archive, by its step.
JobKnows ==
  job # Off =>
    /\ IsClosed => job.archive.whole /\ At \notin dumps
    /\ ~IsClosed => ~job.archive.whole
    /\ job.pc \in {"removing", "uploading", "pruningRemote"} => job.archive.sealed
    /\ job.pc = "pruning" /\ WillUpload => job.archive.sealed
    /\ ~job.encrypt => At \in open
    /\ restore # Off => At \in disturbed
    /\ IsPruned /\ config.recipient /\ At \notin open =>
         \A b \in local : b.at = At => b.sealed

\* Unless a restore meddles, what the archive's rows name is still to be
\* archived, is archived, or was erased since.
JobIsConsistent ==
  job # Off /\ At \notin disturbed =>
    /\ job.pc \in {"archiving", "adding"} =>
         job.archive.db \subseteq disk \cup job.archive.torn
    /\ job.pc = "closing" \/ IsClosed =>
         job.archive.db \subseteq job.archive.files \cup job.archive.torn

\* SQLite: between moving the database aside and extracting one there is none.
NoDatabase ==
  /\ restore.pc = "replaying" => config.postgres
  /\ ~config.postgres /\ restore.pc \in {"movingUploads", "extracting"} => ~present /\ rows = {}

\* Until its row is committed an upload is only a file.
NothingLost ==
  \A f \in File :
    /\ life[f] \in {"saved", "committed"} => f \in disk \cup aside.files
    /\ life[f] = "committed" => f \in rows \cup aside.rows

BackupInv ==
  /\ Typed /\ JobKnows /\ JobIsConsistent /\ NoDatabase
  /\ OnlySealedLeaves /\ PlaintextIsTransient
  /\ ArchivesAreConsistent /\ NothingLost

-----------------------------------------------------------------------------
(* Records *)

LEMMA OffIsNone == Off \notin Job /\ Off \notin Restore /\ Off.pc = "off"
BY DEF Off, Job, Restore

\* A run goes on to its next step.
LEMMA JobSteps ==
  ASSUME NEW j \in Job,
         NEW pc \in {"dumping", "archiving", "adding", "closing", "resolving", "removing",
                     "pruning", "uploading", "pruningRemote"}
  PROVE  LET k == [j EXCEPT !.pc = pc]
         IN  /\ k \in Job /\ k.pc = pc /\ k.keep = j.keep /\ k.upload = j.upload
             /\ k.encrypt = j.encrypt /\ k.archive = j.archive
BY DEF Job

LEMMA JobTorn ==
  ASSUME NEW j \in Job, NEW f \in File
  PROVE  LET k == [j EXCEPT !.archive.torn = @ \cup {f}]
         IN  /\ k \in Job /\ k.pc = j.pc /\ k.keep = j.keep /\ k.upload = j.upload
             /\ k.encrypt = j.encrypt
             /\ k.archive.at = j.archive.at /\ k.archive.sealed = j.archive.sealed
             /\ k.archive.whole = j.archive.whole /\ k.archive.db = j.archive.db
             /\ k.archive.files = j.archive.files
             /\ k.archive.torn = j.archive.torn \cup {f}
BY DEF Job, Archive

LEMMA SnapshotFields ==
  ASSUME Typed, job \in Job
  PROVE  /\ Snapshot \in Job /\ Snapshot.pc = job.pc /\ Snapshot.keep = job.keep
         /\ Snapshot.upload = job.upload /\ Snapshot.encrypt = job.encrypt
         /\ Snapshot.archive.at = job.archive.at
         /\ Snapshot.archive.sealed = job.archive.sealed
         /\ Snapshot.archive.whole = job.archive.whole
         /\ Snapshot.archive.db = rows
         /\ Snapshot.archive.torn = job.archive.torn \cup (rows \ disk)
BY DEF Snapshot, Job, Archive, Typed, TypeOK

LEMMA SealedFields ==
  ASSUME NEW a \in Archive, NEW s \in BOOLEAN, NEW w \in BOOLEAN
  PROVE  LET k == [a EXCEPT !.sealed = s, !.whole = w]
         IN  /\ k \in Archive /\ k.sealed = s /\ k.whole = w /\ k.at = a.at /\ k.db = a.db
             /\ k.files = a.files /\ k.torn = a.torn
BY DEF Archive

-----------------------------------------------------------------------------
(* Steps of the backend *)

LEMMA BackendKeeps ==
  ASSUME BackupInv, BackendStep
  PROVE  BackupInv'
<1> USE DEF BackupInv, Elsewhere, store, history, counters, Live
<1>f. /\ rows \subseteq File /\ disk \subseteq File /\ job \in Job \cup {Off}
      /\ life \in [File -> {"new", "saved", "committed", "deleting", "erased"}]
  BY DEF Typed, TypeOK
<1>1. ASSUME NEW f \in File,
             SaveUpload(f) \/ CommitUpload(f) \/ EraseRow(f)
      PROVE  BackupInv'
  <2> USE DEF SaveUpload, CommitUpload, EraseRow
  <2>1. UNCHANGED <<job, config, restore, local, remote, dumps, unfinished, open, disturbed>>
    BY <1>1
  <2>2. Typed'
    BY <1>1, <1>f DEF Typed, TypeOK
  <2>3. JobKnows' /\ OnlySealedLeaves' /\ PlaintextIsTransient' /\ ArchivesAreConsistent'
    BY <2>1 DEF JobKnows, IsClosed, IsPruned, At, WillUpload, OnlySealedLeaves,
       PlaintextIsTransient, ArchivesAreConsistent
  <2>4. JobIsConsistent'
    <3>1. disk \subseteq disk'
      BY <1>1
    <3> QED
      BY <2>1, <3>1 DEF JobIsConsistent, IsClosed, At
  <2>5. NoDatabase'
    BY <1>1 DEF NoDatabase
  <2>6. NothingLost'
    <3>1. \A g \in File : g # f => life'[g] = life[g]
      BY <1>1, <1>f
    <3>2. \A g \in File \ {f} : (g \in rows' <=> g \in rows) /\ (g \in disk => g \in disk')
      BY <1>1
    <3>3. /\ life'[f] \in {"saved", "committed"} => f \in disk' \cup aside.files
          /\ life'[f] = "committed" => f \in rows'
      BY <1>1, <1>f DEF NothingLost
    <3>4. aside' = aside
      BY <1>1
    <3> QED
      BY <3>1, <3>2, <3>3, <3>4 DEF NothingLost
  <2> QED
    BY <2>2, <2>3, <2>4, <2>5, <2>6
<1>2. ASSUME NEW f \in File, EraseFile(f) PROVE BackupInv'
  <2> USE DEF EraseFile
  <2>1. /\ UNCHANGED <<rows, present, config, restore, aside, local, remote, dumps, unfinished,
                       open, disturbed>>
        /\ disk' = disk \ {f}
    BY <1>2
  <2>2. /\ job = Off => job' = Off
        /\ job # Off =>
             /\ job' \in Job /\ job'.pc = job.pc /\ job'.keep = job.keep
             /\ job'.upload = job.upload /\ job'.encrypt = job.encrypt
             /\ job'.archive.at = job.archive.at /\ job'.archive.sealed = job.archive.sealed
             /\ job'.archive.whole = job.archive.whole /\ job'.archive.db = job.archive.db
             /\ job'.archive.files = job.archive.files
             /\ job.archive.torn \subseteq job'.archive.torn
             /\ job.pc \in {"archiving", "adding"} => f \in job'.archive.torn
    <3>1. CASE job.pc \in {"archiving", "adding"}
      <4>1. job \in Job /\ job # Off /\ job' = [job EXCEPT !.archive.torn = @ \cup {f}]
        BY <1>2, <1>f, <3>1, OffIsNone
      <4> QED
        BY <4>1, JobTorn
    <3>2. CASE job.pc \notin {"archiving", "adding"}
      <4>1. job' = job
        BY <1>2, <3>2
      <4> QED
        BY <4>1, <3>2, <1>f
    <3> QED
      BY <3>1, <3>2
  <2>3. Typed'
    BY <1>2, <1>f, <2>2 DEF Typed, TypeOK
  <2>4. job # Off <=> job' # Off
    BY <2>2, OffIsNone
  <2>5. JobKnows'
    BY <2>1, <2>2, <2>4 DEF JobKnows, IsClosed, IsPruned, At, WillUpload
  <2>6. OnlySealedLeaves' /\ PlaintextIsTransient' /\ ArchivesAreConsistent'
    BY <2>1, <2>2, <2>4 DEF OnlySealedLeaves, PlaintextIsTransient, ArchivesAreConsistent, At
  <2>7. JobIsConsistent'
    BY <2>1, <2>2, <2>4 DEF JobIsConsistent, IsClosed, At
  <2>8. NoDatabase'
    BY <2>1 DEF NoDatabase
  <2>9. NothingLost'
    <3>1. life'[f] = "deleting" /\ \A g \in File : g # f => life'[g] = life[g]
      BY <1>2, <1>f
    <3> QED
      BY <2>1, <3>1 DEF NothingLost
  <2> QED
    BY <2>3, <2>5, <2>6, <2>7, <2>8, <2>9
<1> QED
  BY <1>1, <1>2 DEF BackendStep

-----------------------------------------------------------------------------
(* Steps of a run *)

\* The run touches neither the backend nor a restore.
LEMMA BackendRests ==
  ASSUME BackupInv, Quiet
  PROVE  NoDatabase' /\ NothingLost'
BY DEF BackupInv, Quiet, backend, NoDatabase, NothingLost

LEMMA StartKeeps ==
  ASSUME BackupInv, NEW keep \in Keep, NEW upload \in BOOLEAN, NEW encrypt \in BOOLEAN,
         StartRun(keep, upload, encrypt)
  PROVE  BackupInv'
<1> USE DEF BackupInv, StartRun, store, backend
<1>1. runs + 1 \in RunId
  BY BackupAssumption DEF Typed, RunId
<1>2. /\ NewArchive(runs + 1) \in Archive /\ NewArchive(runs + 1).at = runs + 1
      /\ NewArchive(runs + 1).db = {} /\ ~NewArchive(runs + 1).whole
  BY <1>1 DEF NewArchive, Archive
<1>3. /\ job' \in Job /\ job'.pc \in {"dumping", "archiving"} /\ job'.encrypt = encrypt
      /\ job'.archive = NewArchive(runs + 1)
  BY <1>2 DEF Job
<1>4. Typed'
  BY <1>1, <1>3, BackupAssumption DEF Typed, TypeOK
<1>5. JobKnows'
  BY <1>2, <1>3 DEF JobKnows, IsClosed, IsPruned, At
<1>6. JobIsConsistent'
  BY <1>2, <1>3 DEF JobIsConsistent, IsClosed, At
<1>7. NoDatabase' /\ NothingLost' /\ OnlySealedLeaves'
  BY DEF NoDatabase, NothingLost, OnlySealedLeaves
<1>8. PlaintextIsTransient'
  BY DEF PlaintextIsTransient
<1>9. ArchivesAreConsistent'
  BY DEF ArchivesAreConsistent
<1> QED
  BY <1>4, <1>5, <1>6, <1>7, <1>8, <1>9

LEMMA DumpKeeps ==
  ASSUME BackupInv, Dump
  PROVE  BackupInv'
<1> USE DEF BackupInv, Dump, Fine, Quiet, history, backend
<1>1. job \in Job /\ job.pc = "dumping"
  BY OffIsNone DEF Typed, TypeOK
<1>2. LET k == [Snapshot EXCEPT !.pc = "archiving"]
      IN  /\ k \in Job /\ k.pc = "archiving" /\ k.encrypt = job.encrypt /\ k.upload = job.upload
          /\ k.archive = Snapshot.archive
  BY <1>1, SnapshotFields, JobSteps
<1>3. /\ job' \in Job /\ job' # Off /\ job'.pc = "archiving" /\ job'.encrypt = job.encrypt
      /\ job'.archive.at = job.archive.at /\ job'.archive.db = rows
      /\ job'.archive.whole = job.archive.whole
      /\ rows \ disk \subseteq job'.archive.torn
  BY <1>1, <1>2, SnapshotFields, OffIsNone
<1>4. At \in RunId
  BY <1>1 DEF At, Job, Archive
<1>5. Typed'
  BY <1>3, <1>4 DEF Typed, TypeOK
<1>6. JobKnows' /\ JobIsConsistent'
  BY <1>1, <1>3, OffIsNone DEF JobKnows, JobIsConsistent, IsClosed, IsPruned, At
<1>7. OnlySealedLeaves' /\ ArchivesAreConsistent'
  BY DEF OnlySealedLeaves, ArchivesAreConsistent
<1>8. PlaintextIsTransient'
  BY <1>1, <1>3, OffIsNone DEF PlaintextIsTransient, At
<1> QED
  BY <1>5, <1>6, <1>7, <1>8, BackendRests

LEMMA AddDatabaseKeeps ==
  ASSUME BackupInv, AddDatabase
  PROVE  BackupInv'
<1> USE DEF BackupInv, Fine, Quiet, history, backend
<1>1. job \in Job /\ job.pc = "archiving"
  BY OffIsNone DEF Typed, TypeOK, AddDatabase
<1> DEFINE next == IF config.postgres THEN job ELSE Snapshot
<1>2. /\ next \in Job /\ next.encrypt = job.encrypt
      /\ next.archive.at = job.archive.at
      /\ At \notin disturbed => next.archive.db \subseteq disk \cup next.archive.torn
      /\ next.archive.whole = job.archive.whole
  BY <1>1, SnapshotFields, OffIsNone DEF JobIsConsistent
<1>a. job' = [next EXCEPT !.pc = "adding"]
  BY DEF AddDatabase
<1>b. local' = local \cup {[next.archive EXCEPT !.torn = {}]}
  BY DEF AddDatabase
<1>c. UNCHANGED <<remote, dumps, status, config, rows, present, disk, life, restore, aside, runs,
                  restores, unfinished, open, disturbed, faults>>
  BY DEF AddDatabase
<1> HIDE DEF next
<1>3. /\ job' \in Job /\ job' # Off /\ job'.pc = "adding" /\ job'.encrypt = job.encrypt
      /\ job'.archive = next.archive
  BY <1>2, <1>a, JobSteps, OffIsNone
<1>4. ~job.archive.whole
  BY <1>1, OffIsNone DEF JobKnows, IsClosed
<1>5. LET b == [next.archive EXCEPT !.torn = {}]
      IN  b \in Archive /\ b.at = At /\ ~b.whole
  <2>1. next.archive \in Archive
    BY <1>2 DEF Job
  <2> QED
    BY <2>1, <1>2, <1>4 DEF Archive, At
<1>6. Typed'
  BY <1>c, <1>b, <1>3, <1>5 DEF Typed, TypeOK
<1>7. JobKnows' /\ JobIsConsistent'
  BY <1>c, <1>1, <1>2, <1>3, <1>4, OffIsNone
     DEF JobKnows, JobIsConsistent, IsClosed, IsPruned, At
<1>8. OnlySealedLeaves' /\ NoDatabase' /\ NothingLost'
  BY <1>c DEF OnlySealedLeaves, NoDatabase, NothingLost
<1>9. ArchivesAreConsistent'
  BY <1>c, <1>b, <1>5 DEF ArchivesAreConsistent
<1>10. PlaintextIsTransient'
  BY <1>c, <1>b, <1>1, <1>2, <1>3, <1>5, OffIsNone DEF PlaintextIsTransient, At
<1> QED
  BY <1>6, <1>7, <1>8, <1>9, <1>10

LEMMA AddUploadsKeeps ==
  ASSUME BackupInv, AddUploads
  PROVE  BackupInv'
<1>0. PICK next : next = job'
  OBVIOUS
<1> USE DEF BackupInv, Fine, Quiet, history, backend, store
<1>1. job \in Job /\ job.pc = "adding" /\ disk \in SUBSET File
  BY OffIsNone DEF Typed, TypeOK, AddUploads
<1>2. next = [job EXCEPT !.pc = "closing", !.archive.files = disk]
  BY <1>0 DEF AddUploads
<1>n. /\ next \in Job /\ next # Off /\ next.pc = "closing" /\ next.encrypt = job.encrypt
      /\ next.archive.at = job.archive.at /\ next.archive.whole = job.archive.whole
      /\ next.archive.db = job.archive.db /\ next.archive.files = disk
      /\ next.archive.torn = job.archive.torn
  <2>1. PICK j \in Job : j = job
    BY <1>1
  <2>2. PICK files \in SUBSET File : files = disk
    BY <1>1
  <2> HIDE DEF BackupInv
  <2>3. next = [j EXCEPT !.pc = "closing", !.archive.files = files]
    BY <1>2, <2>1, <2>2
  <2>4. next \in Job /\ next.pc = "closing" /\ next.encrypt = j.encrypt
    BY <2>3 DEF Job, Archive
  <2>5. /\ next.archive.at = j.archive.at /\ next.archive.whole = j.archive.whole
        /\ next.archive.db = j.archive.db /\ next.archive.files = files
        /\ next.archive.torn = j.archive.torn
    BY <2>3 DEF Job, Archive
  <2> QED
    BY <2>1, <2>2, <2>4, <2>5, OffIsNone
<1>3. /\ job' \in Job /\ job' # Off /\ job'.pc = "closing" /\ job'.encrypt = job.encrypt
      /\ job'.archive.at = job.archive.at /\ job'.archive.whole = job.archive.whole
      /\ job'.archive.db = job.archive.db /\ job'.archive.files = disk
      /\ job'.archive.torn = job.archive.torn
  BY <1>0, <1>n
<1>c. UNCHANGED <<local, remote, dumps, status, config, rows, present, disk, life, restore, aside,
                  runs, restores, unfinished, open, disturbed, faults>>
  BY DEF AddUploads
<1>4. Typed'
  BY <1>c, <1>3 DEF Typed, TypeOK
<1>5. JobKnows' /\ JobIsConsistent'
  BY <1>c, <1>1, <1>3, OffIsNone DEF JobKnows, JobIsConsistent, IsClosed, IsPruned, At
<1>6. OnlySealedLeaves' /\ ArchivesAreConsistent' /\ NoDatabase' /\ NothingLost'
  BY <1>c DEF OnlySealedLeaves, ArchivesAreConsistent, NoDatabase, NothingLost
<1>7. PlaintextIsTransient'
  BY <1>c, <1>1, <1>3, OffIsNone DEF PlaintextIsTransient, At
<1> QED
  BY <1>4, <1>5, <1>6, <1>7

LEMMA CloseKeeps ==
  ASSUME BackupInv, CloseArchive
  PROVE  BackupInv'
<1> USE DEF BackupInv, Fine, Quiet, history, backend
<1>1. job \in Job /\ job.pc = "closing"
  BY OffIsNone DEF Typed, TypeOK, CloseArchive
<1>2. /\ job' = [job EXCEPT !.pc = "resolving", !.archive = Closed]
      /\ local' = (local \ Partial) \cup {Closed} /\ dumps' = dumps \ {At}
  BY DEF CloseArchive
<1>3. /\ Closed \in Archive /\ Closed.whole /\ Closed.at = At
      /\ Closed.db = job.archive.db /\ Closed.files = job.archive.files
      /\ Closed.torn = job.archive.torn
  BY <1>1 DEF Closed, Job, Archive, At
<1>a. LET k == [job EXCEPT !.pc = "resolving", !.archive = Closed]
      IN  k \in Job /\ k.pc = "resolving" /\ k.encrypt = job.encrypt /\ k.archive = Closed
  BY <1>1, <1>3 DEF Job
<1>4. /\ job' \in Job /\ job' # Off /\ job'.pc = "resolving" /\ job'.encrypt = job.encrypt
      /\ job'.archive = Closed
  BY <1>2, <1>a, OffIsNone
<1>c. UNCHANGED <<remote, status, config, rows, present, disk, life, restore, aside, runs,
                  restores, unfinished, open, disturbed, faults>>
  BY DEF CloseArchive
<1>5. Typed'
  BY <1>c, <1>2, <1>3, <1>4 DEF Typed, TypeOK
<1>6. JobKnows' /\ JobIsConsistent'
  BY <1>c, <1>1, <1>2, <1>3, <1>4, OffIsNone
     DEF JobKnows, JobIsConsistent, IsClosed, IsPruned, At
<1>7. OnlySealedLeaves' /\ NoDatabase' /\ NothingLost'
  BY <1>c DEF OnlySealedLeaves, NoDatabase, NothingLost
<1>8. ArchivesAreConsistent'
  BY <1>c, <1>1, <1>2, <1>3, OffIsNone DEF ArchivesAreConsistent, JobIsConsistent, At
<1>9. PlaintextIsTransient'
  BY <1>c, <1>1, <1>2, <1>3, <1>4, OffIsNone DEF PlaintextIsTransient, At
<1> QED
  BY <1>5, <1>6, <1>7, <1>8, <1>9

\* A step that leaves the archive what it is, and at most removes archives.
LEMMA MovesOn ==
  ASSUME BackupInv, Fine, job \in Job, IsClosed,
         UNCHANGED <<dumps, status>>,
         local' \subseteq local,
         remote' \subseteq remote \cup {job.archive}, remote' \subseteq remote \/ job.pc = "uploading",
         NEW pc \in {"resolving", "removing", "pruning", "uploading", "pruningRemote"},
         job' = [job EXCEPT !.pc = pc],
         \/ pc = job.pc
         \/ job.pc = "uploading" /\ pc = "pruningRemote"
         \/ job.pc = "pruning" /\ pc = "uploading" /\ WillUpload
         \/ /\ pc = "pruning" /\ job.pc \in {"resolving", "removing"}
            /\ WillUpload => job.archive.sealed
            /\ config.recipient /\ At \notin open => \A b \in local' : b.at = At => b.sealed
  PROVE  BackupInv'
<1> USE DEF BackupInv, Fine, Quiet, history, backend
<1>1. /\ job' \in Job /\ job' # Off /\ job # Off /\ job'.pc = pc /\ job'.upload = job.upload
      /\ job'.encrypt = job.encrypt /\ job'.archive = job.archive
  <2>1. LET k == [job EXCEPT !.pc = pc]
        IN  /\ k \in Job /\ k.pc = pc /\ k.upload = job.upload
            /\ k.encrypt = job.encrypt /\ k.archive = job.archive
    BY DEF Job
  <2> QED
    BY <2>1, OffIsNone
<1>2. Typed'
  BY <1>1 DEF Typed, TypeOK, Job
<1>3. JobKnows'
  BY <1>1 DEF JobKnows, IsClosed, IsPruned, At, WillUpload
<1>4. JobIsConsistent'
  BY <1>1 DEF JobIsConsistent, IsClosed, At
<1>5. OnlySealedLeaves'
  BY <1>1 DEF OnlySealedLeaves, JobKnows, IsClosed
<1>6. ArchivesAreConsistent'
  BY <1>1 DEF ArchivesAreConsistent, JobIsConsistent, IsClosed, At
<1>7. PlaintextIsTransient'
  BY <1>1 DEF PlaintextIsTransient, At
<1> QED
  BY <1>2, <1>3, <1>4, <1>5, <1>6, <1>7, BackendRests

LEMMA EncryptKeeps ==
  ASSUME BackupInv, Encrypt
  PROVE  BackupInv'
<1> USE DEF BackupInv, Fine, Quiet, history, backend
<1> DEFINE sealed == [job.archive EXCEPT !.sealed = TRUE]
<1>1. job \in Job /\ job.pc = "resolving"
  BY OffIsNone DEF Typed, TypeOK, Encrypt
<1>2. /\ job' = [job EXCEPT !.pc = "removing", !.archive = sealed]
      /\ local' = local \cup {sealed}
  BY DEF Encrypt
<1>3. /\ sealed \in Archive /\ sealed.sealed /\ sealed.at = At
      /\ sealed.whole = job.archive.whole
      /\ sealed.db = job.archive.db /\ sealed.files = job.archive.files
      /\ sealed.torn = job.archive.torn
  BY <1>1 DEF Job, Archive, At
<1> HIDE DEF sealed
<1>a. LET k == [job EXCEPT !.pc = "removing", !.archive = sealed]
      IN  k \in Job /\ k.pc = "removing" /\ k.encrypt = job.encrypt /\ k.archive = sealed
  BY <1>1, <1>3 DEF Job
<1>4. /\ job' \in Job /\ job' # Off /\ job'.pc = "removing" /\ job'.encrypt = job.encrypt
      /\ job'.archive = sealed
  BY <1>2, <1>a, OffIsNone
<1>c. UNCHANGED <<remote, dumps, status, config, rows, present, disk, life, restore, aside, runs,
                  restores, unfinished, open, disturbed, faults>>
  BY DEF Encrypt
<1>5. Typed'
  BY <1>c, <1>2, <1>3, <1>4 DEF Typed, TypeOK
<1>6. JobKnows' /\ JobIsConsistent'
  BY <1>c, <1>1, <1>2, <1>3, <1>4, OffIsNone
     DEF JobKnows, JobIsConsistent, IsClosed, IsPruned, At
<1>7. OnlySealedLeaves' /\ NoDatabase' /\ NothingLost'
  BY <1>c DEF OnlySealedLeaves, NoDatabase, NothingLost
<1>8. ArchivesAreConsistent'
  BY <1>c, <1>1, <1>2, <1>3, OffIsNone DEF ArchivesAreConsistent, JobIsConsistent, IsClosed, At
<1>9. PlaintextIsTransient'
  BY <1>c, <1>1, <1>2, <1>3, <1>4, OffIsNone DEF PlaintextIsTransient, At
<1> QED
  BY <1>5, <1>6, <1>7, <1>8, <1>9

\* A run that is over, and may have left half a file if it did not succeed.
LEMMA EndsWell ==
  ASSUME BackupInv, job \in Job, job' = Off,
         UNCHANGED <<config, backend, remote, restore, aside, open, disturbed, runs>>,
         status' \in {status, [success |-> TRUE, at |-> At], [success |-> FALSE, at |-> At]},
         dumps' \subseteq dumps \cup {At},
         \A b \in local' : b \in local \/ (b \in Archive /\ b.at = At /\ ~b.whole),
         \/ unfinished' = unfinished \cup {At}
         \/ /\ IsPruned /\ unfinished' = unfinished /\ local' = local /\ dumps' = dumps
  PROVE  BackupInv'
<1> USE DEF BackupInv, backend
<1>1. At \in RunId /\ RunId \subseteq 0 .. MaxRuns /\ job # Off
  BY OffIsNone DEF At, Job, Archive, RunId
<1>2. Typed'
  <2>1. status' \in [success : BOOLEAN, at : 0 .. MaxRuns]
    <3>1. At \in 0 .. MaxRuns /\ status \in [success : BOOLEAN, at : 0 .. MaxRuns]
      BY <1>1 DEF Typed, TypeOK
    <3>2. /\ [success |-> TRUE, at |-> At] \in [success : BOOLEAN, at : 0 .. MaxRuns]
          /\ [success |-> FALSE, at |-> At] \in [success : BOOLEAN, at : 0 .. MaxRuns]
      BY <3>1
    <3> QED
      BY <3>1, <3>2, Zenon
  <2>2. local' \subseteq Archive /\ dumps' \subseteq RunId /\ unfinished' \subseteq RunId
    BY <1>1 DEF Typed, TypeOK
  <2> QED
    BY <2>1, <2>2 DEF Typed, TypeOK
<1>3. JobKnows' /\ JobIsConsistent' /\ NoDatabase' /\ NothingLost' /\ OnlySealedLeaves'
  BY DEF JobKnows, JobIsConsistent, NoDatabase, NothingLost, OnlySealedLeaves
<1>4. ArchivesAreConsistent'
  BY DEF ArchivesAreConsistent
<1>5. PlaintextIsTransient'
  <2>1. CASE unfinished' = unfinished \cup {At}
    BY <1>1, <2>1 DEF PlaintextIsTransient
  <2>2. CASE IsPruned /\ unfinished' = unfinished /\ local' = local /\ dumps' = dumps
    BY <1>1, <2>2 DEF PlaintextIsTransient, JobKnows, IsPruned, IsClosed
  <2> QED
    BY <2>1, <2>2
<1> QED
  BY <1>2, <1>3, <1>4, <1>5

LEMMA RunKeeps ==
  ASSUME BackupInv, BackupStep
  PROVE  BackupInv'
<1>f. job \in Job \cup {Off}
  BY DEF BackupInv, Typed, TypeOK
<1> USE OffIsNone DEF IsClosed, IsPruned
<1>1. CASE StayPlain
  <2>1. WillUpload => FALSE
    BY <1>1 DEF StayPlain, MayStayPlain
  <2>2. config.recipient => At \in open
    BY <1>f, <1>1 DEF StayPlain, MayStayPlain, BackupInv, JobKnows
  <2> QED
    BY <1>f, <1>1, <2>1, <2>2, MovesOn DEF StayPlain, Step, store
<1>2. CASE RemovePlaintext
  <2>1. job \in Job /\ job.pc = "removing" /\ job.archive.sealed
    BY <1>f, <1>2 DEF RemovePlaintext, BackupInv, JobKnows
  <2>2. \A b \in local' : b.at = At => b.sealed
    BY <1>2 DEF RemovePlaintext, Plaintext
  <2> QED
    BY <1>2, <2>1, <2>2, MovesOn DEF RemovePlaintext, Step
<1>3. CASE PruneOne \/ PruneRemoteOne
  <2>1. job \in Job /\ job.pc \in {"pruning", "pruningRemote"}
    BY <1>f, <1>3 DEF PruneOne, PruneRemoteOne
  <2>2. job' = [job EXCEPT !.pc = job.pc]
    BY <1>3, <2>1 DEF PruneOne, PruneRemoteOne, Job
  <2> QED
    BY <1>3, <2>1, <2>2, MovesOn DEF PruneOne, PruneRemoteOne
<1>4. CASE PruneDone
  <2>1. CASE WillUpload
    BY <1>f, <1>4, <2>1, MovesOn DEF PruneDone, Step, store
  <2>2. CASE ~WillUpload
    BY <1>f, <1>4, <2>2, EndsWell
       DEF PruneDone, End, Report, store, Fine, Quiet, history
  <2> QED
    BY <2>1, <2>2
<1>5. CASE Upload
  BY <1>f, <1>5, MovesOn DEF Upload, Step
<1>6. CASE PruneRemoteDone
  BY <1>f, <1>6, EndsWell DEF PruneRemoteDone, End, Report, store, Fine, Quiet, history
<1>7. CASE Refuse
  BY <1>f, <1>7, EndsWell DEF Refuse, End, Report, store, Broken
<1>8. CASE Fail \/ Kill
  <2>1. job \in Job /\ HalfWritten
    BY <1>f, <1>8 DEF Fail, Kill
  <2>2. [job.archive EXCEPT !.sealed = TRUE, !.whole = FALSE] \in Archive
    BY <2>1 DEF Job, Archive
  <2>3. [job.archive EXCEPT !.sealed = TRUE, !.whole = FALSE].at = At
    BY <2>1 DEF Job, Archive, At
  <2>4. ~[job.archive EXCEPT !.sealed = TRUE, !.whole = FALSE].whole
    BY <2>1 DEF Job, Archive
  <2>5. /\ \A b \in local' : b \in local \/ (b \in Archive /\ b.at = At /\ ~b.whole)
        /\ dumps' \subseteq dumps \cup {At}
    BY <2>1, <2>2, <2>3, <2>4 DEF HalfWritten
  <2> QED
    BY <1>8, <2>1, <2>5, EndsWell DEF Fail, Kill, End, Report, Broken
<1> QED
  BY <1>1, <1>2, <1>3, <1>4, <1>5, <1>6, <1>7, <1>8, StartKeeps, DumpKeeps, AddDatabaseKeeps,
     AddUploadsKeeps, CloseKeeps, EncryptKeeps
     DEF BackupStep

-----------------------------------------------------------------------------
(* Steps of a restore *)

LEMMA RestoreKeeps ==
  ASSUME BackupInv, RestoreStep
  PROVE  BackupInv'
<1> USE DEF BackupInv, Restoring, store, counters
<1>f. /\ rows \subseteq File /\ disk \subseteq File /\ job \in Job \cup {Off}
      /\ restore \in Restore \cup {Off}
      /\ aside \in [rows : SUBSET File, files : SUBSET File]
      /\ local \subseteq Archive /\ remote \subseteq Archive
  BY DEF Typed, TypeOK
<1>u. UNCHANGED <<config, life, local, remote, dumps, job, status, unfinished, open>>
  BY DEF RestoreStep, StartRestore, SnapshotPostgres, ReplayDump, MoveDatabase, MoveUploads,
     Extract, AbortRestore
<1>1. ASSUME /\ disturbed \subseteq disturbed'
             /\ Typed'
             /\ job # Off /\ restore' # Off => At \in disturbed'
             /\ job # Off /\ At \notin disturbed' => disk \subseteq disk'
             /\ NoDatabase'
             /\ NothingLost'
      PROVE  BackupInv'
  <2>1. JobKnows'
    BY <1>u, <1>1 DEF JobKnows, IsClosed, IsPruned, At, WillUpload
  <2>2. JobIsConsistent'
    BY <1>u, <1>1 DEF JobIsConsistent, IsClosed, At
  <2>3. OnlySealedLeaves' /\ ArchivesAreConsistent' /\ PlaintextIsTransient'
    BY <1>u, <1>1 DEF OnlySealedLeaves, ArchivesAreConsistent, PlaintextIsTransient, At
  <2> QED
    BY <1>1, <2>1, <2>2, <2>3
\* The restore under way is still disturbing the run.
<1>2. restore # Off /\ job # Off => At \in disturbed
  BY DEF JobKnows
<1>3. ASSUME NEW b \in local \cup remote, StartRestore(b) PROVE BackupInv'
  <2> USE <1>3 DEF StartRestore
  <2>1. restore' \in Restore /\ restore'.pc = "securing"
    BY <1>f DEF Restore
  <2>2. disturbed \subseteq disturbed' /\ (job # Off => At \in disturbed') /\ disturbed' \subseteq RunId
    BY <1>f DEF Disturb, At, Job, Archive, Typed, TypeOK
  <2>3. Typed'
    BY <2>1, <2>2 DEF Typed, TypeOK
  <2>4. NoDatabase' /\ NothingLost'
    BY <2>1 DEF NoDatabase, NothingLost
  <2> QED
    BY <1>1, <2>2, <2>3, <2>4
<1>4. CASE SnapshotPostgres
  <2> USE <1>4 DEF SnapshotPostgres, Onward
  <2>1. /\ restore \in Restore /\ restore' \in Restore
        /\ restore # Off /\ config.postgres /\ disturbed' = disturbed /\ disk' = disk
    BY <1>f, OffIsNone DEF Restore
  <2>2. aside' \in [rows : SUBSET File, files : SUBSET File]
    BY <1>f
  <2>3. aside'.rows = aside.rows \cup rows /\ aside'.files = aside.files
    BY <1>f
  <2>4. Typed'
    BY <2>1, <2>2 DEF Typed, TypeOK
  <2>5. NoDatabase'
    BY <2>1 DEF NoDatabase
  <2>6. NothingLost'
    BY <2>1, <2>3 DEF NothingLost
  <2> QED
    BY <1>1, <1>2, <2>1, <2>4, <2>5, <2>6
<1>5. CASE ReplayDump
  <2> USE <1>5 DEF ReplayDump, Onward
  <2>1. /\ restore \in Restore /\ restore' \in Restore
        /\ restore # Off /\ restore.pc = "replaying" /\ disturbed' = disturbed /\ disk' = disk
    BY <1>f, OffIsNone DEF Restore
  <2>2. restore.archive.db \subseteq File
    BY <2>1 DEF Restore, Archive
  <2>3. Typed'
    BY <2>1, <2>2, <1>f DEF Typed, TypeOK
  <2>4. config.postgres
    BY <2>1 DEF NoDatabase
  <2>5. NoDatabase'
    BY <2>4 DEF NoDatabase
  <2>6. NothingLost'
    BY DEF NothingLost
  <2> QED
    BY <1>1, <1>2, <2>1, <2>3, <2>5, <2>6
<1>6. CASE MoveDatabase
  <2> USE <1>6 DEF MoveDatabase, Onward
  <2>1. /\ restore \in Restore /\ restore' \in Restore
        /\ restore # Off /\ disturbed' = disturbed /\ disk' = disk /\ rows' = {} /\ ~present'
    BY <1>f, OffIsNone DEF Restore
  <2>2. aside' \in [rows : SUBSET File, files : SUBSET File]
    BY <1>f
  <2>3. aside'.rows = aside.rows \cup rows /\ aside'.files = aside.files
    BY <1>f
  <2>4. Typed'
    BY <2>1, <2>2 DEF Typed, TypeOK
  <2>5. NoDatabase'
    BY <2>1 DEF NoDatabase
  <2>6. NothingLost'
    BY <2>1, <2>3 DEF NothingLost
  <2> QED
    BY <1>1, <1>2, <2>1, <2>4, <2>5, <2>6
<1>7. CASE MoveUploads
  <2> USE <1>7 DEF MoveUploads, MovedUploads, Onward
  <2>1. /\ restore \in Restore /\ restore' \in Restore /\ restore.pc = "movingUploads"
        /\ restore # Off /\ disturbed' = disturbed /\ UNCHANGED <<rows, present>>
    BY <1>f, OffIsNone DEF Restore
  <2>2. aside' \in [rows : SUBSET File, files : SUBSET File]
    BY <1>f
  <2>3. aside'.rows = aside.rows /\ aside'.files = aside.files \cup disk
    BY <1>f
  <2>4. Typed'
    BY <2>1, <2>2 DEF Typed, TypeOK
  <2>5. NoDatabase'
    BY <2>1 DEF NoDatabase
  <2>6. NothingLost'
    BY <2>1, <2>3 DEF NothingLost
  <2> QED
    BY <1>1, <1>2, <2>1, <2>4, <2>5, <2>6
<1>8. CASE Extract
  <2> USE <1>8 DEF Extract
  <2>1. /\ restore \in Restore /\ restore.pc = "extracting" /\ restore' = Off
        /\ restore # Off /\ disturbed' = disturbed /\ disk \subseteq disk' /\ aside' = aside
    BY <1>f, OffIsNone
  <2>2. restore.archive.db \subseteq File /\ restore.archive.files \subseteq File
    BY <2>1 DEF Restore, Archive
  <2>3. present' \in BOOLEAN
    OBVIOUS
  <2>4. Typed'
    BY <1>f, <2>1, <2>2, <2>3 DEF Typed, TypeOK
  <2>5. NoDatabase'
    BY <2>1, OffIsNone DEF NoDatabase
  <2>6. NothingLost'
    <3>1. rows \subseteq rows'
      BY <2>1 DEF NoDatabase
    <3> QED
      BY <2>1, <3>1 DEF NothingLost
  <2> QED
    BY <1>1, <1>2, <2>1, <2>4, <2>5, <2>6
<1>9. CASE AbortRestore
  <2> USE <1>9 DEF AbortRestore
  <2>1. Typed'
    BY DEF Typed, TypeOK
  <2>2. NoDatabase' /\ NothingLost'
    BY OffIsNone DEF NoDatabase, NothingLost
  <2> QED
    BY <1>1, <2>1, <2>2
<1> QED
  BY <1>3, <1>4, <1>5, <1>6, <1>7, <1>8, <1>9 DEF RestoreStep

-----------------------------------------------------------------------------
(* The invariant holds *)

LEMMA BackupInvInit == Init => BackupInv
<1> SUFFICES ASSUME Init PROVE BackupInv
  OBVIOUS
<1> USE DEF Init
<1>1. Typed
  BY BackupAssumption DEF Typed, TypeOK, Config
<1>2. JobKnows /\ JobIsConsistent /\ NoDatabase
  BY OffIsNone DEF JobKnows, JobIsConsistent, NoDatabase
<1>3. OnlySealedLeaves /\ PlaintextIsTransient /\ ArchivesAreConsistent
  BY DEF OnlySealedLeaves, PlaintextIsTransient, ArchivesAreConsistent
<1>4. NothingLost
  BY DEF NothingLost
<1> QED
  BY <1>1, <1>2, <1>3, <1>4 DEF BackupInv

LEMMA BackupInvStep == BackupInv /\ [Next]_vars => BackupInv'
<1> SUFFICES ASSUME BackupInv, [Next]_vars PROVE BackupInv'
  OBVIOUS
<1>1. CASE UNCHANGED vars
  <2>1. Typed'
    BY <1>1 DEF vars, backend, store, history, counters, BackupInv, Typed, TypeOK
  <2>2. JobKnows' /\ JobIsConsistent' /\ NoDatabase'
    BY <1>1 DEF vars, backend, store, history, counters, BackupInv, JobKnows,
       JobIsConsistent, NoDatabase, IsClosed, IsPruned, At, WillUpload
  <2>3. OnlySealedLeaves' /\ ArchivesAreConsistent' /\ NothingLost'
    BY <1>1 DEF vars, backend, store, history, counters, BackupInv, OnlySealedLeaves,
       ArchivesAreConsistent, NothingLost
  <2>4. PlaintextIsTransient'
    BY <1>1 DEF vars, backend, store, history, counters, BackupInv, PlaintextIsTransient, At
  <2> QED
    BY <2>1, <2>2, <2>3, <2>4 DEF BackupInv
<1> QED
  BY <1>1, BackendKeeps, RunKeeps, RestoreKeeps DEF Next

LEMMA BackupInvAlways == Spec => []BackupInv
BY BackupInvInit, BackupInvStep, PTL DEF Spec

-----------------------------------------------------------------------------
(* A success that is reported can be restored *)

HasDatabase ==
  \/ job.pc \in {"adding", "closing"} \/ IsClosed
  \/ job.pc = "archiving" /\ config.postgres

\* The run under way is the last, and its archive the newest that is whole.
JobIsNewest ==
  job # Off =>
    /\ At = runs
    /\ ~present => At \in disturbed
    /\ HasDatabase /\ job.archive.hollow => At \in disturbed
    /\ IsClosed => job.archive \in local
    /\ \A b \in local : b.at = At /\ b.sealed => job.archive.sealed

\* Only a restore leaves an archive without its database.
HollowIsDisturbed ==
  \A b \in local : b.at <= runs /\ (b.whole /\ b.hollow => b.at \in disturbed)

SuccessInv ==
  /\ SuccessIsRestorable /\ JobIsNewest /\ HollowIsDisturbed
  /\ status.at <= runs

LEMMA WitnessStays ==
  ASSUME SuccessInv, status' = status, disturbed \subseteq disturbed', local \subseteq local'
  PROVE  SuccessIsRestorable'
BY DEF SuccessInv, SuccessIsRestorable, LastSuccess

\* Of whatever run the status tells, this one is no older.
LEMMA NewWitness ==
  ASSUME SuccessInv, At = runs, NEW b \in local', b.at = At, b.at \in Nat,
         b.whole, b.hollow => b.at \in disturbed',
         status' \in {status, [success |-> TRUE, at |-> At]}
  PROVE  SuccessIsRestorable'
<1>1. LastSuccess' <= b.at
  BY DEF SuccessInv, LastSuccess
<1> QED
  BY <1>1 DEF SuccessIsRestorable

\* What the job's archive is, once it has its name.
LEMMA JobArchive ==
  ASSUME BackupInv, SuccessInv, job \in Job
  PROVE  /\ job # Off /\ At = runs /\ job.archive \in Archive /\ At \in Nat
         /\ IsClosed => /\ job.archive \in local /\ job.archive.whole
                        /\ job.archive.hollow => At \in disturbed
<1>1. job # Off /\ job.archive \in Archive
  BY OffIsNone DEF Job
<1> QED
  BY <1>1 DEF BackupInv, JobKnows, SuccessInv, JobIsNewest, HasDatabase, Archive, RunId, At

\* The archive of the run under way is the newest: no pruning takes it.
LEMMA NewestIsNotStale ==
  ASSUME BackupInv, SuccessInv, job \in Job, IsPruned
  PROVE  job.archive \notin Stale(local)
<1>1. IsClosed
  BY DEF IsPruned, IsClosed
<1>2. ASSUME NEW c \in local PROVE ~Before(job.archive, c)
  <2>1. c.at \in Nat /\ c.at <= runs
    BY DEF BackupInv, Typed, TypeOK, Archive, RunId, SuccessInv, HollowIsDisturbed
  <2>2. c.at = At /\ c.sealed => job.archive.sealed
    BY JobArchive DEF SuccessInv, JobIsNewest
  <2> QED
    BY <2>1, <2>2, JobArchive DEF Before, At
<1>3. {c \in local : Before(job.archive, c)} = {}
  BY <1>2
<1>4. Newer(local, job.archive) = 0
  BY <1>3, FS_EmptySet DEF Newer
<1>5. job.keep \in Nat
  BY BackupAssumption DEF Job
<1> QED
  BY <1>4, <1>5 DEF Stale

\* What an erasure does to the run under way.
LEMMA BackendJob ==
  ASSUME BackupInv, BackendStep
  PROVE  /\ job = Off => job' = Off
         /\ job # Off => /\ job' # Off /\ job'.pc = job.pc /\ job'.keep = job.keep
                         /\ job'.archive.at = job.archive.at
                         /\ job'.archive.hollow = job.archive.hollow
                         /\ job'.archive.sealed = job.archive.sealed
                         /\ IsClosed => job' = job
<1>1. CASE UNCHANGED job
  BY <1>1
<1>2. CASE /\ job.pc \in {"archiving", "adding"}
           /\ \E f \in File : job' = [job EXCEPT !.archive.torn = @ \cup {f}]
  <2>1. job \in Job
    BY <1>2, OffIsNone DEF BackupInv, Typed, TypeOK
  <2> QED
    BY <1>2, <2>1, OffIsNone DEF Job, Archive, IsClosed
<1> QED
  BY <1>1, <1>2 DEF BackendStep, SaveUpload, CommitUpload, EraseFile, EraseRow

LEMMA BackendSucceeds ==
  ASSUME BackupInv, SuccessInv, BackendStep
  PROVE  SuccessInv'
<1>1. UNCHANGED <<config, local, status, disturbed, runs, present>>
  BY DEF BackendStep, SaveUpload, CommitUpload, EraseFile, EraseRow, Elsewhere, store,
     history, counters
<1>2. JobIsNewest'
  BY <1>1, BackendJob DEF SuccessInv, JobIsNewest, HasDatabase, IsClosed, At
<1>3. HollowIsDisturbed' /\ status'.at <= runs'
  BY <1>1 DEF SuccessInv, HollowIsDisturbed
<1> QED
  BY <1>1, <1>2, <1>3, WitnessStays DEF SuccessInv

\* A step of the run that touches no archive but its own.
LEMMA WritesSucceed ==
  ASSUME BackupInv, SuccessInv, Fine, job \in Job, job' \in Job, UNCHANGED status,
         job'.archive.at = At,
         ~present => At \in disturbed,
         HasDatabase' /\ job'.archive.hollow => At \in disturbed,
         IsClosed' => job'.archive \in local',
         job.archive.sealed => job'.archive.sealed,
         \A b \in local' :
           \/ b \in local
           \/ b.at = At /\ (b.sealed => job'.archive.sealed)
              /\ (b.whole => b = job'.archive /\ HasDatabase'),
         \/ local \subseteq local'
         \/ job'.archive \in local' /\ job'.archive.whole /\ HasDatabase'
  PROVE  SuccessInv'
<1> USE DEF Fine, Quiet, history, backend
<1>1. At = runs /\ At \in Nat /\ job # Off /\ job' # Off
  BY JobArchive, OffIsNone
<1>2. JobIsNewest'
  BY <1>1 DEF JobIsNewest, SuccessInv, At
<1>3. HollowIsDisturbed' /\ status'.at <= runs'
  BY <1>1 DEF HollowIsDisturbed, SuccessInv
<1>4. SuccessIsRestorable'
  <2>1. CASE local \subseteq local'
    BY <2>1, WitnessStays
  <2>2. CASE job'.archive \in local' /\ job'.archive.whole /\ HasDatabase'
    BY <1>1, <2>2, NewWitness
  <2> QED
    BY <2>1, <2>2
<1> QED
  BY <1>2, <1>3, <1>4 DEF SuccessInv

LEMMA StartSucceeds ==
  ASSUME BackupInv, SuccessInv, NEW keep \in Keep, NEW upload \in BOOLEAN,
         NEW encrypt \in BOOLEAN, StartRun(keep, upload, encrypt)
  PROVE  SuccessInv'
<1> USE DEF StartRun, store, backend
<1>1. runs \in Nat /\ local \subseteq Archive /\ status.at \in Nat
  BY BackupAssumption DEF BackupInv, Typed, TypeOK
<1>2. /\ job'.archive.at = runs + 1 /\ ~job'.archive.sealed
      /\ job'.pc = IF config.postgres THEN "dumping" ELSE "archiving"
  BY DEF NewArchive
<1>3. ~present => runs + 1 \in disturbed'
  OBVIOUS
<1>4. \A b \in local : b.at \in Nat /\ b.at <= runs
  BY <1>1 DEF SuccessInv, HollowIsDisturbed, Archive, RunId
<1>5. JobIsNewest'
  BY <1>1, <1>2, <1>3, <1>4 DEF JobIsNewest, At, HasDatabase, IsClosed
<1>6. HollowIsDisturbed' /\ status'.at <= runs'
  BY <1>1, <1>4 DEF SuccessInv, HollowIsDisturbed
<1> QED
  BY <1>5, <1>6, WitnessStays DEF SuccessInv

LEMMA WorkSucceeds ==
  ASSUME BackupInv, SuccessInv, Dump \/ AddDatabase \/ AddUploads \/ CloseArchive \/ Encrypt
  PROVE  SuccessInv'
<1>f. job \in Job /\ Fine /\ UNCHANGED status
  BY OffIsNone DEF BackupInv, Typed, TypeOK, Dump, AddDatabase, AddUploads, CloseArchive,
     Encrypt, store
<1> DEFINE a == job.archive
<1>a. /\ a \in Archive /\ a.at = At /\ At = runs
      /\ HasDatabase /\ a.hollow => At \in disturbed
      /\ ~present => At \in disturbed
      /\ UNCHANGED config
  BY <1>f, JobArchive DEF SuccessInv, JobIsNewest, At, Fine, Quiet
<1>s. /\ Snapshot \in Job /\ Snapshot.archive.hollow = ~present
      /\ Snapshot.archive.at = At /\ Snapshot.archive.sealed = a.sealed
      /\ Snapshot.archive.whole = a.whole
  BY <1>f DEF BackupInv, Snapshot, Job, Archive, Typed, TypeOK, At
<1>1. CASE Dump
  <2> USE <1>1 DEF Dump
  <2>1. /\ job' \in Job /\ job'.pc = "archiving" /\ job'.archive = Snapshot.archive
        /\ local' = local
    BY <1>s DEF Job
  <2> QED
    BY <1>f, <1>a, <1>s, <2>1, WritesSucceed DEF IsClosed
<1>2. CASE AddDatabase
  <2> DEFINE next == IF config.postgres THEN job ELSE Snapshot
             b == [next.archive EXCEPT !.torn = {}]
  <2>1. /\ next \in Job /\ next.archive.at = At /\ next.archive.sealed = a.sealed
        /\ ~next.archive.whole /\ (next.archive.hollow => At \in disturbed)
    <3>1. ~a.whole
      BY <1>f, <1>2, OffIsNone DEF AddDatabase, BackupInv, JobKnows, IsClosed
    <3> QED
      BY <1>f, <1>a, <1>s, <1>2, <3>1 DEF AddDatabase, HasDatabase
  <2>2. job' = [next EXCEPT !.pc = "adding"] /\ local' = local \cup {b}
    BY <1>2 DEF AddDatabase
  <2> HIDE DEF next
  <2>3. /\ job' \in Job /\ job'.pc = "adding" /\ job'.archive = next.archive
        /\ b.at = At /\ b.sealed = a.sealed /\ ~b.whole
    BY <2>1, <2>2 DEF Job, Archive
  <2> HIDE DEF b
  <2> QED
    BY <1>f, <1>a, <2>1, <2>2, <2>3, WritesSucceed DEF IsClosed
<1>3. CASE AddUploads
  <2>1. job' = [job EXCEPT !.pc = "closing", !.archive.files = disk] /\ local' = local
    BY <1>3 DEF AddUploads, store
  <2>2. /\ job' \in Job /\ job'.pc = "closing" /\ job'.archive.at = At
        /\ job'.archive.hollow = a.hollow /\ job'.archive.sealed = a.sealed
    BY <1>f, <1>a, <2>1 DEF BackupInv, Typed, TypeOK, Job, Archive
  <2>3. HasDatabase
    BY <1>3 DEF AddUploads, HasDatabase
  <2> QED
    BY <1>f, <1>a, <2>1, <2>2, <2>3, WritesSucceed DEF IsClosed
<1>4. CASE CloseArchive
  <2>1. /\ job' = [job EXCEPT !.pc = "resolving", !.archive = Closed]
        /\ local' = (local \ Partial) \cup {Closed} /\ HasDatabase
    BY <1>4 DEF CloseArchive, HasDatabase
  <2>2. /\ Closed \in Archive /\ Closed.at = At /\ Closed.whole
        /\ Closed.hollow = a.hollow /\ Closed.sealed = a.sealed
    BY <1>a DEF Closed, Archive
  <2>3. job' \in Job /\ job'.pc = "resolving" /\ job'.archive = Closed
    BY <1>f, <2>1, <2>2 DEF Job
  <2>4. HasDatabase'
    BY <2>3 DEF HasDatabase, IsClosed
  <2> QED
    BY <1>f, <1>a, <2>1, <2>2, <2>3, <2>4, WritesSucceed
<1>5. CASE Encrypt
  <2> DEFINE sealed == [a EXCEPT !.sealed = TRUE]
  <2>1. /\ job' = [job EXCEPT !.pc = "removing", !.archive = sealed]
        /\ local' = local \cup {sealed} /\ HasDatabase
    BY <1>5 DEF Encrypt, HasDatabase, IsClosed
  <2>2. /\ sealed \in Archive /\ sealed.at = At /\ sealed.hollow = a.hollow /\ sealed.sealed
    BY <1>a DEF Archive
  <2> HIDE DEF sealed
  <2>3. job' \in Job /\ job'.pc = "removing" /\ job'.archive = sealed
    BY <1>f, <2>1, <2>2 DEF Job
  <2>4. HasDatabase'
    BY <2>3 DEF HasDatabase, IsClosed
  <2> QED
    BY <1>f, <1>a, <2>1, <2>2, <2>3, <2>4, WritesSucceed
<1> QED
  BY <1>1, <1>2, <1>3, <1>4, <1>5

\* A step that at most removes archives, never the run's own.
LEMMA RemovesSucceed ==
  ASSUME BackupInv, SuccessInv, Fine, job \in Job, IsClosed, UNCHANGED status,
         local' \subseteq local, job.archive \in local', NEW pc,
         pc \in {"resolving", "removing", "pruning", "uploading", "pruningRemote"},
         job' = [job EXCEPT !.pc = pc]
  PROVE  SuccessInv'
<1>1. job' \in Job /\ job'.pc = pc /\ job'.archive = job.archive
  BY DEF Job
<1>2. HasDatabase /\ HasDatabase'
  BY <1>1 DEF HasDatabase, IsClosed
<1>3. job.archive.whole /\ job.archive.at = At
  BY JobArchive DEF At
<1>4. /\ job.archive.hollow => At \in disturbed
      /\ ~present => At \in disturbed
  BY <1>2, JobArchive DEF SuccessInv, JobIsNewest
<1> QED
  BY <1>1, <1>2, <1>3, <1>4, WritesSucceed

LEMMA EndsSucceed ==
  ASSUME BackupInv, SuccessInv, job \in Job, job' = Off, UNCHANGED <<disturbed, runs>>,
         local \subseteq local',
         \A b \in local' : b \in local \/ (b.at = At /\ ~b.whole),
         \/ status' \in {status, [success |-> FALSE, at |-> At]}
         \/ IsClosed /\ status' = [success |-> TRUE, at |-> At]
  PROVE  SuccessInv'
<1>1. At = runs /\ At \in Nat
  BY JobArchive
<1>2. JobIsNewest' /\ HollowIsDisturbed' /\ status'.at <= runs'
  BY <1>1 DEF JobIsNewest, HollowIsDisturbed, SuccessInv
<1>3. SuccessIsRestorable'
  <2>1. CASE status' = status
    BY <2>1, WitnessStays
  <2>2. CASE status' = [success |-> FALSE, at |-> At]
    BY <2>2 DEF SuccessIsRestorable, LastSuccess
  <2>3. CASE IsClosed /\ status' = [success |-> TRUE, at |-> At]
    BY <1>1, <2>3, JobArchive, NewWitness DEF At
  <2> QED
    BY <2>1, <2>2, <2>3
<1> QED
  BY <1>2, <1>3 DEF SuccessInv

LEMMA RunSucceeds ==
  ASSUME BackupInv, SuccessInv, BackupStep
  PROVE  SuccessInv'
<1>f. job \in Job \cup {Off}
  BY DEF BackupInv, Typed, TypeOK
<1> USE OffIsNone DEF IsClosed, IsPruned
<1>1. CASE StayPlain
  BY <1>f, <1>1, JobArchive, RemovesSucceed DEF StayPlain, Step, store
<1>2. CASE RemovePlaintext
  <2>1. job \in Job /\ job.pc = "removing" /\ job.archive.sealed
    BY <1>f, <1>2 DEF RemovePlaintext, BackupInv, JobKnows
  <2>2. job.archive \in local'
    BY <1>2, <2>1, JobArchive DEF RemovePlaintext, Plaintext
  <2> QED
    BY <1>2, <2>1, <2>2, RemovesSucceed DEF RemovePlaintext, Step
<1>3. CASE PruneOne
  <2>1. job \in Job /\ job.pc = "pruning"
    BY <1>f, <1>3 DEF PruneOne
  <2>2. job.archive \in local'
    BY <1>3, <2>1, JobArchive, NewestIsNotStale DEF PruneOne, Oldest
  <2>3. job' = [job EXCEPT !.pc = "pruning"]
    BY <1>3, <2>1 DEF PruneOne, Job
  <2> QED
    BY <1>3, <2>1, <2>2, <2>3, RemovesSucceed DEF PruneOne
<1>4. CASE PruneDone
  <2>1. CASE WillUpload
    BY <1>f, <1>4, <2>1, JobArchive, RemovesSucceed DEF PruneDone, Step, store
  <2>2. CASE ~WillUpload
    BY <1>f, <1>4, <2>2, EndsSucceed DEF PruneDone, End, Report, store, Fine, Quiet, history
  <2> QED
    BY <2>1, <2>2
<1>5. CASE Upload
  BY <1>f, <1>5, JobArchive, RemovesSucceed DEF Upload, Step
<1>6. CASE PruneRemoteOne
  <2>1. job \in Job /\ job.pc = "pruningRemote"
    BY <1>f, <1>6 DEF PruneRemoteOne
  <2>2. job' = [job EXCEPT !.pc = "pruningRemote"]
    BY <1>6, <2>1 DEF PruneRemoteOne, Job
  <2> QED
    BY <1>6, <2>1, <2>2, JobArchive, RemovesSucceed DEF PruneRemoteOne
<1>7. CASE PruneRemoteDone
  BY <1>f, <1>7, EndsSucceed DEF PruneRemoteDone, End, Report, store, Fine, Quiet, history
<1>8. CASE Refuse
  BY <1>f, <1>8, EndsSucceed DEF Refuse, End, Report, store, Broken
<1>9. CASE Fail \/ Kill
  <2>1. job \in Job /\ HalfWritten
    BY <1>f, <1>9 DEF Fail, Kill
  <2>2. LET b == [job.archive EXCEPT !.sealed = TRUE, !.whole = FALSE]
        IN  b.at = At /\ ~b.whole
    BY <2>1 DEF Job, Archive, At
  <2>3. local \subseteq local' /\ \A b \in local' : b \in local \/ (b.at = At /\ ~b.whole)
    BY <2>1, <2>2 DEF HalfWritten
  <2> QED
    BY <1>9, <2>1, <2>3, EndsSucceed DEF Fail, Kill, End, Report, Broken
<1> QED
  BY <1>1, <1>2, <1>3, <1>4, <1>5, <1>6, <1>7, <1>8, <1>9, StartSucceeds, WorkSucceeds
     DEF BackupStep

LEMMA RestoreSucceeds ==
  ASSUME BackupInv, SuccessInv, RestoreStep
  PROVE  SuccessInv'
<1>1. UNCHANGED <<config, local, status, job, runs>> /\ disturbed \subseteq disturbed'
  BY DEF RestoreStep, StartRestore, SnapshotPostgres, ReplayDump, MoveDatabase, MoveUploads,
     Extract, AbortRestore, Restoring, Disturb, store, counters
<1>2. job # Off /\ ~present' => At \in disturbed'
  <2>1. job # Off /\ ~present => At \in disturbed
    BY DEF SuccessInv, JobIsNewest
  <2>2. job # Off /\ restore # Off => At \in disturbed
    BY DEF BackupInv, JobKnows
  <2>3. present' = present \/ restore # Off
    BY OffIsNone DEF RestoreStep, StartRestore, SnapshotPostgres, ReplayDump, MoveDatabase,
       MoveUploads, Extract, AbortRestore
  <2> QED
    BY <1>1, <2>1, <2>2, <2>3
<1>3. JobIsNewest'
  BY <1>1, <1>2 DEF SuccessInv, JobIsNewest, HasDatabase, IsClosed, At
<1>4. HollowIsDisturbed' /\ status'.at <= runs'
  BY <1>1 DEF SuccessInv, HollowIsDisturbed
<1> QED
  BY <1>1, <1>3, <1>4, WitnessStays DEF SuccessInv

LEMMA SuccessInvAlways == Spec => [](BackupInv /\ SuccessInv)
<1>1. Init => SuccessInv
  BY OffIsNone DEF Init, SuccessInv, SuccessIsRestorable, LastSuccess, JobIsNewest,
     HollowIsDisturbed
<1>2. BackupInv /\ SuccessInv /\ [Next]_vars => SuccessInv'
  <2> SUFFICES ASSUME BackupInv, SuccessInv, [Next]_vars PROVE SuccessInv'
    OBVIOUS
  <2>1. CASE UNCHANGED vars
    <3>1. UNCHANGED <<config, local, status, job, runs, present, disturbed>>
      BY <2>1 DEF vars, backend, store, history, counters
    <3>2. JobIsNewest' /\ HollowIsDisturbed' /\ status'.at <= runs'
      BY <3>1 DEF SuccessInv, JobIsNewest, HollowIsDisturbed, HasDatabase, IsClosed, At
    <3> QED
      BY <3>1, <3>2, WitnessStays DEF SuccessInv
  <2> QED
    BY <2>1, BackendSucceeds, RunSucceeds, RestoreSucceeds DEF Next
<1> QED
  BY <1>1, <1>2, BackupInvAlways, PTL DEF Spec

-----------------------------------------------------------------------------
(* What --keep leaves *)

\* A name is one archive's: a time stamp, with .age or without.
OneNamed(archives) ==
  \A b, c \in archives : b.at = c.at /\ b.sealed = c.sealed => b = c

\* The run under way has not reported, and its name is still free where it is
\* yet to write; before the upload no more than --keep archives are here.
RetentionInv ==
  /\ IsFiniteSet(local) /\ IsFiniteSet(remote)
  /\ OneNamed(local) /\ OneNamed(remote)
  /\ \A b \in remote : b.at <= runs
  /\ job # Off =>
       /\ status.at < At
       /\ job.pc \in {"dumping", "archiving"} => \A b \in local : b.at # At
       /\ job.pc \in {"dumping", "archiving", "adding", "closing", "resolving"} =>
            ~job.archive.sealed
       /\ job.pc # "pruningRemote" => \A b \in remote : b.at # At
       /\ job.pc \in {"uploading", "pruningRemote"} /\ job.keep > 0 =>
            Cardinality(local) <= job.keep

LEMMA SmallestKey ==
  ASSUME NEW T \in SUBSET Nat, T # {}
  PROVE  \E m \in T : \A n \in T : m <= n
<1> DEFINE R == {ss \in Nat \X Nat : ss[1] < ss[2]}
<1>1. IsWellFoundedOn(R, Nat)
  BY NatLessThanWellFounded DEF OpToRel
<1>2. \A m, n \in Nat : <<n, m>> \in R <=> n < m
  OBVIOUS
<1> HIDE DEF R
<1>3. \E m \in T : \A n \in T : ~(<<n, m>> \in R)
  BY <1>1, WFMin
<1>4. PICK m \in T : \A n \in T : ~(<<n, m>> \in R)
  BY <1>3
<1>5. \A n \in T : m \in Nat /\ n \in Nat /\ ~(n < m)
  BY <1>2, <1>4
<1>6. \A n \in T : m <= n
  BY <1>5
<1> QED
  BY <1>6

\* Among archives with a name each, one comes before all the others.
LEMMA OldestExists ==
  ASSUME NEW S \in SUBSET Archive, S # {}, OneNamed(S)
  PROVE  \E o \in S : \A c \in S \ {o} : Before(o, c) /\ ~Before(c, o)
<1> DEFINE Key(b) == 2 * b.at + (IF b.sealed THEN 1 ELSE 0)
           K == {Key(b) : b \in S}
<1>1. \A b \in S : b.at \in Nat /\ b.sealed \in BOOLEAN
  BY DEF Archive, RunId
<1>2. \A b \in S : Key(b) \in Nat
  BY <1>1
<1>3. \A b, c \in S : Key(b) <= Key(c) /\ b # c => Before(b, c) /\ ~Before(c, b)
  BY <1>1 DEF OneNamed, Before
<1> HIDE DEF Key
<1>4. K \in SUBSET Nat /\ K # {}
  BY <1>2
<1>5. PICK m \in K : \A n \in K : m <= n
  <2> HIDE DEF K
  <2> QED
    BY <1>4, SmallestKey
<1>6. PICK o \in S : Key(o) = m
  BY <1>5
<1>7. \A c \in S : Key(o) <= Key(c)
  BY <1>5, <1>6
<1> QED
  BY <1>3, <1>6, <1>7

\* Nothing is stale when no more than --keep are left: were there more, the
\* oldest would have --keep newer ones.
LEMMA FewAreLeft ==
  ASSUME NEW S \in SUBSET Archive, IsFiniteSet(S), OneNamed(S), job \in Job,
         job.keep > 0, Stale(S) = {}
  PROVE  Cardinality(S) <= job.keep
<1>1. job.keep \in Nat
  BY BackupAssumption DEF Job
<1>2. CASE S = {}
  BY <1>1, <1>2, FS_EmptySet
<1>3. CASE S # {}
  <2>1. PICK o \in S : \A c \in S \ {o} : Before(o, c) /\ ~Before(c, o)
    BY <1>3, OldestExists
  <2>2. ~Before(o, o)
    BY DEF Before, Archive, RunId
  <2>3. {c \in S : Before(o, c)} = S \ {o}
    BY <2>1, <2>2
  <2>4. Newer(S, o) = Cardinality(S) - 1
    BY <2>3, FS_RemoveElement DEF Newer
  <2>5. ~(Newer(S, o) >= job.keep)
    BY DEF Stale
  <2>6. Cardinality(S) \in Nat
    BY FS_CardinalityType
  <2> QED
    BY <1>1, <2>4, <2>5, <2>6
<1> QED
  BY <1>2, <1>3

LEMMA JobRuns ==
  ASSUME BackupInv, SuccessInv, job # Off
  PROVE  /\ job \in Job /\ At = runs /\ At \in Nat /\ At \in RunId
         /\ job.keep \in Nat
<1>1. job \in Job /\ At = runs
  BY DEF BackupInv, Typed, TypeOK, SuccessInv, JobIsNewest
<1>2. job.archive \in Archive /\ job.keep \in Keep
  BY <1>1 DEF Job
<1>3. At \in RunId
  BY <1>2 DEF Archive, At
<1>4. At \in Nat
  BY <1>3 DEF RunId
<1>5. job.keep \in Nat
  BY <1>2, BackupAssumption
<1> QED
  BY <1>1, <1>3, <1>4, <1>5

LEMMA Retains ==
  ASSUME BackupInv, SuccessInv, RetentionInv, [Next]_vars
  PROVE  RetentionInv'
<1> USE DEF RetentionInv
<1>t. /\ local \subseteq Archive /\ remote \subseteq Archive
      /\ job \in Job \cup {Off} /\ runs \in Nat /\ status.at \in Nat
  BY BackupAssumption DEF BackupInv, Typed, TypeOK
<1>1. CASE UNCHANGED vars
  BY <1>1 DEF vars, store, history, counters, OneNamed, At
<1>2. CASE BackendStep
  <2>1. UNCHANGED <<local, remote, status, runs>>
    BY <1>2 DEF BackendStep, SaveUpload, CommitUpload, EraseFile, EraseRow, Elsewhere, store,
       counters
  <2> QED
    BY <1>2, <2>1, BackendJob DEF OneNamed, At
<1>3. CASE RestoreStep
  <2>1. UNCHANGED <<local, remote, status, runs, job>>
    BY <1>3 DEF RestoreStep, StartRestore, SnapshotPostgres, ReplayDump, MoveDatabase,
       MoveUploads, Extract, AbortRestore, Restoring, store, counters
  <2> QED
    BY <2>1 DEF OneNamed, At
<1>4. ASSUME NEW keep \in Keep, NEW upload \in BOOLEAN, NEW encrypt \in BOOLEAN,
             StartRun(keep, upload, encrypt)
      PROVE  RetentionInv'
  <2>1. /\ job'.archive.at = runs + 1 /\ ~job'.archive.sealed
        /\ job'.pc \in {"dumping", "archiving"} /\ runs' = runs + 1
        /\ UNCHANGED <<local, remote, status>>
    BY <1>4 DEF StartRun, NewArchive, store
  <2>2. \A b \in local \cup remote : b.at \in Nat /\ b.at <= runs
    BY <1>t DEF SuccessInv, HollowIsDisturbed, Archive, RunId
  <2>3. status.at <= runs
    BY DEF SuccessInv
  <2> QED
    BY <1>t, <2>1, <2>2, <2>3 DEF OneNamed, At
\* Steps of the run: what they write has a name that was free.
<1>5. ASSUME job # Off, UNCHANGED <<runs, status>>, IsFiniteSet(local'), IsFiniteSet(remote'),
             OneNamed(local'), OneNamed(remote'), job' \in Job, At' = At, job'.keep = job.keep,
             \A b \in remote' : b \in remote \/ (b.at = At /\ job'.pc = "pruningRemote"),
             job'.pc = "pruningRemote" \/ job.pc # "pruningRemote",
             job'.pc = "archiving" => job.pc = "dumping" /\ local' = local,
             job'.pc # "dumping",
             job'.pc \in {"archiving", "adding", "closing", "resolving"} => ~job'.archive.sealed,
             job'.pc \in {"uploading", "pruningRemote"} /\ job.keep > 0 =>
               Cardinality(local') <= job.keep
      PROVE  RetentionInv'
  <2>1. At = runs /\ runs <= runs
    BY <1>5, <1>t, JobRuns
  <2> QED
    BY <1>5, <2>1, OffIsNone
\* A step that keeps or removes archives.
<1>6. ASSUME NEW pc, job # Off, UNCHANGED <<runs, status>>,
             local' \subseteq local, remote' \subseteq remote, job' = [job EXCEPT !.pc = pc],
             pc \in {"pruning", "uploading", "pruningRemote"},
             pc = "pruningRemote" <=> job.pc = "pruningRemote",
             pc = "uploading" /\ job.keep > 0 => Cardinality(local') <= job.keep,
             pc = "pruningRemote" => local' = local
      PROVE  RetentionInv'
  <2>1. job' \in Job /\ job'.pc = pc /\ job'.archive = job.archive /\ job'.keep = job.keep
    BY <1>t, <1>6 DEF Job
  <2>2. IsFiniteSet(local') /\ IsFiniteSet(remote') /\ OneNamed(local') /\ OneNamed(remote')
    BY <1>6, FS_Subset DEF OneNamed
  <2> QED
    BY <1>5, <1>6, <2>1, <2>2 DEF At
\* The end of a run, which may leave half a file.
<1>7. ASSUME job # Off, job' = Off, UNCHANGED <<runs, remote>>, local' = local \/ HalfWritten
      PROVE  RetentionInv'
  <2> DEFINE half == [job.archive EXCEPT !.sealed = TRUE, !.whole = FALSE]
  <2>1. half.at = At /\ half.sealed
    BY <1>t, <1>7 DEF Job, Archive, At
  <2>2. local' = local \/ (job.pc = "resolving" /\ local' = local \cup {half})
    BY <1>7 DEF HalfWritten
  <2> HIDE DEF half
  <2>3. job.pc = "resolving" => \A b \in local : b.at = At => ~b.sealed
    BY <1>7 DEF SuccessInv, JobIsNewest
  <2>4. IsFiniteSet(local') /\ OneNamed(local')
    BY <2>1, <2>2, <2>3, FS_AddElement DEF OneNamed
  <2> QED
    BY <1>7, <2>4
<1>8. CASE Dump
  <2>1. job \in Job /\ job # Off
    BY <1>t, <1>8, OffIsNone DEF Dump
  <2>2. /\ Snapshot \in Job /\ Snapshot.archive.at = At /\ Snapshot.keep = job.keep
        /\ Snapshot.archive.sealed = job.archive.sealed
    BY <2>1 DEF BackupInv, Snapshot, Job, Archive, Typed, TypeOK, At
  <2>3. /\ job' \in Job /\ job'.pc = "archiving" /\ job'.archive = Snapshot.archive
        /\ job'.keep = job.keep
    BY <1>8, <2>2 DEF Dump, Job
  <2> QED
    BY <1>5, <1>8, <2>1, <2>2, <2>3 DEF Dump, Fine, Quiet, At
<1>9. CASE AddDatabase
  <2> DEFINE next == IF config.postgres THEN job ELSE Snapshot
             b == [next.archive EXCEPT !.torn = {}]
  <2>1. job \in Job /\ job # Off /\ job.pc = "archiving"
    BY <1>t, <1>9, OffIsNone DEF AddDatabase
  <2>2. /\ next \in Job /\ next.archive.at = At /\ next.keep = job.keep
        /\ next.archive.sealed = job.archive.sealed
    BY <2>1 DEF BackupInv, Snapshot, Job, Archive, Typed, TypeOK, At
  <2>3. /\ job' = [next EXCEPT !.pc = "adding"] /\ local' = local \cup {b} /\ remote' = remote
        /\ UNCHANGED <<runs, status>>
    BY <1>9 DEF AddDatabase, Fine, Quiet
  <2> HIDE DEF next
  <2>4. /\ job' \in Job /\ job'.pc = "adding" /\ job'.archive = next.archive
        /\ job'.keep = job.keep /\ b.at = At
    BY <2>2, <2>3 DEF Job, Archive
  <2> HIDE DEF b
  <2>5. IsFiniteSet(local') /\ OneNamed(local')
    BY <2>1, <2>3, <2>4, FS_AddElement DEF OneNamed
  <2> QED
    BY <1>5, <2>1, <2>2, <2>3, <2>4, <2>5 DEF At
<1>10. CASE AddUploads
  <2>1. job \in Job /\ job # Off /\ job.pc = "adding"
    BY <1>t, <1>10, OffIsNone DEF AddUploads
  <2>2. /\ job' \in Job /\ job'.pc = "closing" /\ job'.archive.at = At
        /\ job'.archive.sealed = job.archive.sealed /\ job'.keep = job.keep
    BY <1>10, <2>1 DEF AddUploads, BackupInv, Typed, TypeOK, Job, Archive, At
  <2> QED
    BY <1>5, <1>10, <2>1, <2>2 DEF AddUploads, Fine, Quiet, At, store
<1>11. CASE CloseArchive
  <2>1. job \in Job /\ job # Off /\ job.pc = "closing" /\ ~job.archive.sealed
    BY <1>t, <1>11, OffIsNone DEF CloseArchive
  <2>2. Closed \in Archive /\ Closed.at = At /\ ~Closed.sealed
    BY <2>1 DEF Closed, Job, Archive, At
  <2>3. /\ job' = [job EXCEPT !.pc = "resolving", !.archive = Closed] /\ remote' = remote
        /\ local' = (local \ Partial) \cup {Closed} /\ UNCHANGED <<runs, status>>
    BY <1>11 DEF CloseArchive, Fine, Quiet
  <2>4. job' \in Job /\ job'.pc = "resolving" /\ job'.archive = Closed /\ job'.keep = job.keep
    BY <2>1, <2>2, <2>3 DEF Job
  <2>5. IsFiniteSet(local')
    BY <2>3, FS_Difference, FS_AddElement
  <2>6. OneNamed(local')
    BY <2>2, <2>3 DEF OneNamed, Partial
  <2> QED
    BY <1>5, <2>1, <2>2, <2>3, <2>4, <2>5, <2>6 DEF At
<1>12. CASE Encrypt
  <2> DEFINE sealed == [job.archive EXCEPT !.sealed = TRUE]
  <2>1. job \in Job /\ job # Off /\ job.pc = "resolving" /\ ~job.archive.sealed
    BY <1>t, <1>12, OffIsNone DEF Encrypt
  <2>2. sealed \in Archive /\ sealed.at = At /\ sealed.sealed
    BY <2>1 DEF Job, Archive, At
  <2>3. /\ job' = [job EXCEPT !.pc = "removing", !.archive = sealed] /\ remote' = remote
        /\ local' = local \cup {sealed} /\ UNCHANGED <<runs, status>>
    BY <1>12 DEF Encrypt, Fine, Quiet
  <2> HIDE DEF sealed
  <2>4. job' \in Job /\ job'.pc = "removing" /\ job'.archive = sealed /\ job'.keep = job.keep
    BY <2>1, <2>2, <2>3 DEF Job
  <2>5. \A b \in local : b.at = At => ~b.sealed
    BY <2>1 DEF SuccessInv, JobIsNewest
  <2>6. IsFiniteSet(local') /\ OneNamed(local')
    BY <2>2, <2>3, <2>5, FS_AddElement DEF OneNamed
  <2> QED
    BY <1>5, <2>1, <2>2, <2>3, <2>4, <2>6 DEF At
<1>13. CASE StayPlain
  BY <1>6, <1>13, OffIsNone DEF StayPlain, Step, store, Fine, Quiet
<1>14. CASE RemovePlaintext
  BY <1>6, <1>14, OffIsNone DEF RemovePlaintext, Step, Fine, Quiet
<1>15. CASE PruneOne \/ PruneRemoteOne
  <2>1. job \in Job /\ job # Off /\ job.pc \in {"pruning", "pruningRemote"}
    BY <1>t, <1>15, OffIsNone DEF PruneOne, PruneRemoteOne
  <2>2. job' = [job EXCEPT !.pc = job.pc]
    BY <1>15, <2>1 DEF PruneOne, PruneRemoteOne, Job
  <2> QED
    BY <1>6, <1>15, <2>1, <2>2 DEF PruneOne, PruneRemoteOne, Fine, Quiet
<1>16. CASE PruneDone
  <2>1. job \in Job /\ job # Off /\ job.pc = "pruning" /\ Stale(local) = {}
    BY <1>t, <1>16, OffIsNone DEF PruneDone
  <2>2. CASE WillUpload
    <3>1. job.keep > 0 => Cardinality(local) <= job.keep
      BY <1>t, <2>1, FewAreLeft
    <3> QED
      BY <1>6, <1>16, <2>1, <2>2, <3>1 DEF PruneDone, Step, store, Fine, Quiet
  <2>3. CASE ~WillUpload
    BY <1>7, <1>16, <2>1, <2>3 DEF PruneDone, End, store, Fine, Quiet
  <2> QED
    BY <2>2, <2>3
<1>17. CASE Upload
  <2>1. job \in Job /\ job # Off /\ job.pc = "uploading" /\ job.archive \in Archive
    BY <1>t, <1>17, OffIsNone DEF Upload, Job
  <2>2. /\ remote' = remote \cup {job.archive} /\ job' = [job EXCEPT !.pc = "pruningRemote"]
        /\ local' = local /\ UNCHANGED <<runs, status>>
    BY <1>17 DEF Upload, Step, Fine, Quiet
  <2>3. /\ job' \in Job /\ job'.pc = "pruningRemote" /\ job'.archive = job.archive
        /\ job'.keep = job.keep
    BY <2>1, <2>2 DEF Job
  <2>4. IsFiniteSet(remote') /\ OneNamed(remote')
    BY <2>1, <2>2, FS_AddElement DEF OneNamed, At
  <2> QED
    BY <1>5, <2>1, <2>2, <2>3, <2>4 DEF At
<1>18. CASE PruneRemoteDone
  BY <1>7, <1>18, OffIsNone DEF PruneRemoteDone, End, store, Fine, Quiet
<1>19. CASE Refuse
  BY <1>7, <1>19, OffIsNone DEF Refuse, End, store, Broken
<1>20. CASE Fail \/ Kill
  BY <1>7, <1>20 DEF Fail, Kill, End, Broken
<1> QED
  BY <1>1, <1>2, <1>3, <1>4, <1>8, <1>9, <1>10, <1>11, <1>12, <1>13, <1>14, <1>15, <1>16,
     <1>17, <1>18, <1>19, <1>20 DEF Next, BackupStep

\* A run reports success only at the end of its pruning.
LEMMA ReportedIsPruned ==
  ASSUME BackupInv, SuccessInv, RetentionInv, [Next]_vars, job # Off,
         status' = [success |-> TRUE, at |-> At], job.keep > 0
  PROVE  /\ Cardinality(local) <= job.keep
         /\ WillUpload => Cardinality(remote) <= job.keep
<1>1. status' # status
  BY JobRuns DEF RetentionInv
<1>2. status' # [success |-> FALSE, at |-> At]
  OBVIOUS
<1>3. job \in Job /\ local \subseteq Archive /\ remote \subseteq Archive
  BY JobRuns DEF BackupInv, Typed, TypeOK
<1>4. PruneRemoteDone \/ (PruneDone /\ ~WillUpload)
  BY <1>1, <1>2 DEF Next, vars, BackendStep, SaveUpload, CommitUpload, EraseFile, EraseRow,
     Elsewhere, RestoreStep, StartRestore, SnapshotPostgres, ReplayDump, MoveDatabase,
     MoveUploads, Extract, AbortRestore, Restoring, BackupStep, StartRun, Dump, AddDatabase,
     AddUploads, CloseArchive, StayPlain, Encrypt, RemovePlaintext, PruneOne, PruneDone,
     Upload, PruneRemoteOne, Refuse, Fail, Kill, End, Report
<1>5. CASE PruneDone /\ ~WillUpload
  BY <1>3, <1>5, FewAreLeft DEF PruneDone, RetentionInv
<1>6. CASE PruneRemoteDone
  BY <1>3, <1>6, FewAreLeft DEF PruneRemoteDone, RetentionInv, Listed
<1> QED
  BY <1>4, <1>5, <1>6

-----------------------------------------------------------------------------
(* Theorems *)

\* Tables, archives and status keep their types.
THEOREM BackupTypes == Spec => []TypeOK
<1>1. BackupInv => TypeOK
  BY DEF BackupInv, Typed
<1> QED
  BY <1>1, BackupInvAlways, PTL

\* Nothing leaves this host in plaintext, whatever --no-encrypt, --upload and
\* the recipient say (resolve_backup_encryption).
THEOREM OnlySealedArchivesLeave == Spec => []OnlySealedLeaves
<1>1. BackupInv => OnlySealedLeaves
  BY DEF BackupInv
<1> QED
  BY <1>1, BackupInvAlways, PTL

\* With a recipient, plaintext belongs to a run under way, one told not to
\* encrypt, or one that failed or died (run_backup).
THEOREM PlaintextDoesNotStay == Spec => []PlaintextIsTransient
<1>1. BackupInv => PlaintextIsTransient
  BY DEF BackupInv
<1> QED
  BY <1>1, BackupInvAlways, PTL

\* The rows of an archive name files of that archive, but for erasures and
\* restores that overlapped with it (create_backup's order).
THEOREM ArchivesHoldWhatTheyName == Spec => []ArchivesAreConsistent
<1>1. BackupInv => ArchivesAreConsistent
  BY DEF BackupInv
<1> QED
  BY <1>1, BackupInvAlways, PTL

\* A restore loses nothing, wherever it stops (restore_from).
THEOREM RestoresLoseNothing == Spec => []RestoreLosesNothing
<1>1. BackupInv => RestoreLosesNothing
  BY DEF BackupInv, NothingLost, RestoreLosesNothing
<1> QED
  BY <1>1, BackupInvAlways, PTL

\* While the metrics report a success, a whole archive of that run or a later
\* one is on this host: the newest archive is never pruned, and what a failed
\* or killed run leaves does not replace it (prune_old_backups, __main__).
THEOREM SuccessesAreRestorable == Spec => []SuccessIsRestorable
<1>1. SuccessInv => SuccessIsRestorable
  BY DEF SuccessInv
<1> QED
  BY <1>1, SuccessInvAlways, PTL

\* A run that reports success leaves no more than --keep archives, here and in
\* the bucket: the list is taken anew for each, every name is one archive's and
\* nothing is added between the pruning and the report (prune_old_backups,
\* prune_remote_backups).
THEOREM RetentionIsKept == Spec => RetentionHolds
<1> DEFINE Reported == job # Off /\ status' = [success |-> TRUE, at |-> At] /\ job.keep > 0
           Kept == /\ Cardinality(local) <= job.keep
                   /\ WillUpload => Cardinality(remote) <= job.keep
<1>1. Init => RetentionInv
  BY FS_EmptySet DEF Init, RetentionInv, OneNamed
<1>2. BackupInv /\ SuccessInv /\ RetentionInv /\ [Next]_vars => RetentionInv'
  BY Retains
<1>3. BackupInv /\ SuccessInv /\ RetentionInv /\ [Next]_vars => (Reported => Kept)
  BY ReportedIsPruned
<1>4. Spec => [][Reported => Kept]_vars
  <2> HIDE DEF Reported, Kept
  <2> QED
    BY <1>1, <1>2, <1>3, SuccessInvAlways, PTL DEF Spec
<1> QED
  BY <1>4 DEF RetentionHolds
=============================================================================
