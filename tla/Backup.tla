------------------------------- MODULE Backup -------------------------------
(***************************************************************************)
(* scripts/backup.py, run in a loop by the backup-cron container, and      *)
(* scripts/restore.py, while the backend goes on writing rows and files.   *)
(*                                                                         *)
(* A run dumps the database, archives the dump and the uploads, encrypts   *)
(* the archive, prunes old ones, uploads it, prunes the bucket and writes  *)
(* a status file that the backend exposes as metrics.  Any step may fail,  *)
(* and the container may be killed between any two.  An archive's name is  *)
(* its run's time stamp: the number of the run.                            *)
(***************************************************************************)
EXTENDS Naturals, FiniteSets

CONSTANTS
  File,        \* uploads, each named by one row
  Keep,        \* values of --keep
  MaxRuns,     \* bound: backup runs of one behaviour
  MaxRestores, \* bound: restores of one behaviour
  MaxFaults    \* bound: failed steps and deaths of one behaviour

ASSUME BackupAssumption ==
  Keep \subseteq Nat /\ MaxRuns \in Nat /\ MaxRestores \in Nat /\ MaxFaults \in Nat

VARIABLES
  config,      \* DATABASE_URL, BACKUP_S3_*, BACKUP_ENCRYPTION_RECIPIENT
  rows,        \* uploads that a row of the database names
  present,     \* the SQLite file exists; Postgres always does
  disk,        \* uploads in UPLOADS_DIR
  life,        \* history: what the backend has done with each upload
  local,       \* archives in the backup directory
  remote,      \* archives in the bucket
  dumps,       \* .pg_dump files in the backup directory
  job,         \* the backup run under way
  restore,     \* the restore under way
  aside,       \* rows and uploads in pre_restore directories
  status,      \* .backup_status.json
  unfinished,  \* history: runs that failed or died
  open,        \* history: runs that were not to encrypt
  disturbed,   \* history: runs that a restore overlapped, or that found no database
  runs, restores, faults

backend == <<rows, present, disk, life>>
store == <<local, remote, dumps>>
history == <<unfinished, open, disturbed>>
counters == <<runs, restores, faults>>
vars == <<config, backend, store, job, restore, aside, status, history, counters>>

RunId == 1 .. MaxRuns
Archive == [at : RunId, sealed : BOOLEAN, whole : BOOLEAN,
            db : SUBSET File, hollow : BOOLEAN, files : SUBSET File,
            torn : SUBSET File]     \* rows whose file was gone, or erased meanwhile
Config == [postgres : BOOLEAN, offsite : BOOLEAN, recipient : BOOLEAN]
Off == [pc |-> "off"]
Job == [pc : {"dumping", "archiving", "adding", "closing", "resolving", "removing",
              "pruning", "uploading", "pruningRemote"},
        keep : Keep, upload : BOOLEAN, encrypt : BOOLEAN, archive : Archive]
Restore == [pc : {"securing", "movingUploads", "replaying", "extracting"}, archive : Archive]

TypeOK ==
  /\ config \in Config
  /\ rows \cup disk \subseteq File
  /\ aside \in [rows : SUBSET File, files : SUBSET File]
  /\ present \in BOOLEAN
  /\ life \in [File -> {"new", "saved", "committed", "deleting", "erased"}]
  /\ local \cup remote \subseteq Archive
  /\ dumps \cup unfinished \cup open \cup disturbed \subseteq RunId
  /\ job \in Job \cup {Off}
  /\ restore \in Restore \cup {Off}
  /\ status \in [success : BOOLEAN, at : 0 .. MaxRuns]

Init ==
  /\ config \in Config
  /\ rows = {} /\ disk = {} /\ present = TRUE
  /\ life = [f \in File |-> "new"]
  /\ local = {} /\ remote = {} /\ dumps = {}
  /\ job = Off /\ restore = Off
  /\ aside = [rows |-> {}, files |-> {}]
  /\ status = [success |-> FALSE, at |-> 0]     \* no status file
  /\ unfinished = {} /\ open = {} /\ disturbed = {}
  /\ runs = 0 /\ restores = 0 /\ faults = 0

-----------------------------------------------------------------------------
(* The backend: an upload is saved and then named; erasure deletes it and   *)
(* then commits (modules Applications, Accounts, Messages)                  *)

Live(f, stage) == life' = [life EXCEPT ![f] = stage]
Elsewhere == UNCHANGED <<config, store, restore, aside, status, history, counters>>

SaveUpload(f) ==
  /\ life[f] = "new" /\ Live(f, "saved")
  /\ disk' = disk \cup {f}
  /\ UNCHANGED <<rows, present, job>> /\ Elsewhere

CommitUpload(f) ==
  /\ life[f] = "saved" /\ present /\ Live(f, "committed")
  /\ rows' = rows \cup {f}
  /\ UNCHANGED <<present, disk, job>> /\ Elsewhere

EraseFile(f) ==
  /\ life[f] = "committed" /\ present /\ f \in rows /\ Live(f, "deleting")
  /\ disk' = disk \ {f}
  /\ job' = IF job.pc \in {"archiving", "adding"}
            THEN [job EXCEPT !.archive.torn = @ \cup {f}] ELSE job
  /\ UNCHANGED <<rows, present>> /\ Elsewhere

EraseRow(f) ==
  /\ life[f] = "deleting" /\ present /\ Live(f, "erased")
  /\ rows' = rows \ {f}
  /\ UNCHANGED <<present, disk, job>> /\ Elsewhere

-----------------------------------------------------------------------------
(* A backup run *)

At == job.archive.at
WillUpload == job.upload /\ config.offsite
Step(pc) == job' = [job EXCEPT !.pc = pc]
Report(success) == status' = [success |-> success, at |-> At]

End(success) ==
  /\ job' = Off
  /\ Report(success)

Quiet == UNCHANGED <<config, backend, restore, aside, runs, restores>>
Fine == Quiet /\ UNCHANGED <<history, faults>>

NewArchive(n) == [at |-> n, sealed |-> FALSE, whole |-> FALSE, db |-> {},
                  hollow |-> TRUE, files |-> {}, torn |-> {}]

StartRun(keep, upload, encrypt) ==
  /\ job = Off /\ runs < MaxRuns /\ runs' = runs + 1
  /\ job' = [pc |-> IF config.postgres THEN "dumping" ELSE "archiving",
             keep |-> keep, upload |-> upload, encrypt |-> encrypt,
             archive |-> NewArchive(runs + 1)]
  /\ open' = IF encrypt THEN open ELSE open \cup {runs + 1}
  /\ disturbed' = IF restore = Off /\ present THEN disturbed ELSE disturbed \cup {runs + 1}
  /\ UNCHANGED <<config, backend, store, restore, aside, status, unfinished, restores, faults>>

\* The database as the archive gets it.  Torn is what has no file by then: an
\* erasure is half done, or died, or a restore did not bring the file back.
Snapshot ==
  [job EXCEPT !.archive.db = rows, !.archive.hollow = ~present,
              !.archive.torn = @ \cup (rows \ disk)]

\* _dump_postgres: pg_dump is a consistent snapshot.
Dump ==
  /\ job.pc = "dumping"
  /\ dumps' = dumps \cup {At}
  /\ job' = [Snapshot EXCEPT !.pc = "archiving"]
  /\ UNCHANGED <<local, remote, status>> /\ Fine

\* create_backup: the archive is opened and gets the database first.
AddDatabase ==
  /\ job.pc = "archiving"
  /\ LET next == IF config.postgres THEN job ELSE Snapshot
     IN  /\ job' = [next EXCEPT !.pc = "adding"]
         /\ local' = local \cup {[next.archive EXCEPT !.torn = {}]}
  /\ UNCHANGED <<remote, dumps, status>> /\ Fine

AddUploads ==
  /\ job.pc = "adding"
  /\ job' = [job EXCEPT !.pc = "closing", !.archive.files = disk]
  /\ UNCHANGED <<store, status>> /\ Fine

Partial == {b \in local : b.at = At /\ ~b.sealed}

\* Mutant: the database is archived after the uploads.
Closed_Late == [job.archive EXCEPT !.whole = TRUE, !.db = rows]

Closed == [job.archive EXCEPT !.whole = TRUE]

CloseArchive ==
  /\ job.pc = "closing"
  /\ job' = [job EXCEPT !.pc = "resolving", !.archive = Closed]
  /\ local' = (local \ Partial) \cup {Closed}
  /\ dumps' = dumps \ {At}
  /\ UNCHANGED <<remote, status>> /\ Fine

\* resolve_backup_encryption: without encryption only what stays here.
MayStayPlain == (~job.encrypt \/ ~config.recipient) /\ ~WillUpload

StayPlain ==
  /\ job.pc = "resolving" /\ MayStayPlain
  /\ Step("pruning")
  /\ UNCHANGED <<store, status>> /\ Fine

\* encrypt_backup: age writes a second file, then the first is removed.
Encrypt ==
  /\ job.pc = "resolving" /\ job.encrypt /\ config.recipient
  /\ LET sealed == [job.archive EXCEPT !.sealed = TRUE]
     IN  /\ local' = local \cup {sealed}
         /\ job' = [job EXCEPT !.pc = "removing", !.archive = sealed]
  /\ UNCHANGED <<remote, dumps, status>> /\ Fine

\* Mutant: the file that was encrypted stays.
Plaintext_Kept == {}

Plaintext == {b \in local : b.at = At /\ ~b.sealed}

RemovePlaintext ==
  /\ job.pc = "removing"
  /\ local' = local \ Plaintext
  /\ Step("pruning")
  /\ UNCHANGED <<remote, dumps, status>> /\ Fine

\* The order of names: by time stamp, .tar.gz before .tar.gz.age.
Before(a, b) == a.at < b.at \/ (a.at = b.at /\ ~a.sealed /\ b.sealed)
Newer(archives, b) == Cardinality({c \in archives : Before(b, c)})

\* Mutant: the list is sorted the other way round.
Stale_Newest(archives) ==
  {b \in archives : job.keep > 0 /\ Cardinality(archives) > job.keep
                      /\ Cardinality(archives) - 1 - Newer(archives, b) >= job.keep}

\* All but the newest --keep archives; 0 keeps all.
Stale(archives) == {b \in archives : job.keep > 0 /\ Newer(archives, b) >= job.keep}

Oldest(archives) == {b \in archives : \A c \in archives \ {b} : Before(b, c)}

\* prune_old_backups deletes what is stale one by one.
PruneOne ==
  /\ job.pc = "pruning" /\ Stale(local) # {}
  /\ local' = local \ Oldest(Stale(local))
  /\ UNCHANGED <<job, remote, dumps, status>> /\ Fine

PruneDone ==
  /\ job.pc = "pruning" /\ Stale(local) = {}
  /\ IF WillUpload THEN Step("uploading") /\ UNCHANGED status ELSE End(TRUE)
  /\ UNCHANGED store /\ Fine

Upload ==
  /\ job.pc = "uploading"
  /\ remote' = remote \cup {job.archive}
  /\ Step("pruningRemote")
  /\ UNCHANGED <<local, dumps, status>> /\ Fine

\* Mutant: the filter on names lets no object through.
Listed_None == {}

\* prune_remote_backups: every page of the listing.
Listed == remote

PruneRemoteOne ==
  /\ job.pc = "pruningRemote" /\ Stale(Listed) # {}
  /\ remote' = remote \ Oldest(Stale(Listed))
  /\ UNCHANGED <<job, local, dumps, status>> /\ Fine

PruneRemoteDone ==
  /\ job.pc = "pruningRemote" /\ Stale(Listed) = {}
  /\ End(TRUE)
  /\ UNCHANGED store /\ Fine

Fault == faults < MaxFaults /\ faults' = faults + 1
Broken == UNCHANGED <<config, backend, remote, restore, aside, open, disturbed, runs, restores>>

\* The run refuses to upload plaintext; the archive stays.
Refuse ==
  /\ job.pc = "resolving"
  /\ ~MayStayPlain /\ ~(job.encrypt /\ config.recipient)
  /\ unfinished' = unfinished \cup {At}
  /\ End(FALSE)
  /\ UNCHANGED <<store, faults>> /\ Broken

\* pg_dump and age may leave half a file.
HalfWritten ==
  /\ dumps' \in {dumps, IF job.pc = "dumping" THEN dumps \cup {At} ELSE dumps}
  /\ local' \in {local, IF job.pc = "resolving" /\ job.encrypt /\ config.recipient
                       THEN local \cup {[job.archive EXCEPT !.sealed = TRUE, !.whole = FALSE]}
                       ELSE local}

\* A step fails, the removal of the plaintext included, and the status file says
\* so.
Fail ==
  /\ job # Off /\ Fault
  /\ HalfWritten
  /\ unfinished' = unfinished \cup {At}
  /\ End(FALSE)
  /\ Broken

\* The container is killed: nothing is reported.
Kill ==
  /\ job # Off /\ Fault
  /\ HalfWritten
  /\ job' = Off
  /\ unfinished' = unfinished \cup {At}
  /\ UNCHANGED status /\ Broken

-----------------------------------------------------------------------------
(* A restore: restore.py *)

Restoring == UNCHANGED <<config, life, store, job, status, unfinished, open>>
Onward(pc) == restore' = [restore EXCEPT !.pc = pc]
Disturb == disturbed' = IF job = Off THEN disturbed ELSE disturbed \cup {At}

\* restore_from reads the whole archive (getnames) before it touches anything,
\* so half a file is refused; it can be any age.  Its contents say which database
\* it is of: that of config, which every run has had.
StartRestore(b) ==
  /\ restore = Off /\ restores < MaxRestores /\ restores' = restores + 1
  /\ b \in local \cup remote /\ b.whole
  /\ restore' = [pc |-> "securing", archive |-> b]
  /\ Disturb
  /\ UNCHANGED <<rows, present, disk, aside, runs, faults>> /\ Restoring

\* Postgres: pg_dump of the present database, then psql, which goes on after
\* errors: rows are added, none is replaced.  COPY is one statement per table: a
\* row that is there already keeps all of its table's out.
SnapshotPostgres ==
  /\ restore.pc = "securing" /\ config.postgres
  /\ aside' = [aside EXCEPT !.rows = @ \cup rows]
  /\ Onward("replaying")
  /\ UNCHANGED <<rows, present, disk, disturbed, counters>> /\ Restoring

ReplayDump ==
  /\ restore.pc = "replaying"
  /\ \E new \in SUBSET restore.archive.db :
       /\ restore.archive.db \cap rows = {} => new = restore.archive.db
       /\ rows' = rows \cup new
  /\ Onward("extracting")
  /\ UNCHANGED <<present, disk, aside, disturbed, counters>> /\ Restoring

\* Mutant: only the database is moved aside, the uploads are replaced.
MovedUploads_None == {}

\* The uploads that are moved into pre_restore_<ts>/uploads.
MovedUploads == disk

\* SQLite: the database and the uploads are moved aside, one after the other.
MoveDatabase ==
  /\ restore.pc = "securing" /\ ~config.postgres
  /\ aside' = [aside EXCEPT !.rows = @ \cup rows]
  /\ rows' = {} /\ present' = FALSE
  /\ Onward("movingUploads")
  /\ UNCHANGED <<disk, disturbed, counters>> /\ Restoring

MoveUploads ==
  /\ restore.pc = "movingUploads"
  /\ aside' = [aside EXCEPT !.files = @ \cup MovedUploads]
  /\ disk' = {}
  /\ Onward("extracting")
  /\ UNCHANGED <<rows, present, disturbed, counters>> /\ Restoring

Extract ==
  /\ restore.pc = "extracting"
  /\ disk' = disk \cup restore.archive.files
  /\ rows' = IF config.postgres THEN rows ELSE restore.archive.db
  /\ present' = (config.postgres \/ ~restore.archive.hollow)
  /\ restore' = Off
  /\ UNCHANGED <<aside, disturbed, counters>> /\ Restoring

\* The operator, psql, or the disk ends it.
AbortRestore ==
  /\ restore # Off /\ Fault
  /\ restore' = Off
  /\ UNCHANGED <<rows, present, disk, aside, disturbed, runs, restores>> /\ Restoring

-----------------------------------------------------------------------------
\* The metric youthchain_backup_last_success_timestamp_seconds: 0 as well when
\* the last run failed, whatever succeeded before.
LastSuccess == IF status.success THEN status.at ELSE 0

BackendStep == \E f \in File : SaveUpload(f) \/ CommitUpload(f) \/ EraseFile(f) \/ EraseRow(f)

BackupStep ==
  \/ \E keep \in Keep, upload, encrypt \in BOOLEAN : StartRun(keep, upload, encrypt)
  \/ Dump \/ AddDatabase \/ AddUploads \/ CloseArchive
  \/ StayPlain \/ Encrypt \/ RemovePlaintext
  \/ PruneOne \/ PruneDone \/ Upload \/ PruneRemoteOne \/ PruneRemoteDone
  \/ Refuse \/ Fail \/ Kill

RestoreStep ==
  \/ \E b \in local \cup remote : StartRestore(b)
  \/ SnapshotPostgres \/ ReplayDump \/ MoveDatabase \/ MoveUploads \/ Extract
  \/ AbortRestore

Next == BackendStep \/ BackupStep \/ RestoreStep

Spec == Init /\ [][Next]_vars

-----------------------------------------------------------------------------
(* Properties *)

\* While the metrics report a success there is a whole archive of that run or a
\* later one on this host, with the database in it unless a restore disturbed
\* the run: no failed, refused or killed run and no pruning takes the last one.
SuccessIsRestorable ==
  LastSuccess # 0 =>
    \E b \in local : b.at >= LastSuccess /\ b.whole /\ (b.hollow => b.at \in disturbed)

\* Nothing leaves this host in plaintext, whatever the options ("refuses to
\* upload plaintext PII off this host").
OnlySealedLeaves == \A b \in remote : b.sealed /\ b.whole

\* With a recipient configured, plaintext on the disk belongs to the run under
\* way, to one that was told not to encrypt, or to one that failed or died
\* ("the plaintext is only ever meant to exist transiently").
PlaintextIsTransient ==
  \A n \in {b.at : b \in {c \in local : ~c.sealed /\ config.recipient}} \cup dumps :
    n \in open \cup unfinished \/ (job # Off /\ n = At)

\* The rows of an archive name files of that archive, except those that had lost
\* their file when the database was read or lost it to an erasure before the
\* uploads were, unless a restore overlapped the run: the database is read before
\* the uploads.
ArchivesAreConsistent ==
  \A b \in local \cup remote :
    b.whole /\ b.at \notin disturbed => b.db \subseteq b.files \cup b.torn

\* When a run reports success, no more than --keep archives are left, here and
\* in the bucket.
RetentionHolds ==
  [][job # Off /\ status' = [success |-> TRUE, at |-> At] /\ job.keep > 0 =>
       /\ Cardinality(local) <= job.keep
       /\ WillUpload => Cardinality(remote) <= job.keep]_vars

\* A restore, whichever archive it takes and wherever it stops, loses nothing
\* that was not erased: rows and files are in place or were moved aside ("so a
\* bad restore is itself recoverable").
RestoreLosesNothing ==
  \A f \in File :
    life[f] = "committed" => f \in rows \cup aside.rows /\ f \in disk \cup aside.files
=============================================================================
