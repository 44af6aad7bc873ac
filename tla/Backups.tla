------------------------------- MODULE Backups -------------------------------
(***************************************************************************)
(* app/services/backup.py, its loop in app/main.py and its routes in       *)
(* app/api/admin.py.  A backup copies the database, the index files and    *)
(* the configuration one after the other and writes its manifest last; a   *)
(* restore copies back what the directory has.  Both run in the event loop *)
(* without awaiting, so that one runs at a time.  Files are copied while   *)
(* worker threads write them, and have two halves, so that a copy may be   *)
(* torn; the process may die at any point.  The database is its main file: *)
(* what only its write-ahead log holds is in no backup.                    *)
(***************************************************************************)
EXTENDS Integers, FiniteSets, Sequences

CONSTANTS
    DataFiles,        \* the database, the index files, the configuration files
    PartOf,           \* [DataFiles -> Database, Vectors or Configs]
    FirstFiles,       \* those that an earlier life of the service has left
    Labels,           \* labels of backups; the loop's is "auto"
    MaxWrites,        \* bound: writes of live files, with the first
    MaxDays,          \* bound: time passing
    MaxJobs,          \* bound: backups and restores begun
    KeptDays          \* backup_retention_days

\* The parts, in the order in which they are copied.
Database == 1
Vectors == 2
Configs == 3

ASSUME BackupAssumption ==
    /\ MaxWrites \in Nat /\ MaxDays \in Nat /\ MaxJobs \in Nat /\ KeptDays \in Nat
    /\ PartOf \in [DataFiles -> Database..Configs] /\ FirstFiles \subseteq DataFiles

VARIABLES
    live,             \* [DataFiles -> its halves: the writes that made them]
    writing,          \* [DataFiles -> the write that has the file open]
    backupDirs,       \* [directory names -> what it holds]
    job,              \* the backup or restore that runs
    writes, day, jobs

backupVars == <<live, writing, backupDirs, job, writes, day, jobs>>

Absent == 0
NoContent == [head |-> Absent, tail |-> Absent]   \* a file that does not exist
NoFilesYet == [f \in DataFiles |-> NoContent]

NoJob == [kind |-> "none", dir |-> <<>>, part |-> 0, todo |-> {}, half |-> {}, failed |-> FALSE]
-----------------------------------------------------------------------------
\* "owes" is history: the files nobody has written since the backup began, as
\* they were then.
Disowned(b, f) == [b EXCEPT !.owes = [g \in DOMAIN @ \ {f} |-> @[g]]]

\* The database is written in place, any other file is emptied first.
Rest(f) == IF PartOf[f] = Database THEN live[f].tail ELSE Absent

\* A thread opens a file and writes the first half.
OpenWrite(f) ==
    /\ writes < MaxWrites /\ writes' = writes + 1 /\ writing[f] = Absent
    /\ writing' = [writing EXCEPT ![f] = writes + 1]
    /\ live' = [live EXCEPT ![f] = [head |-> writes + 1, tail |-> Rest(f)]]
    /\ backupDirs' = IF job.kind = "backup"
                      THEN [backupDirs EXCEPT ![job.dir] = Disowned(@, f)] ELSE backupDirs
    /\ UNCHANGED <<job, day, jobs>>

CloseWrite(f) ==
    /\ writing[f] # Absent /\ writing' = [writing EXCEPT ![f] = Absent]
    /\ live' = [live EXCEPT ![f].tail = writing[f]]
    /\ UNCHANGED <<backupDirs, job, writes, day, jobs>>

\* A write fails and leaves what it has written.
WriteFails(f) ==
    /\ writing[f] # Absent /\ writing' = [writing EXCEPT ![f] = Absent]
    /\ UNCHANGED <<live, backupDirs, job, writes, day, jobs>>

\* A job is over within its day.
DayPasses ==
    /\ day < MaxDays /\ day' = day + 1 /\ job.kind = "none"
    /\ UNCHANGED <<live, writing, backupDirs, job, writes, jobs>>
-----------------------------------------------------------------------------
\* A name is the second (here the day), the label, and the suffix.
Places(label) == {<<day, label, n>> : n \in 0..MaxJobs}

\* Mutant: no suffix is looked for.
FreePlaceFirst(label) == <<day, label, 0>>

FreePlace(label) ==
    CHOOSE d \in Places(label) : /\ d \notin DOMAIN backupDirs
                                 /\ \A n \in 0..(d[3] - 1) : <<day, label, n>> \in DOMAIN backupDirs

Put(dirs, d, content) == [e \in DOMAIN dirs \cup {d} |-> IF e = d THEN content ELSE dirs[e]]

Begin(kind, dir) ==
    /\ job.kind = "none" /\ jobs < MaxJobs /\ jobs' = jobs + 1
    /\ job' = [NoJob EXCEPT !.kind = kind, !.dir = dir]

\* create_backup: an empty directory.
BeginBackup(label) ==
    /\ Begin("backup", FreePlace(label))
    /\ backupDirs' = Put(backupDirs, FreePlace(label),
           [data |-> NoFilesYet, manifest |-> "none", made |-> day,
            owes |-> [f \in {g \in DataFiles : writing[g] = Absent} |-> live[f]]])
    /\ UNCHANGED <<live, writing, writes, day>>

\* restore: a directory without a manifest that can be read is refused; what
\* the manifest says is not looked at.
BeginRestore(d) ==
    /\ d \in DOMAIN backupDirs /\ backupDirs[d].manifest # "none"
    /\ Begin("restore", d)
    /\ UNCHANGED <<live, writing, backupDirs, writes, day>>

\* Where the job copies from and to.
From == IF job.kind = "backup" THEN live ELSE backupDirs[job.dir].data
To   == IF job.kind = "backup" THEN backupDirs[job.dir].data ELSE live

\* The next part: the files that are there now are listed.
OpenPart ==
    /\ job.kind # "none" /\ job.todo = {} /\ job.part < Configs
    /\ job' = [job EXCEPT !.part = @ + 1,
                          !.todo = {f \in DataFiles : PartOf[f] = job.part + 1 /\ From[f] # NoContent}]
    /\ UNCHANGED <<live, writing, backupDirs, writes, day, jobs>>

Receives(f, content) ==
    IF job.kind = "backup"
    THEN backupDirs' = [backupDirs EXCEPT ![job.dir].data[f] = content] /\ UNCHANGED live
    ELSE live' = [live EXCEPT ![f] = content] /\ UNCHANGED backupDirs

\* copy2 empties the target and writes it as it reads the source; files of a
\* restore are copied over those that are there, and others stay.
CopyHead(f) ==
    /\ f \in job.todo /\ job.half = {}
    /\ Receives(f, [head |-> From[f].head, tail |-> Absent])
    /\ job' = [job EXCEPT !.half = {f}]
    /\ UNCHANGED <<writing, writes, day, jobs>>

CopyTail(f) ==
    /\ f \in job.half
    /\ Receives(f, [To[f] EXCEPT !.tail = From[f].tail])
    /\ job' = [job EXCEPT !.half = {}, !.todo = @ \ {f}]
    /\ UNCHANGED <<writing, writes, day, jobs>>

\* Of the index files copytree goes on with the others.
LeftAfterError(f) == IF PartOf[f] = Vectors THEN job.todo \ {f} ELSE {}

\* Mutant: a failed copy is only logged.
CopyFailsSilently(f) ==
    /\ f \in job.todo /\ (job.half = {} \/ f \in job.half)
    /\ job' = [job EXCEPT !.half = {}, !.todo = LeftAfterError(f)]
    /\ UNCHANGED <<live, writing, backupDirs, writes, day, jobs>>

\* A copy fails before or after its first half, which stays; the error is
\* kept and the next part is tried.
CopyFails(f) ==
    /\ f \in job.todo /\ (job.half = {} \/ f \in job.half)
    /\ job' = [job EXCEPT !.half = {}, !.todo = LeftAfterError(f), !.failed = TRUE]
    /\ UNCHANGED <<live, writing, backupDirs, writes, day, jobs>>

Copied == job.todo = {} /\ job.part = Configs

\* The manifest comes last; one that is cut short cannot be read, which is as
\* good as none to restore.
WriteManifest ==
    /\ job.kind = "backup" /\ Copied
    /\ \E m \in {IF job.failed THEN "partial" ELSE "success", "none"} :
           backupDirs' = [backupDirs EXCEPT ![job.dir].manifest = m]
    /\ job' = NoJob
    /\ UNCHANGED <<live, writing, writes, day, jobs>>

EndRestore ==
    /\ job.kind = "restore" /\ Copied /\ job' = NoJob
    /\ UNCHANGED <<live, writing, backupDirs, writes, day, jobs>>

\* The process dies, with its writers.
JobDies ==
    /\ job.kind # "none" /\ job' = NoJob
    /\ writing' = [f \in DataFiles |-> Absent]
    /\ UNCHANGED <<live, backupDirs, writes, day, jobs>>
-----------------------------------------------------------------------------
\* Mutant: a directory that is as old as the limit goes too.
TooOldOrEqual(d) == day - backupDirs[d].made >= KeptDays

\* By the time of the directory, which is that of its last entry.
TooOld(d) == day - backupDirs[d].made > KeptDays

Stripped(data, gone) == [f \in DataFiles |-> IF f \in gone THEN NoContent ELSE data[f]]

\* The directory's time is new if an entry of its own went.
MadeAfter(b, gone, manifest) ==
    IF manifest = b.manifest /\ \A f \in gone : PartOf[f] # Database THEN b.made ELSE day

\* What rmtree leaves when it fails, or dies, in the middle: some of the files,
\* with the manifest or without.  The backup owes nothing more.
Remains(b, gone, manifest) ==
    [b EXCEPT !.data = Stripped(b.data, gone), !.manifest = manifest, !.owes = <<>>,
              !.made = MadeAfter(b, gone, manifest)]

\* cleanup_old_backups, of one directory: a failure is logged, and the others
\* are tried.
CleanupBackup(d) ==
    /\ job.kind = "none" /\ TooOld(d)
    /\ \/ backupDirs' = [e \in DOMAIN backupDirs \ {d} |-> backupDirs[e]]
       \/ \E gone \in SUBSET DataFiles, manifest \in {backupDirs[d].manifest, "none"} :
              backupDirs' = [backupDirs EXCEPT ![d] = Remains(@, gone, manifest)]
    /\ UNCHANGED <<live, writing, job, writes, day, jobs>>

\* The first files were made by write 1.
BackupInit ==
    /\ live = [f \in DataFiles |-> IF f \in FirstFiles THEN [head |-> 1, tail |-> 1] ELSE NoContent]
    /\ writing = [f \in DataFiles |-> Absent] /\ backupDirs = <<>> /\ job = NoJob
    /\ writes = 1 /\ day = 0 /\ jobs = 0

BackupStep ==
    \/ \E f \in DataFiles : OpenWrite(f) \/ CloseWrite(f) \/ WriteFails(f)
    \/ DayPasses
    \/ \E label \in Labels : BeginBackup(label)
    \/ OpenPart
    \/ \E f \in DataFiles : CopyHead(f) \/ CopyTail(f) \/ CopyFails(f)
    \/ WriteManifest \/ EndRestore \/ JobDies
    \/ \E d \in DOMAIN backupDirs : BeginRestore(d) \/ CleanupBackup(d)

BackupSpec == BackupInit /\ [][BackupStep]_backupVars
-----------------------------------------------------------------------------
Contents == [head : Nat, tail : Nat]
Versions == [DataFiles -> Contents]

BackupTypeOK ==
    /\ live \in Versions /\ writing \in [DataFiles -> Nat]
    /\ \A d \in DOMAIN backupDirs :
          /\ backupDirs[d].data \in Versions /\ DOMAIN backupDirs[d].owes \subseteq DataFiles
          /\ backupDirs[d].manifest \in {"none", "success", "partial"}
    /\ job.kind \in {"none", "backup", "restore"}
    /\ job.kind # "none" => job.dir \in DOMAIN backupDirs
    /\ job.todo \subseteq DataFiles /\ job.half \subseteq job.todo

\* A backup whose manifest says success, and that no cleanup has begun to
\* remove, has every file that nobody wrote while it was made, whole and as it
\* was when the backup began, and no file that was not there: whatever was
\* copied, restored, cut short or failed before, meanwhile and since
\* (backup.py:57-132).  A file written meanwhile may be torn.
SuccessIsComplete ==
    \A d \in DOMAIN backupDirs : backupDirs[d].manifest = "success" =>
        \A f \in DOMAIN backupDirs[d].owes : backupDirs[d].data[f] = backupDirs[d].owes[f]

\* A backup with its manifest is never written again, and goes, or loses
\* files, only when it is older than the retention, whatever is created in the
\* same second with the same label (backup.py:47-55, 266-287).
FinishedBackupsStay ==
    [][\A d \in DOMAIN backupDirs : backupDirs[d].manifest # "none" =>
           \/ d \in DOMAIN backupDirs' /\ backupDirs'[d] = backupDirs[d]
           \/ day > backupDirs[d].made + KeptDays]_backupVars
=============================================================================
