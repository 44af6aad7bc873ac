---------------------------- MODULE ProjectFiles ----------------------------
(***************************************************************************)
(* app/services/projects.py, files.py and cleanup.py with their routes:    *)
(* the directories of the projects, the files uploaded into them, and the  *)
(* sweep that removes old smoke-test projects, temporary files and index   *)
(* directories.  Projects are created in worker threads, one step at a     *)
(* time; an upload and a sweep never await and run as one step of the loop,*)
(* but a process that dies leaves a sweep between two of its steps, and a  *)
(* removal may leave any part of its tree.                                 *)
(***************************************************************************)
EXTENDS Integers, FiniteSets, Sequences

CONSTANTS
    FileProjects,     \* project ids
    SmokeProjects,    \* those named smoke-
    Creators,         \* requests that create projects
    FileNames,        \* names of uploads, without suffix; "tasks" among them
    SmokeDays,        \* cleanup_smoke_project_days
    MaxAge,           \* bound: days
    MaxCreations,     \* bound: requests to create
    MaxUploads        \* bound: uploads

ASSUME ProjectFilesAssumption ==
    /\ SmokeProjects \subseteq FileProjects /\ SmokeDays \in Nat \ {0} /\ "tasks" \in FileNames
    /\ MaxAge \in Nat /\ MaxCreations \in Nat /\ MaxUploads \in Nat

VARIABLES
    dirs,             \* [FileProjects -> SUBSET of "source", "derived", "meta", "dir"]
    born,             \* [FileProjects -> the day of the directory's last new or removed entry]
    outputs,          \* projects with an output directory
    files,            \* [FileProjects -> [<<name, suffix>> -> the sort of its content]]
    creator,          \* [Creators -> where a request to create is]
    founders,         \* [FileProjects -> requests answered with the new project]
    sweeping,         \* the project a sweep is removing
    stuck,            \* history: outputs that were there when their project went
    gutted,           \* history: projects of which a sweep has left something
    age, creations, uploads

fileVars == <<dirs, born, outputs, files, creator, founders, sweeping, stuck, gutted, age, creations, uploads>>
-----------------------------------------------------------------------------
\* What a file's first bytes say: a signature, text, or nothing known.
Sorts == {"pdf", "zip", "text", "binary"}

\* Of a name: mimetypes.guess_type.
MimeOfName == [md |-> "markdown", txt |-> "plain", csv |-> "csv", pdf |-> "pdf",
               docx |-> "docx", xlsx |-> "xlsx", exe |-> "other"]

FileSuffixes == DOMAIN MimeOfName

AllowedMimes == {"plain", "markdown", "csv", "pdf", "docx", "xlsx"}

ExpectedMimes == [md |-> {"markdown", "plain"}, txt |-> {"plain"}, csv |-> {"csv", "plain"},
                  pdf |-> {"pdf"}, docx |-> {"docx"}, xlsx |-> {"xlsx"}]

\* Mutant: the name wins over the signature.
DetectByName(sort, suffix) ==
    IF MimeOfName[suffix] # "other" THEN MimeOfName[suffix] ELSE "plain"

\* _detect_mime: signatures, then text, then the name.
DetectMime(sort, suffix) ==
    CASE sort = "pdf"  -> "pdf"
      [] sort = "zip"  -> IF suffix \in {"docx", "xlsx"} THEN suffix ELSE "zip"
      [] sort = "text" -> "plain"
      [] OTHER         -> MimeOfName[suffix]

\* An upload: the form's task_file says which suffixes may come.
DocumentSuffixes == {"md", "txt", "pdf", "docx", "xlsx"}
TaskSuffixes == {"csv", "xlsx"}

\* save_project_upload and validate_file: the first error answers; a plain
\* name, a length, and the scan are left to "fits".
Accepted(suffix, sort, size, task) ==
    /\ suffix \in (IF task THEN TaskSuffixes ELSE DocumentSuffixes)
    /\ size = "fits"
    /\ DetectMime(sort, suffix) \in AllowedMimes
    /\ DetectMime(sort, suffix) \in ExpectedMimes[suffix]

Target(name, suffix, task) == <<IF task THEN "tasks" ELSE name, suffix>>

HasDir(p) == "dir" \in dirs[p]

\* Mutant: an existing file is replaced.
UploadReplacing(p, name, suffix, sort, size, task) ==
    /\ uploads < MaxUploads /\ uploads' = uploads + 1
    /\ Accepted(suffix, sort, size, task) /\ "source" \in dirs[p]
    /\ LET target == Target(name, suffix, task)
       IN  files' = [files EXCEPT ![p] =
               [f \in DOMAIN @ \cup {target} |-> IF f = target THEN sort ELSE @[f]]]
    /\ UNCHANGED <<dirs, born, outputs, creator, founders, sweeping, stuck, gutted, age, creations>>

\* The directory is asked for, the source directory is not: writing into a
\* project that is not complete fails.
Upload(p, name, suffix, sort, size, task) ==
    /\ uploads < MaxUploads /\ uploads' = uploads + 1
    /\ Accepted(suffix, sort, size, task) /\ "source" \in dirs[p]
    /\ LET target == Target(name, suffix, task)
       IN  /\ target \notin DOMAIN files[p]
           /\ files' = [files EXCEPT ![p] =
                  [f \in DOMAIN @ \cup {target} |-> IF f = target THEN sort ELSE @[f]]]
    /\ UNCHANGED <<dirs, born, outputs, creator, founders, sweeping, stuck, gutted, age, creations>>
-----------------------------------------------------------------------------
Goes(c, at) == creator' = [creator EXCEPT ![c].at = at]

\* create_project: an id that has a directory is refused.
AskForProject(c, p) ==
    /\ creator[c].at = "idle" /\ creations < MaxCreations /\ creations' = creations + 1
    /\ ~HasDir(p)
    /\ creator' = [creator EXCEPT ![c] = [at |-> "source", project |-> p]]
    /\ UNCHANGED <<dirs, born, outputs, files, founders, sweeping, stuck, gutted, age, uploads>>

\* Mutant: a directory that has come meanwhile is good enough.
MakeSourceAnyway(c) ==
    LET p == creator[c].project
    IN  /\ creator[c].at = "source"
        /\ dirs' = [dirs EXCEPT ![p] = @ \cup {"dir", "source"}]
        /\ born' = [born EXCEPT ![p] = age]
        /\ Goes(c, "outputs")
        /\ UNCHANGED <<outputs, files, founders, sweeping, stuck, gutted, age, creations, uploads>>

\* mkdir of the source directory, with its parents, fails when it is there:
\* of two requests that saw no directory one gets through.
MakeSource(c) ==
    LET p == creator[c].project
    IN  /\ creator[c].at = "source"
        /\ IF "source" \in dirs[p]
           THEN Goes(c, "idle") /\ UNCHANGED <<dirs, born>>
           ELSE /\ dirs' = [dirs EXCEPT ![p] = @ \cup {"dir", "source"}]
                /\ born' = [born EXCEPT ![p] = age]
                /\ Goes(c, "derived")
        /\ UNCHANGED <<outputs, files, founders, sweeping, stuck, gutted, age, creations, uploads>>

MakeDerived(c) ==
    LET p == creator[c].project
    IN  /\ creator[c].at = "derived"
        /\ dirs' = [dirs EXCEPT ![p] = @ \cup {"derived"}]
        /\ Goes(c, "outputs")
        /\ UNCHANGED <<born, outputs, files, founders, sweeping, stuck, gutted, age, creations, uploads>>

MakeOutputs(c) ==
    /\ creator[c].at = "outputs"
    /\ outputs' = outputs \cup {creator[c].project}
    /\ Goes(c, "meta")
    /\ UNCHANGED <<dirs, born, files, founders, sweeping, stuck, gutted, age, creations, uploads>>

\* project.json, and the answer.
WriteMetadata(c) ==
    LET p == creator[c].project
    IN  /\ creator[c].at = "meta"
        /\ dirs' = [dirs EXCEPT ![p] = @ \cup {"meta"}]
        /\ founders' = [founders EXCEPT ![p] = @ + 1]
        /\ Goes(c, "idle")
        /\ UNCHANGED <<born, outputs, files, sweeping, stuck, gutted, age, creations, uploads>>

\* A step fails, or the process dies: the directories stay, the id is taken.
CreationFails(c) ==
    /\ creator[c].at # "idle" /\ Goes(c, "idle")
    /\ UNCHANGED <<dirs, born, outputs, files, founders, sweeping, stuck, gutted, age, creations, uploads>>

\* get_project, list_projects: what has its metadata.
Visible == {p \in FileProjects : "meta" \in dirs[p]}
-----------------------------------------------------------------------------
DayGoesBy ==
    /\ age < MaxAge /\ age' = age + 1
    /\ \A c \in Creators : creator[c].at = "idle"
    /\ UNCHANGED <<dirs, born, outputs, files, creator, founders, sweeping, stuck, gutted, creations, uploads>>

Expired(p) == p \in SmokeProjects /\ HasDir(p) /\ age - born[p] >= SmokeDays

NoProject == "none"

\* _cleanup_expired_projects: first the output; errors are ignored, and what
\* could not be removed stays.
SweepOutput(p) ==
    /\ sweeping = NoProject /\ Expired(p)
    /\ sweeping' = p
    /\ \/ outputs' = outputs \ {p} /\ UNCHANGED stuck
       \/ p \in outputs /\ stuck' = stuck \cup {p} /\ UNCHANGED outputs
    /\ UNCHANGED <<dirs, born, files, creator, founders, gutted, age, creations, uploads>>

\* rmtree of a project that leaves some of its directories and files, each with
\* those it is in.
Leaves(p, kept, names) ==
    /\ kept # {} => "dir" \in kept
    /\ names # {} => "source" \in kept
    /\ dirs' = [dirs EXCEPT ![p] = kept]
    /\ files' = [files EXCEPT ![p] = [f \in names |-> @[f]]]
    /\ founders' = [founders EXCEPT ![p] = IF kept = {} THEN 0 ELSE @]
    /\ gutted' = IF kept = {} THEN gutted \ {p} ELSE gutted \cup {p}
    /\ born' = [born EXCEPT ![p] = IF kept = dirs[p] THEN @ ELSE age]

\* Then the project: what cannot be removed is ignored, and the process may die.
SweepProject ==
    /\ sweeping # NoProject /\ sweeping' = NoProject
    /\ \E kept \in SUBSET dirs[sweeping], names \in SUBSET DOMAIN files[sweeping] :
           Leaves(sweeping, kept, names)
    /\ UNCHANGED <<outputs, creator, stuck, age, creations, uploads>>

SweepDies ==
    /\ sweeping # NoProject /\ sweeping' = NoProject
    /\ UNCHANGED <<dirs, born, outputs, files, creator, founders, stuck, gutted, age, creations, uploads>>

FilesInit ==
    /\ dirs = [p \in FileProjects |-> {}] /\ born = [p \in FileProjects |-> 0]
    /\ outputs = {} /\ files = [p \in FileProjects |-> <<>>]
    /\ creator = [c \in Creators |-> [at |-> "idle", project |-> NoProject]]
    /\ founders = [p \in FileProjects |-> 0]
    /\ sweeping = NoProject /\ stuck = {} /\ gutted = {} /\ age = 0 /\ creations = 0 /\ uploads = 0

\* While the sweep of a project is under way the loop serves nobody; threads run.
FilesStep ==
    \/ \E c \in Creators :
           \/ \E p \in FileProjects : AskForProject(c, p)
           \/ MakeSource(c) \/ MakeDerived(c) \/ MakeOutputs(c) \/ WriteMetadata(c) \/ CreationFails(c)
    \/ \E p \in FileProjects :
           \/ SweepOutput(p)
           \/ /\ sweeping = NoProject
              /\ \E name \in FileNames, suffix \in FileSuffixes, sort \in Sorts, task \in BOOLEAN,
                    size \in {"fits", "empty", "large"} : Upload(p, name, suffix, sort, size, task)
    \/ SweepProject \/ SweepDies \/ (sweeping = NoProject /\ DayGoesBy)

FilesSpec == FilesInit /\ [][FilesStep]_fileVars
-----------------------------------------------------------------------------
FilesTypeOK ==
    /\ dirs \in [FileProjects -> SUBSET {"dir", "source", "derived", "meta"}]
    /\ \A p \in FileProjects : /\ born[p] \in 0..age
                               /\ DOMAIN files[p] \subseteq FileNames \X FileSuffixes
    /\ outputs \subseteq FileProjects /\ stuck \subseteq FileProjects /\ gutted \subseteq FileProjects

\* Of the requests for one id that ran at once one was answered with the
\* project until its directory has gone again, and what was answered has all its
\* directories and is listed, unless a sweep has begun to remove it
\* (projects.py:29-40, cleanup.py:47-103).
FoundedOnce ==
    \A p \in FileProjects :
        /\ founders[p] <= 1
        /\ founders[p] = 1 /\ p \notin gutted => p \in Visible /\ {"source", "derived"} \subseteq dirs[p]

\* Content with a signature, and text, is never stored under another kind of
\* name, whatever form field and name it came with (files.py:42-161).
StoredAsNamed ==
    \A p \in FileProjects : \A f \in DOMAIN files[p] :
        CASE files[p][f] = "pdf"  -> f[2] = "pdf"
          [] files[p][f] = "zip"  -> f[2] \in {"docx", "xlsx"}
          [] files[p][f] = "text" -> f[2] \in {"md", "txt", "csv"}
          [] OTHER                -> TRUE

\* An uploaded file keeps its content, also where two names lead to the same
\* target, and goes only with a smoke project nothing was added to or removed
\* from for SmokeDays (files.py:229-237, cleanup.py:47-103).
UploadsStay ==
    [][\A p \in FileProjects : \A f \in DOMAIN files[p] :
           \/ f \in DOMAIN files'[p] /\ files'[p][f] = files[p][f]
           \/ p \in SmokeProjects /\ age >= born[p] + SmokeDays]_fileVars

\* A smoke project that the sweep removed left no output behind, wherever the
\* process died, unless removing the output failed unnoticed (cleanup.py:82-103).
NoOutputBehind == \A p \in outputs : dirs[p] = {} => p \in stuck
=============================================================================
