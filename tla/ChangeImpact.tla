---------------------------- MODULE ChangeImpact ----------------------------
(***************************************************************************)
(* app/services/change_impact.py and the impact part of a risk scan: which *)
(* tasks a modified file touches.  A scan reads the newest entries of the  *)
(* change log, asks file after file for the tasks whose source names it,   *)
(* and stores one row for each task, every row in a commit of its own;     *)
(* meanwhile the tasks change.                                             *)
(***************************************************************************)
EXTENDS Integers, FiniteSets, Sequences

CONSTANTS
    ImpactFiles,       \* the files of a project
    ImpactTasks,       \* its tasks
    LogLimit,          \* entries of the log a scan reads
    MaxModifications,  \* bound: changes of files and tasks
    MaxAnalyses        \* bound: analyses begun

ASSUME ImpactAssumption ==
    /\ IsFiniteSet(ImpactTasks)
    /\ LogLimit \in Nat \ {0} /\ MaxModifications \in Nat /\ MaxAnalyses \in Nat

VARIABLES
    cites,        \* [ImpactTasks -> SUBSET ImpactFiles]: the paths in source_ref
    finished,     \* the tasks that are completed
    modified,     \* Seq of files: the change log's entries "modified"
    impact,       \* the analysis under way, or the last one
    impactRows,   \* Seq of rows: change_impact
    analyses, modifications

impactVars == <<cites, finished, modified, impact, impactRows, analyses, modifications>>

\* Of an analysis: the files it was told of, those it has not asked for yet, the
\* entries found and not stored yet, and whether it was given up.  Kept for the
\* properties: the files whose query failed, and what each task has cited all
\* the while until the last query.
NoImpact ==
    [files |-> {}, unread |-> {}, failed |-> {}, steady |-> [t \in ImpactTasks |-> {}],
     left |-> {}, lost |-> FALSE]

Modify == modifications < MaxModifications /\ modifications' = modifications + 1
-----------------------------------------------------------------------------
\* The tracker logs a modification of a file.
LogModified(p) ==
    /\ Modify /\ modified' = Append(modified, p)
    /\ UNCHANGED <<cites, finished, impact, impactRows, analyses>>

\* Somebody completes a task, or gives it another source.
FinishTask(t) ==
    /\ Modify /\ t \notin finished /\ finished' = finished \cup {t}
    /\ UNCHANGED <<cites, modified, impact, impactRows, analyses>>

ChangeSource(t, files) ==
    /\ Modify /\ files # cites[t] /\ cites' = [cites EXCEPT ![t] = files]
    /\ impact' = IF impact.unread = {} THEN impact
                 ELSE [impact EXCEPT !.steady[t] = @ \cap files]
    /\ UNCHANGED <<finished, modified, impactRows, analyses>>

\* get_change_logs with the limit of the scanner, newest first, as a set.
ChangedFiles ==
    {modified[i] : i \in {j \in DOMAIN modified : j > Len(modified) - LogLimit}}

Touched(t, p) ==
    [task |-> t, file |-> p, severity |-> IF t \in finished THEN "medium" ELSE "high"]

\* run, with check_impact, when something was modified.
BeginImpact ==
    /\ impact.unread = {} /\ impact.left = {} /\ ChangedFiles # {}
    /\ analyses < MaxAnalyses /\ analyses' = analyses + 1
    /\ impact' = [NoImpact EXCEPT !.files = ChangedFiles, !.unread = ChangedFiles, !.steady = cites]
    /\ UNCHANGED <<cites, finished, modified, impactRows, modifications>>

\* Mutant: an entry for each file that a task cites.
QueryFileAnew(p) ==
    /\ p \in impact.unread
    /\ impact' = [impact EXCEPT
           !.unread = @ \ {p},
           !.left = @ \cup {Touched(t, p) : t \in {u \in ImpactTasks : p \in cites[u]}}]
    /\ UNCHANGED <<cites, finished, modified, impactRows, analyses, modifications>>

\* _find_tasks_by_source_file of one file; of the entries of a task the first
\* stays.  The queries for evidence and for reports find nothing: nothing
\* creates the tables task_evidence and runs.
QueryFile(p) ==
    /\ p \in impact.unread
    /\ impact' = [impact EXCEPT
           !.unread = @ \ {p},
           !.left = @ \cup {Touched(t, p) :
                               t \in {u \in ImpactTasks : /\ p \in cites[u]
                                                         /\ \A e \in impact.left : e.task # u}}]
    /\ UNCHANGED <<cites, finished, modified, impactRows, analyses, modifications>>

\* The query raises an OperationalError, of a locked database say: it is taken
\* for a missing table, and the analysis goes on without the file.
QueryFails(p) ==
    /\ p \in impact.unread
    /\ impact' = [impact EXCEPT !.unread = @ \ {p}, !.failed = @ \cup {p}]
    /\ UNCHANGED <<cites, finished, modified, impactRows, analyses, modifications>>

\* record_change_impact of an entry.
PersistImpact ==
    /\ impact.unread = {}
    /\ \E e \in impact.left :
           /\ impactRows' = Append(impactRows, [entry |-> e, scan |-> analyses])
           /\ impact' = [impact EXCEPT !.left = @ \ {e}]
    /\ UNCHANGED <<cites, finished, modified, analyses, modifications>>

\* Another query or an insert fails, or the scanner dies: the rows written stay,
\* the others are given up; the scan reports it as an error and completes.
ImpactFails ==
    /\ impact.unread # {} \/ impact.left # {}
    /\ impact' = [impact EXCEPT !.unread = {}, !.left = {}, !.lost = TRUE]
    /\ UNCHANGED <<cites, finished, modified, impactRows, analyses, modifications>>

ImpactInit ==
    /\ cites \in [ImpactTasks -> SUBSET ImpactFiles]
    /\ finished = {} /\ modified = <<>> /\ impact = NoImpact /\ impactRows = <<>>
    /\ analyses = 0 /\ modifications = 0

ImpactStep ==
    \/ \E p \in ImpactFiles : LogModified(p)
    \/ \E t \in ImpactTasks : FinishTask(t) \/ \E files \in SUBSET ImpactFiles : ChangeSource(t, files)
    \/ \E p \in ImpactFiles : QueryFile(p) \/ QueryFails(p)
    \/ BeginImpact \/ PersistImpact \/ ImpactFails

ImpactSpec == ImpactInit /\ [][ImpactStep]_impactVars
-----------------------------------------------------------------------------
RowsOfScan(n) == {i \in DOMAIN impactRows : impactRows[i].scan = n}

ImpactTypeOK ==
    /\ cites \in [ImpactTasks -> SUBSET ImpactFiles] /\ finished \subseteq ImpactTasks
    /\ modified \in Seq(ImpactFiles)
    /\ \A i \in DOMAIN impactRows : /\ impactRows[i].entry.task \in ImpactTasks
                                    /\ impactRows[i].entry.file \in ImpactFiles
    /\ analyses \in 0..MaxAnalyses /\ modifications \in 0..MaxModifications

\* An analysis that ran to its end has stored every task that cited a changed
\* file from before the first query until after the last, unless the query for
\* that file failed; that a failed query leaves no trace is in the code's nature
\* (change_impact.py:56-83, 99-122, 186-214).
ImpactReachesAll ==
    impact.unread = {} /\ impact.left = {} /\ ~impact.lost =>
        \A t \in ImpactTasks : impact.steady[t] \cap (impact.files \ impact.failed) # {} =>
            \E i \in RowsOfScan(analyses) : /\ impactRows[i].entry.task = t
                                            /\ impactRows[i].entry.file \in impact.files

\* One analysis stores a task once, also one that cites several changed files
\* or starts to cite another between the queries (change_impact.py:74-80).
TaskStoredOnce ==
    \A n \in 1..analyses : \A i, j \in RowsOfScan(n) :
        impactRows[i].entry.task = impactRows[j].entry.task => i = j
=============================================================================
