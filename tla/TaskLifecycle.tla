---------------------------- MODULE TaskLifecycle ----------------------------
(***************************************************************************)
(* app/services/task_lifecycle.py, app/schemas/task_sql.py and the handlers*)
(* of app/api/tasks.py: the tasks of one project, their event log and the  *)
(* confirmation queue, in one SQLite file.  Every "with self._connect()"   *)
(* is a transaction of its own; the handlers run in threads of the pool,   *)
(* so one handler's transactions interleave with another's.  The import    *)
(* handler is a coroutine without awaits: one import at a time, row after  *)
(* row, beside the threads.                                                *)
(*                                                                         *)
(* A death of the process leaves what the failure of each handler's next   *)
(* transaction leaves, so only such failures are modelled.                 *)
(***************************************************************************)
EXTENDS Integers, FiniteSets, Sequences

CONSTANTS
    Tasks,        \* task ids
    Threads,      \* threads of the pool that serve requests
    Titles,       \* titles of tasks
    Rows,         \* distinct rows of the imported tables: one fingerprint each
    TitleOf,      \* [Rows -> Titles]
    None,         \* the null task, title and row
    Files,        \* the tables clients import: sequences of rows
    Modes,        \* the flags they import with: skip_duplicates, overwrite_conflicts
    CreateStatuses, \* the statuses clients create tasks with
    MaxChanges,   \* bound: a task with a longer log gets no request any more
    MaxImports,   \* bound: imports
    MaxFaults     \* bound: transactions that fail (database is locked)

ASSUME LifecycleAssumption ==
    /\ IsFiniteSet(Tasks) /\ IsFiniteSet(Threads)
    /\ TitleOf \in [Rows -> Titles]
    /\ None \notin Tasks \cup Titles \cup Rows
    /\ Files \subseteq Seq(Rows)
    /\ Modes \subseteq [skip : BOOLEAN, overwrite : BOOLEAN]
    /\ MaxChanges \in Nat /\ MaxImports \in Nat /\ MaxFaults \in Nat

VARIABLES
    status,       \* [Tasks -> status]: the table task
    title,        \* [Tasks -> title]
    row,          \* [Tasks -> Rows]: the table row whose fields the task has
    change,       \* [Tasks -> Seq of status changes]: the table task_change
    confirmation, \* [Tasks -> status of its row in the table confirmation]
    audited,      \* [Tasks -> Nat]: its entries in operation_audit
    fingerprints, \* the rows in task_import_fingerprint
    pc,           \* where each thread stands in its handler
    request,      \* what it has decided to write
    importing,    \* where the import stands
    rest,         \* the rows it has not finished
    mode,         \* its flags
    found,        \* the task that its current row overwrites or created
    imports,      \* history: the flags of the imports so far
    faults        \* failed transactions so far

tables == <<status, title, row, change, confirmation>>
threadVars == <<pc, request>>
importVars == <<fingerprints, importing, rest, mode, found, imports>>
vars == <<tables, audited, threadVars, importVars, faults>>
-----------------------------------------------------------------------------
TaskStatuses == {"pending_confirmation", "not_started", "in_progress",
                 "mostly_completed", "completed", "delayed", "cancelled"}

Allowed == [s \in TaskStatuses |->
    CASE s = "pending_confirmation" -> {"not_started", "cancelled"}
      [] s = "not_started" -> {"in_progress", "cancelled", "delayed"}
      [] s = "in_progress" -> {"mostly_completed", "completed", "delayed", "cancelled"}
      [] s = "mostly_completed" -> {"completed", "in_progress", "delayed"}
      [] s = "delayed" -> {"in_progress", "completed", "cancelled"}
      [] OTHER -> {}]

ASSUME CreateAssumption == CreateStatuses \subseteq TaskStatuses

Decisions == {"accept", "modify", "ignore"}

Exists(t) == status[t] # "absent"

Idle == [task |-> None, from |-> "absent", to |-> "absent",
         decision |-> "none", title |-> None]

Init ==
    /\ status = [t \in Tasks |-> "absent"]
    /\ title = [t \in Tasks |-> None]
    /\ row = [t \in Tasks |-> None]
    /\ change = [t \in Tasks |-> <<>>]
    /\ confirmation = [t \in Tasks |-> "none"]
    /\ audited = [t \in Tasks |-> 0]
    /\ fingerprints = {}
    /\ pc = [th \in Threads |-> "idle"]
    /\ request = [th \in Threads |-> Idle]
    /\ importing = "no"
    /\ rest = <<>>
    /\ mode = [skip |-> TRUE, overwrite |-> FALSE]
    /\ found = None
    /\ imports = <<>>
    /\ faults = 0

\* A status change: the row of the task and the event in one transaction.
Change(t, from, to) ==
    /\ status' = [status EXCEPT ![t] = to]
    /\ change' = [change EXCEPT ![t] = Append(@, [from |-> from, to |-> to])]

\* Mutant: a candidate is not put into the confirmation queue.
InsertUnqueued(t, s, name, r) ==
    /\ ~Exists(t)
    /\ Change(t, "absent", s)
    /\ title' = [title EXCEPT ![t] = name]
    /\ row' = [row EXCEPT ![t] = r]
    /\ UNCHANGED confirmation

\* The transaction of create_task and submit_candidates, with a new id.
Insert(t, s, name, r) ==
    /\ ~Exists(t)
    /\ Change(t, "absent", s)
    /\ title' = [title EXCEPT ![t] = name]
    /\ row' = [row EXCEPT ![t] = r]
    /\ confirmation' = [confirmation EXCEPT
           ![t] = IF s = "pending_confirmation" THEN "pending" ELSE "none"]
-----------------------------------------------------------------------------
(* The handlers in the thread pool.                                        *)

Accept(th, t, from, to, decision, name) ==
    /\ pc[th] = "idle"
    /\ Len(change[t]) < MaxChanges
    /\ pc' = [pc EXCEPT ![th] = "decided"]
    /\ request' = [request EXCEPT ![th] =
           [task |-> t, from |-> from, to |-> to, decision |-> decision, title |-> name]]
    /\ UNCHANGED <<tables, audited, importVars, faults>>

\* The audit entry is still to be written.
Committed(th) == pc' = [pc EXCEPT ![th] = "audit"]

\* create_task takes any status the client names; submit_candidates does the
\* same for each candidate in turn, with the status pending_confirmation.
CreateTask(th, t, s, name) ==
    /\ pc[th] = "idle"
    /\ s \in CreateStatuses
    /\ Insert(t, s, name, None)
    /\ Committed(th)
    /\ request' = [request EXCEPT ![th] = [Idle EXCEPT !.task = t]]
    /\ UNCHANGED <<audited, importVars, faults>>

\* update_task writes the fields the client sends; its audit entry is not
\* counted, as it is of no status change.
UpdateTask(t, name) ==
    /\ Exists(t)
    /\ title' = [title EXCEPT ![t] = name]
    /\ row' = [row EXCEPT ![t] = None]
    /\ UNCHANGED <<status, change, confirmation, audited, threadVars, importVars, faults>>

\* Mutant: the transition is not looked up in ALLOWED_TRANSITIONS.
TransitionReadUnchecked(th, t, to) ==
    /\ Exists(t)
    /\ Accept(th, t, status[t], to, "none", None)

\* transition_status reads the task and validates the transition.
TransitionRead(th, t, to) ==
    /\ Exists(t) /\ to \in Allowed[status[t]]
    /\ Accept(th, t, status[t], to, "none", None)

\* Mutant: the event is left to the audit entry.
TransitionCommitUnlogged(th) ==
    LET q == request[th]
    IN  /\ pc[th] = "decided" /\ q.decision = "none"
        /\ status' = [status EXCEPT ![q.task] = q.to]
        /\ Committed(th)
        /\ UNCHANGED <<title, row, change, confirmation, audited, request, importVars, faults>>

\* It writes, whatever the status is by then, and logs the status it had read.
TransitionCommit(th) ==
    LET q == request[th]
    IN  /\ pc[th] = "decided" /\ q.decision = "none"
        /\ Change(q.task, q.from, q.to)
        /\ Committed(th)
        /\ UNCHANGED <<title, row, confirmation, audited, request, importVars, faults>>

\* process_confirmation reads the confirmation, which must be pending; it does
\* not read the task.
ConfirmRead(th, t, decision, name) ==
    /\ confirmation[t] = "pending"
    /\ name = None \/ decision = "modify"
    /\ Accept(th, t, "pending_confirmation",
              IF decision = "ignore" THEN "cancelled" ELSE "not_started", decision, name)

\* Mutant: the confirmation gets the name of the action, not of the outcome.
ConfirmCommitVerbatim(th) ==
    LET q == request[th]
    IN  /\ pc[th] = "decided" /\ q.decision # "none"
        /\ confirmation' = [confirmation EXCEPT ![q.task] = q.decision]
        /\ Change(q.task, q.from, q.to)
        /\ Committed(th)
        /\ UNCHANGED <<title, row, audited, request, importVars, faults>>

\* It closes the confirmation and moves the task, whatever both are by then.
ConfirmCommit(th) ==
    LET q == request[th]
    IN  /\ pc[th] = "decided" /\ q.decision # "none"
        /\ confirmation' = [confirmation EXCEPT
               ![q.task] = IF q.decision = "ignore" THEN "ignored" ELSE "accepted"]
        /\ Change(q.task, q.from, q.to)
        /\ title' = [title EXCEPT ![q.task] = IF q.title = None THEN @ ELSE q.title]
        /\ row' = [row EXCEPT ![q.task] = IF q.decision = "modify" THEN None ELSE @]
        /\ Committed(th)
        /\ UNCHANGED <<audited, request, importVars, faults>>

\* Mutant: the handler answers without an audit entry.
AuditSkipped(th) ==
    /\ pc[th] = "audit"
    /\ pc' = [pc EXCEPT ![th] = "idle"]
    /\ request' = [request EXCEPT ![th] = Idle]
    /\ UNCHANGED <<tables, audited, importVars, faults>>

\* _audit, in a transaction after the commit; the handler answers.
Audit(th) ==
    /\ pc[th] = "audit"
    /\ audited' = [audited EXCEPT ![request[th].task] = @ + 1]
    /\ pc' = [pc EXCEPT ![th] = "idle"]
    /\ request' = [request EXCEPT ![th] = Idle]
    /\ UNCHANGED <<tables, importVars, faults>>

\* A transaction fails: nothing of it is written and the client gets an error,
\* also when the change itself was committed and only the audit entry failed.
RequestFails(th) ==
    /\ faults < MaxFaults /\ faults' = faults + 1
    /\ pc[th] # "idle"
    /\ pc' = [pc EXCEPT ![th] = "idle"]
    /\ request' = [request EXCEPT ![th] = Idle]
    /\ UNCHANGED <<tables, audited, importVars>>
-----------------------------------------------------------------------------
(* confirm_import, on the event loop.  preview_import, which the handler   *)
(* calls first, only reads, and its candidates decide nothing.             *)

StartImport(file, flags) ==
    /\ importing = "no" /\ Len(imports) < MaxImports
    /\ imports' = Append(imports, flags)
    /\ importing' = "row"
    /\ rest' = file
    /\ mode' = flags
    /\ UNCHANGED <<tables, audited, threadVars, fingerprints, found, faults>>

\* Mutant: skip_duplicates is not looked at.
RowBeginUnskipped ==
    /\ importing = "row" /\ rest # <<>>
    /\ importing' = IF mode.overwrite THEN "find" ELSE "create"
    /\ UNCHANGED <<tables, audited, threadVars, fingerprints, rest, mode, found, imports, faults>>

\* A row whose fingerprint is known is skipped, if the client wants that.
RowBegin ==
    /\ importing = "row" /\ rest # <<>>
    /\ \/ /\ mode.skip /\ Head(rest) \in fingerprints
          /\ rest' = Tail(rest)
          /\ UNCHANGED importing
       \/ /\ ~(mode.skip /\ Head(rest) \in fingerprints)
          /\ importing' = IF mode.overwrite THEN "find" ELSE "create"
          /\ UNCHANGED rest
    /\ UNCHANGED <<tables, audited, threadVars, fingerprints, mode, found, imports, faults>>

\* overwrite_conflicts looks for a task with the row's title.
RowFind ==
    LET same == {t \in Tasks : Exists(t) /\ title[t] = TitleOf[Head(rest)]}
    IN  /\ importing = "find"
        /\ \/ /\ importing' = "overwrite"
              /\ \E t \in same : found' = t
           \/ same = {} /\ importing' = "create" /\ UNCHANGED found
        /\ UNCHANGED <<tables, audited, threadVars, fingerprints, rest, mode, imports, faults>>

\* The current row is finished.
RowDone ==
    /\ importing' = "row"
    /\ rest' = Tail(rest)
    /\ found' = None
    /\ UNCHANGED <<threadVars, mode, imports>>

\* The task gets the row's fields; its status stays, and no fingerprint is
\* recorded.
RowOverwrite ==
    /\ importing = "overwrite"
    /\ row' = [row EXCEPT ![found] = Head(rest)]
    /\ RowDone
    /\ UNCHANGED <<status, title, change, confirmation, audited, fingerprints, faults>>

\* create_task in the import: the task, then its audit entry.
RowCreate(t) ==
    /\ importing = "create"
    /\ Insert(t, "not_started", TitleOf[Head(rest)], Head(rest))
    /\ importing' = "audit"
    /\ found' = t
    /\ UNCHANGED <<audited, threadVars, fingerprints, rest, mode, imports, faults>>

RowAudit ==
    /\ importing = "audit"
    /\ audited' = [audited EXCEPT ![found] = @ + 1]
    /\ importing' = "fingerprint"
    /\ UNCHANGED <<tables, threadVars, fingerprints, rest, mode, found, imports, faults>>

\* The fingerprint, in a third transaction; one that exists stays.
RowFingerprint ==
    /\ importing = "fingerprint"
    /\ fingerprints' = fingerprints \cup {Head(rest)}
    /\ RowDone
    /\ UNCHANGED <<tables, audited, faults>>

\* A transaction of the row fails: it is counted as an error, and the import
\* goes on with the next row.
RowFails ==
    /\ faults < MaxFaults /\ faults' = faults + 1
    /\ importing \in {"overwrite", "create", "audit", "fingerprint"}
    /\ RowDone
    /\ UNCHANGED <<tables, audited, fingerprints>>

FinishImport ==
    /\ importing = "row" /\ rest = <<>>
    /\ importing' = "no"
    /\ UNCHANGED <<tables, audited, threadVars, fingerprints, rest, mode, found, imports, faults>>
-----------------------------------------------------------------------------
Request(th) ==
    \E t \in Tasks :
        \/ \E s \in CreateStatuses, name \in Titles : CreateTask(th, t, s, name)
        \/ \E to \in TaskStatuses : TransitionRead(th, t, to)
        \/ \E d \in Decisions, name \in Titles \cup {None} : ConfirmRead(th, t, d, name)

Write(th) == TransitionCommit(th) \/ ConfirmCommit(th) \/ Audit(th) \/ RequestFails(th)

ImportStep ==
    \/ \E file \in Files, flags \in Modes : StartImport(file, flags)
    \/ RowBegin \/ RowFind \/ RowOverwrite
    \/ \E t \in Tasks : RowCreate(t)
    \/ RowAudit \/ RowFingerprint \/ RowFails \/ FinishImport

Next ==
    \/ \E th \in Threads : Request(th) \/ Write(th)
    \/ \E t \in Tasks, name \in Titles : UpdateTask(t, name)
    \/ ImportStep

Spec == Init /\ [][Next]_vars
-----------------------------------------------------------------------------
Changes == [from : TaskStatuses \cup {"absent"}, to : TaskStatuses]

Requests == [task : Tasks \cup {None}, from : TaskStatuses \cup {"absent"},
             to : TaskStatuses \cup {"absent"}, decision : Decisions \cup {"none"},
             title : Titles \cup {None}]

TypeOK ==
    /\ status \in [Tasks -> TaskStatuses \cup {"absent"}]
    /\ title \in [Tasks -> Titles \cup {None}]
    /\ row \in [Tasks -> Rows \cup {None}]
    /\ change \in [Tasks -> Seq(Changes)]
    /\ confirmation \in [Tasks -> {"none", "pending", "accepted", "ignored"}]
    /\ audited \in [Tasks -> Nat]
    /\ fingerprints \subseteq Rows
    /\ pc \in [Threads -> {"idle", "decided", "audit"}]
    /\ request \in [Threads -> Requests]
    /\ importing \in {"no", "row", "find", "overwrite", "create", "audit", "fingerprint"}
    /\ rest \in Seq(Rows)
    /\ mode \in [skip : BOOLEAN, overwrite : BOOLEAN]
    /\ found \in Tasks \cup {None}
    /\ imports \in Seq([skip : BOOLEAN, overwrite : BOOLEAN])
    /\ faults \in 0..MaxFaults

\* The event log and the table agree: the last event of a task is its status,
\* although handlers write statuses they decided on before others wrote
\* (task_lifecycle.py:255-267, 470-519).
LogTellsStatus ==
    \A t \in Tasks :
        /\ Exists(t) <=> change[t] # <<>>
        /\ Exists(t) => change[t][Len(change[t])].to = status[t]

\* Every event shows a creation or a change of ALLOWED_TRANSITIONS, also when
\* the decision behind it was taken on a stale status.
EventsLookLegal ==
    \A t \in Tasks : \A k \in 1..Len(change[t]) :
        LET e == change[t][k]
        IN  e.from = "absent" \/ e.to \in Allowed[e.from]

\* Only a task that somebody can still decide on awaits confirmation, whatever
\* transitions and decisions cross each other.
PendingIsInQueue ==
    \A t \in Tasks : status[t] = "pending_confirmation" => confirmation[t] = "pending"

\* The entries of operation_audit that are neither written nor under way.
AuditDue(t) ==
    LET writing == {th \in Threads : pc[th] = "audit" /\ request[th].task = t}
        importer == IF importing = "audit" /\ found = t THEN 1 ELSE 0
    IN  Len(change[t]) - audited[t] - Cardinality(writing) - importer

\* What the handlers have decided is still sound when they write it: part of
\* the inductive invariant.
RequestsSound ==
    \A th \in Threads :
        LET q == request[th]
        IN  /\ pc[th] # "idle" => q.task \in Tasks
            /\ pc[th] = "decided" =>
                  /\ q.from \in TaskStatuses
                  /\ q.to \in Allowed[q.from]

\* The import knows its row and its task when it writes.
ImportSound ==
    /\ importing \notin {"no", "row"} => rest # <<>>
    /\ importing \in {"overwrite", "audit", "fingerprint"} => found \in Tasks

\* The inductive invariant behind the theorems of TaskLifecycleProofs.
LifecycleInv ==
    /\ TypeOK
    /\ LogTellsStatus
    /\ EventsLookLegal
    /\ PendingIsInQueue
    /\ RequestsSound
    /\ ImportSound

\* Each status change is audited exactly once, but for the transactions that
\* failed (_audit, task_lifecycle.py:760-776, runs after each commit).
AuditFollowsChanges == \A t \in Tasks : AuditDue(t) \in 0..faults

\* Importing the same table twice creates no duplicate tasks.
NoDuplicateImport ==
    \A t, u \in Tasks :
        row[t] # None /\ row[t] = row[u] /\ title[t] = title[u] => t = u

OnlySkipping == \A k \in DOMAIN imports : imports[k].skip /\ ~imports[k].overwrite

\* That holds while every import skips duplicates, none overwrites, and no
\* transaction fails between a task and its fingerprint, whatever tasks are
\* created and renamed meanwhile (task_lifecycle.py:683-745).
ImportsAddOnce == OnlySkipping /\ faults = 0 => NoDuplicateImport

\* Completed and cancelled are terminal.
TerminalIsFinal ==
    [][\A t \in Tasks : status[t] \in {"completed", "cancelled"} => UNCHANGED status[t]]_vars
=============================================================================
