----------------------------- MODULE Automation -----------------------------
(***************************************************************************)
(* app/services/automation_tasks.py and app/api/automation_tasks.py:       *)
(* automation tasks, their states and their audit log.  Nothing runs them: *)
(* the services keep them, and a dry run records what would be done.       *)
(***************************************************************************)
EXTENDS Integers, FiniteSets, Sequences

CONSTANTS
    AutoTasks,      \* tasks that may be created
    MaxAudits       \* bound: entries of the audit log

ASSUME AutomationAssumption == MaxAudits \in Nat

VARIABLES
    autoStatus,     \* [AutoTasks -> status, or "none" before it is created]
    dryRuns,        \* [AutoTasks -> rows of automation_task_runs]
    auditLog        \* Seq of <<task, action>>: automation_audit_log, by id

autoVars == <<autoStatus, dryRuns, auditLog>>

\* AutomationTaskStatus; no task is ever running.
AutoStatuses == {"active", "paused", "cancelled", "running"}
-----------------------------------------------------------------------------
\* The row and its entry are one transaction.
Audited(t, action) == auditLog' = Append(auditLog, <<t, action>>)

Change(t, from, to, action) ==
    /\ Len(auditLog) < MaxAudits
    /\ autoStatus[t] \in from
    /\ autoStatus' = [autoStatus EXCEPT ![t] = to]
    /\ Audited(t, action)
    /\ UNCHANGED dryRuns

CreateAutomation(t) == Change(t, {"none"}, "active", "created")

PauseAutomation(t) == Change(t, {"active", "running"}, "paused", "paused")

\* Mutant: only an active task is refused.
ResumeAny(t) == Change(t, {"paused", "running", "cancelled"}, "active", "resumed")

ResumeAutomation(t) == Change(t, {"paused", "running"}, "active", "resumed")

\* Mutant: a cancelled task is not logged.
DeleteQuietly(t) ==
    /\ autoStatus[t] \in AutoStatuses
    /\ autoStatus' = [autoStatus EXCEPT ![t] = "cancelled"]
    /\ UNCHANGED <<dryRuns, auditLog>>

\* delete: the row stays; a cancelled task may be cancelled again.
DeleteAutomation(t) == Change(t, AutoStatuses, "cancelled", "cancelled")

\* dry_run: in any state, also cancelled.
DryRun(t) ==
    /\ Len(auditLog) < MaxAudits /\ autoStatus[t] # "none"
    /\ dryRuns' = [dryRuns EXCEPT ![t] = @ + 1]
    /\ Audited(t, "dry_run")
    /\ UNCHANGED autoStatus

AutoInit ==
    /\ autoStatus = [t \in AutoTasks |-> "none"]
    /\ dryRuns = [t \in AutoTasks |-> 0]
    /\ auditLog = <<>>

AutoStep ==
    \E t \in AutoTasks :
        \/ CreateAutomation(t) \/ PauseAutomation(t) \/ ResumeAutomation(t)
        \/ DeleteAutomation(t) \/ DryRun(t)

AutoSpec == AutoInit /\ [][AutoStep]_autoVars
-----------------------------------------------------------------------------
AutoTypeOK ==
    /\ autoStatus \in [AutoTasks -> AutoStatuses \cup {"none"}]
    /\ dryRuns \in [AutoTasks -> Nat]
    /\ Len(auditLog) <= MaxAudits

StatusAfter == [created |-> "active", paused |-> "paused", resumed |-> "active",
                cancelled |-> "cancelled"]

\* The log retells each task's state: replaying its entries, dry runs aside,
\* ends where the task is (automation_tasks.py:89-166).
LogRetellsStatus ==
    \A t \in AutoTasks :
        LET own == {i \in DOMAIN auditLog : auditLog[i][1] = t /\ auditLog[i][2] # "dry_run"}
        IN  IF own = {} THEN autoStatus[t] = "none"
            ELSE autoStatus[t] = StatusAfter[auditLog[CHOOSE i \in own : \A j \in own : j <= i][2]]

\* No sequence of calls brings a cancelled task back.
CancelledForGood ==
    [][\A t \in AutoTasks : autoStatus[t] = "cancelled" => autoStatus'[t] = "cancelled"]_autoVars
=============================================================================
