----------------------------- MODULE TaskReports -----------------------------
(***************************************************************************)
(* Task evaluation and its reports: the tasks are loaded from the task     *)
(* database or a task file (services/phase_c.py, tools/task_reader.py),    *)
(* each is judged by rules over the evidence found for it                  *)
(* (tools/task_checker.py) with a model's words for the explanation, and   *)
(* the evaluations become the weekly report, the risk list and the plan of *)
(* the next week (reports/generator.py).                                   *)
(*                                                                         *)
(* A text is the set of signals its readers look for in it: "done",        *)
(* "partial" and "cancel" for the keyword lists, a criterion quoted word   *)
(* for word, the single words of a criterion, and the categories whose     *)
(* indicators it holds.                                                    *)
(***************************************************************************)
EXTENDS Integers, Sequences, FiniteSets, Ranks

CONSTANTS TaskRows,     \* the rows a task table may hold
          MaxRows,      \* bound on the rows of the task file
          CriterionWords, \* the meaningful words of each acceptance criterion
          Indicated,    \* the categories of _MISSING_INDICATORS
          NoDeadline    \* no deadline, or none of the formats of _parse_date

ASSUME EvaluationAssumption ==
    /\ MaxRows \in Nat /\ NoDeadline \notin Int
    /\ \A row \in TaskRows :
          /\ row = [title |-> row.title, assignee |-> row.assignee, deadline |-> row.deadline,
                    criteria |-> row.criteria, hints |-> row.hints, found |-> row.found, says |-> row.says]
          /\ row.hints \subseteq Indicated

VARIABLES fileRows,     \* the rows of the default task file
          defaultFiles, \* how many of _DEFAULT_TASK_FILES exist
          storedTasks,  \* the tasks of the task database
          loaded,       \* what load_tasks returned
          evaluations,  \* the evaluations so far, in the order of the tasks
          bundle,       \* the internal evaluations the artifacts are made of
          reporting     \* "load", "evaluate", "done" or "failed"

taskReportVars ==
    <<fileRows, defaultFiles, storedTasks, loaded, evaluations, bundle, reporting>>

SeqsUpTo(S, n) == UNION {[1..k -> S] : k \in 0..n}

(* At most one task in the database; an edit may have emptied its title.      *)
TaskReportInit ==
    /\ fileRows \in SeqsUpTo(TaskRows, MaxRows)
    /\ defaultFiles \in 0..2 /\ (defaultFiles = 1 \/ fileRows = <<>>)
    /\ storedTasks \in SeqsUpTo([row : TaskRows, status : {"pending_confirmation", "cancelled", "todo"}], 1)
    /\ storedTasks = <<>> \/ Len(fileRows) <= 1
    /\ loaded = <<>> /\ evaluations = <<>> /\ bundle = <<>>
    /\ reporting = "load"

-----------------------------------------------------------------------------
(* Reading the tasks. *)

(* _build_record: a row without a title or an assignee is left out. *)
Kept(row) == row.title # "" /\ row.assignee # ""

(* Mutant: the id of a file task is the digest of title and assignee alone.   *)
TaskIdOfName(row, index) == <<row.title, row.assignee>>

(* _to_task: the digest covers the position of the record in the file. *)
TaskId(row, index) == <<row.title, row.assignee, index>>

FileTasks ==
    LET records == ElementsAt(fileRows, {i \in DOMAIN fileRows : Kept(fileRows[i])})
    IN [k \in DOMAIN records |-> [id |-> TaskId(records[k], k), row |-> records[k]]]

(* Confirmed tasks only; their ids are the primary keys of the database, and  *)
(* _to_record names the owner of an unowned one "unassigned".                 *)
ReadyTasks ==
    LET confirmed == {i \in DOMAIN storedTasks : storedTasks[i].status \notin {"pending_confirmation", "cancelled"}}
        ready     == ElementsAt(storedTasks, confirmed)
    IN [k \in DOMAIN ready |->
            [id |-> <<"db", k>>,
             row |-> [ready[k].row EXCEPT !.assignee = IF @ = "" THEN "unassigned" ELSE @]]]

(* A task without a title does not validate, and the exception sends the      *)
(* whole load to the file.                                                    *)
StoreServes == ReadyTasks # <<>> /\ \A k \in DOMAIN ReadyTasks : ReadyTasks[k].row.title # ""

(* load_tasks: the database when it holds a confirmed task, else the one      *)
(* default task file; none or several of them is an error.                    *)
LoadReportTasks ==
    /\ reporting = "load"
    /\ IF ~StoreServes /\ defaultFiles # 1
       THEN reporting' = "failed" /\ loaded' = <<>>
       ELSE reporting' = "evaluate" /\ loaded' = IF StoreServes THEN ReadyTasks ELSE FileTasks
    /\ UNCHANGED <<fileRows, defaultFiles, storedTasks, evaluations, bundle>>

-----------------------------------------------------------------------------
(* Judging one task. *)

(* _check_time *)
TimeStatus(days) ==
    IF days = NoDeadline THEN "no_deadline"
    ELSE CASE days < 0     -> "overdue"
           [] days \in 0..3 -> "approaching"
           [] OTHER        -> "on_track"

(* _match_acceptance_criteria: quoted, or at least two words and all present. *)
MatchedCriteria(row) ==
    {c \in row.criteria : \/ c \in row.says
                          \/ Cardinality(CriterionWords[c]) >= 2 /\ CriterionWords[c] \subseteq row.says}

(* _find_missing_items *)
MissingItems(row) ==
    (IF row.criteria # {} /\ MatchedCriteria(row) = {} THEN {"criteria"} ELSE {})
    \union
    (IF row.found THEN {i \in Indicated : i \in row.hints /\ i \notin row.says} ELSE {"evidence"})

(* _determine_rule_status, for evidence with a completion keyword and a task  *)
(* not overdue.                                                               *)
StatusWhenDone(row) ==
    LET matched == MatchedCriteria(row)
        missing == MissingItems(row)
        partial == "partial" \in row.says
        all == matched = row.criteria
    IN  IF row.criteria = {} THEN IF missing = {} THEN "completed" ELSE "needs_confirmation"
        ELSE IF all /\ missing = {} THEN IF partial THEN "mostly_completed" ELSE "completed"
        ELSE IF \/ all /\ ~(partial /\ Cardinality(missing) >= 2)
                \/ ~all /\ 2 * Cardinality(matched) > Cardinality(row.criteria) /\ ~(partial /\ missing # {})
        THEN "mostly_completed"
        ELSE "needs_confirmation"

(* Mutant: half of the criteria are enough for a completed task. *)
RuleStatusHalf(row) ==
    IF "cancel" \in row.says THEN "cancelled"
    ELSE IF ~row.found THEN "not_started"
    ELSE IF TimeStatus(row.deadline) = "overdue" THEN "delayed"
    ELSE IF "done" \notin row.says THEN "in_progress"
    ELSE IF 2 * Cardinality(MatchedCriteria(row)) >= Cardinality(row.criteria) /\ MissingItems(row) = {} THEN "completed"
    ELSE StatusWhenDone(row)

RuleStatus(row) ==
    IF "cancel" \in row.says THEN "cancelled"
    ELSE IF ~row.found THEN "not_started"
    ELSE IF TimeStatus(row.deadline) = "overdue" THEN "delayed"
    ELSE IF "done" \notin row.says THEN "in_progress"
    ELSE StatusWhenDone(row)

(* Mutant: a task nobody started is a medium risk however late it is. *)
RiskLevelUnhurried(status, time) ==
    CASE status \in {"delayed", "cancelled"} -> "high"
      [] status \in {"needs_confirmation", "not_started"} -> "medium"
      [] status = "in_progress" /\ time = "approaching" -> "medium"
      [] OTHER -> "low"

(* evaluate_with_rules *)
RiskLevel(status, time) ==
    IF status \in {"delayed", "cancelled"} \/ (status = "not_started" /\ time = "overdue") THEN "high"
    ELSE IF \/ status \in {"needs_confirmation", "not_started"}
            \/ status = "in_progress" /\ time = "approaching" THEN "medium"
    ELSE "low"

(* evaluate_with_llm: the model's words replace explanation, reason and       *)
(* recommendation when its answer parses; status and level stay the rules'.   *)
(* _to_evaluation keeps no check result.                                      *)
Evaluation(task, words) ==
    LET status == RuleStatus(task.row)
    IN [id |-> task.id, status |-> status, words |-> words,
        level |-> RiskLevel(status, TimeStatus(task.row.deadline)),
        missing |-> MissingItems(task.row)]

(* One task after the other; a failed call or an answer without JSON leaves   *)
(* the words of the rules.                                                    *)
EvaluateTask ==
    /\ reporting = "evaluate" /\ Len(evaluations) < Len(loaded)
    /\ \E words \in {"rules", "model"} :
            evaluations' = Append(evaluations, Evaluation(loaded[Len(evaluations) + 1], words))
    /\ UNCHANGED <<fileRows, defaultFiles, storedTasks, loaded, bundle, reporting>>

-----------------------------------------------------------------------------
(* Rendering. *)

(* tasks_by_id keeps the last task of an id. *)
TaskById(id) ==
    LET hits == {k \in DOMAIN loaded : loaded[k].id = id}
    IN loaded[CHOOSE k \in hits : \A j \in hits : j <= k]

(* render_report_bundle and _to_internal_evaluation: the row comes back by    *)
(* the id, the check result is lost.                                          *)
RenderBundle ==
    /\ reporting = "evaluate" /\ Len(evaluations) = Len(loaded)
    /\ bundle' = [k \in DOMAIN evaluations |->
                     [row |-> TaskById(evaluations[k].id).row,
                      status |-> evaluations[k].status, level |-> evaluations[k].level]]
    /\ reporting' = "done"
    /\ UNCHANGED <<fileRows, defaultFiles, storedTasks, loaded, evaluations>>

TaskReportStep == LoadReportTasks \/ EvaluateTask \/ RenderBundle

(* generate_weekly_report: the counts of its summary table. *)
SummaryCount(status) == Cardinality({k \in DOMAIN bundle : bundle[k].status = status})

(* generate_risk_csv *)
RiskList == {k \in DOMAIN bundle : bundle[k].level \in {"high", "medium"}}

(* Mutant: the plan forgets the work that is nearly done. *)
PlanSectionNarrow(status) ==
    CASE status = "in_progress" -> "continue"
      [] status = "delayed" -> "overdue"
      [] status = "needs_confirmation" -> "confirm"
      [] status = "not_started" -> "start"
      [] OTHER -> "none"

(* generate_next_week_plan *)
PlanSection(status) ==
    CASE status \in {"in_progress", "mostly_completed"} -> "continue"
      [] status = "delayed" -> "overdue"
      [] status = "needs_confirmation" -> "confirm"
      [] status = "not_started" -> "start"
      [] OTHER -> "none"

TaskReportSpec == TaskReportInit /\ [][TaskReportStep]_taskReportVars
-----------------------------------------------------------------------------
EvaluatedStatuses == {"completed", "mostly_completed", "in_progress", "not_started",
                      "delayed", "needs_confirmation", "cancelled"}

(* Type correctness of the report run. *)
TaskReportTypeOK ==
    /\ defaultFiles \in 0..2
    /\ reporting \in {"load", "evaluate", "done", "failed"}
    /\ \A k \in DOMAIN loaded : loaded[k].row.title # "" /\ loaded[k].row.assignee # ""
    /\ Len(evaluations) <= Len(loaded)
    /\ \A k \in DOMAIN evaluations : /\ evaluations[k].status \in EvaluatedStatuses
                                     /\ evaluations[k].level \in {"high", "medium", "low"}
    /\ bundle = <<>> \/ Len(bundle) = Len(loaded)

(* Every artifact pairs an evaluation with the row it judged: two rows with   *)
(* the same title and owner, different deadlines and different evidence, are  *)
(* never mixed up on the way through the id (phase_c.py _to_task,             *)
(* render_report_bundle).                                                     *)
EvaluationsKeepTheirRow ==
    \A k \in DOMAIN bundle : bundle[k].row = loaded[k].row

(* A task past its deadline is on the risk list as a high risk, whatever its  *)
(* evidence and whatever the model wrote (task_checker.py, generator.py).     *)
OverdueEscalated ==
    \A k \in DOMAIN bundle :
        TimeStatus(loaded[k].row.deadline) = "overdue" =>
            k \in RiskList /\ bundle[k].level = "high"

(* A task reported completed has evidence that says so, is not late, misses   *)
(* nothing it was asked for, and with acceptance criteria meets every one and *)
(* has no sign of work in progress (task_checker.py _determine_rule_status).  *)
CompletedIsProven ==
    \A k \in DOMAIN bundle :
        LET row == loaded[k].row IN
        bundle[k].status = "completed" =>
            /\ row.found /\ "done" \in row.says /\ "cancel" \notin row.says
            /\ TimeStatus(row.deadline) # "overdue"
            /\ MatchedCriteria(row) = row.criteria
            /\ \A i \in row.hints : i \in row.says
            /\ row.criteria # {} => "partial" \notin row.says

(* The plan of the next week names every task that is neither completed nor   *)
(* cancelled, and the summary table accounts for every task                   *)
(* (generator.py generate_next_week_plan, generate_weekly_report).            *)
OpenWorkPlanned ==
    reporting = "done" =>
        /\ \A k \in DOMAIN bundle :
               (PlanSection(bundle[k].status) = "none") <=> (bundle[k].status \in {"completed", "cancelled"})
        /\ \A k \in DOMAIN bundle : SummaryCount(bundle[k].status) > 0
=============================================================================
