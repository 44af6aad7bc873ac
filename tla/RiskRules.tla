------------------------------ MODULE RiskRules ------------------------------
(***************************************************************************)
(* app/services/risk_engine.py: what a scan finds in a set of tasks.  A    *)
(* day is an integer; a finding is identified by its deduplication hash,   *)
(* which stands for the task, the type of the rule and the task's status   *)
(* (_build_risk passes the task twice and never the project).              *)
(***************************************************************************)
EXTENDS Integers, FiniteSets, Sequences

CONSTANT NoDate         \* a task without a due date

\* ALLOWED values of a task's status, as the scanner meets them.
RiskStatuses == {"pending_confirmation", "not_started", "in_progress", "mostly_completed",
                 "completed", "delayed", "cancelled"}

RuleTypes == {"near_deadline", "overdue", "no_evidence", "acceptance_gap", "dependency_block",
              "material_conflict", "custom"}

Severities == {"low", "medium", "high", "critical"}

Lifecycles == {"active", "acknowledged", "resolved", "dismissed", "expired"}

\* RISK_DEFAULT_RULES: the settings the checkers read, with their defaults.
DefaultRule == [days |-> 3, grace |-> 0, statuses |-> {"completed", "mostly_completed"},
                least |-> 1, blocking |-> {"not_started", "delayed", "in_progress"},
                enabled |-> TRUE]

Rule(type, severity) == [type |-> type, severity |-> severity, settings |-> DefaultRule]

DefaultRules == <<Rule("near_deadline", "medium"), Rule("overdue", "high"),
                  Rule("no_evidence", "high"), Rule("acceptance_gap", "medium"),
                  Rule("dependency_block", "high"), Rule("material_conflict", "high")>>
-----------------------------------------------------------------------------
Open(task) == task.due # NoDate /\ task.status \notin {"completed", "cancelled"}

NearDeadline(task, today, settings) ==
    Open(task) /\ task.due - today \in 0..settings.days

\* Mutant: the day limits of the two date rules overlap.
OverdueToo(task, today, settings) ==
    Open(task) /\ today - task.due >= settings.grace

Overdue(task, today, settings) ==
    Open(task) /\ today - task.due > settings.grace

NoEvidence(task, settings) ==
    task.status \in settings.statuses /\ task.evidence < settings.least

AcceptanceGap(task, settings) ==
    task.status \in settings.statuses /\ task.criteria

\* Tasks that are not in the project are skipped; the task's own status is not
\* asked for.
DependencyBlock(task, tasks, settings) ==
    \E other \in tasks : other.id \in task.needs /\ other.status \in settings.blocking

MaterialConflict(task, claims) == Cardinality(claims[task.id]) >= 2

\* RULE_CHECKER_MAP: a type without a checker finds nothing.
Finds(rule, task, tasks, today, claims) ==
    LET s == rule.settings
    IN  CASE rule.type = "near_deadline"     -> NearDeadline(task, today, s)
          [] rule.type = "overdue"           -> Overdue(task, today, s)
          [] rule.type = "no_evidence"       -> NoEvidence(task, s)
          [] rule.type = "acceptance_gap"    -> AcceptanceGap(task, s)
          [] rule.type = "dependency_block"  -> DependencyBlock(task, tasks, s)
          [] rule.type = "material_conflict" -> MaterialConflict(task, claims)
          [] OTHER                           -> FALSE

RiskHash(task, type) == <<task.id, type, task.status>>

\* _build_risk, with the fields evaluate_risks sets afterwards: the severity its
\* checker rated the finding with is replaced by the rule's.
Finding(task, rules, r) ==
    [hash |-> RiskHash(task, rules[r].type), rule |-> r, severity |-> rules[r].severity]

AllFindings(tasks, rules, today, claims) ==
    {Finding(pair[1], rules, pair[2]) :
        pair \in {p \in tasks \X DOMAIN rules :
                     /\ rules[p[2]].settings.enabled
                     /\ Finds(rules[p[2]], p[1], tasks, today, claims)}}

\* Mutant: duplicates within one scan are kept.
UniqueFindingsKnownOnly(found, known) == {f \in found : f.hash \notin known}

\* deduplicate_risks: of the findings with one hash the first rule's is kept,
\* unless the hash is known.
UniqueFindings(found, known) ==
    {f \in found : /\ f.hash \notin known
                   /\ \A g \in found : g.hash = f.hash => f.rule <= g.rule}

\* evaluate_risks.
EvaluateRisks(tasks, rules, today, claims, known) ==
    UniqueFindings(AllFindings(tasks, rules, today, claims), known)
=============================================================================
