---------------------------- MODULE RiskRegister ----------------------------
(***************************************************************************)
(* app/services/risk_scanner.py and app/api/risks.py: scans of a project's *)
(* tasks and the risks they register.  A scan reads the tasks, then the    *)
(* hashes of the active risks, then inserts what is new, then its own row: *)
(* nothing holds the table between these steps, and the handlers of the    *)
(* risk centre run in another process.                                     *)
(***************************************************************************)
EXTENDS RiskRules

CONSTANTS
    RiskTasks,        \* ids of the project's tasks
    Scanners,         \* processes that scan
    Handlers,         \* users that handle risks
    Nobody,           \* no assignee
    InitialTasks,     \* the tasks before anything happens
    TaskMoves,        \* statuses the tasks move to
    MaxMoves,         \* bound: changes of tasks, and of the day
    MaxScans,         \* bound: scans begun
    MaxUpdates        \* bound: updates and assignments of risks

\* What a row of the task table says, as the scanner loads it.
BoardTasks ==
    [id : RiskTasks, status : RiskStatuses, due : Int \cup {NoDate}, evidence : Nat,
     criteria : BOOLEAN, needs : SUBSET STRING]

ASSUME RiskAssumption ==
    /\ IsFiniteSet(InitialTasks) /\ InitialTasks \subseteq BoardTasks
    /\ {t.id : t \in InitialTasks} = RiskTasks /\ TaskMoves \subseteq RiskStatuses
    /\ Nobody \notin Handlers
    /\ MaxMoves \in Nat /\ MaxScans \in Nat /\ MaxUpdates \in Nat

VARIABLES
    board,            \* the project's tasks
    today,            \* the date
    risks,            \* risk_record, in order of id
    assigned,         \* risk_assignment: the assignee of each record, or Nobody
    scanner,          \* what each scanner has read
    scanRuns,         \* rows of risk_scan_run: how many findings each was told
    notified,         \* notifications sent, as <<recipient, record, reason>>
    reopened,         \* history: the records that were reopened
    knew,             \* history: how many records there were when each scanner read
                      \* the hashes
    origin,           \* history: of each record, how many there were when its scan
                      \* read the hashes, and when it registered what it found
    spent             \* bounds: changes, scans and updates so far

riskVars ==
    <<board, today, risks, assigned, scanner, scanRuns, notified, reopened, knew, origin, spent>>
-----------------------------------------------------------------------------
RiskRecord ==
    [hash : RiskTasks \X RuleTypes \X RiskStatuses, severity : Severities, lifecycle : Lifecycles]

Origin == [seen : Nat, stood : Nat]

NoScan == [at |-> "idle", tasks |-> {}, day |-> 0, found |-> {}]

RiskInit ==
    /\ board = InitialTasks /\ today = 0
    /\ risks = <<>> /\ assigned = <<>>
    /\ scanner = [s \in Scanners |-> NoScan]
    /\ scanRuns = <<>> /\ notified = {} /\ reopened = {}
    /\ knew = [s \in Scanners |-> 0] /\ origin = <<>>
    /\ spent = [moves |-> 0, scans |-> 0, updates |-> 0]

Spend(what, bound) == spent[what] < bound /\ spent' = [spent EXCEPT ![what] = @ + 1]

NoClaims == [t \in RiskTasks |-> {}]

ActiveHashes == {risks[i].hash : i \in {j \in DOMAIN risks : risks[j].lifecycle = "active"}}

\* The task service moves a task.
MoveTask(id, status) ==
    /\ Spend("moves", MaxMoves)
    /\ board' = {IF t.id = id THEN [t EXCEPT !.status = status] ELSE t : t \in board}
    /\ board' # board
    /\ UNCHANGED <<today, risks, assigned, scanner, scanRuns, notified, reopened, knew, origin>>

NextDay ==
    /\ Spend("moves", MaxMoves) /\ today' = today + 1
    /\ UNCHANGED <<board, risks, assigned, scanner, scanRuns, notified, reopened, knew, origin>>

\* run: the tasks are read.  There is no task_evidence table in the schema, so
\* a count of evidence fails and stands at zero.
LoadTasks(s) ==
    /\ scanner[s].at = "idle" /\ Spend("scans", MaxScans)
    /\ scanner' = [scanner EXCEPT ![s] =
           [at |-> "tasks", tasks |-> {[t EXCEPT !.evidence = 0] : t \in board},
            day |-> 0, found |-> {}]]
    /\ UNCHANGED <<board, today, risks, assigned, scanRuns, notified, reopened, knew, origin>>

\* Mutant: the scan looks for records that were resolved.
EvaluateResolved(s) ==
    LET known == {risks[i].hash : i \in {j \in DOMAIN risks : risks[j].lifecycle = "resolved"}}
    IN  /\ scanner[s].at = "tasks"
        /\ scanner' = [scanner EXCEPT ![s].at = "found", ![s].day = today,
               ![s].found = EvaluateRisks(scanner[s].tasks, DefaultRules, today, NoClaims, known)]
        /\ knew' = [knew EXCEPT ![s] = Len(risks)]
        /\ UNCHANGED <<board, today, risks, assigned, scanRuns, notified, reopened, origin, spent>>

\* run: the rules and the hashes of the active risks are read, and the tasks
\* evaluated.
Evaluate(s) ==
    /\ scanner[s].at = "tasks"
    /\ scanner' = [scanner EXCEPT ![s].at = "found", ![s].day = today,
           ![s].found = EvaluateRisks(scanner[s].tasks, DefaultRules, today, NoClaims, ActiveHashes)]
    /\ knew' = [knew EXCEPT ![s] = Len(risks)]
    /\ UNCHANGED <<board, today, risks, assigned, scanRuns, notified, reopened, origin, spent>>

Registered(found) ==
    LET order == CHOOSE q \in [1..Cardinality(found) -> found] :
                     \A f \in found : \E i \in DOMAIN q : q[i] = f
    IN  [i \in DOMAIN order |->
            [hash |-> order[i].hash, severity |-> order[i].severity, lifecycle |-> "active"]]

\* Mutant: one finding of a scan is lost.
PersistRisksButOne(s) ==
    /\ scanner[s].at = "found"
    /\ LET found == scanner[s].found
           kept == IF Cardinality(found) > 1 THEN found \ {CHOOSE f \in found : TRUE} ELSE found
       IN  /\ risks' = risks \o Registered(kept)
           /\ assigned' = assigned \o [i \in 1..Cardinality(kept) |-> Nobody]
           /\ origin' = origin \o
                  [i \in 1..Cardinality(kept) |-> [seen |-> knew[s], stood |-> Len(risks)]]
    /\ scanner' = [scanner EXCEPT ![s].at = "saved"]
    /\ UNCHANGED <<board, today, scanRuns, notified, reopened, knew, spent>>

\* _persist_risks: every record has an id of its own, so none is ignored; one
\* commit.
PersistRisks(s) ==
    /\ scanner[s].at = "found"
    /\ risks' = risks \o Registered(scanner[s].found)
    /\ assigned' = assigned \o [i \in 1..Cardinality(scanner[s].found) |-> Nobody]
    /\ origin' = origin \o
           [i \in 1..Cardinality(scanner[s].found) |-> [seen |-> knew[s], stood |-> Len(risks)]]
    /\ scanner' = [scanner EXCEPT ![s].at = "saved"]
    /\ UNCHANGED <<board, today, scanRuns, notified, reopened, knew, spent>>

\* _persist_scan_run, a commit of its own.
PersistScanRun(s) ==
    /\ scanner[s].at = "saved"
    /\ scanRuns' = Append(scanRuns, Cardinality(scanner[s].found))
    /\ scanner' = [scanner EXCEPT ![s] = NoScan]
    /\ UNCHANGED <<board, today, risks, assigned, notified, reopened, knew, origin, spent>>

\* The scanner's process dies between two steps.
ScannerDies(s) ==
    /\ scanner[s].at # "idle"
    /\ scanner' = [scanner EXCEPT ![s] = NoScan]
    /\ UNCHANGED <<board, today, risks, assigned, scanRuns, notified, reopened, knew, origin, spent>>

\* assign_risk: the assignment is inserted or replaced, and the assignee told.
AssignRisk(i, by, to) ==
    /\ i \in DOMAIN risks /\ Spend("updates", MaxUpdates)
    /\ assigned' = [assigned EXCEPT ![i] = to]
    /\ notified' = notified \cup {<<to, i, "assigned">>}
    /\ UNCHANGED <<board, today, risks, scanner, scanRuns, reopened, knew, origin>>

\* valid_transitions of update_risk_lifecycle: the state a record is in is not
\* asked for.
NewLifecycle == [acknowledge |-> "acknowledged", resolve |-> "resolved",
                 dismiss |-> "dismissed", reopen |-> "active"]

\* update_risk_lifecycle, and ack_risk and resolve_risk of the scanner, which
\* tell nobody.
UpdateRisk(i, by, action) ==
    /\ i \in DOMAIN risks /\ Spend("updates", MaxUpdates)
    /\ risks' = [risks EXCEPT ![i].lifecycle = NewLifecycle[action]]
    /\ reopened' = IF action = "reopen" THEN reopened \cup {i} ELSE reopened
    /\ notified' = IF assigned[i] \in {Nobody, by} THEN notified
                   ELSE notified \cup {<<assigned[i], i, action>>}
    /\ UNCHANGED <<board, today, assigned, scanner, scanRuns, knew, origin>>

Scan(s) == LoadTasks(s) \/ Evaluate(s) \/ PersistRisks(s) \/ PersistScanRun(s) \/ ScannerDies(s)

RiskNext ==
    \/ \E id \in RiskTasks, status \in TaskMoves : MoveTask(id, status)
    \/ NextDay
    \/ \E s \in Scanners : Scan(s)
    \/ \E i \in DOMAIN risks, by \in Handlers :
          \/ \E to \in Handlers : AssignRisk(i, by, to)
          \/ \E action \in DOMAIN NewLifecycle : UpdateRisk(i, by, action)

RiskSpec == RiskInit /\ [][RiskNext]_riskVars
-----------------------------------------------------------------------------
RiskTypeOK ==
    /\ {t.id : t \in board} = RiskTasks /\ today \in 0..MaxMoves
    /\ risks \in Seq(RiskRecord)
    /\ assigned \in Seq(Handlers \cup {Nobody}) /\ Len(assigned) = Len(risks)
    /\ \A s \in Scanners : scanner[s].at \in {"idle", "tasks", "found", "saved"}
    /\ scanRuns \in Seq(Nat)
    /\ reopened \subseteq DOMAIN risks
    /\ knew \in [Scanners -> Nat] /\ origin \in Seq(Origin) /\ Len(origin) = Len(risks)

\* Of two active records of one hash, one was reopened by hand, or the scan that
\* registered the later one had read the hashes before the earlier one was
\* there: a scan never registers twice what it finds, nor what was active when
\* it looked (risk_scanner.py:213-248, risk_engine.py:358-400).
NoActiveTwin ==
    \A j \in DOMAIN risks : \A i \in 1..(j - 1) :
        /\ risks[i].lifecycle = "active" /\ risks[j].lifecycle = "active"
        /\ risks[i].hash = risks[j].hash
        => \/ i \in reopened \/ j \in reopened
           \/ i > origin[j].seen /\ i <= origin[j].stood

\* When a scan has committed, everything it found in the tasks it read is in
\* the register (risk_scanner.py:221-248), whatever was handled meanwhile.
FindingsRegistered ==
    \A s \in Scanners : scanner[s].at = "saved" =>
        \A f \in AllFindings(scanner[s].tasks, DefaultRules, scanner[s].day, NoClaims) :
            \E i \in DOMAIN risks : risks[i].hash = f.hash
=============================================================================
