--------------------------- MODULE ProjectServices ---------------------------
(***************************************************************************)
(* The services of a project beside its runs, its tasks and the model      *)
(* queue.  They keep their state in tables, files and memory of their own, *)
(* so that one behaviour follows one of them, named by service, while the  *)
(* others rest; members, comments and reports share the roles and the      *)
(* inboxes of a project.  The properties say for each group of services    *)
(* what its modules say one by one.                                        *)
(***************************************************************************)
EXTENDS DocVersions, RiskRegister, Comments, ReportCenter, Automation, Connectors,
        Webhooks, IndexStore, ChangeImpact, ResultCache, Backups, LogRotation,
        ProjectFiles, Chunker, Retrieval, Parsing, SourceImport, TaskReports,
        HealthMonitor, QualityBench

CONSTANT LightLoad       \* a load of the machine while its health is not asked

ASSUME ServicesAssumption == LightLoad \in Loads

VARIABLE service         \* the service a behaviour is about

Services ==
    {"versions", "risks", "automation", "connectors", "webhooks", "index",
     "impact", "cache", "backups", "logs", "files", "questions",
     "import", "evaluation", "health", "benchmark", "members", "comments",
     "reports", "chunking", "parsing"}

workVars == <<role, inbox, commentVars, reportVars>>

serviceVars ==
    <<service, workVars, docVars, riskVars, autoVars, connectorVars, hookVars,
      indexVars, impactVars, cacheVars, backupVars, logVars, fileVars, qaVars,
      importVars, taskReportVars, monitorVars, benchVars, pieces, parseVars>>
-----------------------------------------------------------------------------
\* A project may have any team when somebody comments or reports.
WorkInit ==
    /\ IF service \in {"comments", "reports"}
       THEN /\ role \in {r \in [Users -> Roles \cup {NoRole}] : r[FirstAdmin] = "admin"}
            /\ inbox = [u \in Users |-> <<>>]
       ELSE MembershipInit
    /\ CommentInit /\ ReportInit

\* The service of a behaviour starts anywhere it may, up to a renaming of the
\* hashes; the others at one place.
ServicesInit ==
    /\ service \in Services /\ WorkInit
    /\ DocInit
    /\ \A p \in Paths : \/ content[p] = NoFile
                        \/ service = "versions" /\ content[p] = (CHOOSE h \in Hashes : TRUE)
    /\ RiskInit
    /\ AutoInit
    /\ ConnectorInit /\ (service = "connectors" \/ ~perRequest)
    /\ HookInit
    /\ IndexInit /\ (service = "index" \/ source = [d \in Sources |-> NoText])
    /\ ImpactInit /\ (service = "impact" \/ cites = [t \in ImpactTasks |-> {}])
    /\ CacheInit /\ (service = "cache" \/ enabled)
    /\ BackupInit
    /\ LogInit
    /\ FilesInit
    /\ QaInit
    /\ ImportInit /\ (service = "import" \/ ~listed)
    /\ TaskReportInit /\ (service = "evaluation" \/ (defaultFiles = 0 /\ storedTasks = <<>>))
    /\ MonitorInit /\ (service = "health" \/ (vram = <<>> /\ diskUsed = LightLoad /\ ~reachable /\ llmCalls = 0))
    /\ BenchInit /\ (service = "benchmark" \/ repeatable)
    /\ IF service = "chunking" THEN ChunkInit ELSE pieces = <<>>
    /\ IF service = "parsing" THEN ParsingInit ELSE text = <<>> /\ column = 0

WorkStep ==
    \/ service = "members" /\ RoleStep /\ UNCHANGED <<commentVars, reportVars>>
    \/ service = "comments" /\ CommentStep /\ UNCHANGED reportVars
    \/ service = "comments" /\ ReadStep /\ UNCHANGED <<commentVars, reportVars>>
    \/ service = "reports" /\ ReportStep /\ UNCHANGED commentVars

\* The variables of a service change only in its own behaviours.
OwnedBy(name, vars) == IF service = name THEN TRUE ELSE UNCHANGED vars

OthersRest ==
    /\ UNCHANGED <<service, pieces, parseVars>>
    /\ IF service \in {"members", "comments", "reports"} THEN TRUE ELSE UNCHANGED workVars
    /\ OwnedBy("versions", docVars)
    /\ OwnedBy("risks", riskVars)
    /\ OwnedBy("automation", autoVars)
    /\ OwnedBy("connectors", connectorVars)
    /\ OwnedBy("webhooks", hookVars)
    /\ OwnedBy("index", indexVars)
    /\ OwnedBy("impact", impactVars)
    /\ OwnedBy("cache", cacheVars)
    /\ OwnedBy("backups", backupVars)
    /\ OwnedBy("logs", logVars)
    /\ OwnedBy("files", fileVars)
    /\ OwnedBy("questions", qaVars)
    /\ OwnedBy("import", importVars)
    /\ OwnedBy("evaluation", taskReportVars)
    /\ OwnedBy("health", monitorVars)
    /\ OwnedBy("benchmark", benchVars)

ServicesNext ==
    \/ WorkStep /\ OthersRest
    \/ service = "versions" /\ DocNext /\ OthersRest
    \/ service = "risks" /\ RiskNext /\ OthersRest
    \/ service = "automation" /\ AutoStep /\ OthersRest
    \/ service = "connectors" /\ ConnectorStep /\ OthersRest
    \/ service = "webhooks" /\ HookStep /\ OthersRest
    \/ service = "index" /\ IndexStep /\ OthersRest
    \/ service = "impact" /\ ImpactStep /\ OthersRest
    \/ service = "cache" /\ CacheStep /\ OthersRest
    \/ service = "backups" /\ BackupStep /\ OthersRest
    \/ service = "logs" /\ LogStep /\ OthersRest
    \/ service = "files" /\ FilesStep /\ OthersRest
    \/ service = "questions" /\ QaStep /\ OthersRest
    \/ service = "import" /\ ImportStep /\ OthersRest
    \/ service = "evaluation" /\ TaskReportStep /\ OthersRest
    \/ service = "health" /\ MonitorStep /\ OthersRest
    \/ service = "benchmark" /\ BenchStep /\ OthersRest

ServicesSpec == ServicesInit /\ [][ServicesNext]_serviceVars
-----------------------------------------------------------------------------
ServicesTypeOK ==
    /\ service \in Services
    /\ DocTypeOK /\ RiskTypeOK /\ MembershipTypeOK /\ CommentTypeOK /\ ReportTypeOK
    /\ AutoTypeOK /\ ConnectorTypeOK /\ HookTypeOK /\ IndexTypeOK /\ ImpactTypeOK
    /\ CacheTypeOK /\ BackupTypeOK /\ LogTypeOK /\ FilesTypeOK /\ QaTypeOK
    /\ ImportTypeOK /\ TaskReportTypeOK /\ MonitorTypeOK /\ BenchTypeOK

\* The history of a document is told: no more versions are current than one and
\* those of trackers that wrote late, each replacement is logged but for a tracker
\* that died, with the contents it replaced, and a change reaches every task that
\* cited the file throughout an analysis that could ask about it, once
\* (doc_version.py:177-267, change_impact.py:42-214).
DocumentHistory ==
    OneCurrentVersion /\ ReplacementsLogged /\ LogMatchesRows /\ ImpactReachesAll /\ TaskStoredOnce

\* Two active risks are about the same finding only when the later one came from a
\* scan that had not seen the other, and a finding of a finished scan is in the
\* register (risk_engine.py:358-400, risk_scanner.py:213-340).
RisksAccounted == NoActiveTwin /\ FindingsRegistered

\* An index that was built answers with vectors of its chunks and chunks of its
\* documents; an index saved alone and loaded is the one saved
\* (indexer.py:88-244).
IndexFaithful == VectorsMatchChunks /\ ChunksCurrent /\ SaveHeals

\* What is imported is counted, and cited where it stands: sections nest, line
\* numbers, heading paths and column names are those of the file, chunks are of
\* the right size, each after the last but for paragraphs that open it again, and
\* only short ones are lost (parsers.py:29-500, chunker.py:23-194,
\* manifest.py:68-138).
CitationsExact ==
    /\ SectionsNest /\ CitedLinesExact /\ HeadingPathsDescend /\ ColumnNamesDecode
    /\ ChunkSizes /\ LostOnlyWhenShort /\ ChunksInOrder
    /\ CountsMatchManifest /\ DigestNotAhead

\* Answers rest on what both searches found, and the counters of a benchmark
\* retell its answers (retriever.py:26-111, qa_service.py:37-123,
\* quality_bench.py:291-459).
AnswersGrounded ==
    /\ BothBeatOne /\ NoWeakEvidence /\ CountersRetellResults
    /\ RatesAreFractions /\ ResultAccountsForAll /\ StoredRetellsResult

\* A report says of each task what its own row shows: overdue work is escalated,
\* completed work is proven, and open work is planned (task_checker.py:163-484,
\* phase_c.py:44-177, generator.py:243-796).
ReportsTrue == EvaluationsKeepTheirRow /\ OverdueEscalated /\ CompletedIsProven /\ OpenWorkPlanned

\* Nobody is told of his own doings, answers are shown where they were given, and
\* a report has the status its last decision gave it (api/comments.py:54-79,
\* comments.py:111-167, report_center.py:87-120).
CollaborationCoherent == NobodyToldOfOwn /\ DirectAnswersListed /\ StatusFollowsDecisions

\* Nothing leaves the program twice for one confirmation, or other than previewed,
\* each hook of an event has one outcome in its turn, and the log of an automation
\* tells its status (email.py:64-230, webhook.py:177-207, automation_tasks.py:89-202).
ActionsConfirmed ==
    /\ OncePerConfirmation /\ ExecutedAsPreviewed
    /\ OneOutcomePerHook /\ NoneSkipped /\ LogRetellsStatus

\* A backup that claims success has every file that nobody wrote meanwhile as it
\* was, and a rotation loses no line (backup.py:37-132, log_rotation.py:33-140).
StorageIntact == SuccessIsComplete /\ LinesAreKept

\* A project is founded once, its files are what their names say, a sweep that
\* removed a project left no output behind, whatever it could not remove, and the
\* cache evicts the least recently used entry (projects.py:29-40, files.py:42-250,
\* cleanup.py:47-103, cache.py:50-88).
FilesAndCacheKept == FoundedOnce /\ StoredAsNamed /\ NoOutputBehind /\ UsedRecentlyStays

\* The health told fits the issues listed, and the mean latency lies within the
\* samples it is made of (monitor.py:319-515).
HealthTold == StatusFitsIssues /\ AverageWithinSamples

\* What the services may never take back: a project without an admin keeps its
\* members, a cancelled automation stays cancelled, a hit is not expired, finished
\* backups, recent log lines and uploads stay until their age allows a sweep to
\* begin, and a model once named stays so while its endpoint is away (api/members.py:45-57,
\* automation_tasks.py:126-166, cache.py:50-71, backup.py:266-287,
\* log_rotation.py:103-126, files.py:235, cleanup.py:47-103, monitor.py:265-301).
NothingTakenBack ==
    /\ AdminlessFrozen /\ CancelledForGood /\ HitsAreFresh /\ FinishedBackupsStay
    /\ RecentLinesStay /\ UploadsStay /\ ModelStaysDescribed
=============================================================================
