--------------------------- MODULE ServicesProofs ---------------------------
(***************************************************************************)
(* What ProjectServices promises, for any values of the constants: every   *)
(* behaviour of the whole is, seen through the variables of one service, a *)
(* behaviour of that service, so that what is proved of the service holds  *)
(* of the whole.                                                           *)
(***************************************************************************)
EXTENDS ProjectServices, StorageProofs, ActionsProofs, RecordsProofs, EvidenceProofs

(* The steps of the whole leave the variables of the others alone. *)
LEMMA BackupsAmongServices == ServicesSpec => BackupSpec
<1>1. ServicesInit => BackupInit
  BY DEF ServicesInit
<1>2. [ServicesNext]_serviceVars => [BackupStep]_backupVars
  <2> SUFFICES ASSUME [ServicesNext]_serviceVars PROVE BackupStep \/ UNCHANGED backupVars
    OBVIOUS
  <2>1. CASE UNCHANGED serviceVars
    BY <2>1 DEF serviceVars
  <2>2. CASE service = "backups" /\ BackupStep
    BY <2>2
  <2>3. CASE ServicesNext /\ ~(service = "backups" /\ BackupStep)
    <3>1. OthersRest /\ service # "backups"
      BY <2>3 DEF ServicesNext, WorkStep
    <3> QED
      BY <3>1 DEF OthersRest, OwnedBy
  <2> QED
    BY <2>1, <2>2, <2>3
<1> QED
  BY <1>1, <1>2, PTL DEF ServicesSpec, BackupSpec

(* A behaviour of the services is one of the log rotation. *)
LEMMA LogsAmongServices == ServicesSpec => LogSpec
<1>1. ServicesInit => LogInit
  BY DEF ServicesInit
<1>2. [ServicesNext]_serviceVars => [LogStep]_logVars
  <2> SUFFICES ASSUME [ServicesNext]_serviceVars PROVE LogStep \/ UNCHANGED logVars
    OBVIOUS
  <2>1. CASE UNCHANGED serviceVars
    BY <2>1 DEF serviceVars
  <2>2. CASE service = "logs" /\ LogStep
    BY <2>2
  <2>3. CASE ServicesNext /\ ~(service = "logs" /\ LogStep)
    <3>1. OthersRest /\ service # "logs"
      BY <2>3 DEF ServicesNext, WorkStep
    <3> QED
      BY <3>1 DEF OthersRest, OwnedBy
  <2> QED
    BY <2>1, <2>2, <2>3
<1> QED
  BY <1>1, <1>2, PTL DEF ServicesSpec, LogSpec

(* A behaviour of the services is one of the automation tasks. *)
LEMMA AutomationAmongServices == ServicesSpec => AutoSpec
<1>1. ServicesInit => AutoInit
  BY DEF ServicesInit
<1>2. [ServicesNext]_serviceVars => [AutoStep]_autoVars
  <2> SUFFICES ASSUME [ServicesNext]_serviceVars PROVE AutoStep \/ UNCHANGED autoVars
    OBVIOUS
  <2>1. CASE UNCHANGED serviceVars
    BY <2>1 DEF serviceVars
  <2>2. CASE service = "automation" /\ AutoStep
    BY <2>2
  <2>3. CASE ServicesNext /\ ~(service = "automation" /\ AutoStep)
    <3>1. OthersRest /\ service # "automation"
      BY <2>3 DEF ServicesNext, WorkStep
    <3> QED
      BY <3>1 DEF OthersRest, OwnedBy
  <2> QED
    BY <2>1, <2>2, <2>3
<1> QED
  BY <1>1, <1>2, PTL DEF ServicesSpec, AutoSpec

(* A behaviour of the services is one of the connectors. *)
LEMMA ConnectorsAmongServices == ServicesSpec => ConnectorSpec
<1>1. ServicesInit => ConnectorInit
  BY DEF ServicesInit
<1>2. [ServicesNext]_serviceVars => [ConnectorStep]_connectorVars
  <2> SUFFICES ASSUME [ServicesNext]_serviceVars PROVE ConnectorStep \/ UNCHANGED connectorVars
    OBVIOUS
  <2>1. CASE UNCHANGED serviceVars
    BY <2>1 DEF serviceVars
  <2>2. CASE service = "connectors" /\ ConnectorStep
    BY <2>2
  <2>3. CASE ServicesNext /\ ~(service = "connectors" /\ ConnectorStep)
    <3>1. OthersRest /\ service # "connectors"
      BY <2>3 DEF ServicesNext, WorkStep
    <3> QED
      BY <3>1 DEF OthersRest, OwnedBy
  <2> QED
    BY <2>1, <2>2, <2>3
<1> QED
  BY <1>1, <1>2, PTL DEF ServicesSpec, ConnectorSpec

(* A behaviour of the services is one of the webhook dispatcher. *)
LEMMA WebhooksAmongServices == ServicesSpec => HookSpec
<1>1. ServicesInit => HookInit
  BY DEF ServicesInit
<1>2. [ServicesNext]_serviceVars => [HookStep]_hookVars
  <2> SUFFICES ASSUME [ServicesNext]_serviceVars PROVE HookStep \/ UNCHANGED hookVars
    OBVIOUS
  <2>1. CASE UNCHANGED serviceVars
    BY <2>1 DEF serviceVars
  <2>2. CASE service = "webhooks" /\ HookStep
    BY <2>2
  <2>3. CASE ServicesNext /\ ~(service = "webhooks" /\ HookStep)
    <3>1. OthersRest /\ service # "webhooks"
      BY <2>3 DEF ServicesNext, WorkStep
    <3> QED
      BY <3>1 DEF OthersRest, OwnedBy
  <2> QED
    BY <2>1, <2>2, <2>3
<1> QED
  BY <1>1, <1>2, PTL DEF ServicesSpec, HookSpec

(* A behaviour of the services is one of the projects and their files. *)
LEMMA FilesAmongServices == ServicesSpec => FilesSpec
<1>1. ServicesInit => FilesInit
  BY DEF ServicesInit
<1>2. [ServicesNext]_serviceVars => [FilesStep]_fileVars
  <2> SUFFICES ASSUME [ServicesNext]_serviceVars PROVE FilesStep \/ UNCHANGED fileVars
    OBVIOUS
  <2>1. CASE UNCHANGED serviceVars
    BY <2>1 DEF serviceVars
  <2>2. CASE service = "files" /\ FilesStep
    BY <2>2
  <2>3. CASE ServicesNext /\ ~(service = "files" /\ FilesStep)
    <3>1. OthersRest /\ service # "files"
      BY <2>3 DEF ServicesNext, WorkStep
    <3> QED
      BY <3>1 DEF OthersRest, OwnedBy
  <2> QED
    BY <2>1, <2>2, <2>3
<1> QED
  BY <1>1, <1>2, PTL DEF ServicesSpec, FilesSpec

(* A behaviour of the services is one of the cache. *)
LEMMA CacheAmongServices == ServicesSpec => CacheSpec
<1>1. ServicesInit => CacheInit
  BY DEF ServicesInit
<1>2. [ServicesNext]_serviceVars => [CacheStep]_cacheVars
  <2> SUFFICES ASSUME [ServicesNext]_serviceVars PROVE CacheStep \/ UNCHANGED cacheVars
    OBVIOUS
  <2>1. CASE UNCHANGED serviceVars
    BY <2>1 DEF serviceVars
  <2>2. CASE service = "cache" /\ CacheStep
    BY <2>2
  <2>3. CASE ServicesNext /\ ~(service = "cache" /\ CacheStep)
    <3>1. OthersRest /\ service # "cache"
      BY <2>3 DEF ServicesNext, WorkStep
    <3> QED
      BY <3>1 DEF OthersRest, OwnedBy
  <2> QED
    BY <2>1, <2>2, <2>3
<1> QED
  BY <1>1, <1>2, PTL DEF ServicesSpec, CacheSpec

(* A behaviour of the services is one of the health monitor. *)
LEMMA HealthAmongServices == ServicesSpec => MonitorSpec
<1>1. ServicesInit => MonitorInit
  BY DEF ServicesInit
<1>2. [ServicesNext]_serviceVars => [MonitorStep]_monitorVars
  <2> SUFFICES ASSUME [ServicesNext]_serviceVars PROVE MonitorStep \/ UNCHANGED monitorVars
    OBVIOUS
  <2>1. CASE UNCHANGED serviceVars
    BY <2>1 DEF serviceVars
  <2>2. CASE service = "health" /\ MonitorStep
    BY <2>2
  <2>3. CASE ServicesNext /\ ~(service = "health" /\ MonitorStep)
    <3>1. OthersRest /\ service # "health"
      BY <2>3 DEF ServicesNext, WorkStep
    <3> QED
      BY <3>1 DEF OthersRest, OwnedBy
  <2> QED
    BY <2>1, <2>2, <2>3
<1> QED
  BY <1>1, <1>2, PTL DEF ServicesSpec, MonitorSpec

(* The services that share roles and inboxes keep what their modules say.  *)
LEMMA WorkAmongServices == ServicesSpec => []WorkInv
<1>1. ServicesInit => WorkInv
  <2> SUFFICES ASSUME ServicesInit PROVE WorkInv
    OBVIOUS
  <2>1. role \in [Users -> Roles \cup {NoRole}] /\ inbox = [u \in Users |-> <<>>] /\ CommentInit /\ ReportInit
    BY DEF ServicesInit, WorkInit, MembershipInit, Roles, Rank
  <2> QED
    BY <2>1, WorkInitially
<1>2. WorkInv /\ [ServicesNext]_serviceVars => WorkInv'
  <2> SUFFICES ASSUME WorkInv, [ServicesNext]_serviceVars PROVE WorkInv'
    OBVIOUS
  <2>1. CASE UNCHANGED serviceVars
    BY <2>1, WorkKeeps DEF serviceVars, workVars
  <2>2. CASE WorkStep
    BY <2>2, WorkKeeps DEF WorkStep
  <2>3. CASE ServicesNext /\ ~WorkStep
    <3>1. OthersRest /\ service \notin {"members", "comments", "reports"}
      BY <2>3 DEF ServicesNext
    <3>2. UNCHANGED workVars
      BY <3>1 DEF OthersRest
    <3> QED
      BY <3>2, WorkKeeps DEF workVars
  <2> QED
    BY <2>1, <2>2, <2>3
<1> QED
  BY <1>1, <1>2, PTL DEF ServicesSpec

(* The roles of a project without an admin do not change                   *)
(* (api/members.py:45-57).                                                 *)
LEMMA RolesAmongServices == ServicesSpec => AdminlessFrozen
<1>1. WorkInv /\ [ServicesNext]_serviceVars => [Members # {} /\ Admins = {} => role' = role]_role
  <2> SUFFICES ASSUME WorkInv, [ServicesNext]_serviceVars, Members # {}, Admins = {} PROVE role' = role
    OBVIOUS
  <2>0. role \in [Users -> Roles \cup {NoRole}] /\ InboxInv /\ CommentsInv /\ ReportsInv
    BY DEF WorkInv
  <2>1. CASE UNCHANGED serviceVars
    BY <2>1 DEF serviceVars, workVars
  <2>2. CASE WorkStep
    <3>1. ~RoleStep
      BY <2>0, RolesByAdmins
    <3> QED
      BY <2>0, <2>2, <3>1, CommentStepKeeps, ReadKeeps, ReportStepKeeps DEF WorkStep
  <2>3. CASE ServicesNext /\ ~WorkStep
    <3>1. OthersRest /\ service \notin {"members", "comments", "reports"}
      BY <2>3 DEF ServicesNext
    <3> QED
      BY <3>1 DEF OthersRest, workVars
  <2> QED
    BY <2>1, <2>2, <2>3
<1> QED
  BY <1>1, WorkAmongServices, PTL DEF ServicesSpec, AdminlessFrozen
-----------------------------------------------------------------------------
(* A backup that claims success has every file that nobody wrote meanwhile *)
(* as it was, and a rotation loses no line (backup.py:37-132,              *)
(* log_rotation.py:33-140).                                                *)
THEOREM StorageStaysIntact == ServicesSpec => []StorageIntact
  BY BackupsAmongServices, LogsAmongServices, SuccessMeansComplete, RotationKeepsLines, PTL DEF StorageIntact

(* A project is founded once, its files are what their names say, a sweep  *)
(* that removed a project left no output behind, whatever it could not     *)
(* remove, and what was used recently stays cached (projects.py:29-40,     *)
(* files.py:42-250, cleanup.py:47-103, cache.py:50-88).                    *)
THEOREM FilesAndCacheAreKept == ServicesSpec => []FilesAndCacheKept
  BY FilesAmongServices, CacheAmongServices, ProjectsAreFoundedOnce, RecentUseIsKept, PTL DEF FilesAndCacheKept

(* A behaviour of the services is one of the risk register. *)
LEMMA RisksAmongServices == ServicesSpec => RiskSpec
<1>1. ServicesInit => RiskInit
  BY DEF ServicesInit
<1>2. [ServicesNext]_serviceVars => [RiskNext]_riskVars
  <2> SUFFICES ASSUME [ServicesNext]_serviceVars PROVE RiskNext \/ UNCHANGED riskVars
    OBVIOUS
  <2>1. CASE UNCHANGED serviceVars
    BY <2>1 DEF serviceVars
  <2>2. CASE service = "risks" /\ RiskNext
    BY <2>2
  <2>3. CASE ServicesNext /\ ~(service = "risks" /\ RiskNext)
    <3>1. OthersRest /\ service # "risks"
      BY <2>3 DEF ServicesNext, WorkStep
    <3> QED
      BY <3>1 DEF OthersRest, OwnedBy
  <2> QED
    BY <2>1, <2>2, <2>3
<1> QED
  BY <1>1, <1>2, PTL DEF ServicesSpec, RiskSpec

(* A behaviour of the services is one of the document versions. *)
LEMMA VersionsAmongServices == ServicesSpec => DocSpec
<1>1. ServicesInit => DocInit
  BY DEF ServicesInit
<1>2. [ServicesNext]_serviceVars => [DocNext]_docVars
  <2> SUFFICES ASSUME [ServicesNext]_serviceVars PROVE DocNext \/ UNCHANGED docVars
    OBVIOUS
  <2>1. CASE UNCHANGED serviceVars
    BY <2>1 DEF serviceVars
  <2>2. CASE service = "versions" /\ DocNext
    BY <2>2
  <2>3. CASE ServicesNext /\ ~(service = "versions" /\ DocNext)
    <3>1. OthersRest /\ service # "versions"
      BY <2>3 DEF ServicesNext, WorkStep
    <3> QED
      BY <3>1 DEF OthersRest, OwnedBy
  <2> QED
    BY <2>1, <2>2, <2>3
<1> QED
  BY <1>1, <1>2, PTL DEF ServicesSpec, DocSpec

(* A behaviour of the services is one of the index. *)
LEMMA IndexAmongServices == ServicesSpec => IndexSpec
<1>1. ServicesInit => IndexInit
  BY DEF ServicesInit
<1>2. [ServicesNext]_serviceVars => [IndexStep]_indexVars
  <2> SUFFICES ASSUME [ServicesNext]_serviceVars PROVE IndexStep \/ UNCHANGED indexVars
    OBVIOUS
  <2>1. CASE UNCHANGED serviceVars
    BY <2>1 DEF serviceVars
  <2>2. CASE service = "index" /\ IndexStep
    BY <2>2
  <2>3. CASE ServicesNext /\ ~(service = "index" /\ IndexStep)
    <3>1. OthersRest /\ service # "index"
      BY <2>3 DEF ServicesNext, WorkStep
    <3> QED
      BY <3>1 DEF OthersRest, OwnedBy
  <2> QED
    BY <2>1, <2>2, <2>3
<1> QED
  BY <1>1, <1>2, PTL DEF ServicesSpec, IndexSpec

(* A behaviour of the services is one of the evaluation of tasks. *)
LEMMA EvaluationAmongServices == ServicesSpec => TaskReportSpec
<1>1. ServicesInit => TaskReportInit
  BY DEF ServicesInit
<1>2. [ServicesNext]_serviceVars => [TaskReportStep]_taskReportVars
  <2> SUFFICES ASSUME [ServicesNext]_serviceVars PROVE TaskReportStep \/ UNCHANGED taskReportVars
    OBVIOUS
  <2>1. CASE UNCHANGED serviceVars
    BY <2>1 DEF serviceVars
  <2>2. CASE service = "evaluation" /\ TaskReportStep
    BY <2>2
  <2>3. CASE ServicesNext /\ ~(service = "evaluation" /\ TaskReportStep)
    <3>1. OthersRest /\ service # "evaluation"
      BY <2>3 DEF ServicesNext, WorkStep
    <3> QED
      BY <3>1 DEF OthersRest, OwnedBy
  <2> QED
    BY <2>1, <2>2, <2>3
<1> QED
  BY <1>1, <1>2, PTL DEF ServicesSpec, TaskReportSpec

(* A behaviour of the services is one of the analysis of changes. *)
LEMMA ImpactAmongServices == ServicesSpec => ImpactSpec
<1>1. ServicesInit => ImpactInit
  BY DEF ServicesInit
<1>2. [ServicesNext]_serviceVars => [ImpactStep]_impactVars
  <2> SUFFICES ASSUME [ServicesNext]_serviceVars PROVE ImpactStep \/ UNCHANGED impactVars
    OBVIOUS
  <2>1. CASE UNCHANGED serviceVars
    BY <2>1 DEF serviceVars
  <2>2. CASE service = "impact" /\ ImpactStep
    BY <2>2
  <2>3. CASE ServicesNext /\ ~(service = "impact" /\ ImpactStep)
    <3>1. OthersRest /\ service # "impact"
      BY <2>3 DEF ServicesNext, WorkStep
    <3> QED
      BY <3>1 DEF OthersRest, OwnedBy
  <2> QED
    BY <2>1, <2>2, <2>3
<1> QED
  BY <1>1, <1>2, PTL DEF ServicesSpec, ImpactSpec

(* A behaviour of the services is one of the import. *)
LEMMA ImportAmongServices == ServicesSpec => ImportSpec
<1>1. ServicesInit => ImportInit
  BY DEF ServicesInit
<1>2. [ServicesNext]_serviceVars => [ImportStep]_importVars
  <2> SUFFICES ASSUME [ServicesNext]_serviceVars PROVE ImportStep \/ UNCHANGED importVars
    OBVIOUS
  <2>1. CASE UNCHANGED serviceVars
    BY <2>1 DEF serviceVars
  <2>2. CASE service = "import" /\ ImportStep
    BY <2>2
  <2>3. CASE ServicesNext /\ ~(service = "import" /\ ImportStep)
    <3>1. OthersRest /\ service # "import"
      BY <2>3 DEF ServicesNext, WorkStep
    <3> QED
      BY <3>1 DEF OthersRest, OwnedBy
  <2> QED
    BY <2>1, <2>2, <2>3
<1> QED
  BY <1>1, <1>2, PTL DEF ServicesSpec, ImportSpec

(* A behaviour of the services is one of the questions. *)
LEMMA QuestionsAmongServices == ServicesSpec => QaSpec
<1>1. ServicesInit => QaInit
  BY DEF ServicesInit
<1>2. [ServicesNext]_serviceVars => [QaStep]_qaVars
  <2> SUFFICES ASSUME [ServicesNext]_serviceVars PROVE QaStep \/ UNCHANGED qaVars
    OBVIOUS
  <2>1. CASE UNCHANGED serviceVars
    BY <2>1 DEF serviceVars
  <2>2. CASE service = "questions" /\ QaStep
    BY <2>2
  <2>3. CASE ServicesNext /\ ~(service = "questions" /\ QaStep)
    <3>1. OthersRest /\ service # "questions"
      BY <2>3 DEF ServicesNext, WorkStep
    <3> QED
      BY <3>1 DEF OthersRest, OwnedBy
  <2> QED
    BY <2>1, <2>2, <2>3
<1> QED
  BY <1>1, <1>2, PTL DEF ServicesSpec, QaSpec

(* A behaviour of the services is one of the benchmark. *)
LEMMA BenchAmongServices == ServicesSpec => BenchSpec
<1>1. ServicesInit => BenchInit
  BY DEF ServicesInit
<1>2. [ServicesNext]_serviceVars => [BenchStep]_benchVars
  <2> SUFFICES ASSUME [ServicesNext]_serviceVars PROVE BenchStep \/ UNCHANGED benchVars
    OBVIOUS
  <2>1. CASE UNCHANGED serviceVars
    BY <2>1 DEF serviceVars
  <2>2. CASE service = "benchmark" /\ BenchStep
    BY <2>2
  <2>3. CASE ServicesNext /\ ~(service = "benchmark" /\ BenchStep)
    <3>1. OthersRest /\ service # "benchmark"
      BY <2>3 DEF ServicesNext, WorkStep
    <3> QED
      BY <3>1 DEF OthersRest, OwnedBy
  <2> QED
    BY <2>1, <2>2, <2>3
<1> QED
  BY <1>1, <1>2, PTL DEF ServicesSpec, BenchSpec

\* The service a behaviour is about.
ServiceNamed == service \in Services

(* It stays the one it is.                                                 *)
LEMMA ServiceStays == ServicesSpec => []ServiceNamed
<1>1. ServicesInit => ServiceNamed
  BY DEF ServicesInit, ServiceNamed
<1>2. ServiceNamed /\ [ServicesNext]_serviceVars => ServiceNamed'
  <2> SUFFICES ASSUME ServiceNamed, [ServicesNext]_serviceVars PROVE service' = service
    BY DEF ServiceNamed
  <2>1. CASE UNCHANGED serviceVars
    BY <2>1 DEF serviceVars
  <2>2. CASE ServicesNext
    BY <2>2 DEF ServicesNext, OthersRest
  <2> QED
    BY <2>1, <2>2
<1> QED
  BY <1>1, <1>2, PTL DEF ServicesSpec
-----------------------------------------------------------------------------
(* Every service keeps the types of its variables, whichever of them a     *)
(* behaviour is about, for any values of the constants.                    *)
THEOREM ServicesTypeCorrect == ServicesSpec => []ServicesTypeOK
<1>1. ServicesSpec => [](DocTypeOK /\ RiskTypeOK /\ IndexTypeOK /\ MonitorTypeOK)
  BY VersionsAmongServices, RisksAmongServices, IndexAmongServices, HealthAmongServices,
     ReplacementsAreLogged, FindingsAreRegistered, IndexIsFaithful, MonitorInvariant, MonitorTypes, PTL
<1>2. ServicesSpec => [](MembershipTypeOK /\ CommentTypeOK /\ ReportTypeOK)
  BY WorkAmongServices, WorkTypes, PTL
<1>3. ServicesSpec => [](AutoTypeOK /\ ConnectorTypeOK /\ HookTypeOK)
  BY AutomationAmongServices, ConnectorsAmongServices, WebhooksAmongServices, AutoInvariant, ConnectorInvariant,
     HookInvariant, AutoTypes, ConnectorTypes, HookTypes, PTL
<1>4. ServicesSpec => [](CacheTypeOK /\ BackupTypeOK /\ LogTypeOK /\ FilesTypeOK)
  BY CacheAmongServices, BackupsAmongServices, LogsAmongServices, FilesAmongServices, CacheInvariant,
     BackupInvariant, LogInvariant, FilesInvariant, CacheTypes, BackupInvTypes, LogInvTypes, FilesTypes, PTL
<1>5. ServicesSpec => [](ImpactTypeOK /\ TaskReportTypeOK)
  BY ImpactAmongServices, EvaluationAmongServices, ImpactIsComplete, EvaluationsAreTrue, PTL
<1>6. ServicesSpec => [](QaTypeOK /\ ImportTypeOK /\ BenchTypeOK)
  BY QuestionsAmongServices, ImportAmongServices, BenchAmongServices, AnswersRestOnEvidence, ImportsAreCounted,
     BenchmarkIsTold, PTL
<1> QED
  BY <1>1, <1>2, <1>3, <1>4, <1>5, <1>6, ServiceStays, PTL DEF ServicesTypeOK, ServiceNamed

(* What is imported is counted, once, and its digest hides no edit         *)
(* (parsers.py import_project, manifest.py:68-138).                        *)
THEOREM ImportsStayCounted == ServicesSpec => [](CountsMatchManifest /\ DigestNotAhead)
  BY ImportAmongServices, ImportsAreCounted, PTL

\* The file that is parsed and the document that is cut.
FilesRead == ParsingTyped /\ ChunkTyped

(* What is imported is counted, and cited where it stands: sections nest,  *)
(* line numbers, heading paths and column names are those of the file, and *)
(* chunks are of the right size, each after the last but for paragraphs    *)
(* that open it again, and lose only what is short (parsers.py:29-500,     *)
(* chunker.py:23-194, manifest.py:68-138).                                 *)
THEOREM CitationsStayExact == ServicesSpec => []CitationsExact
<1>1. ServicesInit => FilesRead
  <2> SUFFICES ASSUME ServicesInit PROVE FilesRead
    OBVIOUS
  <2>1. ParsingTyped
    <3>1. CASE ParsingInit
      BY <3>1, ParsedTyped
    <3>2. CASE text = <<>> /\ column = 0
      BY <3>2 DEF ParsingTyped
    <3> QED
      BY <3>1, <3>2 DEF ServicesInit
  <2>2. ChunkTyped
    <3>1. CASE ChunkInit
      BY <3>1, PiecesTyped
    <3>2. CASE pieces = <<>>
      BY <3>2 DEF ChunkTyped
    <3> QED
      BY <3>1, <3>2 DEF ServicesInit
  <2> QED
    BY <2>1, <2>2 DEF FilesRead
<1>2. FilesRead /\ [ServicesNext]_serviceVars => FilesRead'
  <2> SUFFICES ASSUME FilesRead, [ServicesNext]_serviceVars PROVE FilesRead'
    OBVIOUS
  <2>1. CASE UNCHANGED serviceVars
    BY <2>1 DEF serviceVars, FilesRead, parseVars, ParsingTyped, ChunkTyped
  <2>2. CASE ServicesNext
    <3>1. OthersRest
      BY <2>2 DEF ServicesNext
    <3>2. UNCHANGED <<pieces, parseVars>>
      BY <3>1 DEF OthersRest
    <3> QED
      BY <3>2 DEF FilesRead, parseVars, ParsingTyped, ChunkTyped
  <2> QED
    BY <2>1, <2>2
<1>3. FilesRead => /\ SectionsNest /\ CitedLinesExact /\ HeadingPathsDescend /\ ColumnNamesDecode
                   /\ ChunkSizes /\ LostOnlyWhenShort /\ ChunksInOrder
  BY SectionsNestAlways, CitedLinesAlways, HeadingPathsAlways, ColumnNamesAlways, ChunksAlways DEF FilesRead
<1> QED
  BY <1>1, <1>2, <1>3, ImportsStayCounted, PTL DEF ServicesSpec, CitationsExact

(* When a question asks for no more than twenty chunks, answers rest on    *)
(* what both searches found and on more than distant vectors, and the      *)
(* counters, the rates, the results and the records of a benchmark retell  *)
(* what was answered (retriever.py:26-111, qa_service.py:37-200,           *)
(* quality_bench.py:291-459).                                              *)
THEOREM AnswersStayGrounded == ASSUME NarrowSearch PROVE ServicesSpec => []AnswersGrounded
  BY QuestionsAmongServices, BenchAmongServices, BothBeatOneAlways, AnswersRestOnEvidence, BenchmarkIsTold,
     PTL DEF AnswersGrounded

(* Whatever trackers and scans run at once: a document has one current     *)
(* version more than trackers that wrote late at most, replacements are    *)
(* logged, the log retells the rows, and the analysis of changes reaches   *)
(* every task that cites a changed file it could ask about, each once      *)
(* (doc_version.py:177-267, change_impact.py:42-214).                      *)
THEOREM DocumentsAreVersioned == ServicesSpec => []DocumentHistory
  BY VersionsAmongServices, ReplacementsAreLogged, HistoryIsTold, ImpactAmongServices, ImpactIsComplete,
     PTL DEF DocumentHistory

(* Whatever scans run at once: of two active risks about the same finding  *)
(* the later one came from a scan that had not seen the other, and every   *)
(* finding of a finished scan is in the register (risk_engine.py:358-400,  *)
(* risk_scanner.py:213-340).                                               *)
THEOREM RisksAreAccounted == ServicesSpec => []RisksAccounted
  BY RisksAmongServices, NoTwinsRegistered, FindingsAreRegistered, PTL DEF RisksAccounted

(* An index that was built answers with vectors of its chunks and chunks   *)
(* of its documents, and a whole save makes the files agree                *)
(* (indexer.py:88-244).                                                    *)
THEOREM IndexStaysFaithful == ServicesSpec => []IndexFaithful
  BY IndexAmongServices, IndexIsFaithful, PTL DEF IndexFaithful

(* A report says of each task what its own row shows                       *)
(* (task_checker.py:163-484, phase_c.py:44-177, generator.py:243-796).     *)
THEOREM ReportsStayTrue == ServicesSpec => []ReportsTrue
  BY EvaluationAmongServices, EvaluationsAreTrue, PTL DEF ReportsTrue

(* Nothing leaves the program twice for one confirmation, or other than    *)
(* previewed, each hook of an event has one outcome in its turn, and the   *)
(* log of an automation tells its status (email.py:64-230,                 *)
(* webhook.py:177-207, automation_tasks.py:89-202).                        *)
THEOREM ActionsAreConfirmed == ServicesSpec => []ActionsConfirmed
  BY ConnectorsAmongServices, WebhooksAmongServices, AutomationAmongServices, ConfirmationsAreSpentOnce,
     OutcomesAreSingle, HooksAreServedInOrder, LogsRetell, PTL DEF ActionsConfirmed

(* Nobody is told of his own doings, answers are shown where they were     *)
(* given, and a report has the status its last decision gave it, for any   *)
(* team and any calls (api/comments.py:54-79, comments.py:111-167,         *)
(* report_center.py:87-120).                                               *)
THEOREM CollaborationIsCoherent == ServicesSpec => []CollaborationCoherent
<1>1. WorkInv => CollaborationCoherent
  BY NotToldOfOwn, AnswersListed DEF WorkInv, ReportsInv, CollaborationCoherent
<1> QED
  BY <1>1, WorkAmongServices, PTL

(* The health told fits the issues listed and the calls recorded           *)
(* (monitor.py:319-515).                                                   *)
THEOREM HealthIsTold == ServicesSpec => []HealthTold
  BY HealthAmongServices, HealthIsConsistent, PTL DEF HealthTold

(* What the services never take back: a project without an admin keeps its *)
(* members, a cancelled automation stays cancelled, a hit is not expired,  *)
(* finished backups, recent log lines and uploads stay until their age     *)
(* allows a sweep to begin, and a model once named stays so while its      *)
(* endpoint is away                                                        *)
(* (api/members.py:45-57, automation_tasks.py:126-166, cache.py:50-71,     *)
(* backup.py:266-287, log_rotation.py:103-126, files.py:235,               *)
(* cleanup.py:47-103, monitor.py:265-301).                                 *)
THEOREM NothingIsTakenBack == ServicesSpec => NothingTakenBack
<1>1. ServicesSpec => AdminlessFrozen /\ CancelledForGood /\ HitsAreFresh
  BY RolesAmongServices, AutomationAmongServices, NoneComesBack, CacheAmongServices, HitsServeTheLast
<1>2. ServicesSpec => FinishedBackupsStay /\ RecentLinesStay /\ UploadsStay
  BY BackupsAmongServices, FinishedAreKept, LogsAmongServices, RetentionIsKept, FilesAmongServices, UploadsAreKept
<1>3. ServicesSpec => ModelStaysDescribed
  BY HealthAmongServices, DescriptionIsKept
<1> QED
  BY <1>1, <1>2, <1>3 DEF NothingTakenBack
=============================================================================
