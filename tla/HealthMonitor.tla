---------------------------- MODULE HealthMonitor ----------------------------
(***************************************************************************)
(* The health monitor of app/services/monitor.py behind GET                *)
(* /monitor/health: one check reads the GPUs, the disk, the error          *)
(* counters, the model metadata and the model endpoint one after the       *)
(* other, awaiting in between, while calls are recorded and the machine    *)
(* changes.  A reading is a percentage.                                    *)
(***************************************************************************)
EXTENDS Integers, Sequences, FiniteSets

CONSTANTS Gpus,            \* the devices rocm-smi or nvidia-smi list
          Loads,           \* the percentages a reading may take
          VramWarning, VramCritical, DiskWarning, DiskCritical,  \* Settings.health_*
          MaxErrorRate,    \* Settings.health_max_llm_error_rate_pct
          Latencies,       \* the latencies of a generation
          MaxSamples,      \* bound on the recorded calls
          MaxChanges       \* bound on the changes of the machine

ASSUME MonitorAssumption == MaxSamples \in Nat /\ MaxChanges \in Nat /\ Latencies \subseteq Nat

VARIABLES vram, diskUsed, reachable,  \* the machine and the model endpoint
          changes,      \* the changes so far
          samples,      \* the latencies recorded, a failed call included as -1
          average,      \* end_to_end_latency_ms, times 1000
          llmErrors, llmCalls, \* _llm_error_count, _llm_call_count
          metadata,     \* _model_metadata: "none", or whether it names its model
          stage,        \* how far health_check has come
          status,       \* its status
          issues,       \* the issues it collected
          described     \* whether the answer named a model

monitorVars == <<vram, diskUsed, reachable, changes, samples, average, llmErrors, llmCalls,
                 metadata, stage, status, issues, described>>

machine == <<vram, diskUsed, reachable, changes>>
counters == <<samples, average, llmErrors, llmCalls>>

(* No GPU tool, or one that fails, is an empty list of devices.  The counters *)
(* start at nothing or near the ten calls up to which no error rate is taken. *)
MonitorInit ==
    /\ \E seen \in SUBSET Gpus : vram \in [seen -> Loads]
    /\ diskUsed \in Loads /\ reachable \in BOOLEAN /\ changes = 0
    /\ samples = <<>> /\ average = 0 /\ llmErrors = 0 /\ llmCalls \in {0, 9}
    /\ metadata = "none" /\ described = FALSE
    /\ stage = "idle" /\ status = "healthy" /\ issues = {}

-----------------------------------------------------------------------------
(* Recording. *)

(* Mutant: the first sample is blended with the initial zero. *)
BlendFromZero(old, x, count) == (1000 * x + 9 * old) \div 10

(* The exponential moving average with alpha = 0.1 of record_llm_latency. *)
Blend(old, x, count) == IF count = 0 THEN 1000 * x ELSE (1000 * x + 9 * old) \div 10

Timed == {k \in DOMAIN samples : samples[k] >= 0}

RecordLatency(x) ==
    /\ Len(samples) < MaxSamples
    /\ samples' = Append(samples, x)
    /\ average' = Blend(average, x, Cardinality(Timed))
    /\ llmCalls' = llmCalls + 1
    /\ UNCHANGED <<machine, llmErrors, metadata, stage, status, issues, described>>

RecordError ==
    /\ Len(samples) < MaxSamples
    /\ samples' = Append(samples, -1)
    /\ llmErrors' = llmErrors + 1 /\ llmCalls' = llmCalls + 1
    /\ UNCHANGED <<machine, average, metadata, stage, status, issues, described>>

-----------------------------------------------------------------------------
(* health_check, one step for each of its readings. *)

Issue(component, severity) == [component |-> component, severity |-> severity]

BeginCheck ==
    /\ stage = "idle"
    /\ stage' = "gpu" /\ status' = "healthy" /\ issues' = {}
    /\ UNCHANGED <<machine, counters, metadata, described>>

Raised(severity) == IF status = "healthy" THEN severity ELSE status

VramIssues == {Issue(g, "critical") : g \in {d \in DOMAIN vram : vram[d] >= VramCritical}}
              \union {Issue(g, "warning") : g \in {d \in DOMAIN vram : /\ vram[d] >= VramWarning
                                                                      /\ vram[d] < VramCritical}}

CheckGpus ==
    /\ stage = "gpu"
    /\ issues' = issues \union VramIssues
    /\ status' = IF \E i \in VramIssues : i.severity = "critical" THEN "critical"
                 ELSE IF VramIssues # {} THEN Raised("degraded") ELSE status
    /\ stage' = "disk"
    /\ UNCHANGED <<machine, counters, metadata, described>>

(* A critical disk makes the status critical only when it was healthy. *)
CheckDisk ==
    /\ stage = "disk"
    /\ LET severity == CASE diskUsed >= DiskCritical -> "critical"
                         [] diskUsed >= DiskWarning /\ diskUsed < DiskCritical -> "warning"
                         [] OTHER -> "none"
       IN /\ issues' = IF severity = "none" THEN issues ELSE issues \union {Issue("disk", severity)}
          /\ status' = CASE severity = "critical" -> Raised("critical")
                         [] severity = "warning" -> Raised("degraded")
                         [] OTHER -> status
    /\ stage' = "errors"
    /\ UNCHANGED <<machine, counters, metadata, described>>

TooManyErrors == llmCalls > 10 /\ 100 * llmErrors >= MaxErrorRate * llmCalls

CheckErrors ==
    /\ stage = "errors"
    /\ issues' = IF TooManyErrors THEN issues \union {Issue("llm", "warning")} ELSE issues
    /\ status' = IF TooManyErrors THEN Raised("degraded") ELSE status
    /\ stage' = "metadata"
    /\ UNCHANGED <<machine, counters, metadata, described>>

(* What /models may tell now: an entry that names its model, one without an   *)
(* id, or nothing usable (no entry, an error, no answer).                     *)
ModelEntries == IF reachable THEN {"none", "unnamed", "named"} ELSE {"none"}

(* Mutant: an endpoint that does not answer wipes the remembered model. *)
FetchMetadataForgetting ==
    /\ stage = "metadata"
    /\ metadata' \in ModelEntries /\ described' = (metadata' = "named")
    /\ stage' = "endpoint"
    /\ UNCHANGED <<machine, counters, status, issues>>

(* collect_model_metadata: the last entry /models answered is remembered,     *)
(* one without an id in the place of one with a name.                         *)
FetchMetadata ==
    /\ stage = "metadata"
    /\ \E entry \in ModelEntries : metadata' = IF entry = "none" THEN metadata ELSE entry
    /\ described' = (metadata' = "named")
    /\ stage' = "endpoint"
    /\ UNCHANGED <<machine, counters, status, issues>>

(* Mutant: an unreachable model raises a healthy status only. *)
CheckEndpointPolitely ==
    /\ stage = "endpoint"
    /\ issues' = IF reachable THEN issues ELSE issues \union {Issue("llm_endpoint", "critical")}
    /\ status' = IF reachable THEN status ELSE Raised("critical")
    /\ stage' = "idle"
    /\ UNCHANGED <<machine, counters, metadata, described>>

CheckEndpoint ==
    /\ stage = "endpoint"
    /\ issues' = IF reachable THEN issues ELSE issues \union {Issue("llm_endpoint", "critical")}
    /\ status' = IF reachable THEN status ELSE "critical"
    /\ stage' = "idle"
    /\ UNCHANGED <<machine, counters, metadata, described>>

(* The machine goes on while the check awaits. *)
MachineChanges ==
    /\ changes < MaxChanges /\ changes' = changes + 1
    /\ \/ vram' \in [DOMAIN vram -> Loads] /\ UNCHANGED <<diskUsed, reachable>>
       \/ diskUsed' \in Loads /\ UNCHANGED <<vram, reachable>>
       \/ reachable' = ~reachable /\ UNCHANGED <<vram, diskUsed>>
    /\ UNCHANGED <<counters, metadata, stage, status, issues, described>>

MonitorStep ==
    \/ \E x \in Latencies : RecordLatency(x)
    \/ RecordError \/ BeginCheck \/ CheckGpus \/ CheckDisk \/ CheckErrors
    \/ FetchMetadata \/ CheckEndpoint \/ MachineChanges

MonitorSpec == MonitorInit /\ [][MonitorStep]_monitorVars
-----------------------------------------------------------------------------
(* Type correctness of the monitor. *)
MonitorTypeOK ==
    /\ \A g \in DOMAIN vram : g \in Gpus /\ vram[g] \in Loads
    /\ diskUsed \in Loads /\ reachable \in BOOLEAN /\ changes \in 0..MaxChanges
    /\ llmErrors \in 0..MaxSamples /\ llmCalls \in 0..(9 + MaxSamples) /\ llmErrors <= llmCalls
    /\ metadata \in {"none", "unnamed", "named"} /\ described \in BOOLEAN
    /\ stage \in {"idle", "gpu", "disk", "errors", "metadata", "endpoint"}
    /\ status \in {"healthy", "degraded", "critical"}
    /\ \A i \in issues : i.severity \in {"warning", "critical"}

(* The status never contradicts the list of issues beside it: healthy means   *)
(* an empty list, critical a critical issue, and a model that could not be    *)
(* reached is critical whatever was found before (monitor.py health_check).   *)
StatusFitsIssues ==
    /\ (status = "healthy") <=> (issues = {})
    /\ status = "critical" => \E i \in issues : i.severity = "critical"
    /\ Issue("llm_endpoint", "critical") \in issues => status = "critical"

(* The average latency lies between the fastest and the slowest recorded      *)
(* call; failed calls do not move it (monitor.py record_llm_latency).         *)
AverageWithinSamples ==
    Timed # {} =>
        /\ \E k \in Timed : 1000 * samples[k] <= average
        /\ \E k \in Timed : average <= 1000 * samples[k]

(* Once a check named the model, every later one does, also while the         *)
(* endpoint is away; only an endpoint that answers takes the name back, with  *)
(* an entry that has no id (monitor.py collect_model_metadata).               *)
ModelStaysDescribed == [][described /\ ~reachable => described']_monitorVars
=============================================================================
