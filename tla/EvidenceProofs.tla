--------------------------- MODULE EvidenceProofs ---------------------------
(***************************************************************************)
(* Proofs about what the program shows to its users as evidence, for any   *)
(* devices, loads and latencies, files and trackers, tasks and scans,      *)
(* documents and builders of indexes, names below the sources, questions   *)
(* and their rankings, cases of the benchmark and their retrievers.        *)
(* LeastNumber and NumbersInOrder are lemmas of StorageProofs.             *)
(***************************************************************************)
EXTENDS HealthMonitor, DocVersions, RiskRegister, IndexStore, SourceImport, Retrieval, QualityBench,
        StorageProofs

-----------------------------------------------------------------------------
(* The health monitor. *)

\* Each call is counted once; the machine and the answers are what they may be.
MonitorCounts ==
    /\ samples \in Seq(Nat \cup {-1}) /\ Len(samples) <= MaxSamples
    /\ llmErrors \in Nat /\ llmCalls \in Nat
    /\ llmErrors <= Len(samples) /\ llmCalls <= 9 + Len(samples) /\ llmErrors <= llmCalls
    /\ average \in Nat

MachineTyped ==
    /\ vram \in [DOMAIN vram -> Loads] /\ DOMAIN vram \subseteq Gpus
    /\ diskUsed \in Loads /\ reachable \in BOOLEAN /\ changes \in 0..MaxChanges

CheckTyped ==
    /\ metadata \in {"none", "unnamed", "named"} /\ described \in BOOLEAN
    /\ (described => metadata = "named")
    /\ stage \in {"idle", "gpu", "disk", "errors", "metadata", "endpoint"}
    /\ status \in {"healthy", "degraded", "critical"}
    /\ \A i \in issues : i.severity \in {"warning", "critical"}

MonitorInv ==
    MonitorCounts /\ MachineTyped /\ CheckTyped /\ StatusFitsIssues /\ AverageWithinSamples

(* A sample in the moving average keeps it between the two.                *)
LEMMA BlendBetween ==
    ASSUME NEW a \in Nat, NEW x \in Nat, NEW count \in Nat \ {0}
    PROVE  /\ Blend(a, x, count) \in Nat
           /\ a <= Blend(a, x, count) \/ 1000 * x <= Blend(a, x, count)
           /\ Blend(a, x, count) <= a \/ Blend(a, x, count) <= 1000 * x
<1>1. Blend(a, x, count) = (1000 * x + 9 * a) \div 10
  BY DEF Blend
<1> DEFINE b == (1000 * x + 9 * a) \div 10
<1>2. b \in Int /\ 10 * b <= 1000 * x + 9 * a /\ 1000 * x + 9 * a < 10 * b + 10
  OBVIOUS
<1> HIDE DEF b
<1> QED
  BY <1>1, <1>2 DEF b

(* The timed samples: a timed call adds its place, a failed one none.      *)
LEMMA TimedAppend ==
    ASSUME MonitorCounts, NEW x \in Nat \cup {-1}, samples' = Append(samples, x)
    PROVE  /\ samples' \in Seq(Nat \cup {-1}) /\ Len(samples') = Len(samples) + 1
           /\ \A k \in Timed : k \in Timed' /\ samples'[k] = samples[k]
           /\ x \in Nat => Len(samples) + 1 \in Timed' /\ samples'[Len(samples) + 1] = x
           /\ x = -1 => Timed' = Timed
           /\ Cardinality(Timed) \in Nat /\ (Cardinality(Timed) = 0 <=> Timed = {})
<1>1. PICK s : s = samples
  OBVIOUS
<1>2. s \in Seq(Nat \cup {-1}) /\ samples' = Append(s, x)
  BY <1>1 DEF MonitorCounts
<1>3. /\ samples' \in Seq(Nat \cup {-1}) /\ Len(samples') = Len(s) + 1 /\ Len(s) \in Nat
      /\ \A k \in 1..Len(s) : samples'[k] = s[k]
      /\ samples'[Len(s) + 1] = x
  BY <1>2
<1>4. DOMAIN samples' = 1..(Len(s) + 1) /\ DOMAIN s = 1..Len(s)
  BY <1>2, <1>3
<1>5. Timed = {k \in 1..Len(s) : s[k] >= 0} /\ Timed' = {k \in 1..(Len(s) + 1) : samples'[k] >= 0}
  BY <1>1, <1>4 DEF Timed
<1>6. x = -1 => Timed' = Timed
  BY <1>3, <1>5
<1>7. IsFiniteSet(Timed)
  <2>1. IsFiniteSet(1..Len(s)) /\ Timed \subseteq 1..Len(s)
    BY ONLY <1>3, <1>5, FS_Interval
  <2> QED
    BY ONLY <2>1, FS_Subset
<1>8. Cardinality(Timed) \in Nat /\ (Cardinality(Timed) = 0 <=> Timed = {})
  BY ONLY <1>7, FS_CardinalityType, FS_EmptySet
<1>9. \A k \in Timed : k \in Timed' /\ samples'[k] = samples[k]
  BY <1>1, <1>3, <1>5
<1>10. x \in Nat => Len(s) + 1 \in Timed' /\ samples'[Len(s) + 1] = x
  BY <1>3, <1>5
<1> QED
  BY ONLY <1>1, <1>3, <1>6, <1>8, <1>9, <1>10

(* A timed call is counted, and moves the average towards itself.          *)
LEMMA RecordLatencyKeeps ==
    ASSUME MonitorInv, NEW x \in Latencies, RecordLatency(x)
    PROVE  MonitorInv'
<1>0. MonitorCounts /\ MachineTyped /\ CheckTyped /\ StatusFitsIssues /\ AverageWithinSamples
  BY DEF MonitorInv
<1>1. x \in Nat /\ samples' = Append(samples, x)
  BY MonitorAssumption DEF RecordLatency
<1>2. /\ samples' \in Seq(Nat \cup {-1}) /\ Len(samples') = Len(samples) + 1 /\ Len(samples) \in Nat
      /\ \A k \in Timed : k \in Timed' /\ samples'[k] = samples[k]
      /\ Len(samples) + 1 \in Timed' /\ samples'[Len(samples) + 1] = x
      /\ Cardinality(Timed) \in Nat /\ (Cardinality(Timed) = 0 <=> Timed = {})
  <2>1. Len(samples) \in Nat
    BY <1>0 DEF MonitorCounts
  <2> QED
    BY <1>0, <1>1, <2>1, TimedAppend
<1>3. average' = Blend(average, x, Cardinality(Timed))
  BY DEF RecordLatency
<1>4. average' \in Nat /\ AverageWithinSamples'
  <2>1. CASE Timed = {}
    <3>1. average' = 1000 * x
      BY <1>2, <1>3, <2>1 DEF Blend
    <3> QED
      BY <1>1, <1>2, <3>1 DEF AverageWithinSamples
  <2>2. CASE Timed # {}
    <3>1. PICK i \in Timed, j \in Timed : 1000 * samples[i] <= average /\ average <= 1000 * samples[j]
      BY <1>0, <2>2 DEF AverageWithinSamples
    <3>2. /\ average' \in Nat /\ (average <= average' \/ 1000 * x <= average')
          /\ (average' <= average \/ average' <= 1000 * x) /\ average \in Nat
      <4>1. average \in Nat
        BY <1>0 DEF MonitorCounts
      <4>2. Cardinality(Timed) \in Nat \ {0}
        BY <1>2, <2>2
      <4>3. PICK a \in Nat, count \in Nat \ {0} : a = average /\ count = Cardinality(Timed)
        BY <4>1, <4>2
      <4>4. /\ Blend(a, x, count) \in Nat
            /\ a <= Blend(a, x, count) \/ 1000 * x <= Blend(a, x, count)
            /\ Blend(a, x, count) <= a \/ Blend(a, x, count) <= 1000 * x
        <5>1. x \in Nat
          BY <1>1
        <5> QED
          BY ONLY <5>1, BlendBetween
      <4>5. average' = Blend(a, x, count) /\ a = average
        BY <1>3, <4>3
      <4> QED
        BY ONLY <4>1, <4>4, <4>5
    <3>3. samples[i] \in Int /\ samples[j] \in Int
      BY <1>0 DEF MonitorCounts, Timed
    <3>4. samples'[i] = samples[i] /\ samples'[j] = samples[j] /\ i \in Timed' /\ j \in Timed'
      BY <1>2
    <3>5. \E k \in Timed' : 1000 * samples'[k] <= average'
      <4>1. CASE average <= average'
        BY <3>1, <3>2, <3>3, <3>4, <4>1
      <4>2. CASE 1000 * x <= average'
        BY <1>2, <4>2
      <4> QED
        BY <3>2, <4>1, <4>2
    <3>6. \E k \in Timed' : average' <= 1000 * samples'[k]
      <4>1. CASE average' <= average
        BY <3>1, <3>2, <3>3, <3>4, <4>1
      <4>2. CASE average' <= 1000 * x
        BY <1>2, <4>2
      <4> QED
        BY <3>2, <4>1, <4>2
    <3> QED
      BY <3>2, <3>5, <3>6 DEF AverageWithinSamples
  <2> QED
    BY <2>1, <2>2
<1>5. MonitorCounts'
  BY <1>0, <1>2, <1>4, MonitorAssumption DEF MonitorCounts, RecordLatency
<1>6. MachineTyped'
  BY <1>0 DEF RecordLatency, MachineTyped, machine
<1>7. CheckTyped' /\ StatusFitsIssues'
  BY <1>0 DEF RecordLatency, CheckTyped, StatusFitsIssues
<1> QED
  BY <1>4, <1>5, <1>6, <1>7 DEF MonitorInv

(* A failed call is counted and moves no average.                          *)
LEMMA RecordErrorKeeps ==
    ASSUME MonitorInv, RecordError
    PROVE  MonitorInv'
<1>0. MonitorCounts /\ MachineTyped /\ CheckTyped /\ StatusFitsIssues /\ AverageWithinSamples
  BY DEF MonitorInv
<1>1. samples' = Append(samples, -1) /\ average' = average
  BY DEF RecordError
<1>2. /\ samples' \in Seq(Nat \cup {-1}) /\ Len(samples') = Len(samples) + 1 /\ Len(samples) \in Nat
      /\ \A k \in Timed : samples'[k] = samples[k]
      /\ Timed' = Timed
  <2>1. Len(samples) \in Nat
    BY <1>0 DEF MonitorCounts
  <2>2. PICK x \in Nat \cup {-1} : x = -1
    OBVIOUS
  <2>3. samples' = Append(samples, x)
    BY <1>1, <2>2
  <2> QED
    BY <1>0, <2>1, <2>2, <2>3, TimedAppend
<1>3. AverageWithinSamples'
  <2>0. average' = average
    BY <1>1
  <2>1. \A k \in Timed' : k \in Timed /\ samples'[k] = samples[k]
    BY <1>2
  <2>2. Timed' # {} => (\E k \in Timed : 1000 * samples[k] <= average) /\ (\E k \in Timed : average <= 1000 * samples[k])
    BY <1>0, <1>2 DEF AverageWithinSamples
  <2>3. ASSUME Timed # {}
        PROVE  (\E k \in Timed' : 1000 * samples'[k] <= average') /\ (\E k \in Timed' : average' <= 1000 * samples'[k])
    <3>1. PICK i \in Timed, j \in Timed : 1000 * samples[i] <= average /\ average <= 1000 * samples[j]
      BY <1>2, <2>2, <2>3
    <3>2. i \in Timed' /\ j \in Timed' /\ samples'[i] = samples[i] /\ samples'[j] = samples[j]
      BY <1>2
    <3>3. 1000 * samples'[i] <= average' /\ average' <= 1000 * samples'[j]
      BY ONLY <2>0, <3>1, <3>2
    <3> QED
      BY ONLY <3>2, <3>3
  <2> QED
    BY <1>2, <2>3 DEF AverageWithinSamples
<1>4. MonitorCounts'
  BY <1>0, <1>1, <1>2, MonitorAssumption DEF MonitorCounts, RecordError
<1>5. MachineTyped'
  BY <1>0 DEF RecordError, MachineTyped, machine
<1>6. CheckTyped' /\ StatusFitsIssues'
  BY <1>0 DEF RecordError, CheckTyped, StatusFitsIssues
<1> QED
  BY <1>3, <1>4, <1>5, <1>6 DEF MonitorInv

(* The counters and the machine are left alone while a check reads.        *)
LEMMA CountersStay ==
    ASSUME MonitorInv, UNCHANGED counters
    PROVE  MonitorCounts' /\ AverageWithinSamples'
BY DEF MonitorInv, MonitorCounts, AverageWithinSamples, Timed, counters

(* The machine is what it was while a call is recorded or a reading taken. *)
LEMMA MachineStays ==
    ASSUME MonitorInv, UNCHANGED machine
    PROVE  MachineTyped'
BY DEF MonitorInv, MachineTyped, machine

(* The readings of a check, each with the status it leaves.                *)
LEMMA ReadingsKeep ==
    ASSUME MonitorInv, BeginCheck \/ CheckGpus \/ CheckDisk \/ CheckErrors \/ FetchMetadata \/ CheckEndpoint
    PROVE  MonitorInv'
<1>0. CheckTyped /\ StatusFitsIssues
  BY DEF MonitorInv
<1>1. UNCHANGED counters /\ UNCHANGED machine
  BY DEF BeginCheck, CheckGpus, CheckDisk, CheckErrors, FetchMetadata, CheckEndpoint
<1>2. MonitorCounts' /\ AverageWithinSamples' /\ MachineTyped'
  BY <1>1, CountersStay, MachineStays
<1>3. CASE BeginCheck
  BY <1>0, <1>2, <1>3 DEF MonitorInv, CheckTyped, StatusFitsIssues, BeginCheck, Issue
<1>4. CASE CheckGpus
  <2>1. \A i \in VramIssues : i.severity \in {"warning", "critical"}
    BY DEF VramIssues, Issue
  <2>2. Issue("llm_endpoint", "critical").severity = "critical"
    BY DEF Issue
  <2> QED
    BY <1>0, <1>2, <1>4, <2>1, <2>2 DEF MonitorInv, CheckTyped, StatusFitsIssues, CheckGpus, Raised
<1>5. CASE CheckDisk
  <2>1. PICK severity \in {"none", "warning", "critical"} :
           /\ issues' = IF severity = "none" THEN issues ELSE issues \union {Issue("disk", severity)}
           /\ status' = CASE severity = "critical" -> Raised("critical")
                          [] severity = "warning" -> Raised("degraded")
                          [] OTHER -> status
    BY <1>5 DEF CheckDisk
  <2>2. \A s : Issue("disk", s).severity = s /\ Issue("disk", s) # Issue("llm_endpoint", "critical")
    BY DEF Issue
  <2> QED
    BY <1>0, <1>2, <1>5, <2>1, <2>2 DEF MonitorInv, CheckTyped, StatusFitsIssues, CheckDisk, Raised
<1>6. CASE CheckErrors
  <2>1. Issue("llm", "warning").severity = "warning" /\ Issue("llm", "warning") # Issue("llm_endpoint", "critical")
    BY DEF Issue
  <2> QED
    BY <1>0, <1>2, <1>6, <2>1 DEF MonitorInv, CheckTyped, StatusFitsIssues, CheckErrors, Raised
<1>7. CASE FetchMetadata
  BY <1>0, <1>2, <1>7 DEF MonitorInv, CheckTyped, StatusFitsIssues, FetchMetadata, ModelEntries
<1>8. CASE CheckEndpoint
  <2>1. Issue("llm_endpoint", "critical").severity = "critical"
    BY DEF Issue
  <2> QED
    BY <1>0, <1>2, <1>8, <2>1 DEF MonitorInv, CheckTyped, StatusFitsIssues, CheckEndpoint
<1> QED
  BY <1>3, <1>4, <1>5, <1>6, <1>7, <1>8

(* The machine changes by itself, and with it nothing that is counted.     *)
LEMMA MachineChangesKeeps ==
    ASSUME MonitorInv, MachineChanges
    PROVE  MonitorInv'
<1>1. UNCHANGED counters /\ UNCHANGED <<metadata, stage, status, issues, described>>
  BY DEF MachineChanges
<1>2. MonitorCounts' /\ AverageWithinSamples'
  BY <1>1, CountersStay
<1>3. CheckTyped' /\ StatusFitsIssues'
  BY <1>1 DEF MonitorInv, CheckTyped, StatusFitsIssues
<1>4. MachineTyped'
  <2>0. MachineTyped
    BY DEF MonitorInv
  <2>1. changes' \in 0..MaxChanges
    BY <2>0, MonitorAssumption DEF MachineChanges, MachineTyped
  <2>2. CASE vram' \in [DOMAIN vram -> Loads] /\ UNCHANGED <<diskUsed, reachable>>
    <3>1. DOMAIN vram' = DOMAIN vram
      BY <2>2
    <3> QED
      BY <2>0, <2>1, <2>2, <3>1 DEF MachineTyped
  <2>3. CASE diskUsed' \in Loads /\ UNCHANGED <<vram, reachable>>
    BY <2>0, <2>1, <2>3 DEF MachineTyped
  <2>4. CASE reachable' = ~reachable /\ UNCHANGED <<vram, diskUsed>>
    BY <2>0, <2>1, <2>4 DEF MachineTyped
  <2> QED
    BY <2>2, <2>3, <2>4 DEF MachineChanges
<1> QED
  BY <1>2, <1>3, <1>4 DEF MonitorInv

(* The monitor starts with nothing recorded.                               *)
LEMMA MonitorInitially == MonitorInit => MonitorInv
<1> SUFFICES ASSUME MonitorInit PROVE MonitorInv
  OBVIOUS
<1>1. Timed = {} /\ samples = <<>>
  BY DEF MonitorInit, Timed
<1>2. MonitorCounts /\ AverageWithinSamples
  BY <1>1, MonitorAssumption DEF MonitorInit, MonitorCounts, AverageWithinSamples
<1>3. MachineTyped
  BY MonitorAssumption DEF MonitorInit, MachineTyped
<1>4. CheckTyped /\ StatusFitsIssues
  BY DEF MonitorInit, CheckTyped, StatusFitsIssues
<1> QED
  BY <1>2, <1>3, <1>4 DEF MonitorInv

(* What the monitor tells is consistent after every one of its steps.      *)
LEMMA MonitorInvariant == MonitorSpec => []MonitorInv
<1>1. MonitorInv /\ [MonitorStep]_monitorVars => MonitorInv'
  <2> SUFFICES ASSUME MonitorInv, [MonitorStep]_monitorVars PROVE MonitorInv'
    OBVIOUS
  <2>1. CASE UNCHANGED monitorVars
    <3>1. UNCHANGED counters /\ UNCHANGED machine /\ UNCHANGED <<metadata, stage, status, issues, described>>
      BY <2>1 DEF monitorVars, counters, machine
    <3>2. MonitorCounts' /\ AverageWithinSamples' /\ MachineTyped'
      BY <3>1, CountersStay, MachineStays
    <3> QED
      BY <3>1, <3>2 DEF MonitorInv, CheckTyped, StatusFitsIssues
  <2> QED
    BY <2>1, RecordLatencyKeeps, RecordErrorKeeps, ReadingsKeep, MachineChangesKeeps DEF MonitorStep
<1> QED
  BY <1>1, MonitorInitially, PTL DEF MonitorSpec

(* The type invariant of the monitor.                                      *)
LEMMA MonitorTypes == MonitorInv => MonitorTypeOK
<1> SUFFICES ASSUME MonitorInv PROVE MonitorTypeOK
  OBVIOUS
<1>1. MonitorCounts /\ MachineTyped /\ CheckTyped
  BY DEF MonitorInv
<1>2. Len(samples) \in Nat
  BY <1>1 DEF MonitorCounts
<1>3. llmErrors \in 0..MaxSamples /\ llmCalls \in 0..(9 + MaxSamples) /\ llmErrors <= llmCalls
  BY <1>1, <1>2, MonitorAssumption DEF MonitorCounts
<1> QED
  BY <1>1, <1>3 DEF MonitorTypeOK, MachineTyped, CheckTyped

(* A status never contradicts the issues beside it, whatever the loads and *)
(* thresholds, and the mean latency lies within the samples                *)
(* (monitor.py:319-515).                                                   *)
THEOREM HealthIsConsistent == MonitorSpec => [](StatusFitsIssues /\ AverageWithinSamples)
<1>1. MonitorInv => StatusFitsIssues /\ AverageWithinSamples
  BY DEF MonitorInv
<1> QED
  BY <1>1, MonitorInvariant, PTL

(* A check that named the model once names it while the endpoint is away,  *)
(* as the last entry is remembered (monitor.py:265-301).                   *)
THEOREM DescriptionIsKept == MonitorSpec => ModelStaysDescribed
<1>1. MonitorInv /\ [MonitorStep]_monitorVars => (described /\ ~reachable => described')
  <2> SUFFICES ASSUME MonitorInv, [MonitorStep]_monitorVars, described, ~reachable PROVE described'
    OBVIOUS
  <2>1. metadata = "named" /\ described \in BOOLEAN
    BY DEF MonitorInv, CheckTyped
  <2>2. CASE FetchMetadata
    BY <2>1, <2>2 DEF FetchMetadata, ModelEntries
  <2>3. CASE ~FetchMetadata
    BY <2>3 DEF MonitorStep, RecordLatency, RecordError, BeginCheck, CheckGpus, CheckDisk, CheckErrors,
                CheckEndpoint, MachineChanges, monitorVars
  <2> QED
    BY <2>2, <2>3
<1> QED
  BY <1>1, MonitorInvariant, PTL DEF MonitorSpec, ModelStaysDescribed
-----------------------------------------------------------------------------
(* The versions of documents. *)

TrackerStates ==
    [at : {"idle", "select", "write", "log", "delete"}, path : Paths \cup {NoFile},
     sha : Hashes \cup {NoFile}, row : Nat, seen : Nat, entry : LogEntry]

\* What a tracker carries fits the rows of its file.
TrackerFits(t) ==
    /\ tracker[t].at # "idle" => tracker[t].path \in Paths
    /\ tracker[t].at \in {"select", "write"} => tracker[t].sha \in Hashes
    /\ tracker[t].at = "write" => tracker[t].row <= Len(rows[tracker[t].path])
    /\ tracker[t].at = "log" => tracker[t].entry.kind = "modified"

\* The trackers that still have to log what they replaced.
Logging(p) == {t \in Trackers : tracker[t].at = "log" /\ tracker[t].path = p}

\* Every replacement is logged, about to be, or was lost with its tracker.
ChangesCounted(p) ==
    /\ IsFiniteSet(Logging(p))
    /\ Cardinality(Replacements(p)) - Cardinality(LoggedChanges(p)) - Cardinality(Logging(p)) \in 0..deaths

RowsNumbered(p) == \A i \in DOMAIN rows[p] : rows[p][i].parse >= 1

DocsInv ==
    /\ DocTypeOK
    /\ \A t \in Trackers : TrackerFits(t)
    /\ \A p \in Paths : RowsNumbered(p) /\ ChangesCounted(p)

\* Rows stay as they are, but that one is no longer current.
RowsKept(before, after) ==
    /\ Len(before) <= Len(after)
    /\ \A i \in DOMAIN before :
           /\ after[i].sha = before[i].sha /\ after[i].parse = before[i].parse
           /\ after[i].current => before[i].current

\* A table to which a row was added at the end.
Extended(before, after, e) ==
    /\ Len(before) \in Nat /\ Len(after) = Len(before) + 1
    /\ DOMAIN before = 1..Len(before) /\ DOMAIN after = 1..(Len(before) + 1)
    /\ after[Len(before) + 1] = e /\ \A i \in DOMAIN before : after[i] = before[i]

(* A row at the end of a table leaves the others where they are.           *)
LEMMA RowAppended ==
    ASSUME NEW S, NEW s \in Seq(S), NEW e \in S, NEW r, r = Append(s, e)
    PROVE  r \in Seq(S) /\ Extended(s, r, e)
  BY DEF Extended

Retired(s, k) == [s EXCEPT ![k].current = FALSE]
AllRetired(s) == [i \in DOMAIN s |-> [s[i] EXCEPT !.current = FALSE]]

(* A row that is retired keeps what it says.                               *)
LEMMA RowRetired ==
    ASSUME NEW s \in Seq(Row), NEW k \in DOMAIN s
    PROVE  /\ Retired(s, k) \in Seq(Row) /\ Len(Retired(s, k)) = Len(s)
           /\ RowsKept(s, Retired(s, k)) /\ ~Retired(s, k)[k].current
<1> DEFINE g == [s EXCEPT ![k].current = FALSE]
<1>1. s[k] \in Row /\ [s[k] EXCEPT !.current = FALSE] \in Row
  <2>1. s[k] \in Row
    OBVIOUS
  <2> QED
    BY <2>1 DEF Row
<1>2. g = [s EXCEPT ![k] = [s[k] EXCEPT !.current = FALSE]]
  OBVIOUS
<1>3. g \in Seq(Row) /\ Len(g) = Len(s)
  <2>1. PICK e : e = [s[k] EXCEPT !.current = FALSE]
    OBVIOUS
  <2>2. e \in Row /\ g = [s EXCEPT ![k] = e]
    BY <1>1, <1>2, <2>1
  <2> HIDE DEF g
  <2> QED
    BY <2>2
<1>4. \A i \in DOMAIN s : s[i] \in Row
  OBVIOUS
<1>5. \A i \in DOMAIN s : g[i] = IF i = k THEN [s[k] EXCEPT !.current = FALSE] ELSE s[i]
  BY <1>2
<1>6. RowsKept(s, g) /\ ~g[k].current
  BY <1>3, <1>4, <1>5 DEF RowsKept, Row
<1> QED
  BY <1>3, <1>6 DEF Retired

(* Rows that are all retired keep what they say.                           *)
LEMMA RowsRetired ==
    ASSUME NEW s \in Seq(Row)
    PROVE  /\ AllRetired(s) \in Seq(Row) /\ Len(AllRetired(s)) = Len(s)
           /\ RowsKept(s, AllRetired(s)) /\ \A i \in DOMAIN s : ~AllRetired(s)[i].current
<1> DEFINE g == [i \in DOMAIN s |-> [s[i] EXCEPT !.current = FALSE]]
<1>1. ASSUME NEW i \in DOMAIN s
      PROVE  s[i] \in Row /\ g[i] = [s[i] EXCEPT !.current = FALSE] /\ g[i] \in Row
  <2>1. s[i] \in Row
    OBVIOUS
  <2> QED
    BY <2>1 DEF Row
<1>2. DOMAIN s = 1..Len(s) /\ Len(s) \in Nat /\ DOMAIN g = 1..Len(s)
  OBVIOUS
<1> HIDE DEF g
<1>3. g \in [1..Len(s) -> Row]
  <2>1. g = [i \in 1..Len(s) |-> g[i]]
    BY <1>2 DEF g
  <2> QED
    BY <1>1, <1>2, <2>1
<1>4. g \in Seq(Row) /\ Len(g) = Len(s)
  BY <1>2, <1>3
<1>5. RowsKept(s, g) /\ \A i \in DOMAIN s : ~g[i].current
  BY <1>1, <1>2, <1>4 DEF RowsKept, Row
<1> QED
  BY <1>4, <1>5 DEF g, AllRetired

(* The rows and entries that are counted are finitely many.                *)
LEMMA CountedFinite ==
    ASSUME DocTypeOK, NEW p \in Paths
    PROVE  /\ IsFiniteSet(Replacements(p)) /\ Cardinality(Replacements(p)) \in Nat
           /\ IsFiniteSet(LoggedChanges(p)) /\ Cardinality(LoggedChanges(p)) \in Nat
<1>1. rows[p] \in Seq(Row) /\ changeLog[p] \in Seq(LogEntry)
  BY DEF DocTypeOK
<1>2. /\ DOMAIN rows[p] = 1..Len(rows[p]) /\ Len(rows[p]) \in Nat
      /\ DOMAIN changeLog[p] = 1..Len(changeLog[p]) /\ Len(changeLog[p]) \in Nat
  BY <1>1
<1>3. IsFiniteSet(DOMAIN rows[p]) /\ IsFiniteSet(DOMAIN changeLog[p])
  <2>1. PICK m, n : m = Len(rows[p]) /\ n = Len(changeLog[p])
    OBVIOUS
  <2>2. m \in Int /\ n \in Int /\ 1 \in Int
    BY <1>2, <2>1
  <2>3. IsFiniteSet(1..m) /\ IsFiniteSet(1..n)
    BY ONLY <2>2, FS_Interval
  <2> QED
    BY <1>2, <2>1, <2>3
<1>4. Replacements(p) \subseteq DOMAIN rows[p] /\ LoggedChanges(p) \subseteq DOMAIN changeLog[p]
  BY DEF Replacements, LoggedChanges
<1>5. IsFiniteSet(Replacements(p)) /\ IsFiniteSet(LoggedChanges(p))
  BY <1>3, <1>4, FS_Subset
<1> QED
  BY <1>5, FS_CardinalityType

(* A step that changes no counted set keeps the count.                     *)
LEMMA CountStays ==
    ASSUME DocTypeOK, NEW p \in Paths, ChangesCounted(p), deaths' \in Nat, deaths <= deaths',
           Replacements(p)' = Replacements(p), LoggedChanges(p)' = LoggedChanges(p), Logging(p)' = Logging(p)
    PROVE  ChangesCounted(p)'
<1>1. Cardinality(Logging(p)) \in Nat /\ IsFiniteSet(Logging(p))
  BY FS_CardinalityType DEF ChangesCounted
<1>2. Cardinality(Replacements(p)) \in Nat /\ Cardinality(LoggedChanges(p)) \in Nat /\ deaths \in Nat
  BY CountedFinite, DocAssumption DEF DocTypeOK
<1> QED
  BY <1>1, <1>2 DEF ChangesCounted

(* The rows of a file that keep their places are the same replacements.    *)
LEMMA SameReplacements ==
    ASSUME NEW p, RowsKept(rows[p], rows'[p]), DOMAIN rows'[p] = DOMAIN rows[p]
    PROVE  Replacements(p)' = Replacements(p)
  BY DEF RowsKept, Replacements

(* A row that is added is a replacement if it is not the first version.    *)
LEMMA AddedReplacement ==
    ASSUME NEW p, NEW v, Extended(rows[p], rows'[p], v)
    PROVE  /\ v.parse > 1 => Replacements(p)' = Replacements(p) \cup {Len(rows[p]) + 1}
           /\ ~(v.parse > 1) => Replacements(p)' = Replacements(p)
           /\ Len(rows[p]) + 1 \notin Replacements(p)
  BY DEF Extended, Replacements

(* An entry that is added is counted if it is of a modification.           *)
LEMMA AddedEntry ==
    ASSUME NEW p, NEW e, Extended(changeLog[p], changeLog'[p], e)
    PROVE  /\ e.kind = "modified" => LoggedChanges(p)' = LoggedChanges(p) \cup {Len(changeLog[p]) + 1}
           /\ e.kind # "modified" => LoggedChanges(p)' = LoggedChanges(p)
           /\ Len(changeLog[p]) + 1 \notin LoggedChanges(p)
  BY DEF Extended, LoggedChanges

(* Where another tracker stands is its own affair.                         *)
LEMMA OneTrackerMoves ==
    ASSUME DocTypeOK, NEW t \in Trackers, NEW q, tracker' = [tracker EXCEPT ![t] = q],
           NEW p, tracker[t].at # "log", q.at # "log"
    PROVE  Logging(p)' = Logging(p)
<1>1. \A u \in Trackers : tracker'[u] = IF u = t THEN q ELSE tracker[u]
  BY DEF DocTypeOK
<1> QED
  BY <1>1 DEF Logging

\* A tracker that has hashed a file, and one that has found it gone.
Hashed(p, h) == [AtRest EXCEPT !.at = "select", !.path = p, !.sha = h]
Gone(p) == [AtRest EXCEPT !.at = "delete", !.path = p]

(* What a tracker at rest, or on its way, is made of.                      *)
LEMMA TrackerTyped ==
    /\ AtRest \in TrackerStates /\ AtRest.at = "idle"
    /\ NoEntry \in LogEntry /\ NoEntry.kind = "deleted"
<1>1. NoEntry \in LogEntry /\ NoEntry.kind = "deleted"
  BY DEF NoEntry, LogEntry
<1> QED
  BY <1>1 DEF AtRest, TrackerStates

(* What a tracker that has hashed a file is made of.                       *)
LEMMA HashedTyped ==
    ASSUME NEW p \in Paths, NEW h \in Hashes
    PROVE  /\ Hashed(p, h) \in TrackerStates /\ Hashed(p, h).at = "select"
           /\ Hashed(p, h).path = p /\ Hashed(p, h).sha = h
<1>1. NoEntry \in LogEntry
  BY TrackerTyped
<1> QED
  BY <1>1 DEF Hashed, AtRest, TrackerStates

(* What a tracker that has found a file gone is made of.                   *)
LEMMA GoneTyped ==
    ASSUME NEW p \in Paths
    PROVE  Gone(p) \in TrackerStates /\ Gone(p).at = "delete" /\ Gone(p).path = p
<1>1. NoEntry \in LogEntry
  BY TrackerTyped
<1> QED
  BY <1>1 DEF Gone, AtRest, TrackerStates

\* What a tracker that comes to q may be about to do.
MayBecome(q) ==
    /\ q \in TrackerStates
    /\ q.at # "idle" => q.path \in Paths
    /\ q.at \in {"select", "write"} => q.sha \in Hashes
    /\ q.at = "write" => q.row <= Len(rows[q.path])
    /\ q.at = "log" => q.entry.kind = "modified"

(* Rows that are only added to fit every tracker as before.                *)
LEMMA FitsKept ==
    ASSUME DocTypeOK, DocTypeOK', \A u \in Trackers : TrackerFits(u), \A p \in Paths : RowsKept(rows[p], rows'[p]),
           NEW t \in Trackers, NEW q, MayBecome(q), tracker' = [tracker EXCEPT ![t] = q]
    PROVE  \A u \in Trackers : TrackerFits(u)'
<1>1. \A u \in Trackers : tracker'[u] = IF u = t THEN q ELSE tracker[u]
  BY DEF DocTypeOK
<1>2. \A p \in Paths : Len(rows[p]) \in Nat /\ Len(rows'[p]) \in Nat /\ Len(rows[p]) <= Len(rows'[p])
  <2>1. \A p \in Paths : rows[p] \in Seq(Row) /\ rows'[p] \in Seq(Row)
    BY DEF DocTypeOK
  <2> QED
    BY <2>1 DEF RowsKept
<1> SUFFICES ASSUME NEW u \in Trackers PROVE TrackerFits(u)'
  OBVIOUS
<1>3. CASE u = t
  BY <1>1, <1>2, <1>3 DEF TrackerFits, MayBecome, TrackerStates
<1>4. CASE u # t
  <2>1. tracker'[u] = tracker[u] /\ TrackerFits(u) /\ tracker[u] \in TrackerStates
    BY <1>1, <1>4 DEF DocTypeOK, TrackerStates
  <2> QED
    BY <1>2, <2>1 DEF TrackerFits, TrackerStates
<1> QED
  BY <1>3, <1>4

(* A tracker that only reads changes no count.                             *)
LEMMA ReadingKeeps ==
    ASSUME DocsInv, NEW t \in Trackers, NEW q, MayBecome(q), tracker[t].at # "log", q.at # "log",
           tracker' = [tracker EXCEPT ![t] = q], UNCHANGED <<content, rows, changeLog, rowWrites, edits, deaths>>
    PROVE  DocsInv'
<1>1. DocTypeOK /\ DocTypeOK'
  BY DEF DocsInv, DocTypeOK, MayBecome, TrackerStates
<1>2. \A p \in Paths : RowsKept(rows[p], rows'[p])
  <2>1. \A p \in Paths : Len(rows[p]) \in Nat
    BY <1>1 DEF DocTypeOK
  <2> QED
    BY <2>1 DEF RowsKept
<1>3. \A u \in Trackers : TrackerFits(u)'
  BY <1>1, <1>2, FitsKept DEF DocsInv
<1>4. ASSUME NEW p \in Paths PROVE RowsNumbered(p)' /\ ChangesCounted(p)'
  <2>1. RowsNumbered(p) /\ ChangesCounted(p)
    BY DEF DocsInv
  <2>2. Logging(p)' = Logging(p)
    BY <1>1, OneTrackerMoves
  <2>3. Replacements(p)' = Replacements(p) /\ LoggedChanges(p)' = LoggedChanges(p)
    BY DEF Replacements, LoggedChanges
  <2>4. deaths' \in Nat /\ deaths <= deaths'
    BY <1>1, DocAssumption DEF DocTypeOK
  <2> QED
    BY <1>1, <2>1, <2>2, <2>3, <2>4, CountStays DEF RowsNumbered
<1> QED
  BY <1>1, <1>3, <1>4 DEF DocsInv

(* Somebody edits a file, and no row changes.                              *)
LEMMA EditKeeps ==
    ASSUME DocsInv, NEW p \in Paths, NEW h \in Hashes \cup {NoFile}, Edit(p, h)
    PROVE  DocsInv'
<1>1. DocTypeOK /\ DocTypeOK'
  BY DocAssumption DEF DocsInv, DocTypeOK, Edit
<1>2. UNCHANGED <<rows, changeLog, tracker, deaths>>
  BY DEF Edit
<1> QED
  BY <1>1, <1>2 DEF DocsInv, TrackerFits, RowsNumbered, ChangesCounted, Logging, Replacements, LoggedChanges

(* The row that is taken for the current one is one, if there is any.      *)
LEMMA FirstCurrent ==
    ASSUME DocTypeOK, NEW p \in Paths
    PROVE  /\ CurrentRows(p) \subseteq 1..Len(rows[p]) /\ Len(rows[p]) \in Nat
           /\ IF CurrentRows(p) = {} THEN FirstRow(p) = 0 ELSE FirstRow(p) \in CurrentRows(p)
<1>1. rows[p] \in Seq(Row)
  BY DEF DocTypeOK
<1>2. CurrentRows(p) \subseteq 1..Len(rows[p]) /\ Len(rows[p]) \in Nat
  BY <1>1 DEF CurrentRows
<1>3. CurrentRows(p) # {} => \E i \in CurrentRows(p) : \A j \in CurrentRows(p) : i <= j
  BY <1>2, LeastNumber
<1> QED
  BY <1>2, <1>3 DEF FirstRow

(* Hashing, reading the current row and finding it the same, and finding a *)
(* file gone.                                                              *)
LEMMA TrackerReads ==
    ASSUME DocsInv, NEW t \in Trackers,
           \/ \E p \in Paths : Hash(t, p) \/ FindDeleted(t, p)
           \/ SelectRow(t) \/ SameVersion(t)
    PROVE  DocsInv'
<1>1. DocTypeOK /\ TrackerFits(t) /\ tracker[t] \in TrackerStates
  BY DEF DocsInv, DocTypeOK, TrackerStates
<1>2. CASE \E p \in Paths : Hash(t, p)
  <2>1. PICK p \in Paths : Hash(t, p)
    BY <1>2
  <2>2. content[p] \in Hashes
    <3>1. content[p] \in Hashes \cup {NoFile}
      BY <1>1 DEF DocTypeOK
    <3>2. content[p] # NoFile
      BY <2>1 DEF Hash, Bucket
    <3> QED
      BY <3>1, <3>2
  <2>3. PICK q : q = Hashed(p, content[p])
    OBVIOUS
  <2>4. MayBecome(q) /\ q.at # "log"
    BY <2>2, <2>3, HashedTyped DEF MayBecome
  <2>5. tracker' = [tracker EXCEPT ![t] = q]
    BY <2>1, <2>3 DEF Hash, Hashed
  <2> QED
    BY <2>1, <2>4, <2>5, ReadingKeeps DEF Hash
<1>3. CASE \E p \in Paths : FindDeleted(t, p)
  <2>1. PICK p \in Paths : FindDeleted(t, p)
    BY <1>3
  <2>2. PICK q : q = Gone(p)
    OBVIOUS
  <2>3. MayBecome(q) /\ q.at # "log"
    BY <2>2, GoneTyped DEF MayBecome
  <2>4. tracker' = [tracker EXCEPT ![t] = q]
    BY <2>1, <2>2 DEF FindDeleted, Gone
  <2> QED
    BY <2>1, <2>3, <2>4, ReadingKeeps DEF FindDeleted
<1>4. CASE SelectRow(t)
  <2>1. tracker[t].at = "select" /\ tracker[t].path \in Paths /\ tracker[t].sha \in Hashes
    BY <1>1, <1>4 DEF SelectRow, TrackerFits
  <2>2. PICK r, n : r = FirstRow(tracker[t].path) /\ n = rowWrites[tracker[t].path].all
    OBVIOUS
  <2>3. PICK q : q = [tracker[t] EXCEPT !.at = "write", !.row = r, !.seen = n]
    OBVIOUS
  <2>4. tracker' = [tracker EXCEPT ![t] = q]
    BY <1>4, <2>2, <2>3 DEF SelectRow
  <2>5. r \in Nat /\ r <= Len(rows[tracker[t].path]) /\ n \in Nat
    <3>1. rowWrites[tracker[t].path] \in RowWrites
      BY <1>1, <2>1 DEF DocTypeOK
    <3>2. n \in Nat
      BY <2>2, <3>1 DEF RowWrites
    <3> QED
      BY <1>1, <2>1, <2>2, <3>2, FirstCurrent
  <2>6. MayBecome(q) /\ q.at # "log"
    BY <1>1, <2>1, <2>3, <2>5 DEF MayBecome, TrackerStates
  <2> QED
    BY <1>4, <2>1, <2>4, <2>6, ReadingKeeps DEF SelectRow
<1>5. CASE SameVersion(t)
  <2>1. MayBecome(AtRest) /\ AtRest.at # "log"
    BY TrackerTyped DEF MayBecome
  <2> QED
    BY <1>5, <2>1, ReadingKeeps DEF SameVersion
<1> QED
  BY <1>2, <1>3, <1>4, <1>5

(* What writing the rows of a file does to the history of its writes.      *)
LEMMA RowWritesTyped ==
    ASSUME DocTypeOK, NEW f \in Paths, NEW n, WriteRows(f, n)
    PROVE  /\ rowWrites' \in [Paths -> RowWrites] /\ rowWrites[f] \in RowWrites /\ rowWrites'[f].all = rowWrites[f].all + 1
           /\ rowWrites'[f].late = IF n = rowWrites[f].all THEN rowWrites[f].late ELSE rowWrites[f].late + 1
           /\ \A p \in Paths : p # f => rowWrites'[p] = rowWrites[p]
<1>1. PICK w : w = [all |-> rowWrites[f].all + 1,
                    late |-> IF n = rowWrites[f].all THEN rowWrites[f].late ELSE rowWrites[f].late + 1]
  OBVIOUS
<1>2. rowWrites \in [Paths -> RowWrites] /\ rowWrites' = [rowWrites EXCEPT ![f] = w]
  BY <1>1 DEF DocTypeOK, WriteRows
<1>3. rowWrites[f] \in RowWrites /\ w \in RowWrites
  <2>1. rowWrites[f] \in RowWrites
    BY <1>2
  <2> QED
    BY <1>1, <2>1 DEF RowWrites
<1>4. rowWrites'[f] = w /\ \A p \in Paths : p # f => rowWrites'[p] = rowWrites[p]
  BY <1>2
<1> QED
  BY <1>1, <1>2, <1>3, <1>4

(* A first version is a row at the end that replaces nothing.              *)
LEMMA FirstVersionKeeps ==
    ASSUME DocsInv, NEW t \in Trackers, FirstVersion(t)
    PROVE  DocsInv' /\ \A p \in Paths : RowsKept(rows[p], rows'[p])
<1>1. PICK f, v : f = tracker[t].path /\ v = Version(tracker[t].sha, 1)
  OBVIOUS
<1>2. DocTypeOK /\ f \in Paths /\ tracker[t].at = "write" /\ tracker[t].sha \in Hashes
  BY <1>1 DEF DocsInv, FirstVersion, TrackerFits
<1>3. v \in Row /\ v.parse = 1
  BY <1>1, <1>2 DEF Version, Row
<1>4. rows' = [rows EXCEPT ![f] = Append(@, v)] /\ tracker' = [tracker EXCEPT ![t] = AtRest]
      /\ UNCHANGED <<content, changeLog, edits, deaths>>
  BY <1>1 DEF FirstVersion
<1>5. \A p \in Paths : rows[p] \in Seq(Row) /\ rows'[p] = IF p = f THEN Append(rows[p], v) ELSE rows[p]
  BY <1>2, <1>4 DEF DocTypeOK
<1>6. rows'[f] \in Seq(Row) /\ Extended(rows[f], rows'[f], v)
  BY <1>2, <1>3, <1>5, RowAppended
<1>7. \A p \in Paths : RowsKept(rows[p], rows'[p])
  <2>1. \A p \in Paths : Len(rows[p]) \in Nat
    BY <1>5
  <2> QED
    BY <1>2, <1>5, <1>6, <2>1 DEF RowsKept, Extended
<1>8. DocTypeOK'
  <2>1. rows' \in [Paths -> Seq(Row)]
    BY <1>2, <1>4, <1>5, <1>6 DEF DocTypeOK
  <2>2. tracker' \in [Trackers -> TrackerStates]
    BY <1>2, <1>4, TrackerTyped DEF DocTypeOK, TrackerStates
  <2>3. rowWrites' \in [Paths -> RowWrites]
    BY <1>1, <1>2, RowWritesTyped DEF FirstVersion
  <2> QED
    BY <1>2, <1>4, <2>1, <2>2, <2>3 DEF DocTypeOK, TrackerStates
<1>9. \A u \in Trackers : TrackerFits(u)'
  <2>1. MayBecome(AtRest)
    BY TrackerTyped DEF MayBecome
  <2> QED
    BY <1>2, <1>4, <1>7, <1>8, <2>1, FitsKept DEF DocsInv
<1>10. ASSUME NEW p \in Paths PROVE RowsNumbered(p)' /\ ChangesCounted(p)'
  <2>1. RowsNumbered(p) /\ ChangesCounted(p)
    BY DEF DocsInv
  <2>2. Logging(p)' = Logging(p)
    BY <1>2, <1>4, TrackerTyped, OneTrackerMoves
  <2>3. LoggedChanges(p)' = LoggedChanges(p)
    BY <1>4 DEF LoggedChanges
  <2>4. Replacements(p)' = Replacements(p)
    <3>1. CASE p = f
      BY <1>3, <1>6, <3>1, AddedReplacement
    <3>2. CASE p # f
      BY <1>5, <3>2 DEF Replacements
    <3> QED
      BY <3>1, <3>2
  <2>6. RowsNumbered(p)'
    <3>1. CASE p = f
      BY <1>3, <1>6, <2>1, <3>1 DEF RowsNumbered, Extended
    <3>2. CASE p # f
      BY <1>5, <2>1, <3>2 DEF RowsNumbered
    <3> QED
      BY <3>1, <3>2
  <2>5. deaths' \in Nat /\ deaths <= deaths'
    BY <1>2, <1>4, DocAssumption DEF DocTypeOK
  <2> QED
    BY <1>2, <2>1, <2>2, <2>3, <2>4, <2>5, <2>6, CountStays
<1> QED
  BY <1>7, <1>8, <1>9, <1>10 DEF DocsInv

(* A file that is gone has no current row; what was replaced stays so.     *)
LEMMA MarkDeletedKeeps ==
    ASSUME DocsInv, NEW t \in Trackers, MarkDeleted(t)
    PROVE  DocsInv' /\ \A p \in Paths : RowsKept(rows[p], rows'[p])
<1>1. PICK f, g : f = tracker[t].path /\ g = AllRetired(rows[f])
  OBVIOUS
<1>2. DocTypeOK /\ f \in Paths /\ tracker[t].at = "delete"
  BY <1>1 DEF DocsInv, MarkDeleted, TrackerFits
<1>3. rows' = [rows EXCEPT ![f] = g] /\ changeLog' = [changeLog EXCEPT ![f] = Append(@, NoEntry)]
      /\ tracker' = [tracker EXCEPT ![t] = AtRest] /\ UNCHANGED <<content, edits, deaths>>
  <2>1. rows' = [rows EXCEPT ![f] = [i \in DOMAIN rows[f] |-> [rows[f][i] EXCEPT !.current = FALSE]]]
    BY <1>1 DEF MarkDeleted
  <2> QED
    BY <1>1, <2>1 DEF MarkDeleted, AllRetired
<1>4. \A p \in Paths : rows[p] \in Seq(Row) /\ rows'[p] = IF p = f THEN g ELSE rows[p]
  BY <1>2, <1>3 DEF DocTypeOK
<1>5. g \in Seq(Row) /\ Len(g) = Len(rows[f]) /\ RowsKept(rows[f], g) /\ Len(rows[f]) \in Nat
      /\ DOMAIN g = DOMAIN rows[f]
  <2>1. g \in Seq(Row) /\ Len(g) = Len(rows[f]) /\ RowsKept(rows[f], g)
    BY <1>1, <1>2, <1>4, RowsRetired
  <2> QED
    BY <1>2, <1>4, <2>1
<1>6. \A p \in Paths : changeLog[p] \in Seq(LogEntry)
                       /\ changeLog'[p] = IF p = f THEN Append(changeLog[p], NoEntry) ELSE changeLog[p]
  BY <1>2, <1>3 DEF DocTypeOK
<1>7. changeLog'[f] \in Seq(LogEntry) /\ Extended(changeLog[f], changeLog'[f], NoEntry)
  BY <1>2, <1>6, TrackerTyped, RowAppended
<1>8. \A p \in Paths : RowsKept(rows[p], rows'[p]) /\ DOMAIN rows'[p] = DOMAIN rows[p]
  <2>1. \A p \in Paths : Len(rows[p]) \in Nat
    BY <1>4
  <2> QED
    BY <1>2, <1>4, <1>5, <2>1 DEF RowsKept
<1>9. DocTypeOK'
  <2>1. rows' \in [Paths -> Seq(Row)]
    BY <1>2, <1>3, <1>4, <1>5 DEF DocTypeOK
  <2>2. tracker' \in [Trackers -> TrackerStates]
    BY <1>2, <1>3, TrackerTyped DEF DocTypeOK, TrackerStates
  <2>3. changeLog' \in [Paths -> Seq(LogEntry)]
    BY <1>2, <1>3, <1>6, <1>7 DEF DocTypeOK
  <2>4. rowWrites' \in [Paths -> RowWrites]
    BY <1>1, <1>2, RowWritesTyped DEF MarkDeleted
  <2> QED
    BY <1>2, <1>3, <2>1, <2>2, <2>3, <2>4 DEF DocTypeOK, TrackerStates
<1>10. \A u \in Trackers : TrackerFits(u)'
  <2>1. MayBecome(AtRest)
    BY TrackerTyped DEF MayBecome
  <2> QED
    BY <1>2, <1>3, <1>8, <1>9, <2>1, FitsKept DEF DocsInv
<1>11. ASSUME NEW p \in Paths PROVE RowsNumbered(p)' /\ ChangesCounted(p)'
  <2>1. RowsNumbered(p) /\ ChangesCounted(p)
    BY DEF DocsInv
  <2>2. Logging(p)' = Logging(p)
    BY <1>2, <1>3, TrackerTyped, OneTrackerMoves
  <2>3. LoggedChanges(p)' = LoggedChanges(p)
    <3>1. CASE p = f
      BY <1>7, <3>1, TrackerTyped, AddedEntry
    <3>2. CASE p # f
      BY <1>6, <3>2 DEF LoggedChanges
    <3> QED
      BY <3>1, <3>2
  <2>4. Replacements(p)' = Replacements(p)
    BY <1>8, SameReplacements
  <2>5. RowsNumbered(p)'
    BY <1>8, <2>1 DEF RowsNumbered, RowsKept
  <2>6. deaths' \in Nat /\ deaths <= deaths'
    BY <1>2, <1>3, DocAssumption DEF DocTypeOK
  <2> QED
    BY <1>2, <2>1, <2>2, <2>3, <2>4, <2>5, <2>6, CountStays
<1> QED
  BY <1>8, <1>9, <1>10, <1>11 DEF DocsInv

(* A replacement retires the row it read and adds its successor, which is  *)
(* still to be logged.                                                     *)
LEMMA ReplaceVersionKeeps ==
    ASSUME DocsInv, NEW t \in Trackers, ReplaceVersion(t)
    PROVE  DocsInv' /\ \A p \in Paths : RowsKept(rows[p], rows'[p])
<1>1. PICK f, k, old : f = tracker[t].path /\ k = tracker[t].row /\ old = rows[f][k]
  OBVIOUS
<1>2. PICK g, v, e : /\ g = Retired(rows[f], k) /\ v = Version(tracker[t].sha, old.parse + 1)
                     /\ e = [kind |-> "modified", old |-> old.sha, new |-> tracker[t].sha,
                             parse |-> old.parse + 1]
  OBVIOUS
<1>3. /\ DocTypeOK /\ f \in Paths /\ tracker[t].at = "write" /\ tracker[t].sha \in Hashes
      /\ k \in DOMAIN rows[f] /\ rows[f] \in Seq(Row) /\ tracker[t] \in TrackerStates
  <2>1. DocTypeOK /\ f \in Paths /\ tracker[t].at = "write" /\ tracker[t].sha \in Hashes
        /\ tracker[t] \in TrackerStates
    BY <1>1 DEF DocsInv, ReplaceVersion, TrackerFits, DocTypeOK, TrackerStates
  <2>2. k # 0 /\ k <= Len(rows[f]) /\ k \in Nat
    BY <1>1, <2>1 DEF DocsInv, ReplaceVersion, TrackerFits, TrackerStates
  <2>3. rows[f] \in Seq(Row)
    BY <2>1 DEF DocTypeOK
  <2> QED
    BY <2>1, <2>2, <2>3
<1>4. old \in Row /\ old.sha \in Hashes /\ old.parse \in Nat /\ old.parse >= 1
  <2>1. old \in Row
    BY <1>1, <1>3
  <2>2. RowsNumbered(f)
    BY <1>3 DEF DocsInv
  <2> QED
    BY <1>1, <1>3, <2>1, <2>2 DEF Row, RowsNumbered
<1>5. v \in Row /\ v.parse > 1 /\ e \in LogEntry /\ e.kind = "modified"
  BY <1>2, <1>3, <1>4 DEF Version, Row, LogEntry
<1>6. PICK q : q = [tracker[t] EXCEPT !.at = "log", !.entry = e]
  OBVIOUS
<1>7. MayBecome(q) /\ q.at = "log" /\ q.path = f
  BY <1>1, <1>3, <1>5, <1>6 DEF MayBecome, TrackerStates
<1>8. /\ rows' = [rows EXCEPT ![f] = Append(g, v)] /\ tracker' = [tracker EXCEPT ![t] = q]
      /\ UNCHANGED <<content, changeLog, edits, deaths>>
  <2>1. rows' = [rows EXCEPT ![f] = Append([rows[f] EXCEPT ![k].current = FALSE], v)]
    BY <1>1, <1>2 DEF ReplaceVersion
  <2>2. tracker' = [tracker EXCEPT ![t].at = "log", ![t].entry = e]
    BY <1>1, <1>2 DEF ReplaceVersion
  <2>3. tracker' = [tracker EXCEPT ![t] = [tracker[t] EXCEPT !.at = "log", !.entry = e]]
    BY ONLY <1>3, <2>2 DEF DocTypeOK, TrackerStates
  <2>4. UNCHANGED <<content, changeLog, edits, deaths>>
    BY DEF ReplaceVersion
  <2> QED
    BY <1>2, <1>6, <2>1, <2>3, <2>4 DEF Retired
<1>9. g \in Seq(Row) /\ Len(g) = Len(rows[f]) /\ RowsKept(rows[f], g)
  BY <1>2, <1>3, RowRetired
<1>10. \A p \in Paths : rows[p] \in Seq(Row) /\ rows'[p] = IF p = f THEN Append(g, v) ELSE rows[p]
  BY <1>3, <1>8 DEF DocTypeOK
<1>11. rows'[f] \in Seq(Row) /\ Extended(g, rows'[f], v) /\ DOMAIN g = DOMAIN rows[f]
  <2>1. rows'[f] = Append(g, v)
    BY <1>3, <1>10
  <2>2. rows'[f] \in Seq(Row) /\ Extended(g, rows'[f], v)
    BY <1>5, <1>9, <2>1, RowAppended
  <2>3. DOMAIN g = 1..Len(g) /\ DOMAIN rows[f] = 1..Len(rows[f])
    BY <1>3, <1>9
  <2> QED
    BY <1>9, <2>2, <2>3
<1>12. \A p \in Paths : RowsKept(rows[p], rows'[p])
  <2>1. \A p \in Paths : Len(rows[p]) \in Nat
    BY <1>10
  <2>2. RowsKept(rows[f], rows'[f])
    BY <1>9, <1>11 DEF RowsKept, Extended
  <2> QED
    BY <1>10, <2>1, <2>2 DEF RowsKept
<1>13. DocTypeOK'
  <2>1. rows' \in [Paths -> Seq(Row)]
    BY <1>3, <1>8, <1>10, <1>11 DEF DocTypeOK
  <2>2. tracker' \in [Trackers -> TrackerStates]
    BY <1>3, <1>7, <1>8 DEF DocTypeOK, TrackerStates, MayBecome
  <2>3. rowWrites' \in [Paths -> RowWrites]
    BY <1>1, <1>3, RowWritesTyped DEF ReplaceVersion
  <2> QED
    BY <1>3, <1>8, <2>1, <2>2, <2>3 DEF DocTypeOK, TrackerStates
<1>14. \A u \in Trackers : TrackerFits(u)'
  BY <1>3, <1>7, <1>8, <1>12, <1>13, FitsKept DEF DocsInv
<1>15. /\ Replacements(f)' = Replacements(f) \cup {Len(rows[f]) + 1} /\ Len(rows[f]) + 1 \notin Replacements(f)
       /\ RowsNumbered(f)'
  <2>1. PICK n : n = Len(rows[f])
    OBVIOUS
  <2>2. /\ n \in Nat /\ DOMAIN rows[f] = 1..n /\ DOMAIN rows'[f] = 1..(n + 1) /\ rows'[f][n + 1] = v
        /\ \A i \in 1..n : rows'[f][i].parse = rows[f][i].parse
    BY <1>3, <1>9, <1>11, <2>1 DEF Extended, RowsKept
  <2>3. RowsNumbered(f)
    BY <1>3 DEF DocsInv
  <2>4. \A i \in 1..(n + 1) : rows'[f][i].parse = IF i = n + 1 THEN v.parse ELSE rows[f][i].parse
    BY <2>2
  <2>5. v.parse > 1 /\ v.parse >= 1
    BY <1>4, <1>5 DEF Row
  <2>6. \A i : i \in Replacements(f)' <=> i \in Replacements(f) \/ i = n + 1
    BY <2>2, <2>4, <2>5 DEF Replacements
  <2>7. n + 1 \notin Replacements(f)
    BY <2>2 DEF Replacements
  <2>8. RowsNumbered(f)'
    BY <2>2, <2>3, <2>4, <2>5 DEF RowsNumbered
  <2> QED
    BY <2>1, <2>6, <2>7, <2>8
<1>16. \A p : /\ p = f => Logging(p)' = Logging(p) \cup {t} /\ t \notin Logging(p)
              /\ p # f => Logging(p)' = Logging(p)
  <2>1. \A u \in Trackers : tracker'[u] = IF u = t THEN q ELSE tracker[u]
    BY <1>3, <1>8 DEF DocTypeOK
  <2> QED
    BY <1>3, <1>7, <2>1 DEF Logging
<1>17. ASSUME NEW p \in Paths PROVE RowsNumbered(p)' /\ ChangesCounted(p)'
  <2>1. RowsNumbered(p) /\ ChangesCounted(p)
    BY DEF DocsInv
  <2>2. LoggedChanges(p)' = LoggedChanges(p)
    BY <1>8 DEF LoggedChanges
  <2>3. CASE p # f
    <3>1. Replacements(p)' = Replacements(p) /\ RowsNumbered(p)'
      BY <1>10, <2>1, <2>3 DEF Replacements, RowsNumbered
    <3>2. deaths' \in Nat /\ deaths <= deaths'
      BY <1>3, <1>8, DocAssumption DEF DocTypeOK
    <3> QED
      BY <1>3, <1>16, <2>1, <2>2, <2>3, <3>1, <3>2, CountStays
  <2>4. CASE p = f
    <3>1. IsFiniteSet(Replacements(p)) /\ IsFiniteSet(Logging(p))
      BY <1>3, <2>1, CountedFinite DEF ChangesCounted
    <3>2. Cardinality(Replacements(p)') = Cardinality(Replacements(p)) + 1
      BY <1>15, <2>4, <3>1, FS_AddElement
    <3>3. IsFiniteSet(Logging(p)') /\ Cardinality(Logging(p)') = Cardinality(Logging(p)) + 1
      BY <1>16, <2>4, <3>1, FS_AddElement
    <3>4. /\ Cardinality(Replacements(p)) \in Nat /\ Cardinality(LoggedChanges(p)) \in Nat
          /\ Cardinality(Logging(p)) \in Nat
      BY <1>3, <3>1, CountedFinite, FS_CardinalityType
    <3>5. ChangesCounted(p)'
      BY <1>8, <2>1, <2>2, <3>2, <3>3, <3>4 DEF ChangesCounted
    <3> QED
      BY <1>15, <2>4, <3>5
  <2> QED
    BY <2>3, <2>4
<1> QED
  BY <1>12, <1>13, <1>14, <1>17 DEF DocsInv

(* An entry that is logged leaves its tracker at rest.                     *)
LEMMA LogChangeKeeps ==
    ASSUME DocsInv, NEW t \in Trackers, LogChange(t)
    PROVE  DocsInv'
<1>1. PICK f, e : f = tracker[t].path /\ e = tracker[t].entry
  OBVIOUS
<1>2. /\ DocTypeOK /\ f \in Paths /\ tracker[t].at = "log" /\ e.kind = "modified" /\ e \in LogEntry
  BY <1>1 DEF DocsInv, LogChange, TrackerFits, DocTypeOK
<1>3. /\ changeLog' = [changeLog EXCEPT ![f] = Append(@, e)] /\ tracker' = [tracker EXCEPT ![t] = AtRest]
      /\ UNCHANGED <<content, rows, rowWrites, edits, deaths>>
  BY <1>1 DEF LogChange
<1>4. \A p \in Paths : changeLog[p] \in Seq(LogEntry)
                       /\ changeLog'[p] = IF p = f THEN Append(changeLog[p], e) ELSE changeLog[p]
  BY <1>2, <1>3 DEF DocTypeOK
<1>5. changeLog'[f] \in Seq(LogEntry) /\ Extended(changeLog[f], changeLog'[f], e)
  BY <1>2, <1>4, RowAppended
<1>6. DocTypeOK'
  <2>1. changeLog' \in [Paths -> Seq(LogEntry)]
    BY <1>2, <1>3, <1>4, <1>5 DEF DocTypeOK
  <2>2. tracker' \in [Trackers -> TrackerStates]
    BY <1>2, <1>3, TrackerTyped DEF DocTypeOK, TrackerStates
  <2> QED
    BY <1>2, <1>3, <2>1, <2>2 DEF DocTypeOK, TrackerStates
<1>7. \A p \in Paths : RowsKept(rows[p], rows'[p])
  <2>1. \A p \in Paths : Len(rows[p]) \in Nat
    BY <1>2 DEF DocTypeOK
  <2> QED
    BY <1>3, <2>1 DEF RowsKept
<1>8. \A u \in Trackers : TrackerFits(u)'
  <2>1. MayBecome(AtRest)
    BY TrackerTyped DEF MayBecome
  <2> QED
    BY <1>2, <1>3, <1>6, <1>7, <2>1, FitsKept DEF DocsInv
<1>9. \A p : /\ p = f => Logging(p)' = Logging(p) \ {t} /\ t \in Logging(p)
             /\ p # f => Logging(p)' = Logging(p)
  <2>1. \A u \in Trackers : tracker'[u] = IF u = t THEN AtRest ELSE tracker[u]
    BY <1>2, <1>3 DEF DocTypeOK
  <2> QED
    BY <1>1, <1>2, <2>1, TrackerTyped DEF Logging
<1>10. ASSUME NEW p \in Paths PROVE RowsNumbered(p)' /\ ChangesCounted(p)'
  <2>1. RowsNumbered(p) /\ ChangesCounted(p)
    BY DEF DocsInv
  <2>2. Replacements(p)' = Replacements(p) /\ RowsNumbered(p)'
    BY <1>3, <2>1 DEF Replacements, RowsNumbered
  <2>3. CASE p # f
    <3>1. LoggedChanges(p)' = LoggedChanges(p)
      BY <1>4, <2>3 DEF LoggedChanges
    <3>2. deaths' \in Nat /\ deaths <= deaths'
      BY <1>2, <1>3, DocAssumption DEF DocTypeOK
    <3> QED
      BY <1>2, <1>9, <2>1, <2>2, <2>3, <3>1, <3>2, CountStays
  <2>4. CASE p = f
    <3>1. IsFiniteSet(LoggedChanges(p)) /\ IsFiniteSet(Logging(p))
      BY <1>2, <2>1, CountedFinite DEF ChangesCounted
    <3>2. Cardinality(LoggedChanges(p)') = Cardinality(LoggedChanges(p)) + 1
      BY <1>2, <1>5, <2>4, <3>1, AddedEntry, FS_AddElement
    <3>3. IsFiniteSet(Logging(p)') /\ Cardinality(Logging(p)') = Cardinality(Logging(p)) - 1
      BY <1>9, <2>4, <3>1, FS_RemoveElement
    <3>4. /\ Cardinality(Replacements(p)) \in Nat /\ Cardinality(LoggedChanges(p)) \in Nat
          /\ Cardinality(Logging(p)) \in Nat
      BY <1>2, <3>1, CountedFinite, FS_CardinalityType
    <3>5. ChangesCounted(p)'
      BY <1>3, <2>1, <2>2, <3>2, <3>3, <3>4 DEF ChangesCounted
    <3> QED
      BY <2>2, <3>5
  <2> QED
    BY <2>3, <2>4
<1> QED
  BY <1>6, <1>8, <1>10 DEF DocsInv

(* A tracker that dies leaves at most one replacement unlogged.            *)
LEMMA TrackerDiesKeeps ==
    ASSUME DocsInv, NEW t \in Trackers, TrackerDies(t)
    PROVE  DocsInv'
<1>1. DocTypeOK /\ deaths \in Nat /\ deaths' = deaths + 1
  BY DocAssumption DEF DocsInv, DocTypeOK, TrackerDies
<1>2. tracker' = [tracker EXCEPT ![t] = AtRest] /\ UNCHANGED <<content, rows, changeLog, rowWrites, edits>>
  BY DEF TrackerDies
<1>3. DocTypeOK'
  <2>1. deaths' \in 0..MaxDeaths
    BY <1>1, DocAssumption DEF DocTypeOK, TrackerDies
  <2>2. tracker' \in [Trackers -> TrackerStates]
    BY <1>1, <1>2, TrackerTyped DEF DocTypeOK, TrackerStates
  <2> QED
    BY <1>1, <1>2, <2>1, <2>2 DEF DocTypeOK, TrackerStates
<1>4. \A p \in Paths : RowsKept(rows[p], rows'[p])
  <2>1. \A p \in Paths : Len(rows[p]) \in Nat
    BY <1>1 DEF DocTypeOK
  <2> QED
    BY <1>2, <2>1 DEF RowsKept
<1>5. \A u \in Trackers : TrackerFits(u)'
  <2>1. MayBecome(AtRest)
    BY TrackerTyped DEF MayBecome
  <2> QED
    BY <1>1, <1>2, <1>3, <1>4, <2>1, FitsKept DEF DocsInv
<1>6. \A p : Logging(p)' = Logging(p) \ {t}
  <2>1. \A u \in Trackers : tracker'[u] = IF u = t THEN AtRest ELSE tracker[u]
    BY <1>1, <1>2 DEF DocTypeOK
  <2> QED
    BY <2>1, TrackerTyped DEF Logging
<1>7. ASSUME NEW p \in Paths PROVE RowsNumbered(p)' /\ ChangesCounted(p)'
  <2>1. RowsNumbered(p) /\ ChangesCounted(p)
    BY DEF DocsInv
  <2>2. Replacements(p)' = Replacements(p) /\ RowsNumbered(p)' /\ LoggedChanges(p)' = LoggedChanges(p)
    BY <1>2, <2>1 DEF Replacements, RowsNumbered, LoggedChanges
  <2>3. IsFiniteSet(Logging(p))
    BY <2>1 DEF ChangesCounted
  <2>4. /\ IsFiniteSet(Logging(p)')
        /\ \/ Cardinality(Logging(p)') = Cardinality(Logging(p)) - 1
           \/ Cardinality(Logging(p)') = Cardinality(Logging(p))
    BY <1>6, <2>3, FS_RemoveElement
  <2>5. /\ Cardinality(Replacements(p)) \in Nat /\ Cardinality(LoggedChanges(p)) \in Nat
        /\ Cardinality(Logging(p)) \in Nat
    BY <1>1, <2>3, CountedFinite, FS_CardinalityType
  <2>6. ChangesCounted(p)'
    BY <1>1, <2>1, <2>2, <2>4, <2>5 DEF ChangesCounted
  <2> QED
    BY <2>2, <2>6
<1> QED
  BY <1>3, <1>5, <1>7 DEF DocsInv

(* The versions and their log stay in step.                                *)
LEMMA DocsInvariant == DocSpec => []DocsInv
<1>1. DocInit => DocsInv
  <2> SUFFICES ASSUME DocInit PROVE DocsInv
    OBVIOUS
  <2>1. DocTypeOK
    BY DocAssumption, TrackerTyped DEF DocInit, DocTypeOK, TrackerStates, RowWrites
  <2>2. \A t \in Trackers : tracker[t] = AtRest
    BY DEF DocInit
  <2>3. \A t \in Trackers : TrackerFits(t)
    BY <2>2, TrackerTyped DEF TrackerFits
  <2>4. ASSUME NEW p \in Paths PROVE RowsNumbered(p) /\ ChangesCounted(p)
    <3>1. rows[p] = <<>> /\ changeLog[p] = <<>> /\ deaths = 0
      BY DEF DocInit
    <3>2. Logging(p) = {} /\ Replacements(p) = {} /\ LoggedChanges(p) = {}
      BY <2>2, <3>1, TrackerTyped DEF Logging, Replacements, LoggedChanges
    <3> QED
      BY <3>1, <3>2, FS_EmptySet DEF RowsNumbered, ChangesCounted
  <2> QED
    BY <2>1, <2>3, <2>4 DEF DocsInv
<1>2. DocsInv /\ [DocNext]_docVars => DocsInv'
  <2> SUFFICES ASSUME DocsInv, [DocNext]_docVars PROVE DocsInv'
    OBVIOUS
  <2>1. CASE UNCHANGED docVars
    BY <2>1 DEF docVars, DocsInv, DocTypeOK, TrackerFits, RowsNumbered, ChangesCounted, Logging,
                Replacements, LoggedChanges
  <2>2. CASE \E p \in Paths, h \in Hashes \cup {NoFile} : Edit(p, h)
    BY <2>2, EditKeeps
  <2>3. CASE \E t \in Trackers : Track(t)
    BY <2>3, TrackerReads, FirstVersionKeeps, ReplaceVersionKeeps, MarkDeletedKeeps, LogChangeKeeps,
       TrackerDiesKeeps DEF Track
  <2> QED
    BY <2>1, <2>2, <2>3 DEF DocNext
<1> QED
  BY <1>1, <1>2, PTL DEF DocSpec

(* Every replacement of a version is logged once, except for those of the  *)
(* trackers that died between the two commits, for any number of trackers  *)
(* on any files (doc_version.py:208-267).                                  *)
THEOREM ReplacementsAreLogged == DocSpec => [](DocTypeOK /\ ReplacementsLogged)
<1>1. DocsInv => DocTypeOK /\ ReplacementsLogged
  BY DEF DocsInv, ReplacementsLogged, Unlogged, ChangesCounted, Logging
<1> QED
  BY <1>1, DocsInvariant, PTL

\* Two rows of a file, a version and the next, as an entry names them.
Succeeds(p, e) ==
    \E i, j \in DOMAIN rows[p] :
        /\ i < j /\ rows[p][i].parse + 1 = e.parse /\ rows[p][j].parse = e.parse
        /\ rows[p][i].sha = e.old /\ rows[p][j].sha = e.new

\* One row of a file is current, and one more for each late write.
CurrentFew(p) == Cardinality(CurrentRows(p)) <= 1 + rowWrites[p].late

\* What a tracker has read is still so, unless the rows were written since.
ReadInTime(t) ==
    LET q == tracker[t]
        p == tracker[t].path
    IN  q.at = "write" =>
            /\ q.seen <= rowWrites[p].all
            /\ q.seen = rowWrites[p].all =>
                   IF q.row = 0 THEN CurrentRows(p) = {} ELSE q.row \in CurrentRows(p)

EntryInHand(t) == tracker[t].at = "log" => Succeeds(tracker[t].path, tracker[t].entry)

EntriesSucceed(p) == \A k \in LoggedChanges(p) : Succeeds(p, changeLog[p][k])

HistoryInv ==
    /\ DocsInv
    /\ \A p \in Paths : CurrentFew(p) /\ EntriesSucceed(p)
    /\ \A t \in Trackers : ReadInTime(t) /\ EntryInHand(t)

(* Every step of a tracker adds rows at most, and takes none.              *)
LEMMA RowsOnlyAdded ==
    ASSUME DocsInv, NEW t \in Trackers, Track(t)
    PROVE  /\ \A p \in Paths : RowsKept(rows[p], rows'[p])
           /\ rows' = rows \/ FirstVersion(t) \/ ReplaceVersion(t) \/ MarkDeleted(t)
<1>1. CASE rows' = rows
  <2>1. \A p \in Paths : Len(rows[p]) \in Nat
    BY DEF DocsInv, DocTypeOK
  <2> QED
    BY <1>1, <2>1 DEF RowsKept
<1>2. rows' = rows \/ FirstVersion(t) \/ ReplaceVersion(t) \/ MarkDeleted(t)
  BY DEF Track, Hash, FindDeleted, SelectRow, SameVersion, LogChange, TrackerDies
<1> QED
  BY <1>1, <1>2, FirstVersionKeeps, ReplaceVersionKeeps, MarkDeletedKeeps

(* Rows that follow each other do so while rows are only added.            *)
LEMMA SucceedsStays ==
    ASSUME DocTypeOK, DocTypeOK', NEW p \in Paths, RowsKept(rows[p], rows'[p]), NEW e, Succeeds(p, e)
    PROVE  \E i, j \in DOMAIN rows'[p] :
               /\ i < j /\ rows'[p][i].parse + 1 = e.parse /\ rows'[p][j].parse = e.parse
               /\ rows'[p][i].sha = e.old /\ rows'[p][j].sha = e.new
<1>1. rows[p] \in Seq(Row) /\ rows'[p] \in Seq(Row)
  BY DEF DocTypeOK
<1>2. /\ DOMAIN rows[p] = 1..Len(rows[p]) /\ DOMAIN rows'[p] = 1..Len(rows'[p])
      /\ Len(rows[p]) \in Nat /\ Len(rows'[p]) \in Nat /\ Len(rows[p]) <= Len(rows'[p])
  BY <1>1 DEF RowsKept
<1>3. PICK i \in DOMAIN rows[p], j \in DOMAIN rows[p] :
          /\ i < j /\ rows[p][i].parse + 1 = e.parse /\ rows[p][j].parse = e.parse
          /\ rows[p][i].sha = e.old /\ rows[p][j].sha = e.new
  BY DEF Succeeds
<1>4. i \in DOMAIN rows'[p] /\ j \in DOMAIN rows'[p]
  BY <1>2, <1>3
<1> QED
  BY <1>3, <1>4 DEF RowsKept

(* The current rows of a file are finitely many, and as often as they are  *)
(* counted the history knows them.                                         *)
LEMMA CurrentFinite ==
    ASSUME DocTypeOK, NEW p \in Paths
    PROVE  /\ IsFiniteSet(CurrentRows(p)) /\ Cardinality(CurrentRows(p)) \in Nat
           /\ rowWrites[p].all \in Nat /\ rowWrites[p].late \in Nat
<1>1. CurrentRows(p) \subseteq 1..Len(rows[p]) /\ Len(rows[p]) \in Nat
  BY FirstCurrent
<1>2. IsFiniteSet(CurrentRows(p))
  <2>1. PICK m : m = Len(rows[p])
    OBVIOUS
  <2>2. m \in Int /\ 1 \in Int
    BY <1>1, <2>1
  <2>3. IsFiniteSet(1..m)
    BY ONLY <2>2, FS_Interval
  <2> QED
    BY <1>1, <2>1, <2>3, FS_Subset
<1>3. rowWrites[p] \in RowWrites
  BY DEF DocTypeOK
<1> QED
  BY <1>2, <1>3, FS_CardinalityType DEF RowWrites

(* A set within another and one more element has at most one more.         *)
LEMMA AtMostOneMore ==
    ASSUME NEW S, IsFiniteSet(S), NEW x, NEW R, R \subseteq S \cup {x}
    PROVE  Cardinality(R) \in Nat /\ Cardinality(R) <= Cardinality(S) + 1
<1>1. PICK T : T = S \cup {x}
  OBVIOUS
<1>2. IsFiniteSet(T) /\ (Cardinality(T) = Cardinality(S) \/ Cardinality(T) = Cardinality(S) + 1)
  BY <1>1, FS_AddElement
<1>3. IsFiniteSet(R) /\ Cardinality(R) <= Cardinality(T)
  BY <1>1, <1>2, FS_Subset
<1>4. Cardinality(R) \in Nat /\ Cardinality(S) \in Nat
  BY <1>3, FS_CardinalityType
<1> QED
  BY <1>2, <1>3, <1>4

(* A first version is current beside late ones only.                       *)
LEMMA FirstIsCurrent ==
    ASSUME HistoryInv, NEW t \in Trackers, FirstVersion(t), NEW p \in Paths
    PROVE  CurrentFew(p)'
<1>1. PICK f, v, n : f = tracker[t].path /\ v = Version(tracker[t].sha, 1) /\ n = tracker[t].seen
  OBVIOUS
<1>2. /\ DocTypeOK /\ f \in Paths /\ tracker[t].sha \in Hashes /\ CurrentFew(p)
      /\ n = rowWrites[f].all => CurrentRows(f) = {}
  BY <1>1 DEF HistoryInv, DocsInv, FirstVersion, TrackerFits, ReadInTime
<1>3. v \in Row
  BY <1>1, <1>2 DEF Version, Row
<1>4. rows[p] \in Seq(Row) /\ rows'[p] = IF p = f THEN Append(rows[p], v) ELSE rows[p]
  BY <1>1, <1>2 DEF DocTypeOK, FirstVersion
<1>5. /\ rowWrites'[f].late = IF n = rowWrites[f].all THEN rowWrites[f].late ELSE rowWrites[f].late + 1
      /\ p # f => rowWrites'[p] = rowWrites[p]
  <2>1. WriteRows(f, n)
    BY <1>1 DEF FirstVersion
  <2> QED
    BY <1>2, <2>1, RowWritesTyped
<1>6. /\ IsFiniteSet(CurrentRows(p)) /\ Cardinality(CurrentRows(p)) \in Nat /\ rowWrites[p].late \in Nat
  BY <1>2, CurrentFinite
<1>7. CASE p = f
  <2>1. Extended(rows[p], rows'[p], v)
    BY <1>3, <1>4, <1>7, RowAppended
  <2>2. PICK m : m = Len(rows[p]) + 1
    OBVIOUS
  <2>3. CurrentRows(p)' \subseteq CurrentRows(p) \cup {m}
    BY <2>1, <2>2 DEF Extended, CurrentRows
  <2>4. Cardinality(CurrentRows(p)') \in Nat /\ Cardinality(CurrentRows(p)') <= Cardinality(CurrentRows(p)) + 1
    BY <1>6, <2>3, AtMostOneMore
  <2>5. CASE n = rowWrites[f].all
    <3>1. Cardinality(CurrentRows(p)) = 0
      BY <1>2, <1>7, <2>5, FS_EmptySet
    <3> QED
      BY <1>5, <1>6, <1>7, <2>4, <2>5, <3>1 DEF CurrentFew
  <2>6. CASE n # rowWrites[f].all
    BY <1>2, <1>5, <1>6, <1>7, <2>4, <2>6 DEF CurrentFew
  <2> QED
    BY <2>5, <2>6
<1>8. CASE p # f
  BY <1>2, <1>4, <1>5, <1>8 DEF CurrentFew, CurrentRows
<1> QED
  BY <1>7, <1>8

(* A tracker that nobody has overtaken puts a row in the place of one.     *)
LEMMA SuccessorIsCurrent ==
    ASSUME HistoryInv, NEW t \in Trackers, ReplaceVersion(t)
    PROVE  /\ \A p \in Paths : CurrentFew(p)'
           /\ EntryInHand(t)' /\ tracker'[t].at = "log"
<1>1. PICK f, k, n, old : f = tracker[t].path /\ k = tracker[t].row /\ n = tracker[t].seen /\ old = rows[f][k]
  OBVIOUS
<1>2. PICK g, v, e : /\ g = Retired(rows[f], k) /\ v = Version(tracker[t].sha, old.parse + 1)
                     /\ e = [kind |-> "modified", old |-> old.sha, new |-> tracker[t].sha,
                             parse |-> old.parse + 1]
  OBVIOUS
<1>3. /\ DocTypeOK /\ f \in Paths /\ tracker[t].sha \in Hashes
      /\ k <= Len(rows[f]) /\ k # 0 /\ k \in Nat /\ rows[f] \in Seq(Row)
      /\ n = rowWrites[f].all => k \in CurrentRows(f)
  BY <1>1 DEF HistoryInv, DocsInv, DocTypeOK, ReplaceVersion, TrackerFits, ReadInTime
<1>4. k \in DOMAIN rows[f] /\ old \in Row /\ \A p \in Paths : CurrentFew(p)
  BY <1>1, <1>3 DEF HistoryInv
<1>5. v \in Row /\ v.sha = e.new /\ v.parse = e.parse /\ e.old = old.sha /\ e.parse = old.parse + 1
  BY <1>2, <1>3, <1>4 DEF Version, Row
<1>6. \A p \in Paths : rows'[p] = IF p = f THEN Append(g, v) ELSE rows[p]
  <2>1. rows' = [rows EXCEPT ![f] = Append([rows[f] EXCEPT ![k].current = FALSE], v)]
    BY <1>1, <1>2 DEF ReplaceVersion
  <2> QED
    BY <1>2, <1>3, <2>1 DEF DocTypeOK, Retired
<1>7. g \in Seq(Row) /\ Len(g) = Len(rows[f]) /\ RowsKept(rows[f], g) /\ ~g[k].current
  BY <1>2, <1>3, <1>4, RowRetired
<1>8. Extended(g, rows'[f], v)
  <2>1. rows'[f] = Append(g, v)
    BY <1>3, <1>6
  <2> QED
    BY <1>5, <1>7, <2>1, RowAppended
<1>9. PICK m : m = Len(rows[f])
  OBVIOUS
<1>10. /\ m \in Nat /\ DOMAIN rows[f] = 1..m /\ DOMAIN rows'[f] = 1..(m + 1)
       /\ rows'[f][m + 1] = v /\ \A i \in 1..m : rows'[f][i] = g[i]
  BY <1>3, <1>7, <1>8, <1>9 DEF Extended
<1>11. /\ rowWrites'[f].late = IF n = rowWrites[f].all THEN rowWrites[f].late ELSE rowWrites[f].late + 1
       /\ \A p \in Paths : p # f => rowWrites'[p] = rowWrites[p]
  <2>1. WriteRows(f, n)
    BY <1>1 DEF ReplaceVersion
  <2> QED
    BY <1>3, <2>1, RowWritesTyped
<1>12. CurrentFew(f)'
  <2>1. CurrentRows(f)' \subseteq (CurrentRows(f) \ {k}) \cup {m + 1}
    BY <1>7, <1>10 DEF RowsKept, CurrentRows
  <2>2. /\ IsFiniteSet(CurrentRows(f)) /\ Cardinality(CurrentRows(f)) \in Nat /\ rowWrites[f].late \in Nat
    BY <1>3, CurrentFinite
  <2>3. PICK rest : rest = CurrentRows(f) \ {k}
    OBVIOUS
  <2>4. /\ IsFiniteSet(rest) /\ Cardinality(rest) \in Nat
        /\ Cardinality(rest) = IF k \in CurrentRows(f) THEN Cardinality(CurrentRows(f)) - 1
                               ELSE Cardinality(CurrentRows(f))
    BY <2>2, <2>3, FS_RemoveElement, FS_CardinalityType
  <2>5. Cardinality(CurrentRows(f)') \in Nat /\ Cardinality(CurrentRows(f)') <= Cardinality(rest) + 1
    <3>1. CurrentRows(f)' \subseteq rest \cup {m + 1}
      BY <2>1, <2>3
    <3> QED
      BY <2>4, <3>1, AtMostOneMore
  <2>6. CurrentFew(f)
    BY <1>3, <1>4
  <2> QED
    BY <1>3, <1>11, <2>2, <2>4, <2>5, <2>6 DEF CurrentFew
<1>13. ASSUME NEW p \in Paths PROVE CurrentFew(p)'
  <2>1. CASE p # f
    BY <1>4, <1>6, <1>11, <2>1 DEF CurrentFew, CurrentRows
  <2> QED
    BY <1>12, <2>1
<1>14. tracker'[t].at = "log" /\ tracker'[t].path = f /\ tracker'[t].entry = e
  <2>1. tracker' = [tracker EXCEPT ![t].at = "log", ![t].entry = e]
    BY <1>1, <1>2 DEF ReplaceVersion
  <2> QED
    BY ONLY <1>1, <1>3, <2>1 DEF DocTypeOK
<1>15. EntryInHand(t)'
  <2>1. rows'[f][k].sha = old.sha /\ rows'[f][k].parse = old.parse
    BY <1>1, <1>4, <1>7, <1>10 DEF RowsKept
  <2>2. /\ k \in DOMAIN rows'[f] /\ m + 1 \in DOMAIN rows'[f] /\ k < m + 1
        /\ rows'[f][m + 1].parse = e.parse /\ rows'[f][m + 1].sha = e.new
    BY <1>3, <1>5, <1>9, <1>10
  <2>3. Succeeds(f, e)'
    BY <1>5, <2>1, <2>2 DEF Succeeds
  <2> QED
    BY <1>14, <2>3 DEF EntryInHand, Succeeds
<1> QED
  BY <1>13, <1>14, <1>15

(* A file that is marked as deleted has no current row.                    *)
LEMMA NoneIsCurrent ==
    ASSUME HistoryInv, NEW t \in Trackers, MarkDeleted(t), NEW p \in Paths
    PROVE  CurrentFew(p)'
<1>1. PICK f : f = tracker[t].path
  OBVIOUS
<1>2. DocTypeOK /\ f \in Paths /\ CurrentFew(p) /\ rows[f] \in Seq(Row)
  BY <1>1 DEF HistoryInv, DocsInv, DocTypeOK, MarkDeleted, TrackerFits
<1>3. rows'[p] = IF p = f THEN AllRetired(rows[f]) ELSE rows[p]
  <2>1. rows' = [rows EXCEPT ![f] = [i \in DOMAIN rows[f] |-> [rows[f][i] EXCEPT !.current = FALSE]]]
    BY <1>1 DEF MarkDeleted
  <2>2. rows' = [rows EXCEPT ![f] = AllRetired(rows[f])]
    BY <2>1 DEF AllRetired
  <2> QED
    BY <1>2, <2>2 DEF DocTypeOK
<1>4. /\ rowWrites'[f].late = rowWrites[f].late /\ rowWrites[f].late \in Nat
      /\ p # f => rowWrites'[p] = rowWrites[p]
  <2>1. WriteRows(f, rowWrites[f].all)
    BY <1>1 DEF MarkDeleted
  <2>2. rowWrites'[f].late = rowWrites[f].late /\ (p # f => rowWrites'[p] = rowWrites[p])
    BY <1>2, <2>1, RowWritesTyped
  <2> QED
    BY <1>2, <2>2, CurrentFinite
<1>5. CASE p = f
  <2>1. /\ Len(AllRetired(rows[f])) = Len(rows[f]) /\ AllRetired(rows[f]) \in Seq(Row)
        /\ \A i \in DOMAIN rows[f] : ~AllRetired(rows[f])[i].current
    BY <1>2, RowsRetired
  <2>2. DOMAIN AllRetired(rows[f]) = DOMAIN rows[f]
    BY <1>2, <2>1
  <2>3. CurrentRows(p)' = {}
    BY <1>3, <1>5, <2>1, <2>2 DEF CurrentRows
  <2>4. Cardinality(CurrentRows(p)') = 0
    BY <2>3, FS_EmptySet
  <2> QED
    BY <1>4, <1>5, <2>4 DEF CurrentFew
<1>6. CASE p # f
  BY <1>2, <1>3, <1>4, <1>6 DEF CurrentFew, CurrentRows
<1> QED
  BY <1>5, <1>6

(* A tracker that writes the rows of a file overtakes all that read them.  *)
LEMMA WriteOvertakes ==
    ASSUME HistoryInv, NEW t \in Trackers, NEW f \in Paths, NEW n, WriteRows(f, n),
           NEW q, q.at # "write", tracker' = [tracker EXCEPT ![t] = q],
           \A p \in Paths : p # f => rows'[p] = rows[p]
    PROVE  \A u \in Trackers : ReadInTime(u)'
<1>1. DocTypeOK
  BY DEF HistoryInv, DocsInv
<1>2. \A u \in Trackers : tracker'[u] = IF u = t THEN q ELSE tracker[u]
  BY <1>1 DEF DocTypeOK
<1>3. /\ rowWrites'[f].all = rowWrites[f].all + 1 /\ rowWrites[f].all \in Nat
      /\ \A p \in Paths : p # f => rowWrites'[p] = rowWrites[p]
  BY <1>1, RowWritesTyped, CurrentFinite
<1> SUFFICES ASSUME NEW u \in Trackers, tracker'[u].at = "write" PROVE ReadInTime(u)'
  BY DEF ReadInTime
<1>4. PICK g, r, k : g = tracker[u].path /\ r = tracker[u].row /\ k = tracker[u].seen
  OBVIOUS
<1>5. /\ tracker'[u].path = g /\ tracker'[u].row = r /\ tracker'[u].seen = k
      /\ tracker[u].at = "write" /\ g \in Paths /\ k \in Nat
  BY <1>1, <1>2, <1>4 DEF HistoryInv, DocsInv, TrackerFits, DocTypeOK
<1>6. /\ k <= rowWrites[g].all
      /\ k = rowWrites[g].all => IF r = 0 THEN CurrentRows(g) = {} ELSE r \in CurrentRows(g)
  BY <1>4, <1>5 DEF HistoryInv, ReadInTime
<1>7. /\ k <= rowWrites'[g].all
      /\ k = rowWrites'[g].all => IF r = 0 THEN CurrentRows(g)' = {} ELSE r \in CurrentRows(g)'
  <2>1. CASE g = f
    BY <1>3, <1>5, <1>6, <2>1
  <2>2. CASE g # f
    BY <1>3, <1>5, <1>6, <2>2 DEF CurrentRows
  <2> QED
    BY <2>1, <2>2
<1> QED
  BY <1>5, <1>7 DEF ReadInTime, CurrentRows

(* A tracker that only moves itself leaves the others in time.             *)
LEMMA ReadersStay ==
    ASSUME HistoryInv, NEW t \in Trackers, NEW q, tracker' = [tracker EXCEPT ![t] = q],
           UNCHANGED <<rows, rowWrites>>,
           q.at = "write" =>
               /\ q.seen <= rowWrites[q.path].all
               /\ q.seen = rowWrites[q.path].all =>
                      IF q.row = 0 THEN CurrentRows(q.path) = {} ELSE q.row \in CurrentRows(q.path)
    PROVE  \A u \in Trackers : ReadInTime(u)'
<1>1. \A u \in Trackers : tracker'[u] = IF u = t THEN q ELSE tracker[u]
  BY DEF HistoryInv, DocsInv, DocTypeOK
<1> SUFFICES ASSUME NEW u \in Trackers PROVE ReadInTime(u)'
  OBVIOUS
<1>2. CASE u = t
  BY <1>1, <1>2 DEF ReadInTime, CurrentRows
<1>3. CASE u # t
  <2>1. tracker'[u] = tracker[u] /\ ReadInTime(u)
    BY <1>1, <1>3 DEF HistoryInv
  <2> QED
    BY <2>1 DEF ReadInTime, CurrentRows
<1> QED
  BY <1>2, <1>3

(* Whatever a tracker does, the others know what they have read in time.   *)
LEMMA ReadInTimeStays ==
    ASSUME HistoryInv, NEW t \in Trackers, Track(t)
    PROVE  \A u \in Trackers : ReadInTime(u)'
<1>1. DocTypeOK /\ TrackerFits(t) /\ AtRest.at = "idle"
  BY TrackerTyped DEF HistoryInv, DocsInv
<1>2. PICK f : f = tracker[t].path
  OBVIOUS
<1>3. CASE SelectRow(t)
  <2>1. f \in Paths
    BY <1>1, <1>2, <1>3 DEF SelectRow, TrackerFits
  <2>2. PICK r, n : r = FirstRow(f) /\ n = rowWrites[f].all
    OBVIOUS
  <2>3. PICK q : q = [tracker[t] EXCEPT !.at = "write", !.row = r, !.seen = n]
    OBVIOUS
  <2>4. tracker' = [tracker EXCEPT ![t] = q] /\ UNCHANGED <<rows, rowWrites>>
    BY <1>2, <1>3, <2>2, <2>3 DEF SelectRow
  <2>5. q.row = r /\ q.seen = n /\ q.path = f
    BY <1>1, <1>2, <2>3 DEF DocTypeOK
  <2>6. n \in Nat /\ CurrentRows(f) \subseteq 1..Len(rows[f]) /\ Len(rows[f]) \in Nat
        /\ IF CurrentRows(f) = {} THEN r = 0 ELSE r \in CurrentRows(f)
    BY <1>1, <2>1, <2>2, FirstCurrent, CurrentFinite
  <2>7. n <= rowWrites[f].all /\ IF r = 0 THEN CurrentRows(f) = {} ELSE r \in CurrentRows(f)
    BY <2>2, <2>6
  <2> QED
    BY <2>4, <2>5, <2>7, ReadersStay
<1>4. CASE FirstVersion(t)
  <2>1. f \in Paths
    BY <1>1, <1>2, <1>4 DEF FirstVersion, TrackerFits
  <2>2. /\ WriteRows(f, tracker[t].seen) /\ tracker' = [tracker EXCEPT ![t] = AtRest]
        /\ \A p \in Paths : p # f => rows'[p] = rows[p]
    BY <1>1, <1>2, <1>4 DEF FirstVersion, DocTypeOK
  <2> QED
    BY <1>1, <2>1, <2>2, WriteOvertakes
<1>5. CASE ReplaceVersion(t)
  <2>1. f \in Paths
    BY <1>1, <1>2, <1>5 DEF ReplaceVersion, TrackerFits
  <2>2. WriteRows(f, tracker[t].seen) /\ \A p \in Paths : p # f => rows'[p] = rows[p]
    BY <1>1, <1>2, <1>5 DEF ReplaceVersion, DocTypeOK
  <2>3. PICK e : tracker' = [tracker EXCEPT ![t].at = "log", ![t].entry = e]
    BY <1>5 DEF ReplaceVersion
  <2>4. PICK q : q = [tracker[t] EXCEPT !.at = "log", !.entry = e]
    OBVIOUS
  <2>5. tracker' = [tracker EXCEPT ![t] = q] /\ q.at = "log"
    BY ONLY <1>1, <2>3, <2>4 DEF DocTypeOK
  <2> QED
    BY <2>1, <2>2, <2>5, WriteOvertakes
<1>6. CASE MarkDeleted(t)
  <2>1. f \in Paths
    BY <1>1, <1>2, <1>6 DEF MarkDeleted, TrackerFits
  <2>2. /\ WriteRows(f, rowWrites[f].all) /\ tracker' = [tracker EXCEPT ![t] = AtRest]
        /\ \A p \in Paths : p # f => rows'[p] = rows[p]
    BY <1>1, <1>2, <1>6 DEF MarkDeleted, DocTypeOK
  <2> QED
    BY <1>1, <2>1, <2>2, WriteOvertakes
<1>7. CASE SameVersion(t) \/ LogChange(t) \/ TrackerDies(t) \/ \E p \in Paths : Hash(t, p) \/ FindDeleted(t, p)
  <2>1. /\ UNCHANGED <<rows, rowWrites>>
        /\ \/ \E p \in Paths : tracker' = [tracker EXCEPT ![t] = Hashed(p, content[p])]
           \/ \E p \in Paths : tracker' = [tracker EXCEPT ![t] = Gone(p)]
           \/ tracker' = [tracker EXCEPT ![t] = AtRest]
    BY <1>7 DEF Hash, FindDeleted, SameVersion, LogChange, TrackerDies, Hashed, Gone
  <2>2. \A p : Gone(p).at = "delete" /\ Hashed(p, content[p]).at = "select"
    BY DEF AtRest, Gone, Hashed
  <2>3. PICK q : tracker' = [tracker EXCEPT ![t] = q] /\ q.at # "write"
    BY <1>1, <2>1, <2>2
  <2> QED
    BY <2>1, <2>3, ReadersStay
<1> QED
  BY <1>3, <1>4, <1>5, <1>6, <1>7 DEF Track

(* The entry a tracker has in hand names rows that are there, and so does  *)
(* every entry it logs.                                                    *)
LEMMA EntriesNameRows ==
    ASSUME HistoryInv, DocsInv', NEW t \in Trackers, Track(t)
    PROVE  EntryInHand(t)' /\ \A p \in Paths : EntriesSucceed(p)'
<1>1. DocTypeOK /\ DocTypeOK' /\ \A p \in Paths : RowsKept(rows[p], rows'[p])
  BY RowsOnlyAdded DEF HistoryInv, DocsInv
<1>2. EntryInHand(t)'
  <2>1. CASE ReplaceVersion(t)
    BY <2>1, SuccessorIsCurrent
  <2>2. CASE ~ReplaceVersion(t)
    <3>1. \/ \E p \in Paths : tracker' = [tracker EXCEPT ![t] = Hashed(p, content[p])]
          \/ \E p \in Paths : tracker' = [tracker EXCEPT ![t] = Gone(p)]
          \/ tracker' = [tracker EXCEPT ![t] = AtRest]
          \/ SelectRow(t)
      BY <2>2 DEF Track, Hash, FindDeleted, MarkDeleted, FirstVersion, SameVersion, LogChange, TrackerDies,
                  Hashed, Gone
    <3>2. /\ AtRest.at = "idle" /\ \A p : Gone(p).at = "delete"
          /\ \A p : Hashed(p, content[p]).at = "select"
      BY DEF AtRest, Gone, Hashed
    <3>3. CASE SelectRow(t)
      <4>1. PICK r, n : tracker' = [tracker EXCEPT ![t] = [@ EXCEPT !.at = "write", !.row = r, !.seen = n]]
        BY <3>3 DEF SelectRow
      <4>2. tracker'[t].at = "write"
        BY ONLY <1>1, <4>1 DEF DocTypeOK
      <4> QED
        BY <4>2 DEF EntryInHand
    <3>4. CASE ~SelectRow(t)
      <4>1. tracker'[t].at # "log"
        BY <1>1, <3>1, <3>2, <3>4 DEF DocTypeOK
      <4> QED
        BY <4>1 DEF EntryInHand
    <3> QED
      BY <3>3, <3>4
  <2> QED
    BY <2>1, <2>2
<1>3. ASSUME NEW p \in Paths, NEW e, Succeeds(p, e) PROVE Succeeds(p, e)'
  BY <1>1, <1>3, SucceedsStays DEF Succeeds
<1>4. ASSUME NEW p \in Paths PROVE EntriesSucceed(p)'
  <2>1. EntriesSucceed(p) /\ changeLog[p] \in Seq(LogEntry)
    BY <1>1 DEF HistoryInv, DocTypeOK
  <2>2. CASE changeLog'[p] = changeLog[p]
    <3>1. LoggedChanges(p)' = LoggedChanges(p)
      BY <2>2 DEF LoggedChanges
    <3> QED
      BY <1>3, <2>1, <2>2, <3>1 DEF EntriesSucceed, Succeeds
  <2>3. CASE changeLog'[p] # changeLog[p]
    <3>1. PICK e : /\ changeLog'[p] = Append(changeLog[p], e) /\ e \in LogEntry
                   /\ e.kind = "modified" => Succeeds(p, e)
      <4>1. CASE LogChange(t)
        <5>1. tracker[t].path \in Paths /\ tracker[t].at = "log" /\ tracker[t].entry \in LogEntry
              /\ Succeeds(tracker[t].path, tracker[t].entry)
          BY <1>1, <4>1 DEF LogChange, HistoryInv, DocsInv, TrackerFits, EntryInHand, DocTypeOK
        <5>2. changeLog' = [changeLog EXCEPT ![tracker[t].path] = Append(@, tracker[t].entry)]
          BY <4>1 DEF LogChange
        <5>3. p = tracker[t].path /\ changeLog'[p] = Append(changeLog[p], tracker[t].entry)
          BY <1>1, <2>3, <5>1, <5>2 DEF DocTypeOK
        <5> QED
          BY <5>1, <5>3
      <4>2. CASE MarkDeleted(t)
        <5>1. changeLog' = [changeLog EXCEPT ![tracker[t].path] = Append(@, NoEntry)]
          BY <4>2 DEF MarkDeleted
        <5>2. changeLog'[p] = Append(changeLog[p], NoEntry)
          BY <1>1, <2>3, <5>1 DEF DocTypeOK
        <5> QED
          BY <5>2, TrackerTyped
      <4>3. changeLog' = changeLog \/ LogChange(t) \/ MarkDeleted(t)
        BY DEF Track, Hash, FindDeleted, SelectRow, FirstVersion, SameVersion, ReplaceVersion, TrackerDies
      <4> QED
        BY <2>3, <4>1, <4>2, <4>3
    <3>2. Extended(changeLog[p], changeLog'[p], e)
      BY <2>1, <3>1, RowAppended
    <3>3. ASSUME NEW k \in LoggedChanges(p)' PROVE Succeeds(p, changeLog'[p][k])
      <4>1. k \in DOMAIN changeLog'[p] /\ changeLog'[p][k].kind = "modified"
        BY <3>3 DEF LoggedChanges
      <4>2. CASE k = Len(changeLog[p]) + 1
        BY <3>1, <3>2, <4>1, <4>2 DEF Extended
      <4>3. CASE k # Len(changeLog[p]) + 1
        <5>1. k \in DOMAIN changeLog[p] /\ changeLog'[p][k] = changeLog[p][k]
          BY <3>2, <4>1, <4>3 DEF Extended
        <5>2. k \in LoggedChanges(p)
          BY <4>1, <5>1 DEF LoggedChanges
        <5> QED
          BY <2>1, <5>1, <5>2 DEF EntriesSucceed
      <4> QED
        BY <4>2, <4>3
    <3>4. ASSUME NEW k \in LoggedChanges(p)'
          PROVE  \E i, j \in DOMAIN rows'[p] :
                     /\ i < j
                     /\ rows'[p][i].parse + 1 = changeLog'[p][k].parse /\ rows'[p][j].parse = changeLog'[p][k].parse
                     /\ rows'[p][i].sha = changeLog'[p][k].old /\ rows'[p][j].sha = changeLog'[p][k].new
      BY <1>1, <3>3, <3>4, SucceedsStays
    <3> QED
      BY <3>4 DEF EntriesSucceed, Succeeds
  <2> QED
    BY <2>2, <2>3
<1> QED
  BY <1>2, <1>4

(* The history of a file stays what the trackers made of it.               *)
LEMMA HistoryInvariant == DocSpec => []HistoryInv
<1>1. DocInit => \A p \in Paths : CurrentFew(p) /\ EntriesSucceed(p)
  <2> SUFFICES ASSUME DocInit, NEW p \in Paths PROVE CurrentFew(p) /\ EntriesSucceed(p)
    OBVIOUS
  <2>1. rows[p] = <<>> /\ changeLog[p] = <<>> /\ rowWrites[p].late = 0
    BY DEF DocInit
  <2>2. CurrentRows(p) = {} /\ LoggedChanges(p) = {}
    BY <2>1 DEF CurrentRows, LoggedChanges
  <2>3. Cardinality(CurrentRows(p)) = 0
    BY <2>2, FS_EmptySet
  <2> QED
    BY <2>1, <2>2, <2>3 DEF CurrentFew, EntriesSucceed
<1>2. DocInit => \A t \in Trackers : ReadInTime(t) /\ EntryInHand(t)
  <2>1. DocInit => \A t \in Trackers : tracker[t].at = "idle"
    BY TrackerTyped DEF DocInit
  <2> QED
    BY <2>1 DEF ReadInTime, EntryInHand
<1>3. HistoryInv /\ DocsInv' /\ [DocNext]_docVars => HistoryInv'
  <2> SUFFICES ASSUME HistoryInv, DocsInv', [DocNext]_docVars PROVE HistoryInv'
    OBVIOUS
  <2>1. CASE UNCHANGED docVars \/ \E p \in Paths, h \in Hashes \cup {NoFile} : Edit(p, h)
    <3>1. UNCHANGED <<rows, changeLog, tracker, rowWrites>>
      BY <2>1 DEF docVars, Edit
    <3> QED
      BY <3>1 DEF HistoryInv, CurrentFew, EntriesSucceed, ReadInTime, EntryInHand, CurrentRows,
                  LoggedChanges, Succeeds
  <2>2. ASSUME NEW t \in Trackers, Track(t) PROVE HistoryInv'
    <3>1. EntryInHand(t)' /\ \A p \in Paths : EntriesSucceed(p)'
      BY <2>2, EntriesNameRows
    <3>2. \A u \in Trackers : ReadInTime(u)'
      BY <2>2, ReadInTimeStays
    <3>3. ASSUME NEW p \in Paths PROVE CurrentFew(p)'
      <4>1. rows' = rows \/ FirstVersion(t) \/ ReplaceVersion(t) \/ MarkDeleted(t)
        BY <2>2, RowsOnlyAdded DEF HistoryInv
      <4>2. CASE UNCHANGED <<rows, rowWrites>>
        BY <4>2 DEF HistoryInv, CurrentFew, CurrentRows
      <4>3. UNCHANGED <<rows, rowWrites>> \/ FirstVersion(t) \/ ReplaceVersion(t) \/ MarkDeleted(t)
        BY <2>2 DEF Track, Hash, FindDeleted, SelectRow, SameVersion, LogChange, TrackerDies
      <4> QED
        BY <4>2, <4>3, FirstIsCurrent, SuccessorIsCurrent, NoneIsCurrent
    <3>4. ASSUME NEW u \in Trackers, u # t PROVE EntryInHand(u)'
      <4>1. DocTypeOK /\ DocTypeOK' /\ TrackerFits(u) /\ EntryInHand(u)
            /\ \A p \in Paths : RowsKept(rows[p], rows'[p])
        BY <2>2, RowsOnlyAdded DEF HistoryInv, DocsInv
      <4>2. tracker'[u] = tracker[u]
        <5>1. \E q : tracker' = [tracker EXCEPT ![t] = q]
          <6>1. CASE ReplaceVersion(t)
            <7>1. PICK e : tracker' = [tracker EXCEPT ![t].at = "log", ![t].entry = e]
              BY <6>1 DEF ReplaceVersion
            <7>2. tracker' = [tracker EXCEPT ![t] = [tracker[t] EXCEPT !.at = "log", !.entry = e]]
              BY ONLY <4>1, <7>1 DEF DocTypeOK
            <7> QED
              BY <7>2
          <6>2. CASE SelectRow(t)
            BY <6>2 DEF SelectRow
          <6>3. CASE ~SelectRow(t) /\ ~ReplaceVersion(t)
            BY <2>2, <6>3 DEF Track, Hash, FindDeleted, MarkDeleted, FirstVersion, SameVersion, LogChange,
                              TrackerDies
          <6> QED
            BY <6>1, <6>2, <6>3
        <5> QED
          BY <3>4, <4>1, <5>1 DEF DocTypeOK
      <4>3. CASE tracker[u].at = "log"
        <5>1. PICK p, e : p = tracker[u].path /\ e = tracker[u].entry
          OBVIOUS
        <5>2. p \in Paths /\ Succeeds(p, e)
          BY <4>1, <4>3, <5>1 DEF TrackerFits, EntryInHand
        <5>3. Succeeds(p, e)'
          BY <4>1, <5>2, SucceedsStays DEF Succeeds
        <5> QED
          BY <4>2, <5>1, <5>3 DEF EntryInHand, Succeeds
      <4> QED
        BY <4>2, <4>3 DEF EntryInHand
    <3> QED
      BY <3>1, <3>2, <3>3, <3>4 DEF HistoryInv
  <2> QED
    BY <2>1, <2>2 DEF DocNext
<1>4. HistoryInv => DocsInv
  BY DEF HistoryInv
<1>5. DocInit /\ DocsInv => HistoryInv
  BY <1>1, <1>2 DEF HistoryInv
<1> QED
  BY <1>3, <1>4, <1>5, DocsInvariant, PTL DEF DocSpec

(* One row of a file is current, and no more than one more for each time a *)
(* tracker wrote rows that another had written since it read them; and a   *)
(* log entry names a version and the next one, for any number of trackers  *)
(* (doc_version.py:177-267).                                               *)
THEOREM HistoryIsTold == DocSpec => [](OneCurrentVersion /\ LogMatchesRows)
<1>1. HistoryInv => OneCurrentVersion
  BY DEF HistoryInv, CurrentFew, OneCurrentVersion
<1>2. HistoryInv => LogMatchesRows
  BY DEF HistoryInv, EntriesSucceed, Succeeds, LogMatchesRows
<1> QED
  BY <1>1, <1>2, HistoryInvariant, PTL
-----------------------------------------------------------------------------
(* The register of risks. *)

FindingRecords == [hash : RiskTasks \X RuleTypes \X RiskStatuses, rule : Nat, severity : Severities]

\* What a scan finds in the tasks it has read.
FindingsOf(s) == AllFindings(scanner[s].tasks, DefaultRules, scanner[s].day, NoClaims)

(* The image of a finite set is finite.                                    *)
LEMMA FiniteImage ==
    ASSUME NEW S, IsFiniteSet(S), NEW f, f = [x \in S |-> f[x]]
    PROVE  IsFiniteSet({f[x] : x \in S})
<1> DEFINE T == {f[x] : x \in S}
<1>1. f \in Surjection(S, T)
  BY DEF Surjection
<1> HIDE DEF T
<1>2. IsFiniteSet(T)
  BY <1>1, FS_Surjection
<1> QED
  BY <1>2 DEF T

(* The default rules.                                                      *)
LEMMA RulesTyped ==
    /\ DOMAIN DefaultRules = 1..6
    /\ \A r \in DOMAIN DefaultRules : DefaultRules[r].type \in RuleTypes /\ DefaultRules[r].severity \in Severities
<1>1. DOMAIN DefaultRules = 1..6
  BY DEF DefaultRules
<1>2. \A ty, sev : Rule(ty, sev).type = ty /\ Rule(ty, sev).severity = sev
  BY DEF Rule
<1>3. /\ DefaultRules[1] = Rule("near_deadline", "medium") /\ DefaultRules[2] = Rule("overdue", "high")
      /\ DefaultRules[3] = Rule("no_evidence", "high") /\ DefaultRules[4] = Rule("acceptance_gap", "medium")
      /\ DefaultRules[5] = Rule("dependency_block", "high") /\ DefaultRules[6] = Rule("material_conflict", "high")
  BY DEF DefaultRules
<1>4. \A r \in 1..6 : r = 1 \/ r = 2 \/ r = 3 \/ r = 4 \/ r = 5 \/ r = 6
  OBVIOUS
<1>5. \A r \in 1..6 : \E ty \in RuleTypes, sev \in Severities : DefaultRules[r] = Rule(ty, sev)
  BY <1>3, <1>4 DEF RuleTypes, Severities
<1> QED
  BY <1>1, <1>2, <1>5

(* A finding is of a task of the project and has the severity of its rule. *)
LEMMA FindingTyped ==
    ASSUME NEW tasks \in SUBSET BoardTasks, NEW on, NEW f \in AllFindings(tasks, DefaultRules, on, NoClaims)
    PROVE  f \in FindingRecords /\ f.severity = DefaultRules[f.rule].severity
<1>1. PICK task \in tasks, r \in DOMAIN DefaultRules : f = Finding(task, DefaultRules, r)
  BY DEF AllFindings
<1>2. task.id \in RiskTasks /\ task.status \in RiskStatuses
  BY DEF BoardTasks
<1>4. r \in Nat /\ DefaultRules[r].type \in RuleTypes /\ DefaultRules[r].severity \in Severities
  BY RulesTyped
<1>5. f = [hash |-> <<task.id, DefaultRules[r].type, task.status>>, rule |-> r,
           severity |-> DefaultRules[r].severity]
  BY <1>1 DEF Finding, RiskHash
<1> QED
  BY <1>2, <1>4, <1>5 DEF FindingRecords

(* A finite board has finitely many findings.                              *)
LEMMA FindingsFinite ==
    ASSUME NEW tasks, IsFiniteSet(tasks), NEW on
    PROVE  IsFiniteSet(AllFindings(tasks, DefaultRules, on, NoClaims))
<1> DEFINE P == {p \in tasks \X DOMAIN DefaultRules :
                     /\ DefaultRules[p[2]].settings.enabled
                     /\ Finds(DefaultRules[p[2]], p[1], tasks, on, NoClaims)}
<1>1. IsFiniteSet(DOMAIN DefaultRules)
  <2>1. PICK n \in Int : n = 6
    OBVIOUS
  <2>2. IsFiniteSet(1..n)
    BY FS_Interval
  <2> QED
    BY <2>1, <2>2, RulesTyped
<1>2. IsFiniteSet(tasks \X DOMAIN DefaultRules)
  BY <1>1, FS_Product
<1>3. IsFiniteSet(P)
  BY <1>2, FS_Subset
<1> DEFINE f == [p \in P |-> Finding(p[1], DefaultRules, p[2])]
<1>4. IsFiniteSet({f[p] : p \in P})
  <2> HIDE DEF P
  <2>1. PICK g : g = f
    OBVIOUS
  <2>2. g = [x \in P |-> g[x]]
    BY <2>1
  <2> QED
    BY <1>3, <2>1, <2>2, FiniteImage
<1>5. {f[p] : p \in P} = AllFindings(tasks, DefaultRules, on, NoClaims)
  BY DEF AllFindings
<1> QED
  BY <1>4, <1>5

(* Of the findings with one hash a scan keeps one, unless it is known.     *)
LEMMA FindingsKept ==
    ASSUME NEW tasks \in SUBSET BoardTasks, IsFiniteSet(tasks), NEW on, NEW known,
           NEW found, found = EvaluateRisks(tasks, DefaultRules, on, NoClaims, known)
    PROVE  LET all == AllFindings(tasks, DefaultRules, on, NoClaims)
           IN  /\ IsFiniteSet(found) /\ found \subseteq all /\ found \subseteq FindingRecords
               /\ \A f, g \in found : f.hash = g.hash => f = g
               /\ \A f \in found : f.hash \notin known
               /\ \A f \in all : f.hash \in known \/ \E g \in found : g.hash = f.hash
<1>1. PICK all : all = AllFindings(tasks, DefaultRules, on, NoClaims)
  OBVIOUS
<1>2. found = {f \in all : f.hash \notin known /\ \A g \in all : g.hash = f.hash => f.rule <= g.rule}
  BY <1>1 DEF EvaluateRisks, UniqueFindings
<1>3. IsFiniteSet(all) /\ \A f \in all : f \in FindingRecords /\ f.severity = DefaultRules[f.rule].severity
  BY <1>1, FindingsFinite, FindingTyped
<1>4. IsFiniteSet(found) /\ found \subseteq all /\ \A f \in found : f.hash \notin known
  BY <1>2, <1>3, FS_Subset
<1>5. ASSUME NEW f \in found, NEW g \in found, f.hash = g.hash PROVE f = g
  <2>1. f \in FindingRecords /\ g \in FindingRecords /\ f.rule <= g.rule /\ g.rule <= f.rule
    BY <1>2, <1>3, <1>5
  <2>2. f.rule = g.rule /\ f.severity = g.severity
    BY <1>2, <1>3, <2>1 DEF FindingRecords
  <2> QED
    BY <1>5, <2>1, <2>2 DEF FindingRecords
<1>6. ASSUME NEW f \in all, f.hash \notin known PROVE \E g \in found : g.hash = f.hash
  <2> DEFINE N == {g.rule : g \in {h \in all : h.hash = f.hash}}
  <2>1. N \subseteq Nat /\ f.rule \in N
    BY <1>3 DEF FindingRecords
  <2>2. PICK n \in N : \A m \in N : n <= m
    BY <2>1, LeastNumber
  <2>3. PICK g \in all : g.hash = f.hash /\ g.rule = n
    BY <2>2
  <2>4. \A h \in all : h.hash = g.hash => g.rule <= h.rule
    BY <2>2, <2>3
  <2> QED
    BY <1>2, <1>6, <2>3, <2>4
<1> QED
  BY <1>1, <1>3, <1>4, <1>5, <1>6

(* The rows a scan registers: one for each finding, each active.           *)
LEMMA RegisteredRows ==
    ASSUME NEW found \in SUBSET FindingRecords, IsFiniteSet(found),
           \A f, g \in found : f.hash = g.hash => f = g
    PROVE  /\ Cardinality(found) \in Nat
           /\ Registered(found) \in [1..Cardinality(found) -> RiskRecord]
           /\ \A i \in 1..Cardinality(found) :
                  /\ Registered(found)[i].lifecycle = "active"
                  /\ \E f \in found : Registered(found)[i].hash = f.hash
           /\ \A f \in found : \E i \in 1..Cardinality(found) : Registered(found)[i].hash = f.hash
           /\ \A i, j \in 1..Cardinality(found) :
                  Registered(found)[i].hash = Registered(found)[j].hash => i = j
<1>1. PICK n : n = Cardinality(found)
  OBVIOUS
<1>2. n \in Nat /\ ExistsBijection(1..n, found)
  BY <1>1, FS_CardinalityType
<1>3. \E q \in [1..n -> found] : \A f \in found : \E i \in DOMAIN q : q[i] = f
  BY <1>2 DEF ExistsBijection, Bijection, Surjection
<1>4. PICK order : order = CHOOSE q \in [1..n -> found] : \A f \in found : \E i \in DOMAIN q : q[i] = f
  OBVIOUS
<1>5. order \in [1..n -> found] /\ \A f \in found : \E i \in 1..n : order[i] = f
  BY <1>3, <1>4
<1>6. order \in Surjection(1..n, found)
  BY <1>5 DEF Surjection
<1>7. IsFiniteSet(1..n) /\ Cardinality(1..n) = n
  BY <1>2, FS_Interval
<1>8. order \in Injection(1..n, found)
  BY <1>1, <1>6, <1>7, FS_SurjSameCardinalityImpliesInj
<1>9. \A i, j \in 1..n : order[i] = order[j] => i = j
  BY <1>8 DEF Injection, IsInjective
<1>10. PICK r : r = Registered(found)
  OBVIOUS
<1>11. r = [i \in 1..n |-> [hash |-> order[i].hash, severity |-> order[i].severity, lifecycle |-> "active"]]
  BY <1>1, <1>4, <1>5, <1>10 DEF Registered
<1>12. ASSUME NEW i \in 1..n
       PROVE  order[i] \in found /\ r[i] \in RiskRecord /\ r[i].lifecycle = "active" /\ r[i].hash = order[i].hash
  <2>1. order[i] \in found /\ order[i] \in FindingRecords
    BY <1>5
  <2>2. r[i] = [hash |-> order[i].hash, severity |-> order[i].severity, lifecycle |-> "active"]
    BY <1>11
  <2> QED
    BY <2>1, <2>2 DEF FindingRecords, RiskRecord, Lifecycles
<1>13. r \in [1..n -> RiskRecord]
  BY <1>11, <1>12
<1>14. \A i, j \in 1..n : r[i].hash = r[j].hash => i = j
  BY <1>9, <1>12
<1>15. \A f \in found : \E i \in 1..n : r[i].hash = f.hash
  BY <1>5, <1>12
<1> QED
  BY <1>1, <1>2, <1>10, <1>12, <1>13, <1>14, <1>15

WithMoved(tasks, id, to) == {IF t.id = id THEN [t EXCEPT !.status = to] ELSE t : t \in tasks}

(* A board on which a task moved.                                          *)
LEMMA BoardMoved ==
    ASSUME NEW tasks \in SUBSET BoardTasks, IsFiniteSet(tasks), NEW id, NEW to \in RiskStatuses, NEW moved,
           moved = WithMoved(tasks, id, to)
    PROVE  /\ moved \subseteq BoardTasks /\ IsFiniteSet(moved)
           /\ {t.id : t \in moved} = {t.id : t \in tasks}
<1> DEFINE f == [t \in tasks |-> IF t.id = id THEN [t EXCEPT !.status = to] ELSE t]
<1>1. moved = {f[t] : t \in tasks}
  BY DEF WithMoved
<1>2. IsFiniteSet({f[t] : t \in tasks})
  <2>1. PICK g : g = f
    OBVIOUS
  <2>2. g = [x \in tasks |-> g[x]]
    BY <2>1
  <2> QED
    BY <2>1, <2>2, FiniteImage
<1>3. ASSUME NEW t \in tasks PROVE f[t] \in BoardTasks /\ f[t].id = t.id
  <2>1. t \in BoardTasks
    OBVIOUS
  <2> QED
    BY <2>1 DEF BoardTasks
<1> HIDE DEF f
<1> QED
  BY <1>1, <1>2, <1>3

(* What a scan reads of the board.                                         *)
LEMMA BoardRead ==
    ASSUME NEW tasks \in SUBSET BoardTasks, IsFiniteSet(tasks), NEW read,
           read = {[t EXCEPT !.evidence = 0] : t \in tasks}
    PROVE  read \subseteq BoardTasks /\ IsFiniteSet(read)
<1> DEFINE f == [t \in tasks |-> [t EXCEPT !.evidence = 0]]
<1>1. read = {f[t] : t \in tasks}
  OBVIOUS
<1>2. IsFiniteSet({f[t] : t \in tasks})
  <2>1. PICK g : g = f
    OBVIOUS
  <2>2. g = [x \in tasks |-> g[x]]
    BY <2>1
  <2> QED
    BY <2>1, <2>2, FiniteImage
<1>3. ASSUME NEW t \in tasks PROVE f[t] \in BoardTasks
  <2>1. t \in BoardTasks
    OBVIOUS
  <2> QED
    BY <2>1 DEF BoardTasks
<1> HIDE DEF f
<1> QED
  BY <1>1, <1>2, <1>3

\* The register as its rows, with the assignee of each.
RegisterTyped ==
    /\ risks \in Seq(RiskRecord) /\ assigned \in Seq(Handlers \cup {Nobody}) /\ Len(assigned) = Len(risks)
    /\ scanRuns \in Seq(Nat) /\ reopened \subseteq DOMAIN risks

BoardTyped ==
    /\ board \subseteq BoardTasks /\ IsFiniteSet(board) /\ {t.id : t \in board} = RiskTasks
    /\ spent \in [moves : 0..MaxMoves, scans : 0..MaxScans, updates : 0..MaxUpdates]
    /\ today \in 0..spent.moves

InRegister(h) == \E i \in DOMAIN risks : risks[i].hash = h

\* A scan holds one finding of each hash that was not known when it read, and
\* what it does not hold is registered.
ScanFits(s) ==
    LET q == scanner[s]
    IN  /\ q = [at |-> q.at, tasks |-> q.tasks, day |-> q.day, found |-> q.found]
        /\ q.at \in {"idle", "tasks", "found", "saved"}
        /\ q.at # "idle" => q.tasks \subseteq BoardTasks /\ IsFiniteSet(q.tasks)
        /\ q.at \in {"found", "saved"} =>
               /\ IsFiniteSet(q.found) /\ q.found \subseteq FindingRecords
               /\ \A f, g \in q.found : f.hash = g.hash => f = g
        /\ q.at = "found" =>
               \A f \in FindingsOf(s) : InRegister(f.hash) \/ \E g \in q.found : g.hash = f.hash
        /\ q.at = "saved" => \A f \in FindingsOf(s) : InRegister(f.hash)

RiskInv == RegisterTyped /\ BoardTyped /\ scanner = [s \in Scanners |-> scanner[s]] /\ \A s \in Scanners : ScanFits(s)

\* A scan holds nothing that was active when it read the hashes, but for what
\* was reopened since.
FoundIsNew(s) ==
    scanner[s].at = "found" =>
        \A f \in scanner[s].found : \A i \in DOMAIN risks :
            risks[i].hash = f.hash /\ risks[i].lifecycle = "active" => i \in reopened \/ i > knew[s]

OriginTyped ==
    /\ knew \in [Scanners -> Nat] /\ \A s \in Scanners : knew[s] <= Len(risks)
    /\ origin \in Seq(Origin) /\ Len(origin) = Len(risks)

RegisterInv == RiskInv /\ OriginTyped /\ NoActiveTwin /\ \A s \in Scanners : FoundIsNew(s)

(* What a change, a scan or an update spends.                              *)
LEMMA SpentTyped ==
    ASSUME spent \in [moves : 0..MaxMoves, scans : 0..MaxScans, updates : 0..MaxUpdates],
           \/ Spend("moves", MaxMoves) \/ Spend("scans", MaxScans) \/ Spend("updates", MaxUpdates)
    PROVE  /\ spent' \in [moves : 0..MaxMoves, scans : 0..MaxScans, updates : 0..MaxUpdates]
           /\ spent'.moves >= spent.moves
           /\ Spend("moves", MaxMoves) => spent'.moves = spent.moves + 1
<1>1. spent = [moves |-> spent.moves, scans |-> spent.scans, updates |-> spent.updates]
  OBVIOUS
<1>2. CASE Spend("moves", MaxMoves)
  <2>1. spent'.moves = spent.moves + 1 /\ spent'.scans = spent.scans /\ spent'.updates = spent.updates
    BY <1>1, <1>2 DEF Spend
  <2>2. spent' = [moves |-> spent'.moves, scans |-> spent'.scans, updates |-> spent'.updates]
    BY <1>1, <1>2 DEF Spend
  <2>3. spent.moves < MaxMoves
    BY <1>2 DEF Spend
  <2> QED
    BY <2>1, <2>2, <2>3, RiskAssumption DEF RiskAssumption
<1>3. CASE Spend("scans", MaxScans)
  <2>1. spent'.moves = spent.moves /\ spent'.scans = spent.scans + 1 /\ spent'.updates = spent.updates
    BY <1>1, <1>3 DEF Spend
  <2>2. spent' = [moves |-> spent'.moves, scans |-> spent'.scans, updates |-> spent'.updates]
    BY <1>1, <1>3 DEF Spend
  <2>3. spent.scans < MaxScans
    BY <1>3 DEF Spend
  <2>4. ~ Spend("moves", MaxMoves)
    BY <2>1 DEF Spend
  <2> QED
    BY <2>1, <2>2, <2>3, <2>4, RiskAssumption DEF RiskAssumption
<1>4. CASE Spend("updates", MaxUpdates)
  <2>1. spent'.moves = spent.moves /\ spent'.scans = spent.scans /\ spent'.updates = spent.updates + 1
    BY <1>1, <1>4 DEF Spend
  <2>2. spent' = [moves |-> spent'.moves, scans |-> spent'.scans, updates |-> spent'.updates]
    BY <1>1, <1>4 DEF Spend
  <2>3. spent.updates < MaxUpdates
    BY <1>4 DEF Spend
  <2>4. ~ Spend("moves", MaxMoves)
    BY <2>1 DEF Spend
  <2> QED
    BY <2>1, <2>2, <2>3, <2>4, RiskAssumption DEF RiskAssumption
<1> QED
  BY <1>2, <1>3, <1>4

(* A scan that does not move stays as it was while no row leaves the       *)
(* register.                                                               *)
LEMMA OtherScansFit ==
    ASSUME NEW u \in Scanners, ScanFits(u), scanner'[u] = scanner[u],
           \A h : InRegister(h) => InRegister(h)'
    PROVE  ScanFits(u)'
<1>1. FindingsOf(u)' = FindingsOf(u)
  BY DEF FindingsOf
<1> QED
  BY <1>1 DEF ScanFits

(* The steps of one scan leave the others' scans alone.                    *)
LEMMA OneScanMoves ==
    ASSUME scanner = [u \in Scanners |-> scanner[u]], NEW s \in Scanners, NEW q,
           scanner' = [scanner EXCEPT ![s] = q]
    PROVE  /\ scanner'[s] = q /\ \A u \in Scanners \ {s} : scanner'[u] = scanner[u]
           /\ scanner' = [u \in Scanners |-> scanner'[u]]
<1>1. scanner' = [u \in Scanners |-> IF u = s THEN q ELSE scanner[u]]
  OBVIOUS
<1> QED
  BY <1>1

(* Changes of the tasks and of the day leave the register and the scans.   *)
LEMMA BoardChangesKeep ==
    ASSUME RiskInv, (\E id \in RiskTasks, to \in TaskMoves : MoveTask(id, to)) \/ NextDay
    PROVE  RiskInv'
<1>1. /\ UNCHANGED <<risks, assigned, scanner, scanRuns, reopened>>
      /\ Spend("moves", MaxMoves)
  BY DEF MoveTask, NextDay
<1>2. /\ spent' \in [moves : 0..MaxMoves, scans : 0..MaxScans, updates : 0..MaxUpdates]
      /\ spent'.moves = spent.moves + 1
  BY <1>1, SpentTyped DEF RiskInv, BoardTyped
<1>3. RegisterTyped'
  BY <1>1 DEF RiskInv, RegisterTyped
<1>4. ASSUME NEW u \in Scanners PROVE ScanFits(u)'
  <2>1. \A h : InRegister(h) => InRegister(h)'
    BY <1>1 DEF InRegister
  <2> QED
    BY <1>1, <2>1, OtherScansFit DEF RiskInv
<1>5. BoardTyped'
  <2>1. CASE \E id \in RiskTasks, to \in TaskMoves : MoveTask(id, to)
    <3>1. PICK id \in RiskTasks, to \in TaskMoves : MoveTask(id, to)
      BY <2>1
    <3>2. to \in RiskStatuses /\ board \subseteq BoardTasks /\ IsFiniteSet(board)
      BY RiskAssumption DEF RiskAssumption, RiskInv, BoardTyped
    <3>3. board' = {IF t.id = id THEN [t EXCEPT !.status = to] ELSE t : t \in board} /\ today' = today
      BY <3>1 DEF MoveTask
    <3>4. board' \subseteq BoardTasks /\ IsFiniteSet(board') /\ {t.id : t \in board'} = {t.id : t \in board}
      <4>1. PICK b, moved : b = board /\ moved = board'
        OBVIOUS
      <4>2. b \in SUBSET BoardTasks /\ IsFiniteSet(b)
        BY <3>2, <4>1
      <4>3. moved = WithMoved(b, id, to)
        BY <3>3, <4>1 DEF WithMoved
      <4>4. moved \subseteq BoardTasks /\ IsFiniteSet(moved) /\ {t.id : t \in moved} = {t.id : t \in b}
        BY ONLY <3>2, <4>2, <4>3, BoardMoved
      <4> QED
        BY <4>1, <4>4
    <3>5. today \in 0..spent.moves /\ {t.id : t \in board} = RiskTasks /\ spent.moves \in Nat
      BY RiskAssumption DEF RiskInv, BoardTyped, RiskAssumption
    <3>6. today' \in 0..spent'.moves
      BY <1>2, <3>3, <3>5
    <3> QED
      BY <1>2, <3>4, <3>5, <3>6 DEF BoardTyped
  <2>2. CASE NextDay
    <3>1. board' = board /\ today' = today + 1
      BY <2>2 DEF NextDay
    <3>2. today \in 0..spent.moves /\ spent.moves \in Nat
      BY RiskAssumption DEF RiskInv, BoardTyped, RiskAssumption
    <3>3. today' \in 0..spent'.moves
      BY <1>2, <3>1, <3>2
    <3> QED
      BY <1>2, <3>1, <3>3 DEF RiskInv, BoardTyped
  <2> QED
    BY <2>1, <2>2
<1>6. scanner' = [s \in Scanners |-> scanner'[s]]
  BY <1>1 DEF RiskInv
<1> QED
  BY <1>3, <1>4, <1>5, <1>6 DEF RiskInv

(* The tasks are read.                                                     *)
LEMMA LoadTasksKeeps == ASSUME RiskInv, NEW s \in Scanners, LoadTasks(s) PROVE RiskInv'
<1>1. UNCHANGED <<board, today, risks, assigned, scanRuns, reopened>> /\ Spend("scans", MaxScans)
  BY DEF LoadTasks
<1>2. /\ spent' \in [moves : 0..MaxMoves, scans : 0..MaxScans, updates : 0..MaxUpdates]
      /\ spent'.moves >= spent.moves
  BY <1>1, SpentTyped DEF RiskInv, BoardTyped
<1>3. PICK read : read = {[t EXCEPT !.evidence = 0] : t \in board}
  OBVIOUS
<1>4. read \subseteq BoardTasks /\ IsFiniteSet(read)
  BY <1>3, BoardRead DEF RiskInv, BoardTyped
<1>5. PICK q : q = [at |-> "tasks", tasks |-> read, day |-> 0, found |-> {}]
  OBVIOUS
<1>6. scanner' = [scanner EXCEPT ![s] = q]
  BY <1>3, <1>5 DEF LoadTasks
<1>7. /\ scanner'[s] = q /\ \A u \in Scanners \ {s} : scanner'[u] = scanner[u]
      /\ scanner' = [u \in Scanners |-> scanner'[u]]
  BY <1>6, OneScanMoves DEF RiskInv
<1>8. RegisterTyped' /\ BoardTyped'
  <2>1. today \in 0..spent.moves /\ spent.moves \in Nat /\ spent'.moves \in Nat
    BY <1>2, RiskAssumption DEF RiskInv, BoardTyped, RiskAssumption
  <2>2. today' \in 0..spent'.moves
    BY <1>1, <1>2, <2>1
  <2> QED
    BY <1>1, <1>2, <2>2 DEF RiskInv, RegisterTyped, BoardTyped
<1>9. ASSUME NEW u \in Scanners PROVE ScanFits(u)'
  <2>1. CASE u = s
    BY <1>4, <1>5, <1>7, <2>1 DEF ScanFits
  <2>2. CASE u # s
    <3>1. \A h : InRegister(h) => InRegister(h)'
      BY <1>1 DEF InRegister
    <3> QED
      BY <1>7, <2>2, <3>1, OtherScansFit DEF RiskInv
  <2> QED
    BY <2>1, <2>2
<1> QED
  BY <1>7, <1>8, <1>9 DEF RiskInv

(* What an evaluation leaves: one finding of each hash that is not active. *)
LEMMA Evaluated ==
    ASSUME RiskInv, NEW s \in Scanners, Evaluate(s)
    PROVE  \E q :
             /\ scanner' = [scanner EXCEPT ![s] = q]
             /\ q = [at |-> "found", tasks |-> scanner[s].tasks, day |-> today, found |-> q.found]
             /\ IsFiniteSet(q.found) /\ q.found \subseteq FindingRecords
             /\ q.tasks \subseteq BoardTasks /\ IsFiniteSet(q.tasks)
             /\ \A f, g \in q.found : f.hash = g.hash => f = g
             /\ \A f \in q.found : f.hash \notin ActiveHashes
             /\ \A f \in AllFindings(q.tasks, DefaultRules, q.day, NoClaims) :
                    f.hash \in ActiveHashes \/ \E g \in q.found : g.hash = f.hash
<1>1. PICK tasks : tasks = scanner[s].tasks
  OBVIOUS
<1>2. tasks \subseteq BoardTasks /\ IsFiniteSet(tasks)
  BY <1>1 DEF Evaluate, RiskInv, ScanFits
<1>3. PICK found : found = EvaluateRisks(tasks, DefaultRules, today, NoClaims, ActiveHashes)
  OBVIOUS
<1>4. /\ IsFiniteSet(found) /\ found \subseteq FindingRecords
      /\ \A f, g \in found : f.hash = g.hash => f = g
      /\ \A f \in found : f.hash \notin ActiveHashes
      /\ \A f \in AllFindings(tasks, DefaultRules, today, NoClaims) :
             f.hash \in ActiveHashes \/ \E g \in found : g.hash = f.hash
  BY <1>2, <1>3, FindingsKept
<1>5. PICK q : q = [at |-> "found", tasks |-> tasks, day |-> today, found |-> found]
  OBVIOUS
<1>6. PICK old : old = scanner[s]
  OBVIOUS
<1>7. old = [at |-> old.at, tasks |-> old.tasks, day |-> old.day, found |-> old.found]
  BY <1>6 DEF RiskInv, ScanFits
<1>8. [old EXCEPT !.at = "found", !.day = today, !.found = found] = q
  <2>1. PICK a, b, c, d : old = [at |-> a, tasks |-> b, day |-> c, found |-> d]
    BY <1>7
  <2>2. PICK on : on = today
    OBVIOUS
  <2>3. b = tasks
    BY <1>1, <1>6, <2>1
  <2>4. PICK o : o = [old EXCEPT !.at = "found"]
    OBVIOUS
  <2>5. o = [at |-> "found", tasks |-> b, day |-> c, found |-> d]
    BY ONLY <2>1, <2>4
  <2>6. PICK p : p = [o EXCEPT !.day = on]
    OBVIOUS
  <2>7. p = [at |-> "found", tasks |-> b, day |-> on, found |-> d]
    BY ONLY <2>5, <2>6
  <2>8. [p EXCEPT !.found = found] = [at |-> "found", tasks |-> b, day |-> on, found |-> found]
    BY ONLY <2>7
  <2> QED
    BY <1>5, <2>2, <2>3, <2>4, <2>6, <2>8
<1>9. scanner' = [scanner EXCEPT ![s].at = "found", ![s].day = today, ![s].found = found]
  BY <1>1, <1>3 DEF Evaluate
<1>10. scanner' = [scanner EXCEPT ![s] = q]
  BY <1>6, <1>8, <1>9 DEF RiskInv
<1>11. q.at = "found" /\ q.tasks = tasks /\ q.day = today /\ q.found = found
  BY <1>5
<1>12. q = [at |-> "found", tasks |-> scanner[s].tasks, day |-> today, found |-> q.found]
  BY <1>1, <1>5, <1>11
<1> WITNESS q
<1> QED
  BY <1>2, <1>4, <1>10, <1>11, <1>12

(* The tasks are evaluated.                                                *)
LEMMA EvaluateKeeps == ASSUME RiskInv, NEW s \in Scanners, Evaluate(s) PROVE RiskInv'
<1>1. UNCHANGED <<board, today, risks, assigned, scanRuns, reopened, spent>>
  BY DEF Evaluate
<1>2. PICK q : /\ scanner' = [scanner EXCEPT ![s] = q]
               /\ q = [at |-> "found", tasks |-> scanner[s].tasks, day |-> today, found |-> q.found]
               /\ IsFiniteSet(q.found) /\ q.found \subseteq FindingRecords
               /\ q.tasks \subseteq BoardTasks /\ IsFiniteSet(q.tasks)
               /\ \A f, g \in q.found : f.hash = g.hash => f = g
               /\ \A f \in q.found : f.hash \notin ActiveHashes
               /\ \A f \in AllFindings(q.tasks, DefaultRules, q.day, NoClaims) :
                      f.hash \in ActiveHashes \/ \E g \in q.found : g.hash = f.hash
  BY Evaluated
<1>3. /\ scanner'[s] = q /\ \A u \in Scanners \ {s} : scanner'[u] = scanner[u]
      /\ scanner' = [u \in Scanners |-> scanner'[u]]
  BY <1>2, OneScanMoves DEF RiskInv
<1>4. \A h : InRegister(h) => InRegister(h)'
  BY <1>1 DEF InRegister
<1>5. \A h \in ActiveHashes : InRegister(h)'
  BY <1>1 DEF ActiveHashes, InRegister
<1>6. ASSUME NEW u \in Scanners PROVE ScanFits(u)'
  <2>1. CASE u = s
    <3>1. FindingsOf(s)' = AllFindings(q.tasks, DefaultRules, q.day, NoClaims)
      BY <1>3 DEF FindingsOf
    <3>2. q = [at |-> q.at, tasks |-> q.tasks, day |-> q.day, found |-> q.found] /\ q.at = "found"
      <4>1. q.at = "found" /\ q.tasks = scanner[s].tasks /\ q.day = today
        BY <1>2
      <4> QED
        BY <1>2, <4>1
    <3>3. \A f \in FindingsOf(s)' : InRegister(f.hash)' \/ \E g \in q.found : g.hash = f.hash
      BY <1>2, <1>5, <3>1
    <3> QED
      BY <1>2, <1>3, <2>1, <3>2, <3>3 DEF ScanFits
  <2>2. CASE u # s
    BY <1>3, <1>4, <2>2, OtherScansFit DEF RiskInv
  <2> QED
    BY <2>1, <2>2
<1>7. RegisterTyped' /\ BoardTyped'
  BY <1>1 DEF RiskInv, RegisterTyped, BoardTyped
<1> QED
  BY <1>3, <1>6, <1>7 DEF RiskInv

\* A scan holds at most one finding of a hash.
Distinct(found) ==
    IsFiniteSet(found) /\ found \subseteq FindingRecords /\ \A f, g \in found : f.hash = g.hash => f = g

(* What a scan adds to the register stands behind what was there: one      *)
(* active row for each finding.                                            *)
LEMMA RowsRegistered ==
    ASSUME RegisterTyped, NEW s \in Scanners, PersistRisks(s), Distinct(scanner[s].found)
    PROVE  /\ RegisterTyped'
           /\ \A i \in DOMAIN risks : i \in DOMAIN risks' /\ risks'[i] = risks[i]
           /\ \A i \in DOMAIN risks' \ DOMAIN risks :
                  /\ risks'[i].lifecycle = "active"
                  /\ \E f \in scanner[s].found : risks'[i].hash = f.hash
           /\ \A i, j \in DOMAIN risks' \ DOMAIN risks : risks'[i].hash = risks'[j].hash => i = j
           /\ \A f \in scanner[s].found : \E i \in DOMAIN risks' : risks'[i].hash = f.hash
<1>1. PICK found, r, n : found = scanner[s].found /\ r = Registered(found) /\ n = Cardinality(found)
  OBVIOUS
<1>2. /\ n \in Nat /\ r \in [1..n -> RiskRecord]
      /\ \A i \in 1..n : r[i].lifecycle = "active" /\ \E f \in found : r[i].hash = f.hash
      /\ \A f \in found : \E i \in 1..n : r[i].hash = f.hash
      /\ \A i, j \in 1..n : r[i].hash = r[j].hash => i = j
  BY <1>1, RegisteredRows DEF Distinct
<1>3. PICK old, new : old = risks /\ new = risks'
  OBVIOUS
<1>4. new = old \o r /\ old \in Seq(RiskRecord) /\ reopened' = reopened /\ scanRuns' = scanRuns
  BY <1>1, <1>3 DEF PersistRisks, RegisterTyped
<1>5. PICK m : m = Len(old)
  OBVIOUS
<1>6. r \in Seq(RiskRecord) /\ Len(r) = n
  BY <1>2
<1>7. /\ m \in Nat /\ DOMAIN old = 1..m /\ new \in Seq(RiskRecord) /\ Len(new) = m + n /\ DOMAIN new = 1..(m + n)
      /\ \A i \in 1..m : new[i] = old[i]
      /\ \A i \in 1..n : new[m + i] = r[i]
  <2>1. m \in Nat /\ DOMAIN old = 1..m /\ new \in Seq(RiskRecord)
    BY <1>4, <1>5, <1>6
  <2>2. Len(new) = m + n
    BY <1>4, <1>5, <1>6
  <2>3. DOMAIN new = 1..(m + n)
    BY <2>1, <2>2
  <2>4. \A i \in 1..m : new[i] = old[i]
    BY <1>2, <1>4, <1>5, <1>6
  <2>5. ASSUME NEW i \in 1..n PROVE new[m + i] = r[i]
    <3>1. m + i \in Int /\ m < m + i /\ m + i <= m + n /\ (m + i) - m = i
      BY <1>2, <2>1
    <3> QED
      BY <1>4, <1>5, <1>6, <3>1
  <2> QED
    BY <2>1, <2>2, <2>3, <2>4, <2>5
<1>8. ASSUME NEW i \in DOMAIN new \ DOMAIN old PROVE (i - m) \in 1..n /\ new[i] = r[i - m]
  <2>1. i \in (m + 1)..(m + n) /\ m \in Nat /\ n \in Nat
    BY <1>2, <1>7
  <2>2. (i - m) \in 1..n /\ m + (i - m) = i
    BY ONLY <2>1
  <2> QED
    BY <1>7, <2>2
<1>9. \A i \in DOMAIN new \ DOMAIN old : new[i].lifecycle = "active" /\ \E f \in found : new[i].hash = f.hash
  BY <1>2, <1>8
<1>10. ASSUME NEW i \in DOMAIN new \ DOMAIN old, NEW j \in DOMAIN new \ DOMAIN old, new[i].hash = new[j].hash
       PROVE  i = j
  <2>1. i - m = j - m
    BY <1>2, <1>8, <1>10
  <2>2. i \in Int /\ j \in Int /\ m \in Int
    BY <1>2, <1>7
  <2> QED
    BY ONLY <2>1, <2>2
<1>11. ASSUME NEW f \in found PROVE \E i \in DOMAIN new : new[i].hash = f.hash
  <2>1. PICK i \in 1..n : r[i].hash = f.hash
    BY <1>2
  <2>2. (m + i) \in 1..(m + n)
    BY <1>2, <1>7
  <2> QED
    BY <1>7, <2>1, <2>2
<1>12. RegisterTyped'
  <2>1. PICK z : z = [i \in 1..n |-> Nobody]
    OBVIOUS
  <2>2. z \in Seq(Handlers \cup {Nobody}) /\ Len(z) = n
    BY <1>2, <2>1
  <2>3. assigned' = assigned \o z /\ assigned \in Seq(Handlers \cup {Nobody}) /\ Len(assigned) = m
    BY <1>1, <1>3, <1>5, <2>1 DEF PersistRisks, RegisterTyped
  <2>4. assigned' \in Seq(Handlers \cup {Nobody}) /\ Len(assigned') = m + n
    BY <2>2, <2>3
  <2>5. DOMAIN old \subseteq DOMAIN new
    BY <1>2, <1>7
  <2> QED
    BY <1>3, <1>4, <1>7, <2>4, <2>5 DEF RegisterTyped
<1>13. \A i \in DOMAIN old : i \in DOMAIN new /\ new[i] = old[i]
  BY <1>2, <1>7
<1> QED
  BY <1>1, <1>3, <1>9, <1>10, <1>11, <1>12, <1>13

(* The findings are inserted.                                              *)
LEMMA PersistRisksKeeps == ASSUME RiskInv, NEW s \in Scanners, PersistRisks(s) PROVE RiskInv'
<1>1. UNCHANGED <<board, today, spent>> /\ scanner[s].at = "found"
  BY DEF PersistRisks
<1>2. Distinct(scanner[s].found)
  BY <1>1 DEF RiskInv, ScanFits, Distinct
<1>3. /\ RegisterTyped'
      /\ \A i \in DOMAIN risks : i \in DOMAIN risks' /\ risks'[i] = risks[i]
      /\ \A f \in scanner[s].found : \E i \in DOMAIN risks' : risks'[i].hash = f.hash
  BY <1>2, RowsRegistered DEF RiskInv
<1>4. \A h : InRegister(h) => InRegister(h)'
  BY <1>3 DEF InRegister
<1>5. PICK old, q : old = scanner[s] /\ q = [at |-> "saved", tasks |-> old.tasks, day |-> old.day, found |-> old.found]
  OBVIOUS
<1>6. old = [at |-> old.at, tasks |-> old.tasks, day |-> old.day, found |-> old.found]
  BY <1>5 DEF RiskInv, ScanFits
<1>7. [old EXCEPT !.at = "saved"] = q
  BY <1>5, <1>6
<1>8. scanner' = [scanner EXCEPT ![s] = q]
  BY <1>5, <1>7 DEF PersistRisks, RiskInv
<1>9. /\ scanner'[s] = q /\ \A u \in Scanners \ {s} : scanner'[u] = scanner[u]
      /\ scanner' = [u \in Scanners |-> scanner'[u]]
  BY <1>8, OneScanMoves DEF RiskInv
<1>10. q.at = "saved" /\ q.tasks = old.tasks /\ q.day = old.day /\ q.found = old.found
  BY <1>5
<1>11. ASSUME NEW u \in Scanners PROVE ScanFits(u)'
  <2>1. CASE u = s
    <3>1. FindingsOf(s)' = FindingsOf(s)
      BY <1>5, <1>9, <1>10 DEF FindingsOf
    <3>2. \A f \in FindingsOf(s) : InRegister(f.hash) \/ \E g \in old.found : g.hash = f.hash
      BY <1>1, <1>5 DEF RiskInv, ScanFits
    <3>3. \A g \in old.found : InRegister(g.hash)'
      BY <1>3, <1>5 DEF InRegister
    <3>4. \A f \in FindingsOf(s)' : InRegister(f.hash)'
      BY <1>4, <3>1, <3>2, <3>3
    <3>5. /\ q.tasks \subseteq BoardTasks /\ IsFiniteSet(q.tasks)
          /\ IsFiniteSet(q.found) /\ q.found \subseteq FindingRecords
          /\ \A f, g \in q.found : f.hash = g.hash => f = g
      BY <1>1, <1>5, <1>10 DEF RiskInv, ScanFits
    <3>6. q = [at |-> q.at, tasks |-> q.tasks, day |-> q.day, found |-> q.found]
      BY <1>5, <1>10
    <3> QED
      BY <1>9, <1>10, <2>1, <3>4, <3>5, <3>6 DEF ScanFits
  <2>2. CASE u # s
    BY <1>4, <1>9, <2>2, OtherScansFit DEF RiskInv
  <2> QED
    BY <2>1, <2>2
<1>12. BoardTyped'
  BY <1>1 DEF RiskInv, BoardTyped
<1> QED
  BY <1>3, <1>9, <1>11, <1>12 DEF RiskInv

(* A scan ends, or its process dies.                                       *)
LEMMA ScanEndsKeeps ==
    ASSUME RiskInv, NEW s \in Scanners, PersistScanRun(s) \/ ScannerDies(s)
    PROVE  RiskInv'
<1>1. UNCHANGED <<board, today, risks, assigned, reopened, spent>> /\ scanner' = [scanner EXCEPT ![s] = NoScan]
  BY DEF PersistScanRun, ScannerDies
<1>2. /\ scanner'[s] = NoScan /\ \A u \in Scanners \ {s} : scanner'[u] = scanner[u]
      /\ scanner' = [u \in Scanners |-> scanner'[u]]
  BY <1>1, OneScanMoves DEF RiskInv
<1>3. \A h : InRegister(h) => InRegister(h)'
  BY <1>1 DEF InRegister
<1>4. ASSUME NEW u \in Scanners PROVE ScanFits(u)'
  <2>1. CASE u = s
    BY <1>2, <2>1 DEF ScanFits, NoScan
  <2>2. CASE u # s
    BY <1>2, <1>3, <2>2, OtherScansFit DEF RiskInv
  <2> QED
    BY <2>1, <2>2
<1>5. scanRuns' \in Seq(Nat)
  <2>1. CASE PersistScanRun(s)
    <3>1. PICK n : n = Cardinality(scanner[s].found)
      OBVIOUS
    <3>2. n \in Nat
      BY <2>1, <3>1, FS_CardinalityType DEF PersistScanRun, RiskInv, ScanFits
    <3>3. scanRuns' = Append(scanRuns, n) /\ scanRuns \in Seq(Nat)
      BY <2>1, <3>1 DEF PersistScanRun, RiskInv, RegisterTyped
    <3> QED
      BY <3>2, <3>3
  <2>2. CASE ScannerDies(s)
    BY <2>2 DEF ScannerDies, RiskInv, RegisterTyped
  <2> QED
    BY <2>1, <2>2
<1>6. RegisterTyped' /\ BoardTyped'
  BY <1>1, <1>5 DEF RiskInv, RegisterTyped, BoardTyped
<1> QED
  BY <1>2, <1>4, <1>6 DEF RiskInv

(* Handling a risk leaves every hash in the register.                      *)
LEMMA HandlingKeeps ==
    ASSUME RiskInv, NEW i \in DOMAIN risks, NEW by \in Handlers,
           (\E to \in Handlers : AssignRisk(i, by, to)) \/ \E action \in DOMAIN NewLifecycle : UpdateRisk(i, by, action)
    PROVE  /\ RiskInv'
           /\ UNCHANGED scanner /\ DOMAIN risks' = DOMAIN risks /\ reopened \subseteq reopened'
           /\ Len(risks') = Len(risks)
           /\ \A j \in DOMAIN risks :
                  /\ risks'[j].hash = risks[j].hash
                  /\ risks'[j].lifecycle = "active" => risks[j].lifecycle = "active" \/ j \in reopened'
<1>1. UNCHANGED <<board, today, scanner, scanRuns>> /\ Spend("updates", MaxUpdates)
  BY DEF AssignRisk, UpdateRisk
<1>2. /\ risks \in Seq(RiskRecord) /\ assigned \in Seq(Handlers \cup {Nobody}) /\ Len(assigned) = Len(risks)
      /\ DOMAIN risks = 1..Len(risks) /\ Len(risks) \in Nat /\ reopened \subseteq DOMAIN risks
  BY DEF RiskInv, RegisterTyped
<1>3. /\ risks' \in Seq(RiskRecord) /\ assigned' \in Seq(Handlers \cup {Nobody})
      /\ Len(assigned') = Len(risks) /\ Len(risks') = Len(risks)
      /\ reopened' \subseteq DOMAIN risks /\ reopened \subseteq reopened'
      /\ \A j \in DOMAIN risks :
             /\ risks'[j].hash = risks[j].hash
             /\ risks'[j].lifecycle = "active" => risks[j].lifecycle = "active" \/ j \in reopened'
  <2>1. CASE \E to \in Handlers : AssignRisk(i, by, to)
    <3>1. PICK to \in Handlers : AssignRisk(i, by, to)
      BY <2>1
    <3>2. risks' = risks /\ reopened' = reopened /\ assigned' = [assigned EXCEPT ![i] = to]
      BY <3>1 DEF AssignRisk
    <3>3. i \in DOMAIN assigned
      BY <1>2
    <3>4. assigned' \in Seq(Handlers \cup {Nobody}) /\ Len(assigned') = Len(assigned)
      BY <1>2, <3>2, <3>3
    <3> QED
      BY <1>2, <3>2, <3>4
  <2>2. CASE \E action \in DOMAIN NewLifecycle : UpdateRisk(i, by, action)
    <3>1. PICK action \in DOMAIN NewLifecycle : UpdateRisk(i, by, action)
      BY <2>2
    <3>2. PICK row, to : row = risks[i] /\ to = NewLifecycle[action]
      OBVIOUS
    <3>3. to \in Lifecycles /\ (to = "active" => action = "reopen")
      BY <3>1, <3>2 DEF NewLifecycle, Lifecycles
    <3>4. row \in RiskRecord
      BY <1>2, <3>2
    <3>5. PICK new : new = [row EXCEPT !.lifecycle = to]
      OBVIOUS
    <3>6. new \in RiskRecord /\ new.hash = row.hash /\ new.lifecycle = to
      BY <3>3, <3>4, <3>5 DEF RiskRecord
    <3>7. risks' = [risks EXCEPT ![i] = new] /\ assigned' = assigned
      BY <3>1, <3>2, <3>5 DEF UpdateRisk
    <3>8. risks' \in Seq(RiskRecord) /\ Len(risks') = Len(risks)
      BY <1>2, <3>6, <3>7
    <3>9. risks'[i] = new /\ \A j \in DOMAIN risks \ {i} : risks'[j] = risks[j]
      BY <1>2, <3>7
    <3>10. reopened' = IF action = "reopen" THEN reopened \cup {i} ELSE reopened
      BY <3>1 DEF UpdateRisk
    <3>11. ASSUME NEW j \in DOMAIN risks
           PROVE  /\ risks'[j].hash = risks[j].hash
                  /\ risks'[j].lifecycle = "active" => risks[j].lifecycle = "active" \/ j \in reopened'
      BY <3>2, <3>3, <3>6, <3>9, <3>10
    <3> QED
      BY <1>2, <3>7, <3>8, <3>10, <3>11
  <2> QED
    BY <2>1, <2>2
<1>4. DOMAIN risks' = DOMAIN risks
  BY <1>2, <1>3
<1>5. ASSUME NEW u \in Scanners PROVE ScanFits(u)'
  <2>1. \A h : InRegister(h) => InRegister(h)'
    BY <1>3, <1>4 DEF InRegister
  <2> QED
    BY <1>1, <2>1, OtherScansFit DEF RiskInv
<1>6. RegisterTyped'
  BY <1>1, <1>3, <1>4 DEF RiskInv, RegisterTyped
<1>7. BoardTyped'
  <2>1. /\ spent' \in [moves : 0..MaxMoves, scans : 0..MaxScans, updates : 0..MaxUpdates]
        /\ spent'.moves >= spent.moves
    BY <1>1, SpentTyped DEF RiskInv, BoardTyped
  <2>2. today \in 0..spent.moves /\ spent.moves \in Nat /\ spent'.moves \in Nat
    BY <2>1, RiskAssumption DEF RiskInv, BoardTyped, RiskAssumption
  <2>3. today' \in 0..spent'.moves
    BY <1>1, <2>1, <2>2
  <2> QED
    BY <1>1, <2>1, <2>3 DEF RiskInv, BoardTyped
<1> QED
  BY <1>1, <1>3, <1>4, <1>5, <1>6, <1>7 DEF RiskInv

(* Nothing is registered and nobody scans at first.                        *)
LEMMA RiskInitially == RiskInit => RiskInv
<1> SUFFICES ASSUME RiskInit PROVE RiskInv
  OBVIOUS
<1>1. RegisterTyped
  BY DEF RiskInit, RegisterTyped
<1>2. BoardTyped
  BY RiskAssumption DEF RiskInit, BoardTyped, RiskAssumption
<1>3. ASSUME NEW s \in Scanners PROVE ScanFits(s)
  BY DEF RiskInit, ScanFits, NoScan
<1> QED
  BY <1>1, <1>2, <1>3 DEF RiskInv, RiskInit

(* Every step keeps what the scans hold true of the register.              *)
LEMMA RiskStepsKeep == RiskInv /\ [RiskNext]_riskVars => RiskInv'
<1> SUFFICES ASSUME RiskInv, [RiskNext]_riskVars PROVE RiskInv'
  OBVIOUS
<1>1. CASE UNCHANGED riskVars
  <2>1. \A u \in Scanners : ScanFits(u)'
    <3>1. \A h : InRegister(h) => InRegister(h)'
      BY <1>1 DEF InRegister, riskVars
    <3> QED
      BY <1>1, <3>1, OtherScansFit DEF RiskInv, riskVars
  <2> QED
    BY <1>1, <2>1 DEF RiskInv, RegisterTyped, BoardTyped, riskVars
<1>2. CASE (\E id \in RiskTasks, to \in TaskMoves : MoveTask(id, to)) \/ NextDay
  BY <1>2, BoardChangesKeep
<1>3. ASSUME NEW s \in Scanners, Scan(s) PROVE RiskInv'
  BY <1>3, LoadTasksKeeps, EvaluateKeeps, PersistRisksKeeps, ScanEndsKeeps DEF Scan
<1>4. ASSUME NEW i \in DOMAIN risks, NEW by \in Handlers,
             (\E to \in Handlers : AssignRisk(i, by, to)) \/ \E action \in DOMAIN NewLifecycle : UpdateRisk(i, by, action)
      PROVE  RiskInv'
  BY <1>4, HandlingKeeps
<1> QED
  BY <1>1, <1>2, <1>3, <1>4 DEF RiskNext

(* The register and what the scans hold agree in every state.              *)
LEMMA RiskInvariant == RiskSpec => []RiskInv
<1>1. RiskInit => RiskInv
  BY RiskInitially
<1>2. RiskInv /\ [RiskNext]_riskVars => RiskInv'
  BY RiskStepsKeep
<1> QED
  BY <1>1, <1>2, PTL DEF RiskSpec

(* While nothing is inserted, a row becomes active again only by being     *)
(* reopened: no twin appears and what was found stays new.                 *)
LEMMA NoTwinMade ==
    ASSUME NoActiveTwin, \A s \in Scanners : FoundIsNew(s),
           DOMAIN risks' = DOMAIN risks, Len(risks) \in Nat, DOMAIN risks = 1..Len(risks),
           reopened \subseteq reopened', origin' = origin,
           \A j \in DOMAIN risks :
               /\ risks'[j].hash = risks[j].hash
               /\ risks'[j].lifecycle = "active" => risks[j].lifecycle = "active" \/ j \in reopened'
    PROVE  /\ NoActiveTwin'
           /\ \A s \in Scanners : scanner'[s] = scanner[s] /\ knew'[s] = knew[s] => FoundIsNew(s)'
<1>1. ASSUME NEW j \in DOMAIN risks', NEW i \in 1..(j - 1),
             risks'[i].lifecycle = "active", risks'[j].lifecycle = "active", risks'[i].hash = risks'[j].hash
      PROVE  i \in reopened' \/ j \in reopened' \/ (i > origin'[j].seen /\ i <= origin'[j].stood)
  <2>1. i \in DOMAIN risks /\ j \in DOMAIN risks
    OBVIOUS
  <2> QED
    BY <1>1, <2>1 DEF NoActiveTwin
<1>2. NoActiveTwin'
  BY <1>1 DEF NoActiveTwin
<1>3. ASSUME NEW s \in Scanners, scanner'[s] = scanner[s], knew'[s] = knew[s] PROVE FoundIsNew(s)'
  BY <1>3 DEF FoundIsNew
<1> QED
  BY <1>2, <1>3

(* The rows a scan adds carry what it knew and what it found there.        *)
LEMMA OriginsRegistered ==
    ASSUME RegisterTyped, OriginTyped, NEW s \in Scanners, PersistRisks(s), Distinct(scanner[s].found)
    PROVE  /\ OriginTyped'
           /\ \A i \in DOMAIN risks : origin'[i] = origin[i]
           /\ \A i \in DOMAIN risks' \ DOMAIN risks :
                  origin'[i].seen = knew[s] /\ origin'[i].stood = Len(risks)
<1>1. PICK r, n, m : r = Registered(scanner[s].found) /\ n = Cardinality(scanner[s].found) /\ m = Len(risks)
  OBVIOUS
<1>2. n \in Nat /\ r \in [1..n -> RiskRecord] /\ risks' = risks \o r /\ risks \in Seq(RiskRecord) /\ m \in Nat
  BY <1>1, RegisteredRows DEF Distinct, PersistRisks, RegisterTyped
<1>3. r \in Seq(RiskRecord) /\ Len(r) = n
  BY <1>2
<1>4. Len(risks') = m + n /\ DOMAIN risks' = 1..(m + n) /\ DOMAIN risks = 1..m
  <2>1. PICK a, b : a = risks /\ b = risks'
    OBVIOUS
  <2>2. b = a \o r /\ a \in Seq(RiskRecord) /\ Len(a) = m
    BY <1>1, <1>2, <2>1
  <2>3. Len(b) = m + n /\ b \in Seq(RiskRecord)
    BY <1>3, <2>2
  <2>4. DOMAIN a = 1..m /\ DOMAIN b = 1..(m + n)
    BY <2>2, <2>3
  <2> QED
    BY <2>1, <2>3, <2>4
<1>5. PICK k : k = [seen |-> knew[s], stood |-> m]
  OBVIOUS
<1>6. PICK old : old = origin
  OBVIOUS
<1>15. PICK z : z = [i \in 1..Cardinality(scanner[s].found) |-> [seen |-> knew[s], stood |-> Len(risks)]]
  OBVIOUS
<1>7. z = [i \in 1..n |-> k]
  BY <1>1, <1>5, <1>15
<1>8. k \in Origin /\ k.seen = knew[s] /\ k.stood = m
  BY <1>2, <1>5 DEF OriginTyped, Origin
<1>9. z \in Seq(Origin) /\ Len(z) = n /\ old \in Seq(Origin) /\ Len(old) = m
  <2>1. z \in Seq(Origin) /\ Len(z) = n
    <3>1. z \in [1..n -> Origin] /\ n \in Nat
      BY <1>2, <1>7, <1>8
    <3> QED
      BY ONLY <3>1
  <2>2. old \in Seq(Origin) /\ Len(old) = m
    BY <1>1, <1>6 DEF OriginTyped
  <2> QED
    BY <2>1, <2>2
<1>10. origin' = old \o z /\ knew' = knew
  BY <1>6, <1>15 DEF PersistRisks
<1>11. origin' \in Seq(Origin) /\ Len(origin') = m + n
  <2>1. PICK b : b = origin'
    OBVIOUS
  <2>2. b = old \o z
    BY <1>10, <2>1
  <2>4. PICK R : R = Origin
    OBVIOUS
  <2>5. z \in Seq(R) /\ Len(z) = n /\ old \in Seq(R) /\ Len(old) = m
    BY <1>9, <2>4
  <2>6. b \in Seq(R)
    BY ONLY <2>2, <2>5
  <2>7. Len(b) = m + n
    <3>1. Len(old \o z) = Len(old) + Len(z)
      BY ONLY <2>5
    <3>2. b = old \o z
      BY <2>2
    <3>3. Len(b) = Len(old) + Len(z)
      BY ONLY <3>1, <3>2
    <3> QED
      BY ONLY <2>5, <3>3
  <2>3. b \in Seq(Origin) /\ Len(b) = m + n
    BY <2>4, <2>6, <2>7
  <2> QED
    BY <2>1, <2>3
<1>12. \A i \in 1..m : origin'[i] = old[i]
  BY <1>2, <1>9, <1>10
<1>13. ASSUME NEW i \in (1..(m + n)) \ (1..m) PROVE origin'[i] = k
  <2>1. i - m \in 1..n /\ i \in (m + 1)..(m + n)
    BY <1>2
  <2>2. origin'[i] = z[i - m]
    BY <1>2, <1>9, <1>10, <2>1
  <2> QED
    BY <1>7, <2>1, <2>2
<1>14. OriginTyped'
  <2>1. \A u \in Scanners : knew[u] \in Nat /\ knew[u] <= m + n
    BY <1>1, <1>2 DEF OriginTyped
  <2> QED
    BY <1>4, <1>10, <1>11, <2>1 DEF OriginTyped
<1> QED
  BY <1>1, <1>4, <1>6, <1>8, <1>12, <1>13, <1>14

(* What a scan inserts is new, but for what was registered, or reopened,   *)
(* since it read the hashes.                                               *)
LEMMA PersistMakesNoTwin ==
    ASSUME RegisterInv, NEW s \in Scanners, PersistRisks(s)
    PROVE  OriginTyped' /\ NoActiveTwin' /\ \A u \in Scanners : FoundIsNew(u)'
<1>1. scanner[s].at = "found" /\ reopened' = reopened /\ knew' = knew /\ knew \in [Scanners -> Nat]
  BY DEF PersistRisks, RegisterInv, OriginTyped
<1>2. RegisterTyped /\ OriginTyped /\ Distinct(scanner[s].found)
  BY <1>1 DEF RegisterInv, RiskInv, ScanFits, Distinct
<1>3. /\ \A i \in DOMAIN risks : i \in DOMAIN risks' /\ risks'[i] = risks[i]
      /\ \A i \in DOMAIN risks' \ DOMAIN risks : \E f \in scanner[s].found : risks'[i].hash = f.hash
      /\ \A i, j \in DOMAIN risks' \ DOMAIN risks : risks'[i].hash = risks'[j].hash => i = j
      /\ RegisterTyped'
  BY <1>2, RowsRegistered
<1>4. /\ OriginTyped' /\ \A i \in DOMAIN risks : origin'[i] = origin[i]
      /\ \A i \in DOMAIN risks' \ DOMAIN risks : origin'[i].seen = knew[s] /\ origin'[i].stood = Len(risks)
  BY <1>2, OriginsRegistered
<1>5. PICK m, n : m = Len(risks) /\ n = Len(risks')
  OBVIOUS
<1>6. m \in Nat /\ n \in Nat /\ DOMAIN risks = 1..m /\ DOMAIN risks' = 1..n
  BY <1>2, <1>3, <1>5 DEF RegisterTyped
<1>7. ASSUME NEW i \in DOMAIN risks, NEW j \in DOMAIN risks' \ DOMAIN risks,
             risks'[i].lifecycle = "active", risks'[i].hash = risks'[j].hash
      PROVE  i \in reopened \/ (i > knew[s] /\ i <= m)
  <2>1. PICK f \in scanner[s].found : risks'[j].hash = f.hash
    BY <1>3
  <2>2. risks[i].lifecycle = "active" /\ risks[i].hash = f.hash
    BY <1>3, <1>7, <2>1
  <2> QED
    BY <1>1, <1>6, <2>2 DEF RegisterInv, FoundIsNew
<1>8. ASSUME NEW j \in DOMAIN risks', NEW i \in 1..(j - 1),
             risks'[i].lifecycle = "active", risks'[j].lifecycle = "active", risks'[i].hash = risks'[j].hash
      PROVE  i \in reopened' \/ j \in reopened' \/ (i > origin'[j].seen /\ i <= origin'[j].stood)
  <2>1. i \in DOMAIN risks' /\ i < j /\ i # j
    BY <1>6
  <2>2. CASE j \in DOMAIN risks
    <3>1. i \in DOMAIN risks
      BY <1>6, <2>2
    <3>2. /\ risks[i].lifecycle = "active" /\ risks[j].lifecycle = "active" /\ risks[i].hash = risks[j].hash
          /\ origin'[j] = origin[j]
      BY <1>3, <1>4, <1>8, <2>2, <3>1
    <3> QED
      BY <1>1, <2>2, <3>2 DEF RegisterInv, NoActiveTwin
  <2>3. CASE i \in DOMAIN risks /\ j \notin DOMAIN risks
    BY <1>1, <1>4, <1>5, <1>7, <1>8, <2>3
  <2>4. CASE i \notin DOMAIN risks /\ j \notin DOMAIN risks
    BY <1>3, <1>8, <2>1, <2>4
  <2> QED
    BY <2>2, <2>3, <2>4
<1>9. NoActiveTwin'
  BY <1>8 DEF NoActiveTwin
<1>10. scanner'[s].at = "saved" /\ \A u \in Scanners \ {s} : scanner'[u] = scanner[u]
  <2>1. PICK q : q = [scanner[s] EXCEPT !.at = "saved"]
    OBVIOUS
  <2>2. q.at = "saved"
    BY <2>1 DEF RegisterInv, RiskInv, ScanFits
  <2> QED
    BY <2>1, <2>2 DEF PersistRisks, RegisterInv, RiskInv
<1>11. ASSUME NEW u \in Scanners PROVE FoundIsNew(u)'
  <2>1. CASE u = s
    BY <1>10, <2>1 DEF FoundIsNew
  <2>2. CASE u # s
    <3>1. scanner'[u] = scanner[u] /\ FoundIsNew(u)
      BY <1>10, <2>2 DEF RegisterInv
    <3> SUFFICES ASSUME scanner[u].at = "found", NEW f \in scanner[u].found, NEW i \in DOMAIN risks',
                        risks'[i].hash = f.hash, risks'[i].lifecycle = "active"
                 PROVE  i \in reopened' \/ i > knew'[u]
      BY <3>1 DEF FoundIsNew
    <3>2. CASE i \in DOMAIN risks
      BY <1>1, <1>3, <3>1, <3>2 DEF FoundIsNew
    <3>3. CASE i \notin DOMAIN risks
      <4>1. i > m
        BY <1>6, <3>3
      <4>2. knew[u] \in Nat /\ knew[u] <= m
        BY <1>1, <1>2, <1>5 DEF OriginTyped
      <4> QED
        BY <1>1, <1>6, <4>1, <4>2
    <3> QED
      BY <3>2, <3>3
  <2> QED
    BY <2>1, <2>2
<1> QED
  BY <1>4, <1>9, <1>11

(* No step of the scanners and the handlers makes a twin.                  *)
LEMMA RegisterStepsKeep == RegisterInv /\ [RiskNext]_riskVars => RegisterInv'
<1> SUFFICES ASSUME RegisterInv, [RiskNext]_riskVars PROVE RegisterInv'
  OBVIOUS
<1>1. /\ RiskInv' /\ RiskInv /\ OriginTyped /\ NoActiveTwin /\ \A s \in Scanners : FoundIsNew(s)
      /\ Len(risks) \in Nat /\ DOMAIN risks = 1..Len(risks)
  BY RiskStepsKeep DEF RegisterInv, RiskInv, RegisterTyped
<1>2. CASE UNCHANGED <<risks, reopened, scanner, knew, origin>>
  <2>1. NoActiveTwin' /\ \A s \in Scanners : FoundIsNew(s)'
    BY <1>1, <1>2, NoTwinMade
  <2> QED
    BY <1>1, <1>2, <2>1 DEF RegisterInv, OriginTyped
<1>3. ASSUME NEW s \in Scanners, LoadTasks(s) \/ Evaluate(s) \/ PersistScanRun(s) \/ ScannerDies(s)
      PROVE  RegisterInv'
  <2>1. risks' = risks /\ reopened' = reopened /\ origin' = origin
        /\ (Evaluate(s) \/ knew' = knew)
    BY <1>3 DEF LoadTasks, Evaluate, PersistScanRun, ScannerDies
  <2>2. /\ NoActiveTwin'
        /\ \A u \in Scanners : scanner'[u] = scanner[u] /\ knew'[u] = knew[u] => FoundIsNew(u)'
    BY <1>1, <2>1, NoTwinMade
  <2>3. /\ FoundIsNew(s)' /\ \A u \in Scanners \ {s} : scanner'[u] = scanner[u] /\ knew'[u] = knew[u]
        /\ OriginTyped'
    <3>1. CASE Evaluate(s)
      <4>1. PICK q : /\ scanner' = [scanner EXCEPT ![s] = q]
                     /\ \A f \in q.found : f.hash \notin ActiveHashes
        BY <1>1, <3>1, Evaluated
      <4>2. scanner'[s] = q /\ \A u \in Scanners \ {s} : scanner'[u] = scanner[u]
        BY <1>1, <4>1, OneScanMoves DEF RiskInv
      <4>3. \A f \in q.found : \A i \in DOMAIN risks : ~ (risks[i].hash = f.hash /\ risks[i].lifecycle = "active")
        BY <4>1 DEF ActiveHashes
      <4>4. knew' = [knew EXCEPT ![s] = Len(risks)]
        BY <3>1 DEF Evaluate
      <4>5. /\ knew' \in [Scanners -> Nat] /\ \A u \in Scanners \ {s} : knew'[u] = knew[u]
            /\ \A u \in Scanners : knew'[u] <= Len(risks)
        BY <1>1, <4>4 DEF OriginTyped
      <4>6. OriginTyped'
        BY <1>1, <2>1, <4>5 DEF OriginTyped
      <4>7. FoundIsNew(s)'
        BY <2>1, <4>2, <4>3 DEF FoundIsNew
      <4> QED
        BY <4>2, <4>5, <4>6, <4>7
    <3>2. CASE LoadTasks(s)
      <4>1. PICK q : /\ scanner' = [scanner EXCEPT ![s] = q]
                     /\ q = [at |-> "tasks", tasks |-> {[t EXCEPT !.evidence = 0] : t \in board},
                             day |-> 0, found |-> {}]
        BY <3>2 DEF LoadTasks
      <4>2. scanner'[s] = q /\ \A u \in Scanners \ {s} : scanner'[u] = scanner[u]
        BY <1>1, <4>1, OneScanMoves DEF RiskInv
      <4>3. q.at = "tasks" /\ knew' = knew
        BY <3>2, <4>1 DEF LoadTasks
      <4> QED
        BY <1>1, <2>1, <4>2, <4>3 DEF FoundIsNew, OriginTyped
    <3>3. CASE PersistScanRun(s) \/ ScannerDies(s)
      <4>1. scanner' = [scanner EXCEPT ![s] = NoScan] /\ knew' = knew
        BY <3>3 DEF PersistScanRun, ScannerDies
      <4>2. scanner'[s] = NoScan /\ \A u \in Scanners \ {s} : scanner'[u] = scanner[u]
        BY <1>1, <4>1, OneScanMoves DEF RiskInv
      <4> QED
        BY <1>1, <2>1, <4>1, <4>2 DEF FoundIsNew, NoScan, OriginTyped
    <3> QED
      BY <1>3, <3>1, <3>2, <3>3
  <2> QED
    BY <1>1, <2>2, <2>3 DEF RegisterInv
<1>4. ASSUME NEW s \in Scanners, PersistRisks(s) PROVE RegisterInv'
  BY <1>1, <1>4, PersistMakesNoTwin DEF RegisterInv
<1>5. ASSUME NEW i \in DOMAIN risks, NEW by \in Handlers,
             (\E to \in Handlers : AssignRisk(i, by, to)) \/ \E action \in DOMAIN NewLifecycle : UpdateRisk(i, by, action)
      PROVE  RegisterInv'
  <2>1. /\ UNCHANGED scanner /\ DOMAIN risks' = DOMAIN risks /\ reopened \subseteq reopened'
        /\ \A j \in DOMAIN risks :
               /\ risks'[j].hash = risks[j].hash
               /\ risks'[j].lifecycle = "active" => risks[j].lifecycle = "active" \/ j \in reopened'
    BY <1>1, <1>5, HandlingKeeps
  <2>2. UNCHANGED <<knew, origin>>
    BY <1>5 DEF AssignRisk, UpdateRisk
  <2>3. NoActiveTwin' /\ \A s \in Scanners : FoundIsNew(s)'
    BY <1>1, <2>1, <2>2, NoTwinMade
  <2>4. Len(risks') = Len(risks)
    BY <1>1, <1>5, HandlingKeeps
  <2> QED
    BY <1>1, <2>2, <2>3, <2>4 DEF RegisterInv, OriginTyped
<1>6. CASE UNCHANGED riskVars
  BY <1>2, <1>6 DEF riskVars
<1>7. CASE (\E id \in RiskTasks, to \in TaskMoves : MoveTask(id, to)) \/ NextDay
  <2>1. UNCHANGED <<risks, reopened, scanner, knew, origin>>
    BY <1>7 DEF MoveTask, NextDay
  <2> QED
    BY <1>2, <2>1
<1> QED
  BY <1>3, <1>4, <1>5, <1>6, <1>7 DEF RiskNext, Scan

(* The register, and what is known of where its rows come from.            *)
LEMMA RegisterInvariant == RiskSpec => []RegisterInv
<1>1. RiskInit => RegisterInv
  <2> SUFFICES ASSUME RiskInit PROVE RegisterInv
    OBVIOUS
  <2>1. NoActiveTwin /\ OriginTyped
    BY DEF RiskInit, NoActiveTwin, OriginTyped
  <2>2. \A s \in Scanners : FoundIsNew(s)
    BY DEF RiskInit, FoundIsNew, NoScan
  <2> QED
    BY <2>1, <2>2, RiskInitially DEF RegisterInv
<1>2. RegisterInv /\ [RiskNext]_riskVars => RegisterInv'
  BY RegisterStepsKeep
<1> QED
  BY <1>1, <1>2, PTL DEF RiskSpec

(* When a scan has inserted its findings, everything its rules find in the *)
(* tasks it read is in the register, whatever was handled meanwhile and    *)
(* whoever else was scanning (risk_scanner.py:221-248).                    *)
THEOREM FindingsAreRegistered == RiskSpec => [](RiskTypeOK /\ FindingsRegistered)
<1>1. RegisterInv => RiskTypeOK
  <2> SUFFICES ASSUME RegisterInv PROVE RiskTypeOK
    OBVIOUS
  <2>1. today \in 0..MaxMoves
    <3>1. PICK m : m = spent.moves
      OBVIOUS
    <3>2. m \in 0..MaxMoves /\ today \in 0..m /\ MaxMoves \in Nat
      BY <3>1, RiskAssumption DEF RegisterInv, RiskInv, BoardTyped, RiskAssumption
    <3> QED
      BY ONLY <3>2
  <2>2. \A s \in Scanners : scanner[s].at \in {"idle", "tasks", "found", "saved"}
    BY DEF RegisterInv, RiskInv, ScanFits
  <2> QED
    BY <2>1, <2>2 DEF RegisterInv, OriginTyped, RiskInv, RiskTypeOK, RegisterTyped, BoardTyped
<1>2. RegisterInv => FindingsRegistered
  BY DEF RegisterInv, RiskInv, ScanFits, FindingsRegistered, InRegister, FindingsOf
<1> QED
  BY <1>1, <1>2, RegisterInvariant, PTL

(* Whoever scans and whoever handles risks meanwhile, a finding has one    *)
(* active record, but for what was reopened by hand and for what a scan    *)
(* registers after another that read the hashes after it had: a scan never *)
(* registers what was active when it looked, nor anything twice            *)
(* (risk_scanner.py:213-248).                                              *)
THEOREM NoTwinsRegistered == RiskSpec => []NoActiveTwin
<1>1. RegisterInv => NoActiveTwin
  BY DEF RegisterInv
<1> QED
  BY <1>1, RegisterInvariant, PTL
-----------------------------------------------------------------------------
(* The index of documents. *)

ChunkRecords == [doc : Sources, text : DocTexts \ {Blank}]

ChunksTyped(m) == m.chunks \in Chunks /\ m.prints \in [Sources -> DocTexts \cup {NoText}]

SourceTyped == source \in [Sources -> DocTexts \cup {NoText}]

(* What a document adds to the index.                                      *)
LEMMA ChunkAdded ==
    ASSUME SourceTyped, NEW known, ChunksTyped(known), NEW d \in Sources, InIndex(d, known)
    PROVE  /\ ChunkOf(d, known) \in ChunkRecords
           /\ ChunkOf(d, known).doc = d
           /\ Retell(known.chunks, known.prints) => ChunkOf(d, known).text = source[d]
<1>1. CASE KeepsChunk(d, known)
  <2>1. PICK i : i = CHOOSE k \in DOMAIN known.chunks : known.chunks[k].doc = d
    OBVIOUS
  <2>2. i \in DOMAIN known.chunks /\ known.chunks[i].doc = d
    BY <1>1, <2>1 DEF KeepsChunk, HasChunk
  <2>3. known.chunks[i] \in ChunkRecords
    <3>1. PICK chunks : chunks = known.chunks
      OBVIOUS
    <3>2. chunks \in Seq(ChunkRecords)
      BY <3>1 DEF ChunksTyped, Chunks, ChunkRecords
    <3>3. chunks[i] \in ChunkRecords
      BY <2>2, <3>1, <3>2
    <3> QED
      BY <3>1, <3>3
  <2>4. ChunkOf(d, known) = known.chunks[i]
    BY <1>1, <2>1 DEF ChunkOf
  <2> QED
    BY <1>1, <2>2, <2>3, <2>4 DEF KeepsChunk, Retell
<1>2. CASE ~KeepsChunk(d, known)
  <2>1. source[d] \in DocTexts \ {Blank}
    BY <1>2 DEF InIndex, SourceTyped
  <2> QED
    BY <1>2, <2>1 DEF ChunkOf, ChunkRecords
<1> QED
  BY <1>1, <1>2

(* The chunks of a build are of the documents that have one.               *)
LEMMA ChunksBuilt ==
    ASSUME SourceTyped, NEW known, ChunksTyped(known)
    PROVE  /\ NewChunks(known) \in Chunks
           /\ \A k \in DOMAIN NewChunks(known) :
                  \E d \in Sources : InIndex(d, known) /\ NewChunks(known)[k] = ChunkOf(d, known)
           /\ \A d \in Sources : InIndex(d, known) =>
                  \E k \in DOMAIN NewChunks(known) : NewChunks(known)[k] = ChunkOf(d, known)
<1>1. PICK N, n, new : /\ N = {i \in DOMAIN DocOrder : InIndex(DocOrder[i], known)}
                       /\ n = Cardinality(N) /\ new = NewChunks(known)
  OBVIOUS
<1>2. N \in SUBSET Nat /\ IsFiniteSet(N)
  <2>1. PICK m : m = Len(DocOrder)
    OBVIOUS
  <2>2. m \in Nat /\ DOMAIN DocOrder = 1..m
    BY <2>1, IndexAssumption DEF IndexAssumption
  <2>3. N \subseteq 1..m
    BY <1>1, <2>2
  <2>4. IsFiniteSet(1..m)
    BY <2>2, FS_Interval
  <2>5. IsFiniteSet(N)
    BY <2>3, <2>4, FS_Subset
  <2>6. 1..m \subseteq Nat
    BY <2>2
  <2> QED
    BY <2>3, <2>5, <2>6
<1>3. /\ n \in Nat
      /\ \A k \in 1..n : Nth(N, k) \in N
      /\ \A i \in N : \E k \in 1..n : Nth(N, k) = i
  BY <1>1, <1>2, NumbersInOrder
<1>4. new = [k \in 1..n |-> ChunkOf(DocOrder[Nth(N, k)], known)]
  BY <1>1 DEF NewChunks
<1>5. \A i \in N : DocOrder[i] \in Sources /\ InIndex(DocOrder[i], known)
  BY <1>1 DEF Sources
<1>6. ASSUME NEW k \in 1..n
      PROVE  new[k] \in ChunkRecords /\ \E d \in Sources : InIndex(d, known) /\ new[k] = ChunkOf(d, known)
  <2>1. PICK d : d = DocOrder[Nth(N, k)]
    OBVIOUS
  <2>2. d \in Sources /\ InIndex(d, known) /\ new[k] = ChunkOf(d, known)
    BY <1>3, <1>4, <1>5, <2>1
  <2> QED
    BY <2>2, ChunkAdded
<1>7. ASSUME NEW d \in Sources, InIndex(d, known) PROVE \E k \in 1..n : new[k] = ChunkOf(d, known)
  <2>1. PICK i \in N : DocOrder[i] = d
    BY <1>1, <1>7 DEF Sources
  <2>2. PICK k \in 1..n : Nth(N, k) = i
    BY <1>3
  <2> QED
    BY <1>4, <2>1, <2>2
<1>8. new \in Seq(ChunkRecords)
  BY <1>3, <1>4, <1>6
<1>9. DOMAIN new = 1..n
  BY <1>4
<1> QED
  BY <1>1, <1>6, <1>7, <1>8, <1>9 DEF Chunks, ChunkRecords

(* What a build keeps and adds says what the documents say.                *)
LEMMA BuildRetells ==
    ASSUME SourceTyped, NEW known, ChunksTyped(known), Retell(known.chunks, known.prints)
    PROVE  /\ Retell(NewChunks(known), source)
           /\ (\E d \in Sources : source[d] \in DocTexts \ {Blank}) => NewChunks(known) # <<>>
<1>1. PICK new : new = NewChunks(known)
  OBVIOUS
<1>2. /\ \A k \in DOMAIN new : \E d \in Sources : InIndex(d, known) /\ new[k] = ChunkOf(d, known)
      /\ \A d \in Sources : InIndex(d, known) => \E k \in DOMAIN new : new[k] = ChunkOf(d, known)
  BY <1>1, ChunksBuilt
<1>3. \A d \in Sources : InIndex(d, known) =>
          /\ ChunkOf(d, known) \in ChunkRecords /\ ChunkOf(d, known).doc = d
          /\ ChunkOf(d, known).text = source[d]
  BY ChunkAdded
<1>4. \A k \in DOMAIN new : source[new[k].doc] = new[k].text
  BY <1>2, <1>3
<1>5. ASSUME NEW d \in Sources, source[d] \in DocTexts \ {Blank}
      PROVE  \E k \in DOMAIN new : new[k] = [doc |-> d, text |-> source[d]]
  <2>1. InIndex(d, known)
    BY <1>5, IndexAssumption DEF InIndex, IndexAssumption
  <2>2. ChunkOf(d, known) = [doc |-> d, text |-> source[d]]
    BY <1>3, <2>1 DEF ChunkRecords
  <2> QED
    BY <1>2, <2>1, <2>2
<1>6. ASSUME NEW d \in Sources, source[d] \in DocTexts \ {Blank} PROVE new # <<>>
  BY <1>5, <1>6
<1> QED
  BY <1>1, <1>4, <1>5, <1>6 DEF Retell

\* What an index object says agrees within itself.
MemoryFits(m) ==
    /\ m = [chunks |-> m.chunks, faiss |-> m.faiss, corpus |-> m.corpus, prints |-> m.prints,
            embedding |-> m.embedding, good |-> m.good, together |-> m.together, of |-> m.of]
    /\ ChunksTyped(m) /\ m.embedding \in BOOLEAN /\ m.good \in BOOLEAN /\ m.together \in BOOLEAN
    /\ m.good /\ ~m.embedding => m.faiss = TextsOf(m.chunks) /\ m.corpus = TextsOf(m.chunks)
    /\ m.together => Retell(m.chunks, m.prints)
    /\ m.together /\ (\E d \in Sources : m.of[d] \in DocTexts \ {Blank}) => Retell(m.chunks, m.of)

(* A build with changes.                                                   *)
LEMMA ChangeFits ==
    ASSUME SourceTyped, NEW known, MemoryFits(known),
           NEW m, m = [known EXCEPT !.chunks = NewChunks(known), !.prints = source, !.embedding = TRUE, !.of = source]
    PROVE  MemoryFits(m)
<1>1. PICK new, texts : new = NewChunks(known) /\ texts = source
  OBVIOUS
<1>2. PICK a, f, c, p, e, g, t, o :
          known = [chunks |-> a, faiss |-> f, corpus |-> c, prints |-> p,
                   embedding |-> e, good |-> g, together |-> t, of |-> o]
  BY DEF MemoryFits
<1>3. PICK m1 : m1 = [known EXCEPT !.chunks = new]
  OBVIOUS
<1>4. m1 = [chunks |-> new, faiss |-> f, corpus |-> c, prints |-> p,
            embedding |-> e, good |-> g, together |-> t, of |-> o]
  BY ONLY <1>2, <1>3
<1>5. PICK m2 : m2 = [m1 EXCEPT !.prints = texts]
  OBVIOUS
<1>6. m2 = [chunks |-> new, faiss |-> f, corpus |-> c, prints |-> texts,
            embedding |-> e, good |-> g, together |-> t, of |-> o]
  BY ONLY <1>4, <1>5
<1>7. PICK m3 : m3 = [m2 EXCEPT !.embedding = TRUE]
  OBVIOUS
<1>8. m3 = [chunks |-> new, faiss |-> f, corpus |-> c, prints |-> texts,
            embedding |-> TRUE, good |-> g, together |-> t, of |-> o]
  BY ONLY <1>6, <1>7
<1>9. m = [m3 EXCEPT !.of = texts]
  BY <1>1, <1>3, <1>5, <1>7
<1>10. m = [chunks |-> new, faiss |-> f, corpus |-> c, prints |-> texts,
            embedding |-> TRUE, good |-> g, together |-> t, of |-> texts]
  BY ONLY <1>8, <1>9
<1>11. /\ m.chunks = new /\ m.faiss = f /\ m.corpus = c /\ m.prints = texts
       /\ m.embedding = TRUE /\ m.good = g /\ m.together = t /\ m.of = texts
  BY ONLY <1>10
<1>12. g = known.good /\ t = known.together
  BY ONLY <1>2
<1>13. ChunksTyped(known) /\ known.good \in BOOLEAN /\ known.together \in BOOLEAN
  BY DEF MemoryFits
<1>14. new \in Chunks /\ texts \in [Sources -> DocTexts \cup {NoText}]
  BY <1>1, <1>13, ChunksBuilt DEF SourceTyped
<1>15. t => Retell(new, texts)
  BY <1>1, <1>12, <1>13, BuildRetells DEF MemoryFits
<1>16. m = [chunks |-> m.chunks, faiss |-> m.faiss, corpus |-> m.corpus, prints |-> m.prints,
            embedding |-> m.embedding, good |-> m.good, together |-> m.together, of |-> m.of]
  BY ONLY <1>10, <1>11
<1> QED
  BY <1>11, <1>12, <1>13, <1>14, <1>15, <1>16 DEF MemoryFits, ChunksTyped

(* A build without changes.                                                *)
LEMMA NoChangeFits ==
    ASSUME SourceTyped, NEW known, MemoryFits(known), ~IsChanged(known),
           NEW m, m = [known EXCEPT !.of = source]
    PROVE  MemoryFits(m)
<1>1. PICK texts : texts = source
  OBVIOUS
<1>2. PICK a, f, c, p, e, g, t, o :
          known = [chunks |-> a, faiss |-> f, corpus |-> c, prints |-> p,
                   embedding |-> e, good |-> g, together |-> t, of |-> o]
  BY DEF MemoryFits
<1>3. m = [chunks |-> a, faiss |-> f, corpus |-> c, prints |-> p,
           embedding |-> e, good |-> g, together |-> t, of |-> texts]
  <2>1. m = [known EXCEPT !.of = texts]
    BY <1>1
  <2> QED
    BY ONLY <1>2, <2>1
<1>4. /\ m.chunks = a /\ m.faiss = f /\ m.corpus = c /\ m.prints = p
      /\ m.embedding = e /\ m.good = g /\ m.together = t /\ m.of = texts
  BY ONLY <1>3
<1>5. /\ known.chunks = a /\ known.faiss = f /\ known.corpus = c /\ known.prints = p
      /\ known.embedding = e /\ known.good = g /\ known.together = t
  BY ONLY <1>2
<1>6. m = [chunks |-> m.chunks, faiss |-> m.faiss, corpus |-> m.corpus, prints |-> m.prints,
           embedding |-> m.embedding, good |-> m.good, together |-> m.together, of |-> m.of]
  BY ONLY <1>3, <1>4
<1>7. ASSUME t, NEW d \in Sources, texts[d] \in DocTexts \ {Blank} PROVE Retell(a, texts)
  <2>1. ChunksTyped(known) /\ Retell(known.chunks, known.prints)
    BY <1>5, <1>7 DEF MemoryFits
  <2>2. NewChunks(known) # <<>>
    BY <1>1, <1>7, <2>1, BuildRetells
  <2>3. source = known.prints
    BY <2>2 DEF IsChanged
  <2> QED
    BY <1>1, <1>5, <2>1, <2>3
<1>8. /\ ChunksTyped(known) /\ e \in BOOLEAN /\ g \in BOOLEAN /\ t \in BOOLEAN
      /\ g /\ ~e => f = TextsOf(a) /\ c = TextsOf(a)
      /\ t => Retell(a, p)
  BY <1>5 DEF MemoryFits
<1>9. ChunksTyped(m)
  BY <1>4, <1>5, <1>8 DEF ChunksTyped
<1> QED
  BY <1>4, <1>6, <1>7, <1>8, <1>9 DEF MemoryFits

(* An embedding that ends or fails.                                        *)
LEMMA EmbeddingFits ==
    ASSUME NEW known, MemoryFits(known), NEW m,
           \/ m = [known EXCEPT !.faiss = TextsOf(known.chunks), !.corpus = TextsOf(known.chunks),
                                !.embedding = FALSE, !.good = TRUE]
           \/ m = [known EXCEPT !.embedding = FALSE, !.good = FALSE]
    PROVE  MemoryFits(m)
<1>1. PICK a, f, c, p, e, g, t, o :
          known = [chunks |-> a, faiss |-> f, corpus |-> c, prints |-> p,
                   embedding |-> e, good |-> g, together |-> t, of |-> o]
  BY DEF MemoryFits
<1>2. /\ known.chunks = a /\ known.faiss = f /\ known.corpus = c /\ known.prints = p
      /\ known.embedding = e /\ known.good = g /\ known.together = t /\ known.of = o
  BY ONLY <1>1
<1>3. PICK x : x = TextsOf(a)
  OBVIOUS
<1>4. \/ m = [chunks |-> a, faiss |-> x, corpus |-> x, prints |-> p,
              embedding |-> FALSE, good |-> TRUE, together |-> t, of |-> o]
      \/ m = [chunks |-> a, faiss |-> f, corpus |-> c, prints |-> p,
              embedding |-> FALSE, good |-> FALSE, together |-> t, of |-> o]
  <2>1. CASE m = [known EXCEPT !.faiss = TextsOf(known.chunks), !.corpus = TextsOf(known.chunks),
                               !.embedding = FALSE, !.good = TRUE]
    <3>1. PICK m1 : m1 = [known EXCEPT !.faiss = x]
      OBVIOUS
    <3>2. m1 = [chunks |-> a, faiss |-> x, corpus |-> c, prints |-> p,
                embedding |-> e, good |-> g, together |-> t, of |-> o]
      BY ONLY <1>1, <3>1
    <3>3. PICK m2 : m2 = [m1 EXCEPT !.corpus = x]
      OBVIOUS
    <3>4. m2 = [chunks |-> a, faiss |-> x, corpus |-> x, prints |-> p,
                embedding |-> e, good |-> g, together |-> t, of |-> o]
      BY ONLY <3>2, <3>3
    <3>5. PICK m3 : m3 = [m2 EXCEPT !.embedding = FALSE]
      OBVIOUS
    <3>6. m3 = [chunks |-> a, faiss |-> x, corpus |-> x, prints |-> p,
                embedding |-> FALSE, good |-> g, together |-> t, of |-> o]
      BY ONLY <3>4, <3>5
    <3>7. m = [m3 EXCEPT !.good = TRUE]
      BY <1>2, <1>3, <2>1, <3>1, <3>3, <3>5
    <3> QED
      BY ONLY <3>6, <3>7
  <2>2. CASE m = [known EXCEPT !.embedding = FALSE, !.good = FALSE]
    <3>1. PICK m1 : m1 = [known EXCEPT !.embedding = FALSE]
      OBVIOUS
    <3>2. m1 = [chunks |-> a, faiss |-> f, corpus |-> c, prints |-> p,
                embedding |-> FALSE, good |-> g, together |-> t, of |-> o]
      BY ONLY <1>1, <3>1
    <3>3. m = [m1 EXCEPT !.good = FALSE]
      BY <2>2, <3>1
    <3> QED
      BY ONLY <3>2, <3>3
  <2> QED
    BY <2>1, <2>2
<1>5. /\ m.chunks = a /\ m.prints = p /\ m.embedding = FALSE /\ m.together = t /\ m.of = o
      /\ m = [chunks |-> m.chunks, faiss |-> m.faiss, corpus |-> m.corpus, prints |-> m.prints,
              embedding |-> m.embedding, good |-> m.good, together |-> m.together, of |-> m.of]
      /\ m.good \in BOOLEAN
      /\ m.good => m.faiss = x /\ m.corpus = x
  <2>1. CASE m = [chunks |-> a, faiss |-> x, corpus |-> x, prints |-> p,
                  embedding |-> FALSE, good |-> TRUE, together |-> t, of |-> o]
    <3>1. /\ m.chunks = a /\ m.faiss = x /\ m.corpus = x /\ m.prints = p
          /\ m.embedding = FALSE /\ m.good = TRUE /\ m.together = t /\ m.of = o
      BY ONLY <2>1
    <3> QED
      BY ONLY <2>1, <3>1
  <2>2. CASE m = [chunks |-> a, faiss |-> f, corpus |-> c, prints |-> p,
                  embedding |-> FALSE, good |-> FALSE, together |-> t, of |-> o]
    <3>1. /\ m.chunks = a /\ m.faiss = f /\ m.corpus = c /\ m.prints = p
          /\ m.embedding = FALSE /\ m.good = FALSE /\ m.together = t /\ m.of = o
      BY ONLY <2>2
    <3> QED
      BY ONLY <2>2, <3>1
  <2> QED
    BY ONLY <1>4, <2>1, <2>2
<1> QED
  <2>1. ChunksTyped(m) /\ t \in BOOLEAN
    BY <1>2, <1>5 DEF MemoryFits, ChunksTyped
  <2>2. t => Retell(a, p)
    BY <1>2 DEF MemoryFits
  <2>3. t /\ (\E d \in Sources : o[d] \in DocTexts \ {Blank}) => Retell(a, o)
    BY <1>2 DEF MemoryFits
  <2>4. m.good => m.faiss = TextsOf(m.chunks) /\ m.corpus = TextsOf(m.chunks)
    BY <1>3, <1>5
  <2> QED
    BY <1>5, <2>1, <2>2, <2>3, <2>4 DEF MemoryFits

\* The five files, and what is left of them while they are written.
DiskFiles == {"faiss", "embeddings", "chunks", "corpus", "prints"}

Tails ==
    {<<"faiss", "embeddings", "chunks", "corpus", "prints">>, <<"embeddings", "chunks", "corpus", "prints">>,
     <<"chunks", "corpus", "prints">>, <<"corpus", "prints">>, <<"prints">>, <<>>}

Unwritten(left) == {left[i] : i \in DOMAIN left}

\* While a save is alone, the files it has written say what the object says.
SaveFits(b) ==
    /\ saver[b] = [left |-> saver[b].left, alone |-> saver[b].alone]
    /\ saver[b].left \in Tails /\ saver[b].alone \in BOOLEAN
    /\ saver[b].left # <<>> =>
           /\ ~index[b].embedding
           /\ saver[b].alone =>
                  /\ \A o \in Builders \ {b} : saver[o].left = <<>>
                  /\ \A f \in DiskFiles \ Unwritten(saver[b].left) : disk[f] = Content(b, f)

DiskFits ==
    /\ disk = [f \in DiskFiles |-> disk[f]]
    /\ disk.chunks \in Chunks /\ disk.prints \in [Sources -> DocTexts \cup {NoText}]
    /\ intact \in BOOLEAN /\ together \in BOOLEAN
    /\ intact \/ together => \A b \in Builders : saver[b].left = <<>>
    /\ SaveHeals
    /\ together => Retell(disk.chunks, disk.prints)

IndexInv ==
    /\ SourceTyped /\ DiskFits
    /\ index = [b \in Builders |-> index[b]] /\ saver = [b \in Builders |-> saver[b]]
    /\ \A b \in Builders : MemoryFits(index[b]) /\ SaveFits(b)

(* A file is written after the other.                                      *)
LEMMA TailsGoOn ==
    ASSUME NEW left \in Tails, left # <<>>
    PROVE  /\ Tail(left) \in Tails /\ Head(left) \in DiskFiles
           /\ Unwritten(left) = Unwritten(Tail(left)) \cup {Head(left)}
           /\ Len(left) = 1 <=> Tail(left) = <<>>
<1>1. CASE left = <<"faiss", "embeddings", "chunks", "corpus", "prints">>
  <2>1. Tail(left) = <<"embeddings", "chunks", "corpus", "prints">> /\ Head(left) = "faiss"
    BY <1>1
  <2> QED
    BY <1>1, <2>1 DEF Tails, DiskFiles, Unwritten
<1>2. CASE left = <<"embeddings", "chunks", "corpus", "prints">>
  <2>1. Tail(left) = <<"chunks", "corpus", "prints">> /\ Head(left) = "embeddings"
    BY <1>2
  <2> QED
    BY <1>2, <2>1 DEF Tails, DiskFiles, Unwritten
<1>3. CASE left = <<"chunks", "corpus", "prints">>
  <2>1. Tail(left) = <<"corpus", "prints">> /\ Head(left) = "chunks"
    BY <1>3
  <2> QED
    BY <1>3, <2>1 DEF Tails, DiskFiles, Unwritten
<1>4. CASE left = <<"corpus", "prints">>
  <2>1. Tail(left) = <<"prints">> /\ Head(left) = "corpus"
    BY <1>4
  <2> QED
    BY <1>4, <2>1 DEF Tails, DiskFiles, Unwritten
<1>5. CASE left = <<"prints">>
  <2>1. Tail(left) = <<>> /\ Head(left) = "prints"
    BY <1>5
  <2> QED
    BY <1>5, <2>1 DEF Tails, DiskFiles, Unwritten
<1> QED
  BY <1>1, <1>2, <1>3, <1>4, <1>5 DEF Tails

(* A step of an object that is not saved leaves the files and the saves.   *)
LEMMA MemoryStepKeeps ==
    ASSUME IndexInv, SourceTyped', UNCHANGED <<disk, saver, intact, together>>,
           NEW b \in Builders, saver[b].left = <<>>,
           NEW m, MemoryFits(m), index' = [index EXCEPT ![b] = m]
    PROVE  IndexInv'
<1>1. index' = [u \in Builders |-> IF u = b THEN m ELSE index[u]]
  BY DEF IndexInv
<1>2. index'[b] = m /\ (\A u \in Builders \ {b} : index'[u] = index[u])
      /\ index' = [u \in Builders |-> index'[u]]
  BY <1>1
<1>3. ASSUME NEW u \in Builders PROVE MemoryFits(index'[u]) /\ SaveFits(u)'
  <2>1. CASE u = b
    BY <1>2, <2>1 DEF IndexInv, SaveFits
  <2>2. CASE u # b
    <3>1. index'[u] = index[u]
      BY <1>2, <2>2
    <3>2. \A f : Content(u, f)' = Content(u, f)
      BY <3>1 DEF Content
    <3> QED
      BY <3>1, <3>2 DEF IndexInv, SaveFits
  <2> QED
    BY <2>1, <2>2
<1>4. DiskFits'
  BY DEF IndexInv, DiskFits, SaveHeals
<1> QED
  BY <1>2, <1>3, <1>4 DEF IndexInv

(* A build starts.                                                         *)
LEMMA BeginBuildKeeps == ASSUME IndexInv, NEW b \in Builders, BeginBuild(b) PROVE IndexInv'
<1>1. UNCHANGED <<source, disk, saver, intact, together>> /\ saver[b].left = <<>>
  BY DEF BeginBuild, Idle
<1>2. PICK known : known = index[b]
  OBVIOUS
<1>3. MemoryFits(known) /\ SourceTyped /\ SourceTyped'
  BY <1>1, <1>2 DEF IndexInv, SourceTyped
<1>4. CASE IsChanged(known)
  <2>1. PICK m : m = [known EXCEPT !.chunks = NewChunks(known), !.prints = source, !.embedding = TRUE, !.of = source]
    OBVIOUS
  <2>2. index' = [index EXCEPT ![b].chunks = NewChunks(index[b]), ![b].prints = source,
                               ![b].embedding = TRUE, ![b].of = source]
    BY <1>2, <1>4 DEF BeginBuild
  <2>3. index' = [index EXCEPT ![b] = m]
    BY <1>2, <2>1, <2>2 DEF IndexInv
  <2>4. MemoryFits(m)
    BY <1>3, <2>1, ChangeFits
  <2> QED
    BY <1>1, <1>3, <2>3, <2>4, MemoryStepKeeps
<1>5. CASE ~IsChanged(known)
  <2>1. PICK m : m = [known EXCEPT !.of = source]
    OBVIOUS
  <2>2. index' = [index EXCEPT ![b].of = source]
    BY <1>2, <1>5 DEF BeginBuild
  <2>3. index' = [index EXCEPT ![b] = m]
    BY <1>2, <2>1, <2>2 DEF IndexInv
  <2>4. MemoryFits(m)
    BY <1>3, <1>5, <2>1, NoChangeFits
  <2> QED
    BY <1>1, <1>3, <2>3, <2>4, MemoryStepKeeps
<1> QED
  BY <1>4, <1>5

(* The embedder answers or raises.                                         *)
LEMMA EmbeddingKeeps ==
    ASSUME IndexInv, NEW b \in Builders, Embedded(b) \/ EmbedFails(b)
    PROVE  IndexInv'
<1>1. UNCHANGED <<source, disk, saver, intact, together>> /\ index[b].embedding
  BY DEF Embedded, EmbedFails
<1>2. saver[b].left = <<>> /\ SourceTyped'
  BY <1>1 DEF IndexInv, SaveFits, SourceTyped
<1>3. PICK known : known = index[b]
  OBVIOUS
<1>4. MemoryFits(known)
  BY <1>3 DEF IndexInv
<1>5. CASE Embedded(b)
  <2>1. PICK m : m = [known EXCEPT !.faiss = TextsOf(known.chunks), !.corpus = TextsOf(known.chunks),
                                   !.embedding = FALSE, !.good = TRUE]
    OBVIOUS
  <2>2. index' = [index EXCEPT ![b] = m]
    BY <1>3, <1>5, <2>1 DEF Embedded, IndexInv
  <2>3. MemoryFits(m)
    BY <1>4, <2>1, EmbeddingFits
  <2> QED
    BY <1>1, <1>2, <2>2, <2>3, MemoryStepKeeps
<1>6. CASE EmbedFails(b)
  <2>1. PICK m : m = [known EXCEPT !.embedding = FALSE, !.good = FALSE]
    OBVIOUS
  <2>2. index' = [index EXCEPT ![b] = m]
    BY <1>3, <1>6, <2>1 DEF EmbedFails, IndexInv
  <2>3. MemoryFits(m)
    BY <1>4, <2>1, EmbeddingFits
  <2> QED
    BY <1>1, <1>2, <2>2, <2>3, MemoryStepKeeps
<1> QED
  BY <1>5, <1>6

(* An index is loaded from the disk, or begun anew.                        *)
LEMMA LoadIndexKeeps == ASSUME IndexInv, NEW b \in Builders, LoadIndex(b) PROVE IndexInv'
<1>1. UNCHANGED <<source, disk, saver, intact, together>> /\ saver[b].left = <<>>
  BY DEF LoadIndex, Idle
<1>2. PICK m : m = [chunks |-> disk.chunks, faiss |-> disk.faiss, corpus |-> disk.corpus,
                    prints |-> disk.prints, embedding |-> FALSE, good |-> intact, together |-> together,
                    of |-> NoPrints]
  OBVIOUS
<1>3. /\ m.chunks = disk.chunks /\ m.faiss = disk.faiss /\ m.corpus = disk.corpus /\ m.prints = disk.prints
      /\ m.embedding = FALSE /\ m.good = intact /\ m.together = together /\ m.of = NoPrints
  BY <1>2
<1>4. m = [chunks |-> m.chunks, faiss |-> m.faiss, corpus |-> m.corpus, prints |-> m.prints,
           embedding |-> m.embedding, good |-> m.good, together |-> m.together, of |-> m.of]
  BY <1>2, <1>3
<1>5. \A d \in Sources : m.of[d] \notin DocTexts \ {Blank}
  BY <1>3, IndexAssumption DEF NoPrints, IndexAssumption
<1>6. ChunksTyped(m) /\ m.embedding \in BOOLEAN /\ m.good \in BOOLEAN /\ m.together \in BOOLEAN
  BY <1>3 DEF IndexInv, DiskFits, ChunksTyped
<1>7. m.good => m.faiss = TextsOf(m.chunks) /\ m.corpus = TextsOf(m.chunks)
  BY <1>3 DEF IndexInv, DiskFits, SaveHeals
<1>8. m.together => Retell(m.chunks, m.prints)
  BY <1>3 DEF IndexInv, DiskFits
<1>9. MemoryFits(m)
  BY <1>4, <1>5, <1>6, <1>7, <1>8 DEF MemoryFits
<1>10. index' = [index EXCEPT ![b] = m] /\ SourceTyped'
  BY <1>1, <1>2 DEF LoadIndex, IndexInv, SourceTyped
<1> QED
  BY <1>1, <1>9, <1>10, MemoryStepKeeps

(* A new object.                                                           *)
LEMMA NewFits == MemoryFits(NewIndex)
<1>1. PICK m : m = NewIndex
  OBVIOUS
<1>2. m = [chunks |-> <<>>, faiss |-> <<>>, corpus |-> <<>>, prints |-> NoPrints,
           embedding |-> FALSE, good |-> TRUE, together |-> TRUE, of |-> NoPrints]
  BY <1>1 DEF NewIndex
<1>3. /\ m.chunks = <<>> /\ m.faiss = <<>> /\ m.corpus = <<>> /\ m.prints = NoPrints
      /\ m.embedding = FALSE /\ m.good = TRUE /\ m.together = TRUE /\ m.of = NoPrints
  BY ONLY <1>2
<1>4. m = [chunks |-> m.chunks, faiss |-> m.faiss, corpus |-> m.corpus, prints |-> m.prints,
           embedding |-> m.embedding, good |-> m.good, together |-> m.together, of |-> m.of]
  BY ONLY <1>2, <1>3
<1>5. NoPrints \in [Sources -> DocTexts \cup {NoText}] /\ \A d \in Sources : NoPrints[d] \notin DocTexts \ {Blank}
  BY IndexAssumption DEF NoPrints, IndexAssumption
<1>6. TextsOf(<<>>) = <<>> /\ Retell(<<>>, NoPrints) /\ <<>> \in Chunks
  BY <1>5 DEF TextsOf, Retell, Chunks
<1> QED
  BY <1>1, <1>3, <1>4, <1>5, <1>6 DEF MemoryFits, ChunksTyped

(* A builder dies: what it has written stays.                              *)
LEMMA BuilderDiesKeeps == ASSUME IndexInv, NEW b \in Builders, BuilderDies(b) PROVE IndexInv'
<1>1. /\ UNCHANGED <<source, disk, intact, together>>
      /\ index' = [index EXCEPT ![b] = NewIndex] /\ saver' = [saver EXCEPT ![b] = AtEase]
  BY DEF BuilderDies
<1>2. /\ index'[b] = NewIndex /\ saver'[b] = AtEase
      /\ \A u \in Builders \ {b} : index'[u] = index[u] /\ saver'[u] = saver[u]
      /\ index' = [u \in Builders |-> index'[u]] /\ saver' = [u \in Builders |-> saver'[u]]
  BY <1>1 DEF IndexInv
<1>3. AtEase = [left |-> AtEase.left, alone |-> AtEase.alone] /\ AtEase.left = <<>> /\ AtEase.alone \in BOOLEAN
  BY DEF AtEase
<1>4. ASSUME NEW u \in Builders PROVE MemoryFits(index'[u]) /\ SaveFits(u)'
  <2>1. CASE u = b
    <3>1. <<>> \in Tails
      BY DEF Tails
    <3> QED
      BY <1>2, <1>3, <2>1, <3>1, NewFits DEF SaveFits
  <2>2. CASE u # b
    <3>1. index'[u] = index[u] /\ saver'[u] = saver[u]
      BY <1>2, <2>2
    <3>2. \A f : Content(u, f)' = Content(u, f)
      BY <3>1 DEF Content
    <3>3. \A o \in Builders : saver[o].left = <<>> => saver'[o].left = <<>>
      BY <1>2, <1>3
    <3> QED
      BY <1>1, <3>1, <3>2, <3>3 DEF IndexInv, SaveFits
  <2> QED
    BY <2>1, <2>2
<1>5. DiskFits'
  <2>1. intact \/ together => \A u \in Builders : saver'[u].left = <<>>
    BY <1>2, <1>3 DEF IndexInv, DiskFits
  <2> QED
    BY <1>1, <2>1 DEF IndexInv, DiskFits, SaveHeals
<1> QED
  BY <1>1, <1>2, <1>4, <1>5 DEF IndexInv, SourceTyped

(* A save starts.                                                          *)
LEMMA BeginSaveKeeps == ASSUME IndexInv, NEW b \in Builders, BeginSave(b) PROVE IndexInv'
<1>1. UNCHANGED <<source, index, disk>> /\ intact' = FALSE /\ together' = FALSE /\ ~index[b].embedding
  BY DEF BeginSave, Idle
<1>2. saver' = [o \in Builders |-> IF o = b THEN [left |-> Files, alone |-> Saving = {}]
                                   ELSE [saver[o] EXCEPT !.alone = FALSE]]
  BY DEF BeginSave
<1>3. PICK first, alone : first = [left |-> Files, alone |-> alone] /\ alone = (Saving = {})
  OBVIOUS
<1>4. saver'[b] = first /\ first.left = Files /\ first.alone = alone /\ alone \in BOOLEAN
  BY <1>2, <1>3
<1>5. ASSUME NEW u \in Builders \ {b}
      PROVE  /\ saver'[u] = [left |-> saver'[u].left, alone |-> saver'[u].alone]
             /\ saver'[u].alone = FALSE /\ saver'[u].left = saver[u].left
  <2>1. PICK q, r : q = saver[u] /\ r = [q EXCEPT !.alone = FALSE]
    OBVIOUS
  <2>2. q = [left |-> q.left, alone |-> q.alone]
    BY <2>1 DEF IndexInv, SaveFits
  <2>3. r = [left |-> q.left, alone |-> FALSE]
    BY <2>1, <2>2
  <2>4. saver'[u] = r
    BY <1>2, <2>1
  <2>5. r.left = q.left /\ r.alone = FALSE
    BY <2>3
  <2> QED
    BY <2>1, <2>3, <2>4, <2>5
<1>6. Files \in Tails /\ Unwritten(Files) = DiskFiles
  BY DEF Files, Tails, Unwritten, DiskFiles
<1>7. ASSUME NEW u \in Builders PROVE SaveFits(u)'
  <2>1. CASE u = b
    <3>1. alone => \A o \in Builders \ {b} : saver'[o].left = <<>>
      BY <1>3, <1>5 DEF Saving
    <3>2. DiskFiles \ Unwritten(saver'[b].left) = {}
      BY <1>4, <1>6
    <3>3. saver'[b] = [left |-> saver'[b].left, alone |-> saver'[b].alone]
      BY <1>3, <1>4
    <3> QED
      BY <1>1, <1>4, <1>6, <2>1, <3>1, <3>2, <3>3 DEF SaveFits
  <2>2. CASE u # b
    <3>1. /\ saver'[u] = [left |-> saver'[u].left, alone |-> saver'[u].alone]
          /\ saver'[u].alone = FALSE /\ saver'[u].left = saver[u].left
      BY <1>5, <2>2
    <3> QED
      BY <1>1, <3>1 DEF IndexInv, SaveFits
  <2> QED
    BY <2>1, <2>2
<1>8. DiskFits'
  BY <1>1 DEF IndexInv, DiskFits, SaveHeals
<1> QED
  BY <1>1, <1>2, <1>7, <1>8 DEF IndexInv, SourceTyped

(* A file is written.                                                      *)
LEMMA WriteFileKeeps == ASSUME IndexInv, NEW b \in Builders, WriteFile(b) PROVE IndexInv'
<1>1. UNCHANGED <<source, index>> /\ saver[b].left # <<>>
  BY DEF WriteFile
<1>2. PICK left, file, text : left = saver[b].left /\ file = Head(left) /\ text = Content(b, Head(left))
  OBVIOUS
<1>3. /\ disk' = [disk EXCEPT ![file] = text] /\ saver' = [saver EXCEPT ![b].left = Tail(left)]
      /\ intact' = IF Len(left) = 1 THEN saver[b].alone /\ index[b].good ELSE intact
      /\ together' = IF Len(left) = 1 THEN saver[b].alone /\ index[b].together ELSE together
  BY <1>2 DEF WriteFile
<1>4. /\ left \in Tails /\ left # <<>> /\ Tail(left) \in Tails /\ file \in DiskFiles
      /\ Unwritten(left) = Unwritten(Tail(left)) \cup {file}
      /\ Len(left) = 1 <=> Tail(left) = <<>>
  <2>1. left \in Tails
    BY <1>2 DEF IndexInv, SaveFits
  <2> QED
    BY <1>1, <1>2, <2>1, TailsGoOn
<1>5. ~intact /\ ~together
  BY <1>1 DEF IndexInv, DiskFits
<1>6. disk' = [f \in DiskFiles |-> disk'[f]] /\ disk'[file] = text /\ \A f \in DiskFiles \ {file} : disk'[f] = disk[f]
  BY <1>3, <1>4 DEF IndexInv, DiskFits
<1>7. \A u, f : Content(u, f)' = Content(u, f)
  BY <1>1 DEF Content
<1>8. /\ saver'[b] = [left |-> Tail(left), alone |-> saver[b].alone]
      /\ \A u \in Builders \ {b} : saver'[u] = saver[u]
      /\ saver' = [u \in Builders |-> saver'[u]]
  <2>1. PICK q, r : q = saver[b] /\ r = [q EXCEPT !.left = Tail(left)]
    OBVIOUS
  <2>2. q = [left |-> q.left, alone |-> q.alone]
    BY <2>1 DEF IndexInv, SaveFits
  <2>3. r = [left |-> Tail(left), alone |-> q.alone]
    BY <2>1, <2>2
  <2>4. saver' = [saver EXCEPT ![b] = r]
    BY <1>3, <2>1 DEF IndexInv
  <2> QED
    BY <2>1, <2>3, <2>4 DEF IndexInv
<1>9. saver'[b].left = Tail(left) /\ saver'[b].alone = saver[b].alone /\ saver[b].alone \in BOOLEAN
  BY <1>8 DEF IndexInv, SaveFits
<1>10. ASSUME saver[b].alone
       PROVE  /\ \A o \in Builders \ {b} : saver[o].left = <<>>
              /\ \A f \in DiskFiles \ Unwritten(Tail(left)) : disk'[f] = Content(b, f)
  <2>1. /\ \A o \in Builders \ {b} : saver[o].left = <<>>
        /\ \A f \in DiskFiles \ Unwritten(left) : disk[f] = Content(b, f)
    BY <1>1, <1>2, <1>10 DEF IndexInv, SaveFits
  <2>2. ASSUME NEW f \in DiskFiles \ Unwritten(Tail(left)) PROVE disk'[f] = Content(b, f)
    <3>1. CASE f = file
      BY <1>2, <1>6, <3>1
    <3>2. CASE f # file
      BY <1>4, <1>6, <2>1, <3>2
    <3> QED
      BY <3>1, <3>2
  <2> QED
    BY <2>1, <2>2
<1>11. ASSUME NEW u \in Builders PROVE SaveFits(u)'
  <2>1. CASE u = b
    <3>1. ~index'[b].embedding
      BY <1>1 DEF IndexInv, SaveFits
    <3>2. saver[b].alone => \A o \in Builders \ {b} : saver'[o].left = <<>>
      BY <1>8, <1>10
    <3>3. saver[b].alone => \A f \in DiskFiles \ Unwritten(saver'[b].left) : disk'[f] = Content(b, f)'
      BY <1>7, <1>9, <1>10
    <3>4. saver'[b] = [left |-> saver'[b].left, alone |-> saver'[b].alone]
      BY <1>8, <1>9
    <3> QED
      BY <1>4, <1>9, <2>1, <3>1, <3>2, <3>3, <3>4 DEF SaveFits
  <2>2. CASE u # b
    <3>1. saver'[u] = saver[u] /\ index'[u] = index[u]
      BY <1>1, <1>8, <2>2
    <3>2. saver[u].left # <<>> => ~saver[u].alone
      BY <1>1, <2>2 DEF IndexInv, SaveFits
    <3> QED
      BY <3>1, <3>2 DEF IndexInv, SaveFits
  <2> QED
    BY <2>1, <2>2
<1>12. ASSUME intact' \/ together'
       PROVE  /\ saver[b].alone /\ Tail(left) = <<>>
              /\ \A u \in Builders : saver'[u].left = <<>>
              /\ \A f \in DiskFiles : disk'[f] = Content(b, f)
  <2>1. Len(left) = 1 /\ saver[b].alone
    BY <1>3, <1>5, <1>12
  <2>2. Tail(left) = <<>> /\ Unwritten(Tail(left)) = {}
    BY <1>4, <2>1 DEF Unwritten
  <2>3. \A u \in Builders : saver'[u].left = <<>>
    BY <1>8, <1>9, <1>10, <2>1, <2>2
  <2>4. \A f \in DiskFiles : disk'[f] = Content(b, f)
    BY <1>10, <2>1, <2>2
  <2> QED
    BY <2>1, <2>2, <2>3, <2>4
<1>13. PICK m : m = index[b]
  OBVIOUS
<1>14. MemoryFits(m) /\ ~m.embedding
  BY <1>1, <1>13 DEF IndexInv, SaveFits
<1>15. /\ Content(b, "chunks") = m.chunks /\ Content(b, "prints") = m.prints
       /\ Content(b, "corpus") = m.corpus /\ Content(b, "faiss") = m.faiss
       /\ Content(b, "embeddings") = m.faiss
  BY <1>13 DEF Content
<1>16. /\ "chunks" \in DiskFiles /\ "prints" \in DiskFiles /\ "corpus" \in DiskFiles
       /\ "faiss" \in DiskFiles /\ "embeddings" \in DiskFiles
  BY DEF DiskFiles
<1>17. disk'.chunks \in Chunks /\ disk'.prints \in [Sources -> DocTexts \cup {NoText}]
  <2>1. disk'.chunks \in {disk.chunks, m.chunks} /\ disk'.prints \in {disk.prints, m.prints}
    BY <1>2, <1>6, <1>15, <1>16
  <2> QED
    BY <1>14, <2>1 DEF MemoryFits, ChunksTyped, IndexInv, DiskFits
<1>18. intact' => m.good
  BY <1>3, <1>5, <1>13
<1>19. together' => m.together
  BY <1>3, <1>5, <1>13
<1>20. SaveHeals'
  <2> SUFFICES ASSUME intact' PROVE SaveHeals'
    BY DEF SaveHeals
  <2>1. /\ disk'.chunks = m.chunks /\ disk'.corpus = m.corpus /\ disk'.faiss = m.faiss
        /\ disk'.embeddings = m.faiss
    BY <1>12, <1>15, <1>16
  <2> QED
    BY <1>14, <1>18, <2>1 DEF MemoryFits, SaveHeals
<1>21. together' => Retell(disk'.chunks, disk'.prints)
  <2> SUFFICES ASSUME together' PROVE Retell(disk'.chunks, disk'.prints)
    OBVIOUS
  <2>1. disk'.chunks = m.chunks /\ disk'.prints = m.prints
    BY <1>12, <1>15, <1>16
  <2> QED
    BY <1>14, <1>19, <2>1 DEF MemoryFits
<1>22. intact' \in BOOLEAN /\ together' \in BOOLEAN
  <2>1. CASE Len(left) = 1
    <3>1. intact' = (saver[b].alone /\ index[b].good) /\ together' = (saver[b].alone /\ index[b].together)
      BY <1>3, <2>1
    <3> QED
      BY <3>1
  <2>2. CASE Len(left) # 1
    <3>1. intact' = intact /\ together' = together
      BY <1>3, <2>2
    <3> QED
      BY <3>1 DEF IndexInv, DiskFits
  <2> QED
    BY <2>1, <2>2
<1>23. DiskFits'
  BY <1>6, <1>12, <1>17, <1>20, <1>21, <1>22 DEF DiskFits
<1> QED
  BY <1>1, <1>8, <1>11, <1>23 DEF IndexInv, SourceTyped

(* A new index and an empty disk agree.                                    *)
LEMMA IndexInitially == IndexInit => IndexInv
<1> SUFFICES ASSUME IndexInit PROVE IndexInv
  OBVIOUS
<1>1. AtEase = [left |-> AtEase.left, alone |-> AtEase.alone] /\ AtEase.left = <<>> /\ AtEase.alone \in BOOLEAN
  BY DEF AtEase
<1>2. <<>> \in Tails
  BY DEF Tails
<1>3. \A b \in Builders : saver[b] = AtEase /\ index[b] = NewIndex
  BY DEF IndexInit
<1>4. \A b \in Builders : MemoryFits(index[b]) /\ SaveFits(b)
  BY <1>1, <1>2, <1>3, NewFits DEF SaveFits
<1>5. NoPrints \in [Sources -> DocTexts \cup {NoText}] /\ \A d \in Sources : NoPrints[d] \notin DocTexts \ {Blank}
  BY IndexAssumption DEF NoPrints, IndexAssumption
<1>6. /\ disk.chunks = <<>> /\ disk.prints = NoPrints /\ disk = [f \in DiskFiles |-> disk[f]]
  BY DEF IndexInit, NoDisk, DiskFiles
<1>7. Retell(<<>>, NoPrints) /\ <<>> \in Chunks
  BY <1>5 DEF Retell, Chunks
<1>8. DiskFits
  BY <1>1, <1>3, <1>5, <1>6, <1>7 DEF IndexInit, DiskFits, SaveHeals
<1> QED
  BY <1>4, <1>8 DEF IndexInit, IndexInv, SourceTyped

(* Objects and files agree in every state.                                 *)
LEMMA IndexInvariant == IndexSpec => []IndexInv
<1>1. IndexInit => IndexInv
  BY IndexInitially
<1>2. IndexInv /\ [IndexStep]_indexVars => IndexInv'
  <2> SUFFICES ASSUME IndexInv, [IndexStep]_indexVars PROVE IndexInv'
    OBVIOUS
  <2>1. CASE UNCHANGED indexVars
    <3>1. \A b \in Builders : SaveFits(b)'
      BY <2>1 DEF IndexInv, SaveFits, Content, indexVars
    <3> QED
      BY <2>1, <3>1 DEF IndexInv, DiskFits, SaveHeals, SourceTyped, indexVars
  <2>2. ASSUME NEW d \in Sources, NEW text \in DocTexts \cup {NoText}, EditSource(d, text) PROVE IndexInv'
    <3>1. UNCHANGED <<index, disk, saver, intact, together>>
      BY <2>2 DEF EditSource
    <3>2. SourceTyped'
      BY <2>2 DEF EditSource, IndexInv, SourceTyped
    <3>3. \A b \in Builders : SaveFits(b)'
      BY <3>1 DEF IndexInv, SaveFits, Content
    <3> QED
      BY <3>1, <3>2, <3>3 DEF IndexInv, DiskFits, SaveHeals
  <2>3. ASSUME NEW b \in Builders,
               \/ BeginBuild(b) \/ Embedded(b) \/ EmbedFails(b)
               \/ BeginSave(b) \/ WriteFile(b) \/ BuilderDies(b) \/ LoadIndex(b)
        PROVE  IndexInv'
    BY <2>3, BeginBuildKeeps, EmbeddingKeeps, BeginSaveKeeps, WriteFileKeeps, BuilderDiesKeeps, LoadIndexKeeps
  <2> QED
    BY <2>1, <2>2, <2>3 DEF IndexStep
<1> QED
  BY <1>1, <1>2, PTL DEF IndexSpec

(* Vectors, corpus and chunks agree, a build leaves the chunks of what it  *)
(* was given, and a whole save makes the files agree, for any documents,   *)
(* builders and failures (indexer.py:88-244).                              *)
THEOREM IndexIsFaithful == IndexSpec => [](IndexTypeOK /\ VectorsMatchChunks /\ ChunksCurrent /\ SaveHeals)
<1>1. IndexInv => VectorsMatchChunks /\ ChunksCurrent /\ SaveHeals
  BY DEF IndexInv, MemoryFits, VectorsMatchChunks, ChunksCurrent, DiskFits
<1>2. IndexInv => IndexTypeOK
  <2>1. Tails \subseteq Seq(DiskFiles)
    BY DEF Tails, DiskFiles
  <2>2. {Files[i] : i \in DOMAIN Files} = DiskFiles
    BY DEF Files, DiskFiles
  <2> QED
    BY <2>1, <2>2 DEF IndexInv, MemoryFits, ChunksTyped, SaveFits, DiskFits, SourceTyped, IndexTypeOK
<1> QED
  BY <1>1, <1>2, IndexInvariant, PTL

-----------------------------------------------------------------------------
(* The import of the sources.                                              *)
ScannedNames == [entry : SourceEntries, kind : EntryKinds]

ManifestRows == [entry : SourceEntries, status : {"success", "failed", "unsupported"}, edition : Nat]

HeldRecords == [entry : SourceEntries, status : {"pending"}, edition : Nat]

ParsedDocuments == [entry : SourceEntries, edition : Nat]

Tallies == [success : Nat, failure : Nat, skipped : Nat]

RowsWith(listing, verdict) == {k \in DOMAIN listing : listing[k].status = verdict}

TreeTyped ==
    /\ tree \in [SourceEntries -> [kind : EntryKinds, edition : 1..(MaxEntryEdits + 1)]]
    /\ listed \in BOOLEAN /\ losses \in 0..MaxLosses
    /\ outcome \in {"idle", "running", "done", "aborted"}
    /\ outcome = "idle" => waiting = <<>> /\ manifest = <<>> /\ held = NoRecord

\* No name waits twice, is recorded twice, or is recorded while it waits.
NamesOnce(queue, listing) ==
    /\ queue \in Seq(ScannedNames) /\ listing \in Seq(ManifestRows)
    /\ \A i, j \in DOMAIN queue : queue[i].entry = queue[j].entry => i = j
    /\ \A i, j \in DOMAIN listing : listing[i].entry = listing[j].entry => i = j
    /\ \A i \in DOMAIN queue, j \in DOMAIN listing : queue[i].entry # listing[j].entry

\* The record that is held is of the first name that waits, and as old as it.
HeldFits ==
    held = NoRecord \/ /\ held \in HeldRecords /\ waiting # <<>>
                       /\ held.entry = waiting[1].entry /\ ~RejectedKind(waiting[1].kind)
                       /\ held.edition <= tree[held.entry].edition

\* Counters, records and documents are of one another.
CountsFit(counts, listing, docs) ==
    /\ counts \in Tallies /\ docs \subseteq ParsedDocuments
    /\ counts.success = Cardinality(RowsWith(listing, "success"))
    /\ counts.failure = Cardinality(RowsWith(listing, "failed"))
    /\ counts.skipped = Cardinality(RowsWith(listing, "unsupported"))
    /\ {d.entry : d \in docs} = {listing[k].entry : k \in RowsWith(listing, "success")}
    /\ \A d \in docs, k \in DOMAIN listing : listing[k].entry = d.entry => listing[k].edition <= d.edition

ImportInv == TreeTyped /\ NamesOnce(waiting, manifest) /\ HeldFits /\ CountsFit(tally, manifest, documents)

(* Nothing is imported at the start.                                       *)
LEMMA ImportInitially == ImportInit => ImportInv
<1> SUFFICES ASSUME ImportInit PROVE ImportInv
  OBVIOUS
<1>1. TreeTyped
  BY ImportAssumption DEF ImportInit, TreeTyped, ImportAssumption
<1>2. \A S : <<>> \in Seq(S)
  OBVIOUS
<1>3. DOMAIN manifest = {} /\ DOMAIN waiting = {}
  BY DEF ImportInit
<1>4. NamesOnce(waiting, manifest)
  BY <1>2, <1>3 DEF NamesOnce, ImportInit
<1>5. CountsFit(tally, manifest, documents)
  <2>1. \A verdict : RowsWith(manifest, verdict) = {}
    BY <1>3 DEF RowsWith
  <2>2. Cardinality({}) = 0
    BY FS_EmptySet
  <2> QED
    BY <1>3, <2>1, <2>2 DEF ImportInit, CountsFit, NoTally, Tallies
<1> QED
  BY <1>1, <1>4, <1>5 DEF ImportInv, HeldFits, ImportInit

(* A name done: its record is added, and the counter of its status.        *)
LEMMA RowsGrow ==
    ASSUME NEW listing \in Seq(ManifestRows), NEW r \in ManifestRows, NEW s
    PROVE  /\ r.status = s => Cardinality(RowsWith(Append(listing, r), s)) = Cardinality(RowsWith(listing, s)) + 1
           /\ r.status # s => RowsWith(Append(listing, r), s) = RowsWith(listing, s)
           /\ Cardinality(RowsWith(listing, s)) \in Nat
<1>1. PICK n, after : n = Len(listing) /\ after = Append(listing, r)
  OBVIOUS
<1>2. /\ n \in Nat /\ DOMAIN listing = 1..n /\ DOMAIN after = 1..(n + 1) /\ after[n + 1] = r
      /\ \A i \in 1..n : after[i] = listing[i]
  BY <1>1
<1>3. PICK old : old = RowsWith(listing, s)
  OBVIOUS
<1>4. old \subseteq 1..n /\ n + 1 \notin old
  BY <1>2, <1>3 DEF RowsWith
<1>5. IsFiniteSet(old) /\ Cardinality(old) \in Nat
  <2>1. PICK D : D = 1..n
    OBVIOUS
  <2>2. IsFiniteSet(D)
    BY <1>2, <2>1, FS_Interval
  <2>3. IsFiniteSet(old)
    BY <1>4, <2>1, <2>2, FS_Subset
  <2> QED
    BY <2>3, FS_CardinalityType
<1>6. ASSUME r.status = s PROVE RowsWith(after, s) = old \cup {n + 1}
  BY <1>2, <1>3, <1>6 DEF RowsWith
<1>7. ASSUME r.status # s PROVE RowsWith(after, s) = old
  BY <1>2, <1>3, <1>7 DEF RowsWith
<1>8. Cardinality(old \cup {n + 1}) = Cardinality(old) + 1
  BY ONLY <1>4, <1>5, FS_AddElement
<1> QED
  BY <1>1, <1>3, <1>5, <1>6, <1>7, <1>8

(* One more row is counted once, and a successful one has its document.    *)
LEMMA CountsGrow ==
    ASSUME NEW counts, NEW listing \in Seq(ManifestRows), NEW docs, CountsFit(counts, listing, docs),
           NEW r \in ManifestRows, \A k \in DOMAIN listing : listing[k].entry # r.entry,
           NEW later, later \subseteq ParsedDocuments, NEW after \in Tallies,
           \/ /\ r.status = "success" /\ after = [counts EXCEPT !.success = @ + 1]
              /\ \E d \in ParsedDocuments : d.entry = r.entry /\ r.edition <= d.edition /\ later = docs \cup {d}
           \/ r.status = "failed" /\ after = [counts EXCEPT !.failure = @ + 1] /\ later = docs
           \/ r.status = "unsupported" /\ after = [counts EXCEPT !.skipped = @ + 1] /\ later = docs
    PROVE  CountsFit(after, Append(listing, r), later)
<1>1. PICK n, grown : n = Len(listing) /\ grown = Append(listing, r)
  OBVIOUS
<1>2. /\ n \in Nat /\ DOMAIN listing = 1..n /\ DOMAIN grown = 1..(n + 1) /\ grown[n + 1] = r
      /\ \A i \in 1..n : grown[i] = listing[i]
  BY <1>1
<1>3. counts \in Tallies
  BY DEF CountsFit
<1>4. /\ after.success = Cardinality(RowsWith(grown, "success"))
      /\ after.failure = Cardinality(RowsWith(grown, "failed"))
      /\ after.skipped = Cardinality(RowsWith(grown, "unsupported"))
  <2>1. CASE r.status = "success" /\ after = [counts EXCEPT !.success = @ + 1]
    <3>1. after.success = counts.success + 1 /\ after.failure = counts.failure /\ after.skipped = counts.skipped
      BY <1>3, <2>1 DEF Tallies
    <3> QED
      BY <1>1, <2>1, <3>1, RowsGrow DEF CountsFit
  <2>2. CASE r.status = "failed" /\ after = [counts EXCEPT !.failure = @ + 1]
    <3>1. after.success = counts.success /\ after.failure = counts.failure + 1 /\ after.skipped = counts.skipped
      BY <1>3, <2>2 DEF Tallies
    <3> QED
      BY <1>1, <2>2, <3>1, RowsGrow DEF CountsFit
  <2>3. CASE r.status = "unsupported" /\ after = [counts EXCEPT !.skipped = @ + 1]
    <3>1. after.success = counts.success /\ after.failure = counts.failure /\ after.skipped = counts.skipped + 1
      BY <1>3, <2>3 DEF Tallies
    <3> QED
      BY <1>1, <2>3, <3>1, RowsGrow DEF CountsFit
  <2> QED
    BY <2>1, <2>2, <2>3
<1>5. RowsWith(grown, "success") =
          RowsWith(listing, "success") \cup (IF r.status = "success" THEN {n + 1} ELSE {})
  BY <1>2 DEF RowsWith
<1>6. {d.entry : d \in later} = {grown[k].entry : k \in RowsWith(grown, "success")}
  <2>1. \A k \in RowsWith(listing, "success") : grown[k] = listing[k]
    BY <1>2 DEF RowsWith
  <2>2. {d.entry : d \in docs} = {listing[k].entry : k \in RowsWith(listing, "success")}
    BY DEF CountsFit
  <2>3. CASE r.status = "success"
    <3>1. PICK d \in ParsedDocuments : d.entry = r.entry /\ later = docs \cup {d}
      BY <2>3
    <3>2. {x.entry : x \in later} = {x.entry : x \in docs} \cup {r.entry}
      BY <3>1
    <3>3. {grown[k].entry : k \in RowsWith(grown, "success")}
              = {listing[k].entry : k \in RowsWith(listing, "success")} \cup {r.entry}
      <4>1. RowsWith(grown, "success") = RowsWith(listing, "success") \cup {n + 1}
        BY <1>5, <2>3
      <4> QED
        BY <1>2, <2>1, <4>1
    <3> QED
      BY <2>2, <3>2, <3>3
  <2>4. CASE r.status # "success"
    BY <1>5, <2>1, <2>2, <2>4
  <2> QED
    BY <2>3, <2>4
<1>7. \A d \in docs : d.entry # r.entry
  <2> SUFFICES ASSUME NEW d \in docs PROVE d.entry # r.entry
    OBVIOUS
  <2>1. PICK k \in RowsWith(listing, "success") : d.entry = listing[k].entry
    BY DEF CountsFit
  <2> QED
    BY <2>1 DEF RowsWith
<1>8. ASSUME NEW d \in later, NEW k \in DOMAIN grown, grown[k].entry = d.entry
      PROVE  grown[k].edition <= d.edition
  <2>1. CASE d \in docs /\ k \in 1..n
    BY <1>2, <1>8, <2>1 DEF CountsFit
  <2>2. CASE d \in docs /\ k = n + 1
    BY <1>2, <1>7, <1>8, <2>2
  <2>3. CASE d \notin docs
    BY <1>2, <1>8, <2>3
  <2> QED
    BY <1>2, <2>1, <2>2, <2>3
<1> QED
  BY <1>1, <1>4, <1>6, <1>8 DEF CountsFit

(* The first name that waits is recorded for the first time.               *)
LEMMA NameDone ==
    ASSUME NEW queue, NEW listing, NamesOnce(queue, listing), queue # <<>>,
           NEW r \in ManifestRows, r.entry = queue[1].entry
    PROVE  /\ NamesOnce(Tail(queue), Append(listing, r))
           /\ \A k \in DOMAIN listing : listing[k].entry # r.entry
           /\ queue[1] \in ScannedNames /\ Head(queue) = queue[1] /\ listing \in Seq(ManifestRows)
<1>1. PICK m, n, rest, grown : m = Len(queue) /\ n = Len(listing) /\ rest = Tail(queue) /\ grown = Append(listing, r)
  OBVIOUS
<1>2. queue \in Seq(ScannedNames) /\ listing \in Seq(ManifestRows)
  BY DEF NamesOnce
<1>3. /\ m \in Nat \ {0} /\ DOMAIN queue = 1..m /\ rest \in Seq(ScannedNames) /\ DOMAIN rest = 1..(m - 1)
      /\ \A i \in 1..(m - 1) : rest[i] = queue[i + 1] /\ i + 1 \in 1..m /\ i + 1 # 1
      /\ Head(queue) = queue[1] /\ queue[1] \in ScannedNames /\ 1 \in DOMAIN queue
  BY <1>1, <1>2
<1>4. /\ n \in Nat /\ DOMAIN listing = 1..n /\ DOMAIN grown = 1..(n + 1) /\ grown[n + 1] = r
      /\ \A i \in 1..n : grown[i] = listing[i]
      /\ grown \in Seq(ManifestRows)
  BY <1>1, <1>2
<1>5. \A k \in DOMAIN listing : listing[k].entry # r.entry
  BY <1>3 DEF NamesOnce
<1>6. ASSUME NEW i \in DOMAIN rest, NEW j \in DOMAIN rest, rest[i].entry = rest[j].entry PROVE i = j
  <2>1. /\ i \in 1..(m - 1) /\ j \in 1..(m - 1) /\ i + 1 \in DOMAIN queue /\ j + 1 \in DOMAIN queue
        /\ rest[i] = queue[i + 1] /\ rest[j] = queue[j + 1]
    BY <1>3
  <2>2. i + 1 = j + 1
    BY <1>6, <2>1 DEF NamesOnce
  <2> QED
    BY <1>3, <2>1, <2>2
<1>7. ASSUME NEW i \in DOMAIN grown, NEW j \in DOMAIN grown, grown[i].entry = grown[j].entry PROVE i = j
  <2>1. CASE i \in 1..n /\ j \in 1..n
    BY <1>4, <1>7, <2>1 DEF NamesOnce
  <2>2. CASE i = n + 1 \/ j = n + 1
    BY <1>4, <1>5, <1>7, <2>2
  <2> QED
    BY <1>4, <2>1, <2>2
<1>8. ASSUME NEW i \in DOMAIN rest, NEW j \in DOMAIN grown PROVE rest[i].entry # grown[j].entry
  <2>1. CASE j \in 1..n
    <3>1. rest[i] = queue[i + 1] /\ i + 1 \in DOMAIN queue /\ grown[j] = listing[j] /\ j \in DOMAIN listing
      BY <1>3, <1>4, <2>1
    <3> QED
      BY <3>1 DEF NamesOnce
  <2>2. CASE j = n + 1
    <3>1. i \in 1..(m - 1) /\ rest[i] = queue[i + 1] /\ i + 1 \in DOMAIN queue /\ i + 1 # 1
      BY <1>3
    <3>2. queue[i + 1].entry # queue[1].entry
      BY <1>3, <3>1 DEF NamesOnce
    <3> QED
      BY <1>4, <2>2, <3>1, <3>2
  <2> QED
    BY <1>4, <2>1, <2>2
<1> QED
  BY <1>1, <1>2, <1>3, <1>4, <1>5, <1>6, <1>7, <1>8 DEF NamesOnce

(* An entry that is done with, in whichever way, is counted and leaves     *)
(* the queue.                                                              *)
LEMMA EntryDone ==
    ASSUME ImportInv, Working, NEW r \in ManifestRows, r.entry = waiting[1].entry,
           waiting' = Tail(waiting), manifest' = Append(manifest, r), held' = NoRecord,
           UNCHANGED <<tree, listed, outcome, losses>>,
           documents' \subseteq ParsedDocuments, tally' \in Tallies,
           \/ /\ r.status = "success" /\ tally' = [tally EXCEPT !.success = @ + 1]
              /\ \E d \in ParsedDocuments :
                    d.entry = r.entry /\ r.edition <= d.edition /\ documents' = documents \cup {d}
           \/ r.status = "failed" /\ tally' = [tally EXCEPT !.failure = @ + 1] /\ documents' = documents
           \/ r.status = "unsupported" /\ tally' = [tally EXCEPT !.skipped = @ + 1] /\ documents' = documents
    PROVE  ImportInv'
<1>1. NamesOnce(waiting', manifest') /\ (\A k \in DOMAIN manifest : manifest[k].entry # r.entry) /\ manifest \in Seq(ManifestRows)
  BY NameDone DEF ImportInv, Working
<1>2. CountsFit(tally, manifest, documents)
  BY DEF ImportInv
<1>3. CountsFit(tally', manifest', documents')
  BY <1>1, <1>2, CountsGrow
<1>4. TreeTyped'
  BY DEF ImportInv, TreeTyped, Working
<1> QED
  BY <1>1, <1>3, <1>4 DEF ImportInv, HeldFits

(* A counter of the import counts on.                                      *)
LEMMA CountersCount ==
    ASSUME NEW c \in Tallies
    PROVE  /\ [c EXCEPT !["success"] = @ + 1] \in Tallies /\ [c EXCEPT !["failure"] = @ + 1] \in Tallies
           /\ [c EXCEPT !["skipped"] = @ + 1] \in Tallies
  BY DEF Tallies

(* A rejected entry is counted as a failure.                               *)
LEMMA RejectEntryKeeps == ASSUME ImportInv, RejectEntry PROVE ImportInv'
<1>1. tally \in Tallies /\ documents \subseteq ParsedDocuments /\ waiting # <<>>
  BY DEF ImportInv, CountsFit, RejectEntry, Working
<1>2. waiting \in Seq(ScannedNames)
  BY DEF ImportInv, NamesOnce
<1>3. Head(waiting) = waiting[1] /\ waiting[1] \in ScannedNames
  BY <1>1, <1>2
<1>4. PICK r : r = FileRecord(Head(waiting).entry, "failed", 0)
  OBVIOUS
<1>5. r \in ManifestRows /\ r.entry = waiting[1].entry /\ r.status = "failed"
  BY <1>3, <1>4 DEF FileRecord, ManifestRows, ScannedNames
<1>6. held = NoRecord
  BY <1>3 DEF ImportInv, HeldFits, RejectEntry
<1> QED
  BY <1>1, <1>4, <1>5, <1>6, CountersCount, EntryDone DEF RejectEntry, Counted

(* A name is read: its record is held, as old as the file is.              *)
LEMMA HashEntryKeeps == ASSUME ImportInv, HashEntry PROVE ImportInv'
<1>1. waiting # <<>> /\ waiting \in Seq(ScannedNames)
  BY DEF ImportInv, NamesOnce, HashEntry, Working
<1>2. Head(waiting) = waiting[1] /\ waiting[1] \in ScannedNames
  BY <1>1
<1>3. PICK e, n : e = waiting[1].entry /\ n = tree[e].edition
  OBVIOUS
<1>4. e \in SourceEntries /\ n \in Nat
  BY <1>2, <1>3, ImportAssumption DEF ImportInv, TreeTyped, ScannedNames, ImportAssumption
<1>5. held' = [entry |-> e, status |-> "pending", edition |-> n]
  BY <1>2, <1>3 DEF HashEntry, FileRecord
<1>6. PICK h : h = [entry |-> e, status |-> "pending", edition |-> n]
  OBVIOUS
<1>7. h \in HeldRecords /\ h.entry = e /\ h.edition = n
  BY <1>4, <1>6 DEF HeldRecords
<1>8. HeldFits'
  <2>1. held' = h /\ waiting' = waiting /\ tree' = tree
    BY <1>5, <1>6 DEF HashEntry
  <2>2. ~RejectedKind(waiting[1].kind)
    BY <1>2 DEF HashEntry
  <2> QED
    BY <1>1, <1>3, <1>4, <1>7, <2>1, <2>2 DEF HeldFits
<1>9. TreeTyped'
  BY DEF ImportInv, TreeTyped, HashEntry, Working
<1> QED
  BY <1>8, <1>9 DEF ImportInv, HashEntry

(* What is held when a name is done.                                       *)
LEMMA HeldForIt ==
    ASSUME ImportInv, Working, held # NoRecord
    PROVE  /\ held \in HeldRecords /\ held.entry = waiting[1].entry /\ held.entry \in SourceEntries
           /\ held.edition \in Nat /\ tree[held.entry].edition \in Nat
           /\ held.edition <= tree[held.entry].edition
           /\ tally \in Tallies /\ documents \subseteq ParsedDocuments
           /\ \A s \in {"success", "failed", "unsupported"} :
                 /\ [held EXCEPT !.status = s] \in ManifestRows
                 /\ [held EXCEPT !.status = s].entry = held.entry
                 /\ [held EXCEPT !.status = s].status = s
                 /\ [held EXCEPT !.status = s].edition = held.edition
<1>1. held \in HeldRecords /\ held.entry = waiting[1].entry /\ held.edition <= tree[held.entry].edition
  BY DEF ImportInv, HeldFits
<1>2. held.entry \in SourceEntries /\ held.edition \in Nat
  BY <1>1 DEF HeldRecords
<1>3. tree[held.entry].edition \in Nat
  BY <1>2, ImportAssumption DEF ImportInv, TreeTyped, ImportAssumption
<1>4. \A s \in {"success", "failed", "unsupported"} :
          /\ [held EXCEPT !.status = s] \in ManifestRows
          /\ [held EXCEPT !.status = s].entry = held.entry
          /\ [held EXCEPT !.status = s].status = s
          /\ [held EXCEPT !.status = s].edition = held.edition
  BY <1>1 DEF HeldRecords, ManifestRows
<1> QED
  BY <1>1, <1>2, <1>3, <1>4 DEF ImportInv, CountsFit

(* An entry of no known type is counted as skipped.                        *)
LEMMA SkipEntryKeeps == ASSUME ImportInv, SkipEntry PROVE ImportInv'
<1>1. Working /\ held # NoRecord
  BY DEF SkipEntry
<1>2. PICK r : r = [held EXCEPT !.status = "unsupported"]
  OBVIOUS
<1>3. r \in ManifestRows /\ r.entry = waiting[1].entry /\ r.status = "unsupported"
  BY <1>1, <1>2, HeldForIt
<1> QED
  BY <1>1, <1>2, <1>3, HeldForIt, CountersCount, EntryDone DEF SkipEntry, Recorded, Counted

(* An entry that cannot be parsed is counted as a failure.                 *)
LEMMA ParseFailsKeeps == ASSUME ImportInv, ParseFails PROVE ImportInv'
<1>1. Working /\ held # NoRecord
  BY DEF ParseFails
<1>2. PICK r : r = [held EXCEPT !.status = "failed"]
  OBVIOUS
<1>3. r \in ManifestRows /\ r.entry = waiting[1].entry /\ r.status = "failed"
  BY <1>1, <1>2, HeldForIt
<1> QED
  BY <1>1, <1>2, <1>3, HeldForIt, CountersCount, EntryDone DEF ParseFails, Recorded, Counted

(* What is parsed is at least as new as its digest.                        *)
LEMMA ParseEntryKeeps == ASSUME ImportInv, ParseEntry PROVE ImportInv'
<1>1. Working /\ held # NoRecord
  BY DEF ParseEntry
<1>2. PICK r, d : /\ r = [held EXCEPT !.status = "success"]
                  /\ d = [entry |-> held.entry, edition |-> tree[held.entry].edition]
  OBVIOUS
<1>3. r \in ManifestRows /\ r.entry = waiting[1].entry /\ r.status = "success" /\ r.edition = held.edition
  BY <1>1, <1>2, HeldForIt
<1>4. d \in ParsedDocuments /\ d.entry = r.entry /\ r.edition <= d.edition
  BY <1>1, <1>2, <1>3, HeldForIt DEF ParsedDocuments
<1>5. documents' = documents \cup {d}
  BY <1>2 DEF ParseEntry
<1>6. tally' = [tally EXCEPT !.success = @ + 1] /\ tally' \in Tallies
  BY <1>1, HeldForIt, CountersCount DEF ParseEntry, Counted
<1>7. manifest' = Append(manifest, r) /\ waiting' = Tail(waiting) /\ held' = NoRecord
  BY <1>2 DEF ParseEntry, Recorded
<1>8. documents' \subseteq ParsedDocuments
  BY <1>1, <1>4, <1>5, HeldForIt
<1> QED
  BY <1>1, <1>3, <1>4, <1>5, <1>6, <1>7, <1>8, EntryDone DEF ParseEntry

(* The scan lists each name that exists once.                              *)
LEMMA ScanSourceKeeps == ASSUME ImportInv, ScanSource PROVE ImportInv'
<1>1. waiting = <<>> /\ manifest = <<>> /\ held = NoRecord
  BY DEF ImportInv, TreeTyped, ScanSource
<1>2. TreeTyped'
  BY DEF ImportInv, TreeTyped, ScanSource
<1>3. NamesOnce(waiting', manifest)
  <2>1. CASE listed
    <3>1. PICK n \in 0..Cardinality(SourceEntries) : \E s \in [1..n -> SourceEntries] :
              /\ Scanned(s)
              /\ waiting' = [k \in DOMAIN s |-> [entry |-> s[k], kind |-> tree[s[k]].kind]]
      BY <2>1 DEF ScanSource
    <3>2. PICK s \in [1..n -> SourceEntries] :
              /\ Scanned(s)
              /\ waiting' = [k \in DOMAIN s |-> [entry |-> s[k], kind |-> tree[s[k]].kind]]
      BY <3>1
    <3>3. n \in Nat
      BY ImportAssumption, FS_CardinalityType DEF ImportAssumption
    <3>4. PICK w : w = [k \in 1..n |-> [entry |-> s[k], kind |-> tree[s[k]].kind]]
      OBVIOUS
    <3>5. \A k \in 1..n : w[k] \in ScannedNames /\ w[k].entry = s[k]
      BY <3>2, <3>4 DEF ScannedNames, ImportInv, TreeTyped
    <3>6. w \in Seq(ScannedNames) /\ DOMAIN w = 1..n
      BY <3>3, <3>4, <3>5
    <3>7. \A i, j \in DOMAIN w : w[i].entry = w[j].entry => i = j
      BY <3>2, <3>5, <3>6 DEF Scanned
    <3> QED
      BY <1>1, <3>2, <3>4, <3>6, <3>7 DEF NamesOnce
  <2>2. CASE ~listed
    BY <1>1, <2>2 DEF ScanSource, ImportInv
  <2> QED
    BY <2>1, <2>2
<1> QED
  BY <1>1, <1>2, <1>3 DEF ImportInv, HeldFits, ScanSource

(* The end of an import, whole or aborted, leaves the records.             *)
LEMMA OutcomeKeeps == ASSUME ImportInv, HashVanished \/ FinishImport PROVE ImportInv'
<1>1. TreeTyped'
  BY DEF ImportInv, TreeTyped, HashVanished, FinishImport, Working
<1>2. UNCHANGED <<tree, listed, waiting, held, manifest, documents, tally, losses>>
  BY DEF HashVanished, FinishImport
<1> QED
  BY <1>1, <1>2 DEF ImportInv, HeldFits

(* A file only grows older.                                                *)
LEMMA EditEntryKeeps == ASSUME ImportInv, NEW e \in SourceEntries, EditEntry(e) PROVE ImportInv'
<1>1. PICK kind \in {"good", "bad"} : tree' = [tree EXCEPT ![e] = [kind |-> kind, edition |-> tree[e].edition + 1]]
  BY DEF EditEntry
<1>2. tree[e].edition \in 1..(MaxEntryEdits + 1) /\ tree[e].edition <= MaxEntryEdits
  BY DEF ImportInv, TreeTyped, EditEntry
<1>3. PICK t : t = [kind |-> kind, edition |-> tree[e].edition + 1]
  OBVIOUS
<1>4. t \in [kind : EntryKinds, edition : 1..(MaxEntryEdits + 1)] /\ t.edition = tree[e].edition + 1
  BY <1>2, <1>3, ImportAssumption DEF EntryKinds, ImportAssumption
<1>5. tree' \in [SourceEntries -> [kind : EntryKinds, edition : 1..(MaxEntryEdits + 1)]]
  BY <1>1, <1>3, <1>4 DEF ImportInv, TreeTyped
<1>6. \A f \in SourceEntries : /\ tree[f].edition \in Nat /\ tree'[f].edition \in Nat
                               /\ tree[f].edition <= tree'[f].edition
  <2>1. \A f \in SourceEntries : tree'[f] = IF f = e THEN t ELSE tree[f]
    BY <1>1, <1>3 DEF ImportInv, TreeTyped
  <2>2. \A f \in SourceEntries : tree[f].edition \in Nat
    BY ImportAssumption DEF ImportInv, TreeTyped, ImportAssumption
  <2> QED
    BY <1>4, <2>1, <2>2
<1>7. HeldFits'
  <2>1. CASE held = NoRecord
    BY <2>1 DEF HeldFits, EditEntry
  <2>2. CASE held # NoRecord
    <3>1. held \in HeldRecords /\ held.edition <= tree[held.entry].edition
      BY <2>2 DEF ImportInv, HeldFits
    <3>2. held.entry \in SourceEntries /\ held.edition \in Nat
      BY <3>1 DEF HeldRecords
    <3>3. held.edition <= tree'[held.entry].edition
      BY <1>6, <3>1, <3>2
    <3> QED
      BY <2>2, <3>1, <3>3 DEF ImportInv, HeldFits, EditEntry
  <2> QED
    BY <2>1, <2>2
<1>8. TreeTyped'
  BY <1>5 DEF ImportInv, TreeTyped, EditEntry
<1> QED
  BY <1>7, <1>8 DEF ImportInv, EditEntry

(* Files may be removed while they are imported.                           *)
LEMMA RemoveEntryKeeps == ASSUME ImportInv, NEW e \in SourceEntries, RemoveEntry(e) PROVE ImportInv'
<1>1. tree[e] \in [kind : EntryKinds, edition : 1..(MaxEntryEdits + 1)]
  BY DEF ImportInv, TreeTyped
<1>2. PICK t : t = [tree[e] EXCEPT !.kind = "gone"]
  OBVIOUS
<1>3. t \in [kind : EntryKinds, edition : 1..(MaxEntryEdits + 1)] /\ t.edition = tree[e].edition
  BY <1>1, <1>2 DEF EntryKinds
<1>4. tree' = [tree EXCEPT ![e] = t]
  BY <1>2 DEF RemoveEntry
<1>5. tree' \in [SourceEntries -> [kind : EntryKinds, edition : 1..(MaxEntryEdits + 1)]]
      /\ \A f \in SourceEntries : tree'[f].edition = tree[f].edition
  BY <1>3, <1>4 DEF ImportInv, TreeTyped
<1>6. HeldFits'
  <2>1. held = NoRecord \/ held.entry \in SourceEntries
    BY DEF ImportInv, HeldFits, HeldRecords
  <2> QED
    BY <1>5, <2>1 DEF ImportInv, HeldFits, RemoveEntry
<1>7. TreeTyped'
  BY <1>5, ImportAssumption DEF ImportInv, TreeTyped, RemoveEntry, ImportAssumption
<1> QED
  BY <1>6, <1>7 DEF ImportInv, RemoveEntry

(* Every step of an import, or none, keeps its invariant.                  *)
LEMMA ImportNext == ImportInv /\ [ImportStep]_importVars => ImportInv'
<1> SUFFICES ASSUME ImportInv, [ImportStep]_importVars PROVE ImportInv'
  OBVIOUS
<1>1. CASE UNCHANGED importVars
  BY <1>1 DEF importVars, ImportInv, TreeTyped, HeldFits
<1>2. CASE ScanSource
  BY <1>2, ScanSourceKeeps
<1>3. CASE RejectEntry
  BY <1>3, RejectEntryKeeps
<1>4. CASE HashEntry
  BY <1>4, HashEntryKeeps
<1>5. CASE HashVanished \/ FinishImport
  BY <1>5, OutcomeKeeps
<1>6. CASE SkipEntry
  BY <1>6, SkipEntryKeeps
<1>7. CASE ParseEntry
  BY <1>7, ParseEntryKeeps
<1>8. CASE ParseFails
  BY <1>8, ParseFailsKeeps
<1>9. ASSUME NEW e \in SourceEntries, EditEntry(e) \/ RemoveEntry(e) PROVE ImportInv'
  BY <1>9, EditEntryKeeps, RemoveEntryKeeps
<1> QED
  BY <1>1, <1>2, <1>3, <1>4, <1>5, <1>6, <1>7, <1>8, <1>9 DEF ImportStep

(* No more rows than there are names.                                      *)
LEMMA ImportTypes == ImportInv => ImportTypeOK
<1> SUFFICES ASSUME ImportInv PROVE ImportTypeOK
  OBVIOUS
<1>1. /\ waiting \in Seq(ScannedNames) /\ manifest \in Seq(ManifestRows)
      /\ \A i, j \in DOMAIN manifest : manifest[i].entry = manifest[j].entry => i = j
  BY DEF ImportInv, NamesOnce
<1>2. PICK n, D, N : n = Len(manifest) /\ D = 1..n /\ N = Cardinality(SourceEntries)
  OBVIOUS
<1>3. n \in Nat /\ DOMAIN manifest = D /\ N \in Nat /\ IsFiniteSet(SourceEntries) /\ IsFiniteSet(D) /\ Cardinality(D) = n
  <2>1. n \in Nat /\ DOMAIN manifest = D
    BY <1>1, <1>2
  <2>2. IsFiniteSet(1..n) /\ Cardinality(1..n) = n
    BY <2>1, FS_Interval
  <2> QED
    BY <1>2, <2>1, <2>2, ImportAssumption, FS_CardinalityType DEF ImportAssumption
<1>4. PICK name : name = [k \in D |-> manifest[k].entry]
  OBVIOUS
<1>5. name \in Injection(D, SourceEntries)
  <2>1. name \in [D -> SourceEntries]
    <3>1. \A k \in D : manifest[k] \in ManifestRows
      BY <1>1, <1>3
    <3> QED
      BY <1>4, <3>1 DEF ManifestRows
  <2>2. \A i, j \in D : name[i] = name[j] => i = j
    BY <1>1, <1>3, <1>4
  <2> QED
    BY <2>1, <2>2 DEF Injection, IsInjective
<1>6. n <= N
  BY ONLY <1>2, <1>3, <1>5, FS_Injection
<1>7. \A s : Cardinality(RowsWith(manifest, s)) \in 0..N
  <2> SUFFICES ASSUME NEW s PROVE Cardinality(RowsWith(manifest, s)) \in 0..N
    OBVIOUS
  <2>1. PICK S : S = RowsWith(manifest, s)
    OBVIOUS
  <2>2. S \subseteq D
    BY <1>3, <2>1 DEF RowsWith
  <2>3. IsFiniteSet(S) /\ Cardinality(S) <= Cardinality(D)
    BY <1>3, <2>2, FS_Subset
  <2>4. Cardinality(S) \in Nat
    BY <2>3, FS_CardinalityType
  <2> QED
    BY <1>3, <1>6, <2>1, <2>3, <2>4
<1>8. \A f \in DOMAIN tally : tally[f] \in 0..N
  <2>1. DOMAIN tally = {"success", "failure", "skipped"} /\ tally.success \in 0..N /\ tally.failure \in 0..N /\ tally.skipped \in 0..N
    BY <1>7 DEF ImportInv, CountsFit, Tallies
  <2> QED
    BY <2>1
<1>9. \A k \in DOMAIN waiting : waiting[k] \in ScannedNames
  BY <1>1
<1>10. \A k \in DOMAIN manifest : manifest[k] \in ManifestRows
  BY <1>1
<1>11. documents \subseteq ParsedDocuments /\ TreeTyped
  BY DEF ImportInv, CountsFit
<1> QED
  BY <1>2, <1>8, <1>9, <1>10, <1>11
     DEF ImportTypeOK, TreeTyped, ScannedNames, ManifestRows, ParsedDocuments

(* The inductive invariant of the imports (parsers.py, import_project).    *)
THEOREM ImportInvariant == ImportSpec => []ImportInv
  BY ImportInitially, ImportNext, PTL DEF ImportSpec

(* What is counted is recorded, what succeeded is parsed, no name is       *)
(* recorded twice, and a digest is never newer than the text that was      *)
(* parsed (parsers.py, import_project).                                    *)
THEOREM ImportsAreCounted == ImportSpec => [](ImportTypeOK /\ CountsMatchManifest /\ DigestNotAhead)
<1>1. ImportInv => CountsMatchManifest
  BY DEF ImportInv, NamesOnce, CountsFit, CountsMatchManifest, RowsWith, WithStatus
<1>2. ImportInv => DigestNotAhead
  BY DEF ImportInv, CountsFit, DigestNotAhead
<1> QED
  BY <1>1, <1>2, ImportTypes, ImportInvariant, PTL

-----------------------------------------------------------------------------
(* The questions.                                                          *)
ResultRecords == [category : Categories, hit : BOOLEAN, refused : BOOLEAN, cited : BOOLEAN, sources : SUBSET {ChunkDoc[h] : h \in ChunkIds}]

PerCategory == [Categories -> Nat]

BenchRecords == [total : Nat, hits : PerCategory, cited : PerCategory, asked : PerCategory, refused : Nat]

\* The results that count in each counter, and their places.
RefusedRightly == {r \in ResultRecords : r.category = "no_answer" /\ r.refused}

HitsIn(c) == {r \in ResultRecords : r.category = c /\ r.hit}

CitedIn(c) == {r \in ResultRecords : r.category = c /\ r.cited}

RefusedRobust == {r \in ResultRecords : r.category \in Robust /\ r.refused}

PlacesOf(listing, results) == {i \in DOMAIN listing : listing[i] \in results}

CountersRetell(b, listing) ==
    /\ b \in BenchRecords /\ listing \in Seq(ResultRecords)
    /\ b.total = Len(listing) /\ b.refused = Cardinality(PlacesOf(listing, RefusedRightly))
    /\ \A c \in Robust : /\ b.hits[c] = Cardinality(PlacesOf(listing, HitsIn(c)))
                         /\ b.cited[c] = Cardinality(PlacesOf(listing, CitedIn(c)))
    /\ \A i \in DOMAIN listing : listing[i].hit = (listing[i].sources # {}) /\ listing[i].hit = ~listing[i].refused
    /\ Total(b.hits) + Cardinality(PlacesOf(listing, RefusedRobust)) = Total(b.asked)

EvidenceFits ==
    /\ evidence \in Seq(ChunkIds) /\ Len(evidence) <= TopK
    /\ evidence # <<>> => search.lexical # <<>> \/ search.close

QaInv == EvidenceFits /\ CountersRetell(bench, answered)

(* What exists of a list is made of chunks, and no longer than the list.   *)
LEMMA ExistingFits ==
    ASSUME NEW q, NEW n \in Nat, DOMAIN q = 1..n
    PROVE  Existing(q) \in Seq(ChunkIds) /\ Len(Existing(q)) <= n /\ (n = 0 => Existing(q) = <<>>)
<1>1. PICK P, e : P = {i \in DOMAIN q : q[i] \in ChunkIds} /\ e = ElementsAt(q, P)
  OBVIOUS
<1>2. P \in SUBSET (1..n)
  BY <1>1
<1>3. PICK m : m = Cardinality(P)
  OBVIOUS
<1>4. /\ m \in Nat /\ m <= n /\ DOMAIN e = 1..m /\ Len(e) = m
      /\ \A k \in 1..m : \E i \in P : e[k] = q[i]
  BY <1>1, <1>2, <1>3, ElementsPicked
<1>5. e = [k \in 1..m |-> e[k]]
  BY <1>1, <1>3 DEF ElementsAt
<1>6. \A k \in 1..m : e[k] \in ChunkIds
  BY <1>1, <1>4
<1>7. e \in Seq(ChunkIds)
  BY <1>4, <1>5, <1>6
<1> QED
  BY <1>1, <1>4, <1>7 DEF Existing

(* What a search finds are at most as many chunks as asked for, and none   *)
(* when only the vectors found something, and nothing close.               *)
LEMMA FoundFits ==
    ASSUME NEW s \in Searches
    PROVE  /\ Found(s) \in Seq(ChunkIds) /\ Len(Found(s)) <= TopK
           /\ Found(s) # <<>> => s.lexical # <<>> \/ s.close
<1>1. \A q \in Rankings(HitIds) : \E n \in Nat : DOMAIN q = 1..n /\ q = [k \in 1..n |-> q[k]] /\ q \in Seq(HitIds)
  <2> SUFFICES ASSUME NEW q \in Rankings(HitIds) PROVE \E n \in Nat : DOMAIN q = 1..n /\ q = [k \in 1..n |-> q[k]] /\ q \in Seq(HitIds)
    OBVIOUS
  <2>1. Cardinality(HitIds) \in Nat
    BY RetrievalAssumption, FS_Union, FS_CardinalityType DEF RetrievalAssumption, HitIds, ChunkIds
  <2>2. PICK n \in 0..Cardinality(HitIds) : q \in [1..n -> HitIds]
    BY DEF Rankings
  <2> QED
    BY <2>1, <2>2
<1>2. PICK lex : lex = s.lexical
  OBVIOUS
<1>3. lex \in Rankings(HitIds)
  BY <1>2 DEF Searches
<1>4. PICK n \in Nat : DOMAIN lex = 1..n /\ lex \in Seq(HitIds)
  BY <1>1, <1>3
<1>5. \E m \in Nat : /\ DOMAIN Best(lex) = 1..m /\ m <= TopK
                     /\ lex = <<>> => m = 0
  <2>1. Len(lex) = n
    BY <1>4
  <2>2. CASE n <= TopK
    BY <1>4, <2>1, <2>2 DEF Best
  <2>3. CASE ~(n <= TopK)
    <3>1. TopK \in Nat \ {0}
      BY RetrievalAssumption DEF RetrievalAssumption
    <3>2. Best(lex) = SubSeq(lex, 1, TopK)
      BY <2>1, <2>3 DEF Best
    <3>3. DOMAIN SubSeq(lex, 1, TopK) = 1..TopK
      BY <1>4, <2>3, <3>1
    <3>4. lex # <<>>
      BY <1>4, <2>3, <3>1
    <3> QED
      BY <3>1, <3>2, <3>3, <3>4
  <2> QED
    BY <2>2, <2>3
<1>6. /\ Existing(Best(lex)) \in Seq(ChunkIds) /\ Len(Existing(Best(lex))) <= TopK
      /\ lex = <<>> => Existing(Best(lex)) = <<>>
  <2>1. PICK m \in Nat : DOMAIN Best(lex) = 1..m /\ m <= TopK /\ (lex = <<>> => m = 0)
    BY <1>5
  <2>2. Existing(Best(lex)) \in Seq(ChunkIds) /\ Len(Existing(Best(lex))) <= m /\ (m = 0 => Existing(Best(lex)) = <<>>)
    BY <2>1, ExistingFits
  <2>3. TopK \in Nat /\ Len(Existing(Best(lex))) \in Nat
    BY <2>2, RetrievalAssumption DEF RetrievalAssumption
  <2> QED
    BY <2>1, <2>2, <2>3
<1>7. Existing(RrfMerge(s)) \in Seq(ChunkIds) /\ Len(Existing(RrfMerge(s))) <= TopK
  <2>1. PICK H : H = Hits(s) /\ H \subseteq HitIds
    BY DEF Hits
  <2>2. IsFiniteSet(HitIds)
    BY RetrievalAssumption, FS_Union DEF RetrievalAssumption, HitIds, ChunkIds
  <2>3. IsFiniteSet(H)
    BY <2>1, <2>2, FS_Subset
  <2>4. Cardinality(H) \in Nat /\ TopK \in Nat
    BY <2>3, FS_CardinalityType, RetrievalAssumption DEF RetrievalAssumption
  <2>5. PICK m : m = IF Cardinality(H) < TopK THEN Cardinality(H) ELSE TopK
    OBVIOUS
  <2>6. m \in Nat /\ m <= TopK
    BY <2>4, <2>5
  <2>7. DOMAIN RrfMerge(s) = 1..m
    BY <2>1, <2>5 DEF RrfMerge
  <2>8. Existing(RrfMerge(s)) \in Seq(ChunkIds) /\ Len(Existing(RrfMerge(s))) <= m
    BY <2>6, <2>7, ExistingFits
  <2>9. Len(Existing(RrfMerge(s))) \in Nat
    BY <2>8
  <2> QED
    BY <2>4, <2>6, <2>8, <2>9
<1>8. <<>> \in Seq(ChunkIds) /\ Len(<<>>) <= TopK
  BY RetrievalAssumption DEF RetrievalAssumption
<1>9. CASE s.lexicalOnly
  BY <1>2, <1>6, <1>9 DEF Found
<1>10. CASE ~s.lexicalOnly /\ s.lexical = <<>> /\ ~s.close
  BY <1>8, <1>10 DEF Found
<1>11. CASE ~s.lexicalOnly /\ ~(s.lexical = <<>> /\ ~s.close)
  BY <1>7, <1>11 DEF Found
<1> QED
  BY <1>9, <1>10, <1>11

(* The places of some results, after one more.                             *)
LEMMA OneMore ==
    ASSUME NEW listing \in Seq(ResultRecords), NEW r \in ResultRecords, NEW F
    PROVE  /\ Cardinality(PlacesOf(listing, F)) \in Nat
           /\ r \in F => Cardinality(PlacesOf(Append(listing, r), F)) = Cardinality(PlacesOf(listing, F)) + 1
           /\ r \notin F => Cardinality(PlacesOf(Append(listing, r), F)) = Cardinality(PlacesOf(listing, F))
<1>1. PICK n, D, after : n = Len(listing) /\ D = 1..n /\ after = Append(listing, r)
  OBVIOUS
<1>2. /\ n \in Nat /\ DOMAIN listing = 1..n /\ DOMAIN after = 1..(n + 1) /\ after[n + 1] = r
      /\ \A i \in 1..n : after[i] = listing[i]
  BY <1>1
<1>3. PICK S : S = PlacesOf(listing, F)
  OBVIOUS
<1>4. S \subseteq D /\ n + 1 \notin S
  BY <1>1, <1>2, <1>3 DEF PlacesOf
<1>5. IsFiniteSet(D)
  <2>1. IsFiniteSet(1..n)
    BY <1>2, FS_Interval
  <2> QED
    BY <1>1, <2>1
<1>6. IsFiniteSet(S) /\ Cardinality(S) \in Nat
  BY <1>4, <1>5, FS_Subset, FS_CardinalityType
<1>7. Cardinality(S \cup {n + 1}) = Cardinality(S) + 1
  BY ONLY <1>4, <1>6, FS_AddElement
<1>8. r \in F => PlacesOf(after, F) = S \cup {n + 1}
  BY <1>2, <1>3 DEF PlacesOf
<1>9. r \notin F => PlacesOf(after, F) = S
  BY <1>2, <1>3 DEF PlacesOf
<1> QED
  BY <1>1, <1>3, <1>6, <1>7, <1>8, <1>9

(* A condition counts once or not at all.                                  *)
LEMMA OneOf == ASSUME NEW p PROVE (p => One(p) = 1) /\ (~p => One(p) = 0)
  BY DEF One

(* What a recorded result adds to each counter (qa_service.py:56-75).      *)
LEMMA RecordFields ==
    ASSUME NEW b \in BenchRecords, NEW r \in ResultRecords, NEW a, a = Record(b, r), NEW c, c = r.category
    PROVE  /\ a \in BenchRecords
           /\ a.total = b.total + 1
           /\ a.refused = b.refused + One(r.refused /\ c = "no_answer")
           /\ a.hits = [b.hits EXCEPT ![c] = @ + One(r.hit /\ c \in {"factual", "cross_file"})]
           /\ a.cited = [b.cited EXCEPT ![c] = @ + One(r.cited /\ c \in {"factual", "cross_file"})]
           /\ a.asked = [b.asked EXCEPT ![c] = @ + One(c # "other")]
<1>1. c \in Categories
  BY DEF ResultRecords
<1>2. b.total \in Nat /\ b.refused \in Nat /\ b.hits \in PerCategory /\ b.cited \in PerCategory /\ b.asked \in PerCategory
  BY DEF BenchRecords
<1>3. \A p : One(p) \in Nat
  BY DEF One
<1>4. PICK h, i, k, n : /\ h = [b.hits EXCEPT ![c] = @ + One(r.hit /\ c \in {"factual", "cross_file"})]
                        /\ i = [b.cited EXCEPT ![c] = @ + One(r.cited /\ c \in {"factual", "cross_file"})]
                        /\ k = [b.asked EXCEPT ![c] = @ + One(c # "other")]
                        /\ n = b.refused + One(r.refused /\ c = "no_answer")
  OBVIOUS
<1>5. h \in PerCategory /\ i \in PerCategory /\ k \in PerCategory /\ n \in Nat
  BY <1>1, <1>2, <1>3, <1>4 DEF PerCategory
<1>6. b = [total |-> b.total, hits |-> b.hits, cited |-> b.cited, asked |-> b.asked, refused |-> b.refused]
  BY DEF BenchRecords
<1>7. a = [total |-> b.total + 1, hits |-> h, cited |-> i, asked |-> k, refused |-> n]
  BY <1>4, <1>6 DEF Record
<1> QED
  BY <1>2, <1>4, <1>5, <1>7 DEF BenchRecords

(* A recorded result keeps the counters those of the results.              *)
LEMMA CountersGrow ==
    ASSUME NEW b, NEW listing, CountersRetell(b, listing),
           NEW r \in ResultRecords, r.hit = ~r.refused, r.hit = (r.sources # {})
    PROVE  CountersRetell(Record(b, r), Append(listing, r))
<1>1. PICK n, after, a, c : n = Len(listing) /\ after = Append(listing, r) /\ a = Record(b, r) /\ c = r.category
  OBVIOUS
<1>2. /\ b \in BenchRecords /\ listing \in Seq(ResultRecords) /\ n \in Nat /\ DOMAIN listing = 1..n
      /\ after \in Seq(ResultRecords) /\ Len(after) = n + 1
      /\ DOMAIN after = 1..(n + 1) /\ after[n + 1] = r /\ \A i \in 1..n : after[i] = listing[i]
  BY <1>1 DEF CountersRetell
<1>3. /\ a \in BenchRecords /\ a.total = b.total + 1
      /\ a.refused = b.refused + One(r.refused /\ c = "no_answer")
      /\ a.hits = [b.hits EXCEPT ![c] = @ + One(r.hit /\ c \in {"factual", "cross_file"})]
      /\ a.cited = [b.cited EXCEPT ![c] = @ + One(r.cited /\ c \in {"factual", "cross_file"})]
      /\ a.asked = [b.asked EXCEPT ![c] = @ + One(c # "other")]
  BY <1>1, <1>2, RecordFields
<1>4. /\ c \in Categories /\ r.hit \in BOOLEAN /\ r.refused \in BOOLEAN /\ r.cited \in BOOLEAN
      /\ b.hits \in PerCategory /\ b.cited \in PerCategory /\ b.asked \in PerCategory /\ b.refused \in Nat
  BY <1>1, <1>2 DEF ResultRecords, BenchRecords
<1>10. \A F : /\ Cardinality(PlacesOf(listing, F)) \in Nat
              /\ r \in F => Cardinality(PlacesOf(after, F)) = Cardinality(PlacesOf(listing, F)) + 1
              /\ r \notin F => Cardinality(PlacesOf(after, F)) = Cardinality(PlacesOf(listing, F))
  <2> SUFFICES ASSUME NEW F
               PROVE  /\ Cardinality(PlacesOf(listing, F)) \in Nat
                      /\ r \in F => Cardinality(PlacesOf(after, F)) = Cardinality(PlacesOf(listing, F)) + 1
                      /\ r \notin F => Cardinality(PlacesOf(after, F)) = Cardinality(PlacesOf(listing, F))
    OBVIOUS
  <2>1. /\ Cardinality(PlacesOf(listing, F)) \in Nat
        /\ r \in F => Cardinality(PlacesOf(Append(listing, r), F)) = Cardinality(PlacesOf(listing, F)) + 1
        /\ r \notin F => Cardinality(PlacesOf(Append(listing, r), F)) = Cardinality(PlacesOf(listing, F))
    BY <1>2, OneMore
  <2> QED
    BY <1>1, <2>1
<1>5. a.refused = Cardinality(PlacesOf(after, RefusedRightly))
  <2>1. b.refused = Cardinality(PlacesOf(listing, RefusedRightly))
    BY DEF CountersRetell
  <2>2. CASE r \in RefusedRightly
    <3>1. One(r.refused /\ c = "no_answer") = 1
      BY <1>1, <2>2, OneOf DEF RefusedRightly
    <3> QED
      BY <1>3, <1>10, <2>1, <2>2, <3>1
  <2>3. CASE r \notin RefusedRightly
    <3>1. One(r.refused /\ c = "no_answer") = 0
      BY <1>1, <2>3, OneOf DEF RefusedRightly
    <3> QED
      BY <1>3, <1>4, <1>10, <2>1, <2>3, <3>1
  <2> QED
    BY <2>2, <2>3
<1>6. ASSUME NEW d \in Robust
      PROVE  /\ a.hits[d] = Cardinality(PlacesOf(after, HitsIn(d)))
             /\ a.cited[d] = Cardinality(PlacesOf(after, CitedIn(d)))
  <2>1. d \in Categories /\ d \in {"factual", "cross_file"}
    BY DEF Robust, Categories
  <2>2. /\ b.hits[d] = Cardinality(PlacesOf(listing, HitsIn(d))) /\ b.cited[d] = Cardinality(PlacesOf(listing, CitedIn(d)))
        /\ b.hits[d] \in Nat /\ b.cited[d] \in Nat
    BY <1>4, <2>1 DEF CountersRetell, PerCategory
  <2>3. CASE c # d
    <3>1. r \notin HitsIn(d) /\ r \notin CitedIn(d)
      BY <1>1, <2>3 DEF HitsIn, CitedIn
    <3>2. a.hits[d] = b.hits[d] /\ a.cited[d] = b.cited[d]
      BY <1>3, <1>4, <2>1, <2>3 DEF PerCategory
    <3> QED
      BY <1>1, <1>2, <2>2, <3>1, <3>2, <1>10
  <2>4. CASE c = d
    <3>1. /\ a.hits[d] = b.hits[d] + One(r.hit /\ c \in {"factual", "cross_file"})
          /\ a.cited[d] = b.cited[d] + One(r.cited /\ c \in {"factual", "cross_file"})
      BY <1>3, <1>4, <2>1, <2>4 DEF PerCategory
    <3>2. a.hits[d] = Cardinality(PlacesOf(after, HitsIn(d)))
      <4>1. CASE r \in HitsIn(d)
        <5>1. One(r.hit /\ c \in {"factual", "cross_file"}) = 1
          BY <2>1, <2>4, <4>1, OneOf DEF HitsIn
        <5> QED
          BY <1>1, <1>2, <2>2, <3>1, <4>1, <5>1, <1>10
      <4>2. CASE r \notin HitsIn(d)
        <5>1. One(r.hit /\ c \in {"factual", "cross_file"}) = 0
          BY <1>1, <2>4, <4>2, OneOf DEF HitsIn
        <5> QED
          BY <1>1, <1>2, <2>2, <3>1, <4>2, <5>1, <1>10
      <4> QED
        BY <4>1, <4>2
    <3>3. a.cited[d] = Cardinality(PlacesOf(after, CitedIn(d)))
      <4>1. CASE r \in CitedIn(d)
        <5>1. One(r.cited /\ c \in {"factual", "cross_file"}) = 1
          BY <2>1, <2>4, <4>1, OneOf DEF CitedIn
        <5> QED
          BY <1>1, <1>2, <2>2, <3>1, <4>1, <5>1, <1>10
      <4>2. CASE r \notin CitedIn(d)
        <5>1. One(r.cited /\ c \in {"factual", "cross_file"}) = 0
          BY <1>1, <2>4, <4>2, OneOf DEF CitedIn
        <5> QED
          BY <1>1, <1>2, <2>2, <3>1, <4>2, <5>1, <1>10
      <4> QED
        BY <4>1, <4>2
    <3> QED
      BY <3>2, <3>3
  <2> QED
    BY <2>3, <2>4
<1>7. \A i \in DOMAIN after : after[i].hit = (after[i].sources # {}) /\ after[i].hit = ~after[i].refused
  <2> SUFFICES ASSUME NEW i \in DOMAIN after
               PROVE  after[i].hit = (after[i].sources # {}) /\ after[i].hit = ~after[i].refused
    OBVIOUS
  <2>1. CASE i \in 1..n
    BY <1>2, <2>1 DEF CountersRetell
  <2>2. CASE i = n + 1
    BY <1>2, <2>2
  <2> QED
    BY <1>2, <2>1, <2>2
<1>8. Total(a.hits) + Cardinality(PlacesOf(after, RefusedRobust)) = Total(a.asked)
  <2>1. PICK k, l : k = Cardinality(PlacesOf(listing, RefusedRobust)) /\ l = Cardinality(PlacesOf(after, RefusedRobust))
    OBVIOUS
  <2>2. k \in Nat /\ (r \in RefusedRobust => l = k + 1) /\ (r \notin RefusedRobust => l = k)
    BY <1>1, <1>2, <2>1, <1>10
  <2>3. Total(b.hits) + k = Total(b.asked)
    BY <2>1 DEF CountersRetell
  <2>4. /\ b.hits["factual"] \in Nat /\ b.hits["cross_file"] \in Nat
        /\ b.asked["factual"] \in Nat /\ b.asked["cross_file"] \in Nat
    BY <1>4 DEF PerCategory, Categories
  <2>5. CASE c \notin Robust
    <3>1. Total(a.hits) = Total(b.hits) /\ Total(a.asked) = Total(b.asked)
      BY <1>3, <1>4, <2>5 DEF Total, PerCategory, Robust, Categories
    <3>2. r \notin RefusedRobust
      BY <1>1, <2>5 DEF RefusedRobust
    <3> QED
      BY <2>1, <2>2, <2>3, <3>1, <3>2
  <2>6. CASE c \in Robust
    <3>1. c # "other" /\ c \in {"factual", "cross_file"}
      BY <2>6 DEF Robust
    <3>2. One(c # "other") = 1
      BY <3>1, OneOf
    <3>3. PICK o : o = One(r.hit /\ c \in {"factual", "cross_file"})
      OBVIOUS
    <3>4. \/ o = 1 /\ r \notin RefusedRobust
          \/ o = 0 /\ r \in RefusedRobust
      <4>1. CASE r.hit
        BY <3>1, <3>3, <4>1, OneOf DEF RefusedRobust
      <4>2. CASE ~r.hit
        BY <1>1, <2>6, <3>3, <4>2, OneOf DEF RefusedRobust
      <4> QED
        BY <4>1, <4>2
    <3>5. Total(a.hits) = Total(b.hits) + o /\ Total(a.asked) = Total(b.asked) + 1
      <4>1. CASE c = "factual"
        BY <1>3, <1>4, <2>4, <3>2, <3>3, <3>4, <4>1 DEF Total, PerCategory, Categories
      <4>2. CASE c = "cross_file"
        BY <1>3, <1>4, <2>4, <3>2, <3>3, <3>4, <4>2 DEF Total, PerCategory, Categories
      <4> QED
        BY <3>1, <4>1, <4>2
    <3>6. Total(b.hits) \in Nat /\ Total(b.asked) \in Nat
      BY <2>4 DEF Total
    <3> QED
      BY <2>1, <2>2, <2>3, <3>4, <3>5, <3>6
  <2> QED
    BY <2>5, <2>6
<1>9. a.total = n + 1
  BY <1>1, <1>3 DEF CountersRetell
<1> QED
  BY <1>1, <1>2, <1>3, <1>5, <1>6, <1>7, <1>8, <1>9 DEF CountersRetell

(* Before the first question there is nothing to count.                    *)
LEMMA NothingAsked ==
    /\ <<>> \in Seq(ChunkIds) /\ Len(<<>>) <= TopK
    /\ CountersRetell(NoCounts, <<>>)
<1>1. PICK listing, b : listing = <<>> /\ b = NoCounts
  OBVIOUS
<1>2. b \in BenchRecords
  BY <1>1 DEF NoCounts, BenchRecords, PerCategory
<1>3. listing \in Seq(ResultRecords) /\ DOMAIN listing = {} /\ Len(listing) = 0
  BY <1>1
<1>4. \A F : PlacesOf(listing, F) = {}
  BY <1>3 DEF PlacesOf
<1>5. Cardinality({}) = 0
  BY FS_EmptySet
<1>6. /\ b.total = 0 /\ b.refused = 0 /\ Total(b.hits) = 0 /\ Total(b.asked) = 0
      /\ \A c \in Robust : b.hits[c] = 0 /\ b.cited[c] = 0
  BY <1>1 DEF NoCounts, Total, Robust, Categories
<1>7. /\ \A c \in Robust : /\ b.hits[c] = Cardinality(PlacesOf(listing, HitsIn(c)))
                           /\ b.cited[c] = Cardinality(PlacesOf(listing, CitedIn(c)))
      /\ b.refused = Cardinality(PlacesOf(listing, RefusedRightly))
      /\ Total(b.hits) + Cardinality(PlacesOf(listing, RefusedRobust)) = Total(b.asked)
  <2>1. \A F : Cardinality(PlacesOf(listing, F)) = 0
    BY ONLY <1>4, <1>5
  <2>2. /\ Cardinality(PlacesOf(listing, RefusedRightly)) = 0
        /\ Cardinality(PlacesOf(listing, RefusedRobust)) = 0
        /\ \A c \in Robust : /\ Cardinality(PlacesOf(listing, HitsIn(c))) = 0
                            /\ Cardinality(PlacesOf(listing, CitedIn(c))) = 0
    BY ONLY <2>1
  <2> QED
    BY ONLY <2>2, <1>6
<1>8. CountersRetell(b, listing)
  BY <1>2, <1>3, <1>6, <1>7 DEF CountersRetell
<1> QED
  BY <1>1, <1>8, RetrievalAssumption DEF RetrievalAssumption

(* An answer is a hit if, and only if, it rests on evidence and does not   *)
(* begin with a refusal.                                                   *)
LEMMA ResultFits ==
    ASSUME NEW q \in Seq(ChunkIds), NEW answer \in Answers, NEW c \in Categories, NEW r, r = Result(q, answer, c)
    PROVE  r \in ResultRecords /\ r.hit = ~r.refused /\ r.hit = (r.sources # {})
<1>1. PICK no \in BOOLEAN : no = (q = <<>> \/ answer = "refuses")
  OBVIOUS
<1>2. PICK sources : sources = IF no THEN {} ELSE SourcesOf(q)
  OBVIOUS
<1>3. SourcesOf(q) \subseteq {ChunkDoc[h] : h \in ChunkIds}
  <2>1. \A i \in DOMAIN q : q[i] \in ChunkIds
    OBVIOUS
  <2> QED
    BY <2>1 DEF SourcesOf
<1>4. q # <<>> => SourcesOf(q) # {}
  <2>1. q # <<>> => 1 \in DOMAIN q
    OBVIOUS
  <2> QED
    BY <2>1 DEF SourcesOf
<1>5. sources # {} <=> ~no
  BY <1>1, <1>2, <1>4
<1>6. r = [category |-> c, hit |-> ~no, refused |-> no, cited |-> no \/ answer = "cites", sources |-> sources]
  BY <1>1, <1>2 DEF Result
<1>7. r \in ResultRecords
  BY <1>2, <1>3, <1>6 DEF ResultRecords
<1>8. r.hit = ~no /\ r.refused = no /\ r.sources = sources
  BY <1>6
<1> QED
  BY <1>5, <1>7, <1>8

(* Every step of the questions, or none, keeps their invariant.            *)
LEMMA QaNext == QaInv /\ [QaStep]_qaVars => QaInv'
<1> SUFFICES ASSUME QaInv, [QaStep]_qaVars PROVE QaInv'
  OBVIOUS
<1>1. CASE UNCHANGED qaVars
  BY <1>1 DEF qaVars, QaInv, EvidenceFits
<1>2. ASSUME NEW s \in Searches, AskQuestion(s) PROVE QaInv'
  <2>1. search' = s /\ evidence' = IF s.built THEN Found(s) ELSE <<>>
    BY <1>2 DEF AskQuestion
  <2>3. EvidenceFits'
    <3>1. CASE s.built
      BY <2>1, <3>1, FoundFits DEF EvidenceFits
    <3>2. CASE ~s.built
      BY <2>1, <3>2, NothingAsked DEF EvidenceFits
    <3> QED
      BY <3>1, <3>2
  <2> QED
    BY <1>2, <2>3 DEF QaInv, AskQuestion
<1>3. ASSUME NEW answer \in Answers, NEW c \in Categories, AnswerQuestion(answer, c) PROVE QaInv'
  <2>1. PICK r : r = Result(evidence, answer, c)
    OBVIOUS
  <2>2. r \in ResultRecords /\ r.hit = ~r.refused /\ r.hit = (r.sources # {})
    BY <2>1, ResultFits DEF QaInv, EvidenceFits
  <2>3. answered' = Append(answered, r) /\ bench' = Record(bench, r) /\ evidence' = <<>>
    BY <1>3, <2>1 DEF AnswerQuestion
  <2>4. CountersRetell(bench', answered')
    BY <2>2, <2>3, CountersGrow DEF QaInv
  <2> QED
    BY <2>3, <2>4, NothingAsked DEF QaInv, EvidenceFits
<1>4. CASE AnswerFails
  BY <1>4, NothingAsked DEF AnswerFails, QaInv, EvidenceFits
<1> QED
  BY <1>1, <1>2, <1>3, <1>4 DEF QaStep

(* No question has been asked at the start.                                *)
LEMMA QaInitially == QaInit => QaInv
  BY NothingAsked DEF QaInit, QaInv, EvidenceFits

(* The inductive invariant of the questions (qa_service.py:56-216).        *)
THEOREM QaInvariant == QaSpec => []QaInv
  BY QaInitially, QaNext, PTL DEF QaSpec

(* The invariant has the types.                                            *)
LEMMA QaTypes == QaInv => QaTypeOK
<1> SUFFICES ASSUME QaInv PROVE QaTypeOK
  OBVIOUS
<1>1. evidence \in Seq(ChunkIds) /\ Len(evidence) <= TopK
  BY DEF QaInv, EvidenceFits
<1>2. \A i \in DOMAIN evidence : evidence[i] \in ChunkIds
  BY <1>1
<1> QED
  BY <1>1, <1>2 DEF QaTypeOK, QaInv, CountersRetell

(* The counters of a batch are the numbers of its results.                 *)
LEMMA CountersDoRetell == QaInv => CountersRetellResults
<1> SUFFICES ASSUME QaInv PROVE CountersRetellResults
  OBVIOUS
<1>1. CountersRetell(bench, answered)
  BY DEF QaInv
<1>2. \A i \in DOMAIN answered : answered[i] \in ResultRecords
  BY <1>1 DEF CountersRetell
<1>3. /\ PlacesOf(answered, RefusedRightly) = {i \in DOMAIN answered : answered[i].category = "no_answer" /\ answered[i].refused}
      /\ PlacesOf(answered, RefusedRobust) = {i \in DOMAIN answered : answered[i].category \in Robust /\ answered[i].refused}
  BY <1>2 DEF PlacesOf, RefusedRightly, RefusedRobust
<1>4. \A c : /\ PlacesOf(answered, HitsIn(c)) = {i \in DOMAIN answered : answered[i].category = c /\ answered[i].hit}
             /\ PlacesOf(answered, CitedIn(c)) = {i \in DOMAIN answered : answered[i].category = c /\ answered[i].cited}
  BY <1>2 DEF PlacesOf, HitsIn, CitedIn
<1>5. /\ bench.refused = Cardinality({i \in DOMAIN answered : answered[i].category = "no_answer" /\ answered[i].refused})
      /\ Total(bench.hits)
             + Cardinality({i \in DOMAIN answered : answered[i].category \in Robust /\ answered[i].refused})
             = Total(bench.asked)
  BY <1>1, <1>3 DEF CountersRetell
<1>6. \A c \in Robust :
          /\ bench.hits[c] = Cardinality({i \in DOMAIN answered : answered[i].category = c /\ answered[i].hit})
          /\ bench.cited[c] = Cardinality({i \in DOMAIN answered : answered[i].category = c /\ answered[i].cited})
  BY <1>1, <1>4 DEF CountersRetell
<1>7. \A i \in DOMAIN answered : answered[i].hit = (answered[i].sources # {})
  BY <1>1 DEF CountersRetell
<1> QED
  BY <1>5, <1>6, <1>7 DEF CountersRetellResults

(* A question is answered from chunks that exist and that more than        *)
(* distant vectors found, and the counters say what the results say        *)
(* (retriever.py:26-87, qa_service.py:56-75, 150-200).                     *)
THEOREM AnswersRestOnEvidence == QaSpec => [](QaTypeOK /\ NoWeakEvidence /\ CountersRetellResults)
<1>1. QaInv => NoWeakEvidence
  BY DEF QaInv, EvidenceFits, NoWeakEvidence
<1> QED
  BY <1>1, QaTypes, CountersDoRetell, QaInvariant, PTL

(* Scores are ordered as the fractions they stand for.                     *)
ScorePairs == Nat \X (Nat \ {0})

(* A product keeps the order of its factors.                               *)
LEMMA TimesKeeps ==
    ASSUME NEW x \in Nat, NEW y \in Nat, NEW k \in Nat \ {0}
    PROVE  (x < y => x * k < y * k) /\ (x <= y => x * k <= y * k)
  OBVIOUS

(* Scores, compared as fractions, are totally ordered.                     *)
LEMMA GreaterChains ==
    ASSUME NEW x \in ScorePairs, NEW y \in ScorePairs, NEW z \in ScorePairs
    PROVE  /\ Greater(x, y) /\ ~Greater(z, y) => Greater(x, z)
           /\ ~Greater(y, x) /\ Greater(y, z) => Greater(x, z)
           /\ ~Greater(y, x) /\ ~Greater(z, y) => ~Greater(z, x)
           /\ ~(Greater(x, y) /\ Greater(y, x))
<1>1. PICK a \in Nat, b \in Nat, c \in Nat, p \in Nat \ {0}, q \in Nat \ {0}, r \in Nat \ {0} :
          x = <<a, p>> /\ y = <<b, q>> /\ z = <<c, r>>
  BY DEF ScorePairs
<1>2. PICK aq, bp, br, cq, ar, cp : /\ aq = a * q /\ bp = b * p /\ br = b * r
                                    /\ cq = c * q /\ ar = a * r /\ cp = c * p
  OBVIOUS
<1>3. /\ aq \in Nat /\ bp \in Nat /\ br \in Nat /\ cq \in Nat /\ ar \in Nat /\ cp \in Nat
      /\ aq * r = ar * q /\ bp * r = br * p /\ cq * p = cp * q
  BY <1>2
<1>4. /\ Greater(x, y) <=> aq > bp
      /\ Greater(y, x) <=> bp > aq
      /\ Greater(z, y) <=> cq > br
      /\ Greater(y, z) <=> br > cq
      /\ Greater(x, z) <=> ar > cp
      /\ Greater(z, x) <=> cp > ar
  BY <1>1, <1>2 DEF Greater
<1>5. \A m, n \in Nat : \A k \in Nat \ {0} : (m < n => m * k < n * k) /\ (m <= n => m * k <= n * k)
  BY ONLY TimesKeeps
<1>6. ASSUME aq > bp, ~(cq > br) PROVE ar > cp
  <2>1. aq * r > bp * r /\ cq * p <= br * p
    BY ONLY <1>3, <1>5, <1>6, p \in Nat \ {0}, r \in Nat \ {0}
  <2>2. ar * q > cp * q
    BY <1>3, <2>1
  <2> QED
    BY ONLY <1>3, <1>5, <2>2, q \in Nat \ {0}
<1>7. ASSUME ~(bp > aq), br > cq PROVE ar > cp
  <2>1. aq * r >= bp * r /\ cq * p < br * p
    BY ONLY <1>3, <1>5, <1>7, p \in Nat \ {0}, r \in Nat \ {0}
  <2>2. ar * q > cp * q
    BY <1>3, <2>1
  <2> QED
    BY ONLY <1>3, <1>5, <2>2, q \in Nat \ {0}
<1>8. ASSUME ~(bp > aq), ~(cq > br) PROVE ~(cp > ar)
  <2>1. aq * r >= bp * r /\ cq * p <= br * p
    BY ONLY <1>3, <1>5, <1>8, p \in Nat \ {0}, r \in Nat \ {0}
  <2>2. ar * q >= cp * q
    BY <1>3, <2>1
  <2> QED
    BY ONLY <1>3, <1>5, <2>2, q \in Nat \ {0}
<1>9. ~(aq > bp /\ bp > aq)
  BY <1>3
<1> QED
  BY <1>4, <1>6, <1>7, <1>8, <1>9

(* The rank of a hit in a ranking, and what it adds to the score.          *)
LEMMA RankFits ==
    ASSUME NEW q \in Rankings(HitIds), NEW h
    PROVE  /\ Len(q) \in Nat /\ DOMAIN q = 1..Len(q)
           /\ Has(q, h) => RankIn(q, h) \in 1..Len(q) /\ q[RankIn(q, h)] = h
           /\ Weight(q, h) \in ScorePairs
<1>1. Cardinality(HitIds) \in Nat
  BY RetrievalAssumption, FS_Union, FS_CardinalityType DEF RetrievalAssumption, HitIds, ChunkIds
<1>2. PICK n \in 0..Cardinality(HitIds) : q \in [1..n -> HitIds]
  BY DEF Rankings
<1>3. Len(q) = n /\ n \in Nat /\ DOMAIN q = 1..n
  BY <1>1, <1>2
<1>4. ASSUME Has(q, h) PROVE RankIn(q, h) \in 1..n /\ q[RankIn(q, h)] = h
  BY <1>3, <1>4 DEF Has, RankIn
<1>5. Weight(q, h) \in ScorePairs
  <2>1. CASE Has(q, h)
    <3>1. PICK k \in 1..n : k = RankIn(q, h)
      BY <1>4, <2>1
    <3>2. Weight(q, h) = <<1, 60 + k>>
      BY <2>1, <3>1 DEF Weight, RrfK
    <3> QED
      BY <1>3, <3>2 DEF ScorePairs
  <2>2. CASE ~Has(q, h)
    BY <2>2 DEF Weight, ScorePairs
  <2> QED
    BY <2>1, <2>2
<1> QED
  BY <1>3, <1>4, <1>5

(* A score is a fraction with a positive denominator.                      *)
LEMMA ScoreFits == ASSUME NEW s \in Searches, NEW h PROVE RrfScore(s, h) \in ScorePairs
<1>1. s.dense \in Rankings(HitIds) /\ s.lexical \in Rankings(HitIds)
  BY DEF Searches
<1>2. PICK x, y : x = Weight(s.dense, h) /\ y = Weight(s.lexical, h)
  OBVIOUS
<1>3. x \in ScorePairs /\ y \in ScorePairs
  BY <1>1, <1>2, RankFits
<1>4. PICK a \in Nat, b \in Nat, p \in Nat \ {0}, q \in Nat \ {0} : x = <<a, p>> /\ y = <<b, q>>
  BY <1>3 DEF ScorePairs
<1>5. RrfScore(s, h) = <<a * q + b * p, p * q>>
  BY <1>2, <1>4 DEF RrfScore, Sum
<1>6. a * q + b * p \in Nat /\ p * q \in Nat \ {0}
  OBVIOUS
<1> QED
  BY <1>5, <1>6 DEF ScorePairs

(* Different hits come into the score map at different places.             *)
LEMMA PlacesDiffer ==
    ASSUME NEW s \in Searches, NEW g \in Hits(s), NEW h \in Hits(s)
    PROVE  MapPlace(s, g) \in Nat /\ (MapPlace(s, g) = MapPlace(s, h) => g = h)
<1>1. s.dense \in Rankings(HitIds) /\ s.lexical \in Rankings(HitIds)
  BY DEF Searches
<1>2. PICK d, l : d = Len(s.dense) /\ l = Len(s.lexical)
  OBVIOUS
<1>0. d \in Nat /\ l \in Nat
  BY <1>1, <1>2, RankFits
<1>3. ASSUME NEW k \in {g, h}
      PROVE  \/ MapPlace(s, k) \in 1..d /\ s.dense[MapPlace(s, k)] = k
             \/ MapPlace(s, k) \in (d + 1)..(d + l) /\ s.lexical[MapPlace(s, k) - d] = k
  <2>1. CASE Has(s.dense, k)
    BY <1>1, <1>2, <2>1, RankFits DEF MapPlace
  <2>2. CASE ~Has(s.dense, k)
    <3>1. Has(s.lexical, k)
      BY <2>2 DEF Hits
    <3>2. PICK m : m = RankIn(s.lexical, k)
      OBVIOUS
    <3>3. m \in 1..l /\ s.lexical[m] = k
      BY <1>1, <1>2, <3>1, <3>2, RankFits
    <3>4. MapPlace(s, k) = d + m
      BY <1>2, <2>2, <3>2 DEF MapPlace
    <3>5. (d + m) - d = m /\ d + m \in (d + 1)..(d + l)
      BY <1>0, <3>3
    <3> QED
      BY <3>3, <3>4, <3>5
  <2> QED
    BY <2>1, <2>2
<1>4. PICK i, j : i = MapPlace(s, g) /\ j = MapPlace(s, h)
  OBVIOUS
<1>5. \/ i \in 1..d /\ s.dense[i] = g
      \/ i \in (d + 1)..(d + l) /\ s.lexical[i - d] = g
  BY <1>3, <1>4
<1>6. \/ j \in 1..d /\ s.dense[j] = h
      \/ j \in (d + 1)..(d + l) /\ s.lexical[j - d] = h
  BY <1>3, <1>4
<1>7. i \in Nat
  BY <1>0, <1>5
<1>8. ASSUME i = j PROVE g = h
  BY <1>0, <1>5, <1>6, <1>8
<1> QED
  BY <1>4, <1>7, <1>8

(* The hits of a search are finitely many, and sorted in an order.         *)
LEMMA SortedInOrder ==
    ASSUME NEW s \in Searches
    PROVE  /\ IsFiniteSet(Hits(s))
           /\ \A n \in 1..Cardinality(Hits(s)) :
                  \E h \in Hits(s) : Cardinality({g \in Hits(s) : Above(s, g, h)}) = n
           /\ \A g, h \in Hits(s) : Above(s, g, h) /\ g # h =>
                  Cardinality({f \in Hits(s) : Above(s, f, g)}) < Cardinality({f \in Hits(s) : Above(s, f, h)})
<1>1. PICK H, Up : H = Hits(s) /\ Up = {p \in H \X H : Above(s, p[1], p[2])}
  OBVIOUS
<1>2. IsFiniteSet(H)
  <2>1. IsFiniteSet(HitIds)
    BY RetrievalAssumption, FS_Union DEF RetrievalAssumption, HitIds, ChunkIds
  <2> QED
    BY <1>1, <2>1, FS_Subset DEF Hits
<1>3. Up \in SUBSET (H \X H) /\ \A g, h \in H : <<g, h>> \in Up <=> Above(s, g, h)
  BY <1>1
<1>4. \A h : RrfScore(s, h) \in ScorePairs
  BY ScoreFits
<1>5. \A g, h \in H : MapPlace(s, g) \in Nat /\ (MapPlace(s, g) = MapPlace(s, h) => g = h)
  BY <1>1, PlacesDiffer
<1>6. \A g \in H : Above(s, g, g)
  <2> SUFFICES ASSUME NEW g \in H PROVE Above(s, g, g)
    OBVIOUS
  <2>1. ~Greater(RrfScore(s, g), RrfScore(s, g))
    BY <1>4, GreaterChains
  <2>2. MapPlace(s, g) \in Nat
    BY <1>5
  <2> QED
    BY <2>1, <2>2 DEF Above
<1>7. \A f, g, h \in H : Above(s, f, g) /\ Above(s, g, h) => Above(s, f, h)
  <2> SUFFICES ASSUME NEW f \in H, NEW g \in H, NEW h \in H, Above(s, f, g), Above(s, g, h) PROVE Above(s, f, h)
    OBVIOUS
  <2>1. PICK x, y, z : x = RrfScore(s, f) /\ y = RrfScore(s, g) /\ z = RrfScore(s, h)
    OBVIOUS
  <2>2. PICK i \in Nat, j \in Nat, k \in Nat : i = MapPlace(s, f) /\ j = MapPlace(s, g) /\ k = MapPlace(s, h)
    BY <1>5
  <2>3. x \in ScorePairs /\ y \in ScorePairs /\ z \in ScorePairs
    BY <1>4, <2>1
  <2>4. Greater(x, y) \/ (~Greater(y, x) /\ i <= j)
    BY <2>1, <2>2 DEF Above
  <2>5. Greater(y, z) \/ (~Greater(z, y) /\ j <= k)
    BY <2>1, <2>2 DEF Above
  <2>6. /\ Greater(x, y) /\ ~Greater(z, y) => Greater(x, z)
        /\ ~Greater(y, x) /\ Greater(y, z) => Greater(x, z)
        /\ ~Greater(y, x) /\ ~Greater(z, y) => ~Greater(z, x)
        /\ ~(Greater(y, z) /\ Greater(z, y))
    BY <2>3, GreaterChains
  <2>7. Greater(x, z) \/ (~Greater(z, x) /\ i <= k)
    <3>1. i <= j /\ j <= k => i <= k
      BY ONLY i \in Nat, j \in Nat, k \in Nat
    <3> QED
      BY ONLY <2>4, <2>5, <2>6, <3>1
  <2> QED
    BY <2>1, <2>2, <2>7 DEF Above
<1>8. \A g, h \in H : Above(s, g, h) \/ Above(s, h, g)
  <2> SUFFICES ASSUME NEW g \in H, NEW h \in H PROVE Above(s, g, h) \/ Above(s, h, g)
    OBVIOUS
  <2>1. MapPlace(s, g) \in Nat /\ MapPlace(s, h) \in Nat
    BY <1>5
  <2>2. MapPlace(s, g) <= MapPlace(s, h) \/ MapPlace(s, h) <= MapPlace(s, g)
    BY <2>1
  <2> QED
    BY <2>2 DEF Above
<1>9. \A g, h \in H : Above(s, g, h) /\ Above(s, h, g) => g = h
  <2> SUFFICES ASSUME NEW g \in H, NEW h \in H, Above(s, g, h), Above(s, h, g) PROVE g = h
    OBVIOUS
  <2>1. ~(Greater(RrfScore(s, g), RrfScore(s, h)) /\ Greater(RrfScore(s, h), RrfScore(s, g)))
    BY <1>4, GreaterChains
  <2>2. MapPlace(s, g) <= MapPlace(s, h) /\ MapPlace(s, h) <= MapPlace(s, g)
    BY <2>1 DEF Above
  <2>3. MapPlace(s, g) = MapPlace(s, h)
    BY <1>5, <2>2
  <2> QED
    BY <1>5, <2>3
<1>10. /\ \A n \in 1..Cardinality(H) : \E h \in H : RankUnder(Up, H, h) = n
       /\ \A g, h \in H : <<g, h>> \in Up /\ g # h => RankUnder(Up, H, g) < RankUnder(Up, H, h)
  <2>1. Orders(Up, H)
    BY <1>3, <1>6, <1>7, <1>8, <1>9 DEF Orders
  <2> QED
    BY ONLY <1>2, <2>1, RankedInOrder
<1>11. \A h \in H : RankUnder(Up, H, h) = Cardinality({g \in H : Above(s, g, h)})
  <2>1. \A h \in H : {g \in H : <<g, h>> \in Up} = {g \in H : Above(s, g, h)}
    BY <1>3
  <2> QED
    BY <2>1 DEF RankUnder
<1>12. /\ \A n \in 1..Cardinality(H) : \E h \in H : Cardinality({g \in H : Above(s, g, h)}) = n
       /\ \A g, h \in H : Above(s, g, h) /\ g # h =>
              Cardinality({f \in H : Above(s, f, g)}) < Cardinality({f \in H : Above(s, f, h)})
  BY <1>3, <1>10, <1>11
<1> QED
  BY <1>1, <1>2, <1>12

(* Two ranks of at most sixty weigh more than any one rank.                *)
LEMMA TwoWeighMore ==
    ASSUME NEW x \in 61..120, NEW y \in 61..120, NEW z \in 61..120
    PROVE  (x + y) * z > x * y
<1>1. (x + y) * z >= (x + y) * 61
  <2>1. x + y \in Nat \ {0} /\ z \in Nat /\ 61 <= z
    OBVIOUS
  <2>2. PICK t : t = x + y
    OBVIOUS
  <2>3. 61 * t <= z * t
    BY <2>1, <2>2, TimesKeeps
  <2> QED
    BY <2>1, <2>2, <2>3
<1>2. x * (y - 61) <= 120 * (y - 61)
  <2>1. PICK t : t = y - 61
    OBVIOUS
  <2>2. t \in Nat /\ x \in Nat /\ x <= 120
    BY <2>1
  <2>3. t = 0 \/ t \in Nat \ {0}
    BY <2>2
  <2>4. x * t <= 120 * t
    BY <2>2, <2>3, TimesKeeps
  <2> QED
    BY <2>1, <2>4
<1>3. x * (y - 61) = x * y - 61 * x
  OBVIOUS
<1>4. (x + y) * 61 > x * y
  BY <1>2, <1>3
<1>5. (x + y) * z \in Nat /\ x * y \in Nat
  OBVIOUS
<1> QED
  BY <1>1, <1>4, <1>5

\* The rankings are short enough for a hit of both to beat any other.
NarrowSearch == TopK <= 20

InBoth(s, h) == Has(s.dense, h) /\ Has(s.lexical, h)

(* A hit of both searches scores more than a hit of one.                   *)
LEMMA BothScoresMore ==
    ASSUME NarrowSearch, NEW s \in Searches, NEW g \in Hits(s), NEW h \in Hits(s), ~InBoth(s, g), InBoth(s, h)
    PROVE  Greater(RrfScore(s, h), RrfScore(s, g))
<1>1. /\ s.dense \in Rankings(HitIds) /\ s.lexical \in Rankings(HitIds)
      /\ Len(s.dense) <= 3 * TopK /\ Len(s.lexical) <= 3 * TopK
  BY DEF Searches
<1>2. TopK \in Nat /\ TopK <= 20
  BY RetrievalAssumption DEF RetrievalAssumption, NarrowSearch
<1>3. \A q \in {s.dense, s.lexical} : \A k : Has(q, k) => RankIn(q, k) \in 1..60
  <2> SUFFICES ASSUME NEW q \in {s.dense, s.lexical}, NEW k, Has(q, k) PROVE RankIn(q, k) \in 1..60
    OBVIOUS
  <2>1. PICK n, m : n = Len(q) /\ m = RankIn(q, k)
    OBVIOUS
  <2>2. n \in Nat /\ m \in 1..n /\ n <= 3 * TopK
    BY <1>1, <2>1, RankFits
  <2>3. n <= 60
    BY ONLY <1>2, <2>2
  <2>4. m \in 1..60
    BY ONLY <2>2, <2>3
  <2> QED
    BY <2>1, <2>4
<1>4. \A q \in {s.dense, s.lexical} : \A k : Has(q, k) => \E x \in 61..120 : Weight(q, k) = <<1, x>>
  <2> SUFFICES ASSUME NEW q \in {s.dense, s.lexical}, NEW k, Has(q, k) PROVE \E x \in 61..120 : Weight(q, k) = <<1, x>>
    OBVIOUS
  <2>1. PICK m \in 1..60 : m = RankIn(q, k)
    BY <1>3
  <2>2. Weight(q, k) = <<1, 60 + m>> /\ 60 + m \in 61..120
    BY <2>1 DEF Weight, RrfK
  <2> QED
    BY <2>2
<1>5. PICK x \in 61..120, y \in 61..120 : Weight(s.dense, h) = <<1, x>> /\ Weight(s.lexical, h) = <<1, y>>
  BY <1>4 DEF InBoth
<1>6. \E z \in 61..120 : \/ Weight(s.dense, g) = <<1, z>> /\ Weight(s.lexical, g) = <<0, 1>>
                         \/ Weight(s.dense, g) = <<0, 1>> /\ Weight(s.lexical, g) = <<1, z>>
  <2>1. CASE Has(s.dense, g)
    <3>1. Weight(s.lexical, g) = <<0, 1>>
      BY <2>1 DEF InBoth, Weight
    <3> QED
      BY <1>4, <2>1, <3>1
  <2>2. CASE ~Has(s.dense, g)
    <3>1. Weight(s.dense, g) = <<0, 1>> /\ Has(s.lexical, g)
      BY <2>2 DEF Hits, Weight
    <3> QED
      BY <1>4, <3>1
  <2> QED
    BY <2>1, <2>2
<1>7. PICK z \in 61..120 : \/ Weight(s.dense, g) = <<1, z>> /\ Weight(s.lexical, g) = <<0, 1>>
                           \/ Weight(s.dense, g) = <<0, 1>> /\ Weight(s.lexical, g) = <<1, z>>
  BY <1>6
<1>8. RrfScore(s, h) = <<x + y, x * y>>
  <2>1. RrfScore(s, h) = <<1 * y + 1 * x, x * y>>
    BY <1>5 DEF RrfScore, Sum
  <2>2. 1 * y + 1 * x = x + y
    OBVIOUS
  <2> QED
    BY <2>1, <2>2
<1>9. RrfScore(s, g) = <<1, z>>
  <2>1. CASE Weight(s.dense, g) = <<1, z>> /\ Weight(s.lexical, g) = <<0, 1>>
    <3>1. RrfScore(s, g) = <<1 * 1 + 0 * z, z * 1>>
      BY <2>1 DEF RrfScore, Sum
    <3> QED
      BY <3>1
  <2>2. CASE Weight(s.dense, g) = <<0, 1>> /\ Weight(s.lexical, g) = <<1, z>>
    <3>1. RrfScore(s, g) = <<0 * z + 1 * 1, 1 * z>>
      BY <2>2 DEF RrfScore, Sum
    <3> QED
      BY <3>1
  <2> QED
    BY <1>7, <2>1, <2>2
<1>10. (x + y) * z > x * y /\ 1 * (x * y) = x * y
  BY TwoWeighMore
<1> QED
  BY <1>8, <1>9, <1>10 DEF Greater

\* Of two places of a list the hit of both rankings has the earlier one.
BothFirst(q, s) == \A i, j \in DOMAIN q : InBoth(s, q[j]) /\ ~InBoth(s, q[i]) => j < i

(* The fused ranking, and what of it exists.                               *)
LEMMA FusedBothFirst == ASSUME NarrowSearch, NEW s \in Searches PROVE BothFirst(RrfMerge(s), s)
<1>1. PICK H : H = Hits(s)
  OBVIOUS
<1>2. /\ IsFiniteSet(H)
      /\ \A n \in 1..Cardinality(H) : \E h \in H : Cardinality({g \in H : Above(s, g, h)}) = n
      /\ \A g, h \in H : Above(s, g, h) /\ g # h =>
             Cardinality({f \in H : Above(s, f, g)}) < Cardinality({f \in H : Above(s, f, h)})
  BY <1>1, SortedInOrder
<1>3. PICK most, c : c = Cardinality(H) /\ most = IF c < TopK THEN c ELSE TopK
  OBVIOUS
<1>4. c \in Nat /\ most \in Nat /\ most <= c
  BY <1>2, <1>3, FS_CardinalityType, RetrievalAssumption DEF RetrievalAssumption
<1>5. RrfMerge(s) = [n \in 1..most |-> CHOOSE h \in H : Cardinality({g \in H : Above(s, g, h)}) = n]
  BY <1>1, <1>3 DEF RrfMerge
<1>6. \A n \in 1..most : /\ RrfMerge(s)[n] \in H
                         /\ Cardinality({g \in H : Above(s, g, RrfMerge(s)[n])}) = n
  <2> SUFFICES ASSUME NEW n \in 1..most
               PROVE  /\ RrfMerge(s)[n] \in H
                      /\ Cardinality({g \in H : Above(s, g, RrfMerge(s)[n])}) = n
    OBVIOUS
  <2>1. n \in 1..c
    BY <1>4
  <2>2. \E h \in H : Cardinality({g \in H : Above(s, g, h)}) = n
    BY <1>2, <1>3, <2>1
  <2>3. RrfMerge(s)[n] = CHOOSE h \in H : Cardinality({g \in H : Above(s, g, h)}) = n
    BY <1>5
  <2> QED
    BY <2>2, <2>3
<1>7. DOMAIN RrfMerge(s) = 1..most
  BY <1>5
<1> SUFFICES ASSUME NEW i \in 1..most, NEW j \in 1..most, InBoth(s, RrfMerge(s)[j]), ~InBoth(s, RrfMerge(s)[i])
             PROVE  j < i
  BY <1>7 DEF BothFirst
<1>8. PICK g, h : g = RrfMerge(s)[i] /\ h = RrfMerge(s)[j]
  OBVIOUS
<1>9. /\ g \in H /\ Cardinality({f \in H : Above(s, f, g)}) = i
      /\ h \in H /\ Cardinality({f \in H : Above(s, f, h)}) = j
  BY <1>6, <1>8
<1>10. Above(s, h, g) /\ h # g
  BY <1>1, <1>8, <1>9, BothScoresMore DEF Above
<1> QED
  BY <1>2, <1>9, <1>10

(* So it is found before it, too.                                          *)
LEMMA FoundBothFirst == ASSUME NarrowSearch, NEW s \in Searches, ~s.lexicalOnly PROVE BothFirst(Found(s), s)
<1>1. CASE s.lexical = <<>> /\ ~s.close
  BY <1>1 DEF Found, BothFirst
<1>2. CASE ~(s.lexical = <<>> /\ ~s.close)
  <2>1. PICK q, P, e : q = RrfMerge(s) /\ P = {i \in DOMAIN q : q[i] \in ChunkIds} /\ e = ElementsAt(q, P)
    OBVIOUS
  <2>2. Found(s) = e /\ BothFirst(q, s)
    BY <1>2, <2>1, FusedBothFirst DEF Found, Existing
  <2>3. PICK n \in Nat : DOMAIN q = 1..n
    <3>1. IsFiniteSet(Hits(s))
      BY SortedInOrder
    <3>2. Cardinality(Hits(s)) \in Nat /\ TopK \in Nat
      BY <3>1, FS_CardinalityType, RetrievalAssumption DEF RetrievalAssumption
    <3> QED
      BY <2>1, <3>2 DEF RrfMerge
  <2>4. P \subseteq 1..n /\ P \in SUBSET Nat /\ IsFiniteSet(P)
    <3>1. P \subseteq 1..n
      BY <2>1, <2>3
    <3>2. IsFiniteSet(1..n)
      BY <2>3, FS_Interval
    <3>3. IsFiniteSet(P)
      BY ONLY <3>1, <3>2, FS_Subset
    <3> QED
      BY <3>1, <3>3
  <2>5. e = [k \in 1..Cardinality(P) |-> q[Nth(P, k)]]
    BY <2>1 DEF ElementsAt
  <2>6. Cardinality(P) \in Nat /\ \A k \in 1..Cardinality(P) : Nth(P, k) \in P
    BY <2>4, NumbersInOrder
  <2>7. ASSUME NEW i \in 1..Cardinality(P), NEW j \in 1..Cardinality(P), InBoth(s, e[j]), ~InBoth(s, e[i])
        PROVE  j < i
    <3>1. e[i] = q[Nth(P, i)] /\ e[j] = q[Nth(P, j)]
      BY <2>5
    <3>2. Nth(P, j) < Nth(P, i) /\ Nth(P, i) \in Nat /\ Nth(P, j) \in Nat
      BY <2>2, <2>3, <2>4, <2>6, <2>7, <3>1 DEF BothFirst
    <3>3. ~(i < j)
      <4> SUFFICES ASSUME i < j PROVE FALSE
        OBVIOUS
      <4>1. Nth(P, i) < Nth(P, j)
        BY <2>4, NumbersAscend
      <4> QED
        BY <3>2, <4>1
    <3>4. i # j
      BY <3>2
    <3> QED
      BY <2>6, <3>3, <3>4
  <2> QED
    BY <2>2, <2>5, <2>7 DEF BothFirst
<1> QED
  BY <1>1, <1>2

\* The evidence is what the search that runs has found.
EvidenceFound == evidence = <<>> \/ (search \in Searches /\ evidence = Found(search))

(* Of two chunks the one both searches found comes before one that only    *)
(* one of them found, as long as a search asks for at most twenty          *)
(* (retriever.py:89-111; the service asks for five, qa_service.py:153).    *)
THEOREM BothBeatOneAlways == ASSUME NarrowSearch PROVE QaSpec => []BothBeatOne
<1>1. QaInit => EvidenceFound
  BY DEF QaInit, EvidenceFound
<1>2. EvidenceFound /\ [QaStep]_qaVars => EvidenceFound'
  <2> SUFFICES ASSUME EvidenceFound, [QaStep]_qaVars PROVE EvidenceFound'
    OBVIOUS
  <2>1. CASE UNCHANGED qaVars
    BY <2>1 DEF qaVars, EvidenceFound
  <2>2. ASSUME NEW s \in Searches, AskQuestion(s) PROVE EvidenceFound'
    BY <2>2 DEF AskQuestion, EvidenceFound
  <2>3. ASSUME evidence' = <<>> PROVE EvidenceFound'
    BY <2>3 DEF EvidenceFound
  <2> QED
    BY <2>1, <2>2, <2>3 DEF QaStep, AnswerQuestion, AnswerFails
<1>3. EvidenceFound => BothBeatOne
  <2> SUFFICES ASSUME EvidenceFound, ~search.lexicalOnly, evidence # <<>> PROVE BothBeatOne
    BY DEF BothBeatOne
  <2>1. BothFirst(evidence, search)
    BY FoundBothFirst DEF EvidenceFound
  <2> QED
    BY <2>1 DEF BothFirst, InBoth, BothBeatOne
<1> QED
  BY <1>1, <1>2, <1>3, PTL DEF QaSpec

-----------------------------------------------------------------------------
(* The benchmark of the retrieval.                                         *)
Fractions == {rate \in Nat \X (Nat \ {0}) : rate[1] <= rate[2]}

ScoreRecords ==
    [category : {c.category : c \in CaseKinds}, recall : Fractions, accuracy : Fractions,
     judged : BOOLEAN, failed : BOOLEAN]

ScoreTables == UNION {[ids -> ScoreRecords] : ids \in SUBSET CaseIds}

\* The cases of a table of scores that pass.
PassedOf(table) == {id \in DOMAIN table : ~table[id].failed /\ AtLeastHalf(table[id].recall)}

\* A result counts the cases of a table of scores, and those that pass.
Retells(r, table) ==
    r.total = Cardinality(DOMAIN table) /\ r.passed = Cardinality(PassedOf(table))

ScoresFrom(cases, answers) == [id \in DOMAIN cases |-> Score(cases[id], answers[id])]

BenchTyped ==
    /\ DOMAIN dataset \subseteq CaseIds /\ dataset \in [DOMAIN dataset -> CaseKinds]
    /\ asking \subseteq DOMAIN dataset /\ passNo \in 0..2 /\ repeatable \in BOOLEAN
    /\ (passNo = 0 => asking = {})
    /\ DOMAIN scores \subseteq DOMAIN dataset /\ scores \in [DOMAIN scores -> ScoreRecords]
    /\ DOMAIN memory \subseteq CaseIds /\ memory \in [DOMAIN memory -> RetrieverAnswers]
    /\ stored \in Seq(ScoreTables) /\ Len(stored) <= MaxRuns /\ seedings \in 0..MaxSeedings
    /\ result.total \in 0..Cardinality(CaseIds) /\ result.passed + result.failed = result.total

\* What a pass has scored, and in the second pass what the first one found.
PassFits ==
    /\ passNo # 0 => /\ Len(stored) < MaxRuns
                     /\ DOMAIN scores \cup asking = DOMAIN dataset
                     /\ DOMAIN scores \subseteq DOMAIN memory /\ DOMAIN memory \subseteq DOMAIN dataset
                     /\ repeatable => \A id \in DOMAIN scores : scores[id] = Score(dataset[id], memory[id])
    /\ passNo = 2 => /\ DOMAIN memory = DOMAIN dataset
                     /\ repeatable => Retells(result, ScoresFrom(dataset, memory))
    /\ passNo = 0 /\ stored # <<>> => /\ stored[Len(stored)] = scores
                                      /\ repeatable => Retells(result, scores)

BenchInv == BenchTyped /\ PassFits

(* The documents a retriever returns are finitely many.                    *)
LEMMA RetrievedFinite ==
    ASSUME NEW q, NEW n \in Nat, DOMAIN q = 1..n
    PROVE  IsFiniteSet({q[k] : k \in DOMAIN q})
<1>1. PICK D, S, f : D = 1..n /\ S = {q[k] : k \in DOMAIN q} /\ f = [k \in D |-> q[k]]
  OBVIOUS
<1>2. IsFiniteSet(D)
  <2>1. IsFiniteSet(1..n)
    BY FS_Interval
  <2> QED
    BY <1>1, <2>1
<1>3. f \in Surjection(D, S)
  BY <1>1 DEF Surjection
<1>4. IsFiniteSet(S)
  BY ONLY <1>2, <1>3, FS_Surjection
<1> QED
  BY <1>1, <1>4

(* A rate of a part of a set that is not empty.                            *)
LEMMA RateOfPart ==
    ASSUME NEW S, IsFiniteSet(S), S # {}, NEW T
    PROVE  <<Cardinality(T \cap S), Cardinality(S)>> \in Fractions
<1>1. PICK U, k, n : U = T \cap S /\ k = Cardinality(U) /\ n = Cardinality(S)
  OBVIOUS
<1>2. U \subseteq S
  BY <1>1
<1>3. IsFiniteSet(U) /\ k <= n
  BY <1>1, <1>2, FS_Subset
<1>4. k \in Nat /\ n \in Nat
  BY <1>1, <1>3, FS_CardinalityType
<1>5. n # 0
  BY <1>1, FS_EmptySet
<1> QED
  BY <1>1, <1>3, <1>4, <1>5 DEF Fractions

(* What a case scores is a score.                                          *)
LEMMA ScoreTyped ==
    ASSUME NEW c \in CaseKinds, NEW a \in RetrieverAnswers
    PROVE  Score(c, a) \in ScoreRecords
<1>1. PICK q : q = a.retrieved /\ \E n \in Nat : DOMAIN q = 1..n
  <2>1. a.retrieved \in UNION {[1..n -> Corpus] : n \in 0..2}
    BY DEF RetrieverAnswers
  <2>2. PICK n \in 0..2 : a.retrieved \in [1..n -> Corpus]
    BY <2>1
  <2> QED
    BY <2>2
<1>2. PICK S : S = {q[k] : k \in DOMAIN q}
  OBVIOUS
<1>3. IsFiniteSet(S)
  <2>1. PICK n \in Nat : DOMAIN q = 1..n
    BY <1>1
  <2> QED
    BY <1>2, <2>1, RetrievedFinite
<1>4. <<1, 1>> \in Fractions /\ <<0, 1>> \in Fractions
  BY DEF Fractions
<1>5. Recall(q, c.relevant) \in Fractions
  <2>1. CASE c.relevant = {}
    BY <1>4, <2>1 DEF Recall
  <2>2. CASE c.relevant # {}
    <3>1. IsFiniteSet(c.relevant)
      BY BenchAssumption DEF BenchAssumption
    <3>2. <<Cardinality(S \cap c.relevant), Cardinality(c.relevant)>> \in Fractions
      BY <2>2, <3>1, RateOfPart
    <3> QED
      BY <1>2, <2>2, <3>2 DEF Recall
  <2> QED
    BY <2>1, <2>2
<1>6. CitationAccuracy(S, c.relevant) \in Fractions
  <2>1. CASE S = {}
    BY <1>4, <2>1 DEF CitationAccuracy
  <2>2. CASE S # {}
    <3>1. <<Cardinality(c.relevant \cap S), Cardinality(S)>> \in Fractions
      BY <1>3, <2>2, RateOfPart
    <3>2. c.relevant \cap S = S \cap c.relevant
      OBVIOUS
    <3> QED
      BY <2>2, <3>1, <3>2 DEF CitationAccuracy
  <2> QED
    BY <2>1, <2>2
<1> QED
  BY <1>1, <1>2, <1>5, <1>6 DEF Score, ScoreRecords

(* The numbers of a result add up.                                         *)
LEMMA AggregateAddsUp ==
    ASSUME BenchTyped
    PROVE  /\ Aggregate.total \in 0..Cardinality(CaseIds)
           /\ Aggregate.passed + Aggregate.failed = Aggregate.total
           /\ Retells(Aggregate, scores)
<1>1. PICK D, P : D = DOMAIN scores /\ P = PassedCases
  OBVIOUS
<1>2. IsFiniteSet(CaseIds) /\ D \subseteq CaseIds /\ P \subseteq D
  BY <1>1, BenchAssumption DEF BenchTyped, BenchAssumption, PassedCases
<1>3. IsFiniteSet(D) /\ Cardinality(D) <= Cardinality(CaseIds)
  BY <1>2, FS_Subset
<1>4. Cardinality(D) \in Nat /\ Cardinality(CaseIds) \in Nat
  BY <1>2, <1>3, FS_CardinalityType
<1>5. IsFiniteSet(P) /\ Cardinality(D \ P) = Cardinality(D) - Cardinality(D \cap P)
  BY <1>2, <1>3, FS_Subset, FS_Difference
<1>6. D \cap P = P
  BY <1>2
<1>7. Cardinality(P) \in Nat
  BY <1>5, FS_CardinalityType
<1>8. Aggregate.total = Cardinality(D) /\ Aggregate.passed = Cardinality(P) /\ Aggregate.failed = Cardinality(D \ P)
  BY <1>1 DEF Aggregate
<1>9. P = PassedOf(scores)
  BY <1>1 DEF PassedCases, PassedOf
<1> QED
  BY <1>1, <1>3, <1>4, <1>5, <1>6, <1>7, <1>8, <1>9 DEF Retells

(* A seeded dataset keeps the invariant of the benchmark.                  *)
LEMMA SeedKeeps ==
    ASSUME BenchInv, NEW ids \in SUBSET CaseIds, NEW cases \in [ids -> CaseKinds], Seed(cases)
    PROVE  BenchInv'
<1>1. PICK after : after = dataset'
  OBVIOUS
<1>2. /\ DOMAIN after = DOMAIN dataset \cup ids
      /\ after = [id \in DOMAIN after |-> IF id \in ids THEN cases[id] ELSE dataset[id]]
  BY <1>1 DEF Seed
<1>3. DOMAIN dataset \subseteq CaseIds /\ dataset \in [DOMAIN dataset -> CaseKinds]
  BY DEF BenchInv, BenchTyped
<1>4. DOMAIN after \subseteq CaseIds /\ after \in [DOMAIN after -> CaseKinds]
  <2>1. \A id \in DOMAIN after : after[id] \in CaseKinds
    BY <1>2, <1>3
  <2> QED
    BY <1>2, <1>3, <2>1
<1>5. DOMAIN dataset \subseteq DOMAIN after
  BY <1>2
<1>6. UNCHANGED <<asking, passNo, memory, repeatable, scores, result, stored>> /\ passNo = 0 /\ seedings' \in 0..MaxSeedings
  BY BenchAssumption DEF Seed, BenchInv, BenchTyped, BenchAssumption
<1>7. BenchTyped'
  BY <1>1, <1>4, <1>5, <1>6 DEF BenchInv, BenchTyped
<1> QED
  BY <1>6, <1>7 DEF BenchInv, PassFits

(* A run begins with nothing scored.                                       *)
LEMMA BeginRunKeeps == ASSUME BenchInv, BeginRun PROVE BenchInv'
<1>1. PICK after : after = dataset'
  OBVIOUS
<1>2. DOMAIN after \subseteq CaseIds /\ after \in [DOMAIN after -> CaseKinds]
  BY <1>1, BenchAssumption DEF BeginRun, BenchInv, BenchTyped, BenchAssumption
<1>3. DOMAIN scores' = {} /\ DOMAIN memory' = {} /\ asking' = DOMAIN after /\ passNo' = 1
  BY <1>1 DEF BeginRun
<1>4. \A S : <<>> \in [{} -> S]
  OBVIOUS
<1>5. /\ scores' \in [DOMAIN scores' -> ScoreRecords]
      /\ memory' \in [DOMAIN memory' -> RetrieverAnswers]
  BY <1>3, <1>4 DEF BeginRun
<1>6. BenchTyped'
  BY <1>1, <1>2, <1>3, <1>5 DEF BeginRun, BenchInv, BenchTyped
<1>7. Len(stored') < MaxRuns
  BY DEF BeginRun
<1> QED
  BY <1>1, <1>3, <1>6, <1>7 DEF BenchInv, PassFits

(* A case that is asked gets the score of its answer, in both passes.      *)
LEMMA AskCaseKeeps == ASSUME BenchInv, NEW id \in CaseIds, AskCase(id) PROVE BenchInv'
<1>1. PICK answer \in IF repeatable /\ id \in DOMAIN memory THEN {memory[id]} ELSE RetrieverAnswers :
          /\ scores' = [i \in DOMAIN scores \cup {id} |->
                           IF i = id THEN Score(dataset[id], answer) ELSE scores[i]]
          /\ memory' = [i \in DOMAIN memory \cup {id} |-> IF i = id THEN answer ELSE memory[i]]
  BY DEF AskCase
<1>2. BenchTyped /\ PassFits
  BY DEF BenchInv
<1>3. id \in DOMAIN dataset /\ id \in asking
  BY <1>2 DEF AskCase, BenchTyped
<1>4. answer \in RetrieverAnswers /\ (repeatable /\ id \in DOMAIN memory => answer = memory[id])
  BY <1>1, <1>2 DEF BenchTyped
<1>5. PICK s, m, sc : s = scores' /\ m = memory' /\ sc = Score(dataset[id], answer)
  OBVIOUS
<1>6. sc \in ScoreRecords
  BY <1>2, <1>3, <1>4, <1>5, ScoreTyped DEF BenchTyped
<1>7. /\ DOMAIN s = DOMAIN scores \cup {id} /\ s[id] = sc /\ \A i \in DOMAIN scores : i # id => s[i] = scores[i]
      /\ DOMAIN m = DOMAIN memory \cup {id} /\ m[id] = answer /\ \A i \in DOMAIN memory : i # id => m[i] = memory[i]
  BY <1>1, <1>5
<1>8. s \in [DOMAIN s -> ScoreRecords] /\ m \in [DOMAIN m -> RetrieverAnswers]
  <2>1. \A i \in DOMAIN s : s[i] \in ScoreRecords
    BY <1>2, <1>6, <1>7 DEF BenchTyped
  <2>2. \A i \in DOMAIN m : m[i] \in RetrieverAnswers
    BY <1>2, <1>4, <1>7 DEF BenchTyped
  <2>3. s = [i \in DOMAIN s |-> s[i]] /\ m = [i \in DOMAIN m |-> m[i]]
    BY <1>1, <1>5
  <2> QED
    BY <2>1, <2>2, <2>3
<1>9. UNCHANGED <<dataset, seedings, passNo, repeatable, result, stored>> /\ asking' = asking \ {id}
  BY DEF AskCase
<1>10. BenchTyped'
  <2>1. DOMAIN s \subseteq DOMAIN dataset /\ DOMAIN m \subseteq CaseIds
    BY <1>2, <1>3, <1>7 DEF BenchTyped
  <2> QED
    BY <1>2, <1>5, <1>8, <1>9, <2>1 DEF BenchTyped
<1>11. passNo # 0
  BY <1>2, <1>3 DEF PassFits, BenchTyped
<1>12. /\ Len(stored) < MaxRuns /\ DOMAIN scores \cup asking = DOMAIN dataset
       /\ DOMAIN scores \subseteq DOMAIN memory /\ DOMAIN memory \subseteq DOMAIN dataset
       /\ repeatable => \A i \in DOMAIN scores : scores[i] = Score(dataset[i], memory[i])
  BY <1>2, <1>11 DEF PassFits
<1>13. /\ DOMAIN s \cup (asking \ {id}) = DOMAIN dataset
       /\ DOMAIN s \subseteq DOMAIN m /\ DOMAIN m \subseteq DOMAIN dataset
  BY <1>3, <1>7, <1>12
<1>14. ASSUME repeatable, NEW i \in DOMAIN s PROVE s[i] = Score(dataset[i], m[i])
  BY <1>4, <1>5, <1>7, <1>12, <1>14
<1>15. ASSUME passNo = 2
       PROVE  DOMAIN m = DOMAIN dataset /\ (repeatable => Retells(result, ScoresFrom(dataset, m)))
  <2>1. DOMAIN memory = DOMAIN dataset /\ (repeatable => Retells(result, ScoresFrom(dataset, memory)))
    BY <1>2, <1>15 DEF PassFits
  <2>2. ASSUME repeatable PROVE m = memory
    <3>1. DOMAIN m = DOMAIN memory /\ \A i \in DOMAIN m : m[i] = memory[i]
      BY <1>3, <1>4, <1>7, <2>1, <2>2
    <3>2. m = [i \in DOMAIN m |-> m[i]] /\ memory = [i \in DOMAIN memory |-> memory[i]]
      BY <1>1, <1>2, <1>5 DEF BenchTyped
    <3> QED
      BY <3>1, <3>2
  <2> QED
    BY <1>3, <1>7, <2>1, <2>2
<1>16. PassFits'
  BY <1>5, <1>9, <1>11, <1>12, <1>13, <1>14, <1>15 DEF PassFits
<1> QED
  BY <1>10, <1>16 DEF BenchInv

(* The result of a pass is made of its scores.                             *)
LEMMA FinishResultKeeps == ASSUME BenchInv, FinishResult PROVE BenchInv'
<1>1. BenchTyped /\ PassFits /\ passNo = 1 /\ asking = {} /\ result' = Aggregate
  BY DEF BenchInv, FinishResult
<1>2. PICK s : s = scores
  OBVIOUS
<1>3. /\ DOMAIN s = DOMAIN dataset /\ DOMAIN memory = DOMAIN dataset /\ Len(stored) < MaxRuns
      /\ repeatable => \A id \in DOMAIN s : s[id] = Score(dataset[id], memory[id])
  BY <1>1, <1>2 DEF PassFits
<1>4. ASSUME repeatable PROVE s = ScoresFrom(dataset, memory)
  <2>1. s = [id \in DOMAIN s |-> s[id]]
    BY <1>1, <1>2 DEF BenchTyped
  <2> QED
    BY <1>3, <1>4, <2>1 DEF ScoresFrom
<1>5. /\ Retells(result', s) /\ result'.total \in 0..Cardinality(CaseIds)
      /\ result'.passed + result'.failed = result'.total
  BY <1>1, <1>2, AggregateAddsUp
<1>6. DOMAIN scores' = {} /\ scores' \in [{} -> ScoreRecords]
  BY DEF FinishResult
<1>7. BenchTyped'
  BY <1>1, <1>5, <1>6 DEF BenchTyped, FinishResult
<1>8. PassFits'
  BY <1>3, <1>4, <1>5, <1>6 DEF PassFits, FinishResult
<1> QED
  BY <1>7, <1>8 DEF BenchInv

(* What is stored is what the second pass scored.                          *)
LEMMA PersistMetricsKeeps == ASSUME BenchInv, PersistMetrics PROVE BenchInv'
<1>1. BenchTyped /\ PassFits /\ passNo = 2 /\ asking = {}
  BY DEF BenchInv, PersistMetrics
<1>2. PICK s, after : s = scores /\ after = Append(stored, s)
  OBVIOUS
<1>3. /\ DOMAIN s = DOMAIN dataset /\ DOMAIN memory = DOMAIN dataset /\ Len(stored) < MaxRuns
      /\ repeatable => Retells(result, ScoresFrom(dataset, memory))
      /\ repeatable => \A id \in DOMAIN s : s[id] = Score(dataset[id], memory[id])
  BY <1>1, <1>2 DEF PassFits
<1>4. ASSUME repeatable PROVE s = ScoresFrom(dataset, memory)
  <2>1. s = [id \in DOMAIN s |-> s[id]]
    BY <1>1, <1>2 DEF BenchTyped
  <2> QED
    BY <1>3, <1>4, <2>1 DEF ScoresFrom
<1>5. s \in ScoreTables
  <2>1. DOMAIN s \in SUBSET CaseIds /\ s \in [DOMAIN s -> ScoreRecords]
    BY <1>1, <1>2 DEF BenchTyped
  <2> QED
    BY <2>1 DEF ScoreTables
<1>6. /\ after \in Seq(ScoreTables) /\ Len(after) = Len(stored) + 1 /\ after[Len(after)] = s /\ Len(after) <= MaxRuns
  <2>1. stored \in Seq(ScoreTables) /\ MaxRuns \in Nat
    BY <1>1, BenchAssumption DEF BenchTyped, BenchAssumption
  <2> QED
    BY <1>2, <1>3, <1>5, <2>1
<1>7. UNCHANGED <<dataset, seedings, asking, memory, repeatable, scores, result>> /\ stored' = after /\ passNo' = 0
  BY <1>2 DEF PersistMetrics
<1>8. BenchTyped'
  BY <1>1, <1>6, <1>7 DEF BenchTyped
<1>9. PassFits'
  BY <1>2, <1>3, <1>4, <1>6, <1>7 DEF PassFits
<1> QED
  BY <1>8, <1>9 DEF BenchInv

(* Nothing is scored at the start.                                         *)
LEMMA BenchInitially == BenchInit => BenchInv
<1> SUFFICES ASSUME BenchInit PROVE BenchInv
  OBVIOUS
<1>1. \A S : <<>> \in Seq(S) /\ <<>> \in [{} -> S]
  OBVIOUS
<1>2. DOMAIN dataset = {} /\ DOMAIN scores = {} /\ DOMAIN memory = {} /\ Len(stored) = 0
  BY DEF BenchInit
<1>3. Cardinality(CaseIds) \in Nat
  BY BenchAssumption, FS_CardinalityType DEF BenchAssumption
<1>4. BenchTyped
  BY <1>1, <1>2, <1>3, BenchAssumption DEF BenchInit, NoResult, BenchTyped, BenchAssumption
<1> QED
  BY <1>4 DEF BenchInit, BenchInv, PassFits

(* Every step of the benchmark, or none, keeps its invariant.              *)
LEMMA BenchNext == BenchInv /\ [BenchStep]_benchVars => BenchInv'
<1> SUFFICES ASSUME BenchInv, [BenchStep]_benchVars PROVE BenchInv'
  OBVIOUS
<1>1. CASE UNCHANGED benchVars
  BY <1>1 DEF benchVars, BenchInv, BenchTyped, PassFits
<1>2. ASSUME NEW ids \in SUBSET CaseIds, NEW cases \in [ids -> CaseKinds], Seed(cases) PROVE BenchInv'
  BY <1>2, SeedKeeps
<1>3. CASE BeginRun
  BY <1>3, BeginRunKeeps
<1>4. CASE FinishResult
  BY <1>4, FinishResultKeeps
<1>5. CASE PersistMetrics
  BY <1>5, PersistMetricsKeeps
<1>6. ASSUME NEW id \in CaseIds, AskCase(id) PROVE BenchInv'
  BY <1>6, AskCaseKeeps
<1> QED
  BY <1>1, <1>2, <1>3, <1>4, <1>5, <1>6 DEF BenchStep

(* The inductive invariant of the benchmark (quality_bench.py:291-459).    *)
THEOREM BenchInvariant == BenchSpec => []BenchInv
  BY BenchInitially, BenchNext, PTL DEF BenchSpec

(* A rate counts some of the cases it is taken over.                       *)
LEMMA RatesFit == BenchInv => RatesAreFractions /\ BenchTypeOK
<1> SUFFICES ASSUME BenchInv PROVE RatesAreFractions /\ BenchTypeOK
  OBVIOUS
<1>1. BenchTyped
  BY DEF BenchInv
<1>2. \A id \in DOMAIN scores : scores[id].recall \in Fractions /\ scores[id].accuracy \in Fractions
  BY <1>1 DEF BenchTyped, ScoreRecords
<1>3. \A rate \in Fractions : rate[1] \in Nat /\ rate[2] \in Nat \ {0} /\ rate[1] <= rate[2]
  BY DEF Fractions
<1>4. Len(stored) \in 0..MaxRuns
  BY <1>1, BenchAssumption DEF BenchTyped, BenchAssumption
<1> QED
  BY <1>1, <1>2, <1>3, <1>4 DEF RatesAreFractions, BenchTypeOK, BenchTyped

(* What is stored retells the result of a retriever that repeats itself.   *)
LEMMA StoredRetells == BenchInv => StoredRetellsResult
<1> SUFFICES ASSUME BenchInv, repeatable, passNo = 0, stored # <<>>
             PROVE  /\ Cardinality(DOMAIN stored[Len(stored)]) = result.total
                    /\ Cardinality({id \in DOMAIN stored[Len(stored)] :
                                       /\ ~stored[Len(stored)][id].failed
                                       /\ AtLeastHalf(stored[Len(stored)][id].recall)}) = result.passed
  BY DEF StoredRetellsResult
<1> QED
  BY DEF BenchInv, PassFits, Retells, PassedOf

(* The counts of the categories add up to the number of what is counted,   *)
(* in whatever order they are added.                                       *)
SumOf(counts) ==
    MapThenFoldSet(+, 0, LAMBDA c : counts[c], LAMBDA S : CHOOSE c \in S : TRUE, DOMAIN counts)

AddNext(S, counts, f) == IF S = {} THEN 0 ELSE counts[PickIn(S)] + f[S \ {PickIn(S)}]

(* A sum over categories is a fold that adds one after the other.          *)
LEMMA SumUnfolds ==
    ASSUME NEW K, NEW counts, DOMAIN counts = K, NEW W, W = [cs \in SUBSET K |-> AddNext(cs, counts, W)]
    PROVE  \E f : f = [cs \in SUBSET K |-> AddNext(cs, counts, f)] /\ SumOf(counts) = f[K]
<1> DEFINE F == CHOOSE f : f = [cs \in SUBSET K |-> AddNext(cs, counts, f)]
<1>1. SumOf(counts) = F[K]
  BY DEF SumOf, MapThenFoldSet, AddNext, PickIn
<1>2. F = [cs \in SUBSET K |-> AddNext(cs, counts, F)]
  BY Zenon
<1> QED
  BY <1>1, <1>2

(* Counted by category, everything is counted once.                        *)
LEMMA CountsAddUp ==
    ASSUME NEW S, IsFiniteSet(S), NEW cat, cat = [id \in S |-> cat[id]], NEW K, K = {cat[id] : id \in S},
           NEW counts, counts = [c \in K |-> Cardinality({id \in S : cat[id] = c})]
    PROVE  SumOf(counts) = Cardinality(S)
<1> DEFINE With(cs) == {id \in S : cat[id] \in cs}
<1>1. \A cs : IsFiniteSet(With(cs)) /\ Cardinality(With(cs)) \in Nat
  BY FS_Subset, FS_CardinalityType
<1>2. IsFiniteSet(K)
  <2>1. cat \in Surjection(S, K)
    BY DEF Surjection
  <2> QED
    BY ONLY <2>1, FS_Surjection, IsFiniteSet(S)
<1>3. PICK W : W = [cs \in SUBSET K |-> Cardinality(With(cs))]
  OBVIOUS
<1>4. ASSUME NEW cs \in SUBSET K, cs # {}
      PROVE  W[cs] = counts[PickIn(cs)] + W[cs \ {PickIn(cs)}]
  <2>1. PICK x \in cs : x = PickIn(cs)
    BY <1>4 DEF PickIn
  <2>2. PICK P, Q, R : P = With(cs) /\ Q = With(cs \ {x}) /\ R = {id \in S : cat[id] = x}
    OBVIOUS
  <2>3. P = Q \cup R /\ Q \cap R = {}
    BY <2>1, <2>2
  <2>4. IsFiniteSet(Q) /\ IsFiniteSet(R) /\ Cardinality(Q) \in Nat /\ Cardinality(R) \in Nat
    BY <1>1, <2>2, FS_Subset, FS_CardinalityType
  <2>5. Cardinality(P) = Cardinality(Q) + Cardinality(R)
    <3>1. Cardinality(P) = Cardinality(Q) + Cardinality(R) - Cardinality(Q \cap R)
      BY ONLY <2>3, <2>4, FS_Union
    <3>2. Cardinality(Q \cap R) = 0
      BY <2>3, FS_EmptySet
    <3> QED
      BY ONLY <2>4, <3>1, <3>2
  <2>6. x \in K /\ cs \ {x} \in SUBSET K
    OBVIOUS
  <2>7. W[cs] = Cardinality(P) /\ W[cs \ {x}] = Cardinality(Q) /\ counts[x] = Cardinality(R)
    BY <1>3, <2>2, <2>6
  <2>8. Cardinality(P) = Cardinality(R) + Cardinality(Q)
    BY ONLY <2>4, <2>5
  <2> QED
    BY <2>1, <2>7, <2>8
<1>5. W[{}] = 0
  <2>1. With({}) = {}
    OBVIOUS
  <2> QED
    BY <1>3, <2>1, FS_EmptySet
<1>6. W = [cs \in SUBSET K |-> AddNext(cs, counts, W)]
  <2>1. \A cs \in SUBSET K : W[cs] = AddNext(cs, counts, W)
    BY <1>4, <1>5 DEF AddNext
  <2>2. DOMAIN W = SUBSET K /\ W = [cs \in SUBSET K |-> W[cs]]
    BY <1>3
  <2> QED
    BY <2>1, <2>2
<1> HIDE DEF With
<1>7. PICK f : f = [cs \in SUBSET K |-> AddNext(cs, counts, f)] /\ SumOf(counts) = f[K]
  BY ONLY <1>6, SumUnfolds, DOMAIN counts = K
<1>8. \A cs \in SUBSET K : f[cs] = W[cs]
  <2>1. f[{}] = W[{}]
    BY <1>5, <1>7 DEF AddNext
  <2>2. ASSUME NEW cs \in SUBSET K, cs # {} PROVE \E x \in cs : f[cs \ {x}] = W[cs \ {x}] => f[cs] = W[cs]
    <3>1. PICK x : x = PickIn(cs) /\ x \in cs
      BY <2>2 DEF PickIn
    <3>2. f[cs] = counts[x] + f[cs \ {x}]
      BY <1>7, <2>2, <3>1 DEF AddNext
    <3> QED
      BY <1>4, <2>2, <3>1, <3>2
  <2>3. Inherits(K, f, W)
    BY <2>2 DEF Inherits
  <2> QED
    BY ONLY <1>2, <2>1, <2>3, SubsetsAgree
<1>9. W[K] = Cardinality(S)
  <2>1. With(K) = S
    BY DEF With
  <2> QED
    BY <1>3, <2>1
<1> QED
  BY <1>7, <1>8, <1>9

(* The categories of a result add up to its total. *)
CategoriesAddUp(res) == SumOf(res.perCategory) = res.total

(* The categories of a new result add up.                                  *)
LEMMA CategoriesAdded == ASSUME BenchTyped PROVE CategoriesAddUp(Aggregate)
<1>1. PICK S, cat, counts : /\ S = DOMAIN scores
                            /\ cat = [id \in S |-> scores[id].category]
                            /\ counts = [c \in CategoriesSeen |-> CountIn(c)]
  OBVIOUS
<1>2. IsFiniteSet(S)
  BY <1>1, BenchAssumption, FS_Subset DEF BenchTyped, BenchAssumption
<1>3. CategoriesSeen = {cat[id] : id \in S}
  BY <1>1 DEF CategoriesSeen
<1>4. \A c : CountIn(c) = Cardinality({id \in S : cat[id] = c})
  <2> SUFFICES ASSUME NEW c PROVE CountIn(c) = Cardinality({id \in S : cat[id] = c})
    OBVIOUS
  <2>1. {id \in DOMAIN scores : scores[id].category = c} = {id \in S : cat[id] = c}
    BY <1>1
  <2> QED
    BY <2>1 DEF CountIn
<1>5. cat = [id \in S |-> cat[id]]
  BY <1>1
<1>6. counts = [c \in CategoriesSeen |-> Cardinality({id \in S : cat[id] = c})]
  BY <1>1, <1>4
<1>7. SumOf(counts) = Cardinality(S)
  BY ONLY <1>2, <1>3, <1>5, <1>6, CountsAddUp
<1>8. Aggregate.perCategory = counts /\ Aggregate.total = Cardinality(S)
  BY <1>1 DEF Aggregate
<1> QED
  BY <1>7, <1>8 DEF CategoriesAddUp

(* Those of no result do.                                                  *)
LEMMA NothingAddsUp == CategoriesAddUp(NoResult)
<1>1. PICK S, counts : S = {} /\ counts = <<>>
  OBVIOUS
<1>2. DOMAIN counts = S
  BY <1>1
<1>3. PICK W : W = [cs \in SUBSET S |-> 0]
  OBVIOUS
<1>4. W = [cs \in SUBSET S |-> AddNext(cs, counts, W)]
  BY <1>1, <1>3 DEF AddNext
<1>5. PICK f : f = [cs \in SUBSET S |-> AddNext(cs, counts, f)] /\ SumOf(counts) = f[S]
  BY ONLY <1>2, <1>4, SumUnfolds
<1>6. f[S] = 0
  BY <1>1, <1>5 DEF AddNext
<1> QED
  BY <1>1, <1>5, <1>6 DEF CategoriesAddUp, NoResult

BenchSums == BenchInv /\ CategoriesAddUp(result)

(* The categories add up at the start.                                     *)
LEMMA SumsInitially == BenchInit => BenchSums
  BY BenchInitially, NothingAddsUp DEF BenchSums, BenchInit

(* No step of the benchmark changes that.                                  *)
LEMMA SumsKept == BenchSums /\ [BenchStep]_benchVars => BenchSums'
<1> SUFFICES ASSUME BenchSums, [BenchStep]_benchVars PROVE BenchSums'
  OBVIOUS
<1>1. BenchInv'
  BY BenchNext DEF BenchSums
<1>2. result' = Aggregate \/ result' = result
  BY DEF BenchStep, benchVars, Seed, BeginRun, FinishResult, PersistMetrics, AskCase
<1>3. BenchTyped
  BY DEF BenchSums, BenchInv
<1>4. CategoriesAddUp(result')
  BY <1>2, <1>3, CategoriesAdded DEF BenchSums
<1> QED
  BY <1>1, <1>4 DEF BenchSums, CategoriesAddUp

(* The categories of a result always add up (quality_bench.py:370-432).    *)
THEOREM BenchSumsAlways == BenchSpec => []BenchSums
  BY SumsInitially, SumsKept, PTL DEF BenchSpec

(* Rates are fractions of one; the result accounts for every case once, by *)
(* its outcome and by its category; and the records stored are those of    *)
(* the result, when the retriever repeats itself (quality_bench.py:291-459,*)
(* quality_metrics.py:40-90).                                              *)
THEOREM BenchmarkIsTold ==
    BenchSpec => [](/\ BenchTypeOK /\ RatesAreFractions
                    /\ ResultAccountsForAll /\ StoredRetellsResult)
<1>1. BenchSums => ResultAccountsForAll
  BY DEF BenchSums, BenchInv, BenchTyped, CategoriesAddUp, SumOf, ResultAccountsForAll
<1>2. BenchSums => BenchTypeOK /\ RatesAreFractions /\ StoredRetellsResult
  BY RatesFit, StoredRetells DEF BenchSums
<1> QED
  BY <1>1, <1>2, BenchSumsAlways, PTL
=============================================================================
