---------------------------- MODULE RunLifecycle ----------------------------
(***************************************************************************)
(* app/services/runs.py, app/agent/runner.py and the handlers of           *)
(* app/api/runs.py: a run is a JSON file that its background job, the      *)
(* cancel handlers (one thread each) and the retry handler read, change in *)
(* memory and write back.  _write_state truncates one temporary file per   *)
(* run, writes it and renames it over the record, in three separate steps. *)
(*                                                                         *)
(* A file is its inode: an open descriptor follows the inode that a rename *)
(* moves from the temporary name to the record's name.                     *)
(***************************************************************************)
EXTENDS Integers, FiniteSets, Sequences

CONSTANTS
    Runs,         \* run ids
    Jobs,         \* background executions that may be under way at once
    Threads,      \* threads of the pool that serve cancel requests
    NoRun,        \* the target of an idle writer
    MaxSteps,     \* agent_max_steps
    MaxRetries,   \* run_max_retries
    MaxFaults,    \* bound: writes that fail for want of space
    MaxCrashes    \* bound: restarts of the process

ASSUME RunAssumption ==
    /\ IsFiniteSet(Runs) /\ NoRun \notin Runs
    /\ IsFiniteSet(Jobs) /\ IsFiniteSet(Threads) /\ Jobs \cap Threads = {}
    /\ MaxSteps \in 1..8
    /\ MaxRetries \in 0..10
    /\ MaxFaults \in Nat /\ MaxCrashes \in Nat

VARIABLES
    disk,         \* [Runs -> Content]: the record of each run
    tmp,          \* [Runs -> Content]: its temporary file
    running,      \* the keys of _running_tasks
    pc,           \* where each job and each cancel handler stands
    target,       \* the run it works on
    mem,          \* the RunState in the memory of each job's runner
    artifacts,    \* the job's draft tool has left the paths of its reports
    phase,        \* what a writer saves: "progress", "result" or "cancel"
    out,          \* the record it saves
    fd,           \* the inode its open descriptor refers to
    asked,        \* history: a cancel handler accepted a request for the run
    answered,     \* history: such a handler returned the run to its client
    ran,          \* history: how often each step of each run was executed
    faults,       \* failed writes so far
    crashes       \* restarts so far

jobVars == <<mem, artifacts>>
saveVars == <<phase, out, fd>>
history == <<asked, answered, ran>>
troubles == <<faults, crashes>>
vars == <<disk, tmp, running, pc, target, jobVars, saveVars, history, troubles>>
-----------------------------------------------------------------------------
Pipeline == <<"scanning", "indexing", "retrieving", "evaluating", "drafting">>

Steps == 1..Len(Pipeline)
Stages == {Pipeline[k] : k \in Steps}
Terminal == {"completed", "failed", "cancelled"}
Statuses == {"queued"} \cup Stages \cup Terminal

\* What a file holds: a record, or one of three things get_run cannot read.
Content == [status : Statuses \cup {"absent", "blank", "garbled"},
            step : 0..Len(Pipeline), cancel : BOOLEAN, retry : 0..MaxRetries,
            report : BOOLEAN]

Unreadable(status) ==
    [status |-> status, step |-> 0, cancel |-> FALSE, retry |-> 0, report |-> FALSE]
Absent == Unreadable("absent")
Blank == Unreadable("blank")
Garbled == Unreadable("garbled")
Readable(file) == file.status \in Statuses

Queued(retry) ==
    [status |-> "queued", step |-> 0, cancel |-> FALSE, retry |-> retry, report |-> FALSE]

Writers == Jobs \cup Threads

Init ==
    /\ disk = [r \in Runs |-> Absent]
    /\ tmp = [r \in Runs |-> Absent]
    /\ running = {}
    /\ pc = [w \in Writers |-> "idle"]
    /\ target = [w \in Writers |-> NoRun]
    /\ mem = [j \in Jobs |-> Absent]
    /\ artifacts = [j \in Jobs |-> FALSE]
    /\ phase = [w \in Writers |-> "none"]
    /\ out = [w \in Writers |-> Absent]
    /\ fd = [w \in Writers |-> "none"]
    /\ asked = [r \in Runs |-> FALSE]
    /\ answered = [r \in Runs |-> FALSE]
    /\ ran = [r \in Runs |-> [k \in Steps |-> 0]]
    /\ faults = 0 /\ crashes = 0

Goto(w, from, to) == pc[w] = from /\ pc' = [pc EXCEPT ![w] = to]
-----------------------------------------------------------------------------
(* _write_state, for whoever calls it.                                     *)

\* The writer starts to save a record.
Save(w, why, record) ==
    /\ phase' = [phase EXCEPT ![w] = why]
    /\ out' = [out EXCEPT ![w] = record]
    /\ UNCHANGED fd

\* write_text opens the temporary file and truncates it.
Open(w) ==
    /\ Goto(w, "open", "write")
    /\ tmp' = [tmp EXCEPT ![target[w]] = Blank]
    /\ fd' = [fd EXCEPT ![w] = "tmp"]
    /\ UNCHANGED <<disk, running, target, jobVars, phase, out, history, troubles>>

\* A record written over another writer's leaves the longer one's tail.
Written(w, old) == IF old = Blank THEN {out[w]} ELSE {out[w], Garbled}

\* It writes the record into the inode it opened, and closes it.
Write(w) ==
    LET r == target[w]
    IN  /\ Goto(w, "write", "replace")
        /\ \/ /\ fd[w] = "tmp"
              /\ \E new \in Written(w, tmp[r]) : tmp' = [tmp EXCEPT ![r] = new]
              /\ UNCHANGED disk
           \/ /\ fd[w] = "disk"
              /\ \E new \in Written(w, disk[r]) : disk' = [disk EXCEPT ![r] = new]
              /\ UNCHANGED tmp
           \/ fd[w] = "lost" /\ UNCHANGED <<disk, tmp>>
        /\ fd' = [fd EXCEPT ![w] = "none"]
        /\ UNCHANGED <<running, target, jobVars, phase, out, history, troubles>>

\* What the caller does after a save: the runner ignores whether its progress
\* was saved and goes on, from its last report to the final save of the job;
\* a cancel handler returns the run, or fails.
Afterwards(w, saved) ==
    \/ /\ phase[w] = "progress" /\ mem[w].status \in Terminal
       /\ pc' = [pc EXCEPT ![w] = "open"]
       /\ phase' = [phase EXCEPT ![w] = "result"]
       /\ out' = [out EXCEPT ![w] = [mem[w] EXCEPT !.report = artifacts[w]]]
       /\ UNCHANGED <<target, history>>
    \/ /\ phase[w] = "progress" /\ mem[w].status \notin Terminal
       /\ pc' = [pc EXCEPT ![w] = IF mem[w].status = "queued" THEN "next" ELSE "tool"]
       /\ UNCHANGED <<target, phase, out, history>>
    \/ /\ phase[w] = "result"
       /\ pc' = [pc EXCEPT ![w] = "ended"]
       /\ UNCHANGED <<target, phase, out, history>>
    \/ /\ phase[w] = "cancel"
       /\ pc' = [pc EXCEPT ![w] = "idle"]
       /\ target' = [target EXCEPT ![w] = NoRun]
       /\ answered' = [answered EXCEPT ![target[w]] = @ \/ saved]
       /\ phase' = [phase EXCEPT ![w] = "none"]
       /\ out' = [out EXCEPT ![w] = Absent]
       /\ UNCHANGED <<asked, ran>>

\* It renames the temporary file; descriptors follow the moved inode, and the
\* inode the record had is gone.
Replace(w) ==
    LET r == target[w]
        moved(x) == IF target[x] # r THEN fd[x]
                    ELSE CASE fd[x] = "tmp" -> "disk"
                           [] fd[x] = "disk" -> "lost"
                           [] OTHER -> fd[x]
    IN  /\ pc[w] = "replace" /\ tmp[r] # Absent
        /\ disk' = [disk EXCEPT ![r] = tmp[r]]
        /\ tmp' = [tmp EXCEPT ![r] = Absent]
        /\ fd' = [x \in Writers |-> moved(x)]
        /\ Afterwards(w, TRUE)
        /\ UNCHANGED <<running, jobVars, troubles>>

\* Another writer has renamed the temporary file: FileNotFoundError.
ReplaceFails(w) ==
    /\ pc[w] = "replace" /\ tmp[target[w]] = Absent
    /\ Afterwards(w, FALSE)
    /\ UNCHANGED <<disk, tmp, running, fd, jobVars, troubles>>

\* The disk is full: write_text fails after it truncated the file.
WriteFails(w) ==
    /\ faults < MaxFaults /\ faults' = faults + 1
    /\ pc[w] = "write"
    /\ fd' = [fd EXCEPT ![w] = "none"]
    /\ Afterwards(w, FALSE)
    /\ UNCHANGED <<disk, tmp, running, jobVars, crashes>>
-----------------------------------------------------------------------------
(* The HTTP handlers.                                                      *)

\* A new run id: nobody else writes its files, so the save is one step.
CreateRun(r) ==
    /\ disk[r] = Absent
    /\ disk' = [disk EXCEPT ![r] = Queued(0)]
    /\ UNCHANGED <<tmp, running, pc, target, jobVars, saveVars, history, troubles>>

\* Mutant: the handler does not look whether the run has a task.
ExecuteAgain(j, r) ==
    /\ disk[r].status = "queued"
    /\ Goto(j, "idle", "begin")
    /\ running' = running \cup {r}
    /\ target' = [target EXCEPT ![j] = r]
    /\ UNCHANGED <<disk, tmp, jobVars, saveVars, history, troubles>>

\* execute is a coroutine without awaits: its check and its registration of
\* the task are one step of the event loop.
Execute(j, r) ==
    /\ disk[r].status = "queued"
    /\ r \notin running
    /\ Goto(j, "idle", "begin")
    /\ running' = running \cup {r}
    /\ target' = [target EXCEPT ![j] = r]
    /\ UNCHANGED <<disk, tmp, jobVars, saveVars, history, troubles>>

\* cancel_run reads the record and decides; its save follows.  A queued run
\* becomes cancelled, a running one carries the flag.
CancelRead(t, r) ==
    /\ Goto(t, "idle", "open")
    /\ disk[r].status \in {"queued"} \cup Stages
    /\ Save(t, "cancel",
            [disk[r] EXCEPT !.cancel = TRUE,
                            !.status = IF @ = "queued" THEN "cancelled" ELSE @])
    /\ target' = [target EXCEPT ![t] = r]
    /\ asked' = [asked EXCEPT ![r] = TRUE]
    /\ UNCHANGED <<disk, tmp, running, jobVars, answered, ran, troubles>>

\* Mutant: the new run inherits the cancel flag of the old one.
RetryWithFlag(r, new) ==
    /\ disk[r].status \in {"failed", "cancelled"}
    /\ disk[r].retry < MaxRetries
    /\ disk[new] = Absent
    /\ disk' = [disk EXCEPT ![new] = [Queued(disk[r].retry + 1) EXCEPT !.cancel = disk[r].cancel]]
    /\ UNCHANGED <<tmp, running, pc, target, jobVars, saveVars, history, troubles>>

\* retry_run creates a new queued run, with a count one higher.
Retry(r, new) ==
    /\ disk[r].status \in {"failed", "cancelled"}
    /\ disk[r].retry < MaxRetries
    /\ disk[new] = Absent
    /\ disk' = [disk EXCEPT ![new] = Queued(disk[r].retry + 1)]
    /\ UNCHANGED <<tmp, running, pc, target, jobVars, saveVars, history, troubles>>
-----------------------------------------------------------------------------
(* The background job: _background_execute and ControlledRunner.run.       *)

\* The coroutine starts: get_run and the runner refuse a record that is no
\* longer readable or queued, and the task ends with the error.
BeginJob(j) ==
    /\ pc[j] = "begin"
    /\ mem' = [mem EXCEPT ![j] = disk[target[j]]]
    /\ artifacts' = [artifacts EXCEPT ![j] = FALSE]
    /\ phase' = [phase EXCEPT ![j] = "progress"]
    /\ pc' = [pc EXCEPT ![j] = IF disk[target[j]].status = "queued" THEN "report" ELSE "ended"]
    /\ UNCHANGED <<disk, tmp, running, target, out, fd, history, troubles>>

\* _persist reads the record and merges its cancel flag into the copy it will
\* save; a record it cannot read is left alone.
Report(j) ==
    LET current == disk[target[j]]
    IN  /\ pc[j] = "report"
        /\ \/ /\ Readable(current)
              /\ pc' = [pc EXCEPT ![j] = "open"]
              /\ Save(j, "progress", [mem[j] EXCEPT !.cancel = @ \/ current.cancel])
              /\ UNCHANGED <<target, history>>
           \/ ~Readable(current) /\ Afterwards(j, FALSE) /\ UNCHANGED fd
        /\ UNCHANGED <<disk, tmp, running, jobVars, troubles>>

\* The runner moves to a new state and reports it.
Move(j, state) ==
    /\ pc' = [pc EXCEPT ![j] = "report"]
    /\ mem' = [mem EXCEPT ![j] = state]
    /\ UNCHANGED <<disk, tmp, running, target, artifacts, saveVars, history, troubles>>

\* _is_cancel_requested, on the runner's own state and on the record.
CancelRequested(j) ==
    LET current == disk[target[j]]
    IN  mem[j].cancel \/ ~Readable(current) \/ current.cancel

\* Mutant: the loop ends one step early.
PipelineDoneEarly(j) == pc[j] = "next" /\ mem[j].step >= Len(Pipeline) - 1

\* The head of the loop over the pipeline, or the end of the loop.
StepAhead(j) == pc[j] = "next" /\ mem[j].step < Len(Pipeline)

PipelineDone(j) == pc[j] = "next" /\ mem[j].step = Len(Pipeline)

\* Mutant: the limit is reported without the steps that were done.
StepLimitFromZero(j) ==
    /\ StepAhead(j) /\ mem[j].step >= MaxSteps
    /\ Move(j, [mem[j] EXCEPT !.status = "failed", !.step = 0])

StepLimit(j) ==
    /\ StepAhead(j) /\ mem[j].step >= MaxSteps
    /\ Move(j, [mem[j] EXCEPT !.status = "failed"])

ObserveCancel(j) ==
    /\ StepAhead(j) /\ mem[j].step < MaxSteps
    /\ CancelRequested(j)
    /\ Move(j, [mem[j] EXCEPT !.status = "cancelled", !.cancel = TRUE])

\* Mutant: the step is reported after its tool has run, not before.
StartStepUnreported(j) ==
    /\ StepAhead(j) /\ mem[j].step < MaxSteps
    /\ ~CancelRequested(j)
    /\ pc' = [pc EXCEPT ![j] = "tool"]
    /\ mem' = [mem EXCEPT ![j].status = Pipeline[mem[j].step + 1], ![j].step = @ + 1]
    /\ UNCHANGED <<disk, tmp, running, target, artifacts, saveVars, history, troubles>>

StartStep(j) ==
    /\ StepAhead(j) /\ mem[j].step < MaxSteps
    /\ ~CancelRequested(j)
    /\ Move(j, [mem[j] EXCEPT !.status = Pipeline[mem[j].step + 1], !.step = @ + 1])

\* Mutant: completion is counted as a step of its own.
CompleteAsStep(j) ==
    /\ PipelineDone(j)
    /\ Move(j, [mem[j] EXCEPT !.status = "completed", !.step = @ + 1])

Complete(j) ==
    /\ PipelineDone(j)
    /\ Move(j, [mem[j] EXCEPT !.status = "completed"])

\* Mutant: a failed tool is reported as a cancellation.
RunToolCancelling(j) ==
    /\ pc[j] = "tool"
    /\ ran' = [ran EXCEPT ![target[j]][mem[j].step] = @ + 1]
    /\ \/ /\ pc' = [pc EXCEPT ![j] = "next"]
          /\ artifacts' = [artifacts EXCEPT ![j] = mem[j].step = Len(Pipeline)]
          /\ UNCHANGED mem
       \/ /\ pc' = [pc EXCEPT ![j] = "report"]
          /\ mem' = [mem EXCEPT ![j].status = "cancelled"]
          /\ UNCHANGED artifacts
    /\ UNCHANGED <<disk, tmp, running, target, saveVars, asked, answered, troubles>>

\* Mutant: the draft tool leaves its paths before it writes the files.
RunToolPathsFirst(j) ==
    /\ pc[j] = "tool"
    /\ ran' = [ran EXCEPT ![target[j]][mem[j].step] = @ + 1]
    /\ artifacts' = [artifacts EXCEPT ![j] = mem[j].step = Len(Pipeline)]
    /\ \/ pc' = [pc EXCEPT ![j] = "next"] /\ UNCHANGED mem
       \/ /\ pc' = [pc EXCEPT ![j] = "report"]
          /\ mem' = [mem EXCEPT ![j].status = "failed"]
    /\ UNCHANGED <<disk, tmp, running, target, saveVars, asked, answered, troubles>>

\* Mutant: an error of a tool escapes from the runner and ends the task.
RunToolEscaping(j) ==
    /\ pc[j] = "tool"
    /\ ran' = [ran EXCEPT ![target[j]][mem[j].step] = @ + 1]
    /\ \/ /\ pc' = [pc EXCEPT ![j] = "next"]
          /\ artifacts' = [artifacts EXCEPT ![j] = mem[j].step = Len(Pipeline)]
       \/ pc' = [pc EXCEPT ![j] = "ended"] /\ UNCHANGED artifacts
    /\ UNCHANGED <<disk, tmp, running, target, mem, saveVars, asked, answered, troubles>>

\* The tool of the current step runs and succeeds, or raises an error.
RunTool(j) ==
    /\ pc[j] = "tool"
    /\ ran' = [ran EXCEPT ![target[j]][mem[j].step] = @ + 1]
    /\ \/ /\ pc' = [pc EXCEPT ![j] = "next"]
          /\ artifacts' = [artifacts EXCEPT ![j] = mem[j].step = Len(Pipeline)]
          /\ UNCHANGED mem
       \/ /\ pc' = [pc EXCEPT ![j] = "report"]
          /\ mem' = [mem EXCEPT ![j].status = "failed"]
          /\ UNCHANGED artifacts
    /\ UNCHANGED <<disk, tmp, running, target, saveVars, asked, answered, troubles>>

\* Mutant: no done callback forgets the task.
JobDoneRemembered(j) ==
    /\ Goto(j, "ended", "idle")
    /\ target' = [target EXCEPT ![j] = NoRun]
    /\ mem' = [mem EXCEPT ![j] = Absent]
    /\ phase' = [phase EXCEPT ![j] = "none"]
    /\ out' = [out EXCEPT ![j] = Absent]
    /\ UNCHANGED <<disk, tmp, running, artifacts, fd, history, troubles>>

\* The done callback of the task.
JobDone(j) ==
    /\ Goto(j, "ended", "idle")
    /\ running' = running \ {target[j]}
    /\ target' = [target EXCEPT ![j] = NoRun]
    /\ mem' = [mem EXCEPT ![j] = Absent]
    /\ phase' = [phase EXCEPT ![j] = "none"]
    /\ out' = [out EXCEPT ![j] = Absent]
    /\ UNCHANGED <<disk, tmp, artifacts, fd, history, troubles>>
-----------------------------------------------------------------------------
\* The process dies and starts again: only the files survive.
Crash ==
    /\ crashes < MaxCrashes
    /\ crashes' = crashes + 1
    /\ running' = {}
    /\ pc' = [w \in Writers |-> "idle"]
    /\ target' = [w \in Writers |-> NoRun]
    /\ mem' = [j \in Jobs |-> Absent]
    /\ artifacts' = [j \in Jobs |-> FALSE]
    /\ phase' = [w \in Writers |-> "none"]
    /\ out' = [w \in Writers |-> Absent]
    /\ fd' = [w \in Writers |-> "none"]
    /\ UNCHANGED <<disk, tmp, history, faults>>

SaveStep(w) == Open(w) \/ Write(w) \/ WriteFails(w) \/ Replace(w) \/ ReplaceFails(w)

JobStep(j) ==
    \/ BeginJob(j) \/ Report(j) \/ StepLimit(j) \/ ObserveCancel(j) \/ StartStep(j)
    \/ Complete(j) \/ RunTool(j) \/ JobDone(j) \/ SaveStep(j)

Request ==
    \E r \in Runs :
        \/ CreateRun(r)
        \/ \E j \in Jobs : Execute(j, r)
        \/ \E t \in Threads : CancelRead(t, r)
        \/ \E new \in Runs : Retry(r, new)

Next ==
    \/ Request
    \/ \E j \in Jobs : JobStep(j)
    \/ \E t \in Threads : SaveStep(t)
    \/ Crash

Spec == Init /\ [][Next]_vars

\* Threads and the event loop are scheduled; nobody has to ask for anything.
Fairness == /\ \A j \in Jobs : WF_vars(JobStep(j))
            /\ \A t \in Threads : WF_vars(SaveStep(t))

FairSpec == Spec /\ Fairness
-----------------------------------------------------------------------------
PC == {"idle", "begin", "report", "open", "write", "replace", "next", "tool", "ended"}

TypeOK ==
    /\ disk \in [Runs -> Content]
    /\ tmp \in [Runs -> Content]
    /\ running \subseteq Runs
    /\ pc \in [Writers -> PC]
    /\ target \in [Writers -> Runs \cup {NoRun}]
    /\ mem \in [Jobs -> Content]
    /\ artifacts \in [Jobs -> BOOLEAN]
    /\ phase \in [Writers -> {"none", "progress", "result", "cancel"}]
    /\ out \in [Writers -> Content]
    /\ fd \in [Writers -> {"none", "tmp", "disk", "lost"}]
    /\ asked \in [Runs -> BOOLEAN]
    /\ answered \in [Runs -> BOOLEAN]
    /\ ran \in [Runs -> [Steps -> Nat]]
    /\ faults \in 0..MaxFaults /\ crashes \in 0..MaxCrashes

\* No step of a run is executed twice, however clients repeat execute, cancel
\* and retry, and across restarts: dispatch_background_run takes queued runs
\* that have no task only (runs.py:247-253).
AtMostOnceExecution == \A r \in Runs, k \in Steps : ran[r][k] <= 1

\* A record that says completed is of a run that went through every stage.
CompletedMeansAllStages ==
    \A r \in Runs : disk[r].status = "completed" => \A k \in Steps : ran[r][k] > 0

\* A run is cancelled only if somebody asked for it.  The runner takes a record
\* it cannot read for a request (runs.py:201), which is sound only because
\* nothing but a cancel handler disturbs the record.
NoSpontaneousCancel == \A r \in Runs : disk[r].status = "cancelled" => asked[r]

\* Report paths appear only in the record of a completed run that drafted them.
ReportOnlyAfterDraft ==
    \A r \in Runs :
        disk[r].report => disk[r].status = "completed" /\ ran[r][Len(Pipeline)] > 0

\* The task of a run nobody asked to cancel leaves a final record.
UndisturbedResult ==
    \A j \in Jobs : pc[j] = "ended" /\ ~asked[target[j]] => disk[target[j]].status \in Terminal

\* Polling a run nobody asked to cancel never shows it going back, and its end
\* is final.
Ahead(old, new) ==
    /\ Readable(new)
    /\ new.step >= old.step
    /\ old.status \in Terminal => new.status = old.status

ProgressMonotone ==
    [][\A r \in Runs : Readable(disk[r]) /\ ~asked'[r] => Ahead(disk[r], disk'[r])]_vars

\* The record of every run goes through its states in order, until somebody
\* asks to cancel the run.
shownMap == [r \in Runs |-> IF asked[r] THEN "disputed" ELSE disk[r].status]

Record == INSTANCE RunRecord WITH shown <- shownMap

ImplementsRecord == Record!Spec

\* A task that was started ends and is forgotten, whatever its tools do.
JobsDrain == \A r \in Runs : r \in running ~> r \notin running

\* Once a cancel request was answered, the pipeline starts no further step.
AnsweredCancelStopsPipeline ==
    [][\A j \in Jobs : StartStep(j) => ~answered[target[j]]]_vars

\* A restart loses no run: one that was under way comes to an end.
RestartLosesNoRun == \A r \in Runs : (disk[r].status \in Stages) ~> (disk[r].status \in Terminal)
=============================================================================
