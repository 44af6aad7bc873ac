-------------------------- MODULE RunLifecycleProofs --------------------------
(***************************************************************************)
(* Proofs about RunLifecycle, for any set of runs, jobs and threads and    *)
(* any limits.  RunInv says who may be writing which file, that every copy *)
(* of a record, on disk, in the temporary file or in a memory, is truthful *)
(* about its run (Truthful), how far a job has come, and that the record   *)
(* of a run nobody asked to cancel is its job's alone.  While no write has *)
(* failed, OnceInv says why no step is executed twice: once a step has     *)
(* run, no copy of the record is queued any more; and TrackInv that the    *)
(* record of an undisturbed run is one step behind its job at most.        *)
(***************************************************************************)
EXTENDS RunLifecycle, TLAPS

Saving == {"open", "write", "replace"}

\* A job past BeginJob that has not ended.
Started(j) == pc[j] \in {"report", "next", "tool"} \cup Saving

\* Who works on what: cancel handlers only save, a busy job owns its run.
WritersInv ==
    /\ \A w \in Writers : pc[w] = "idle" <=> target[w] = NoRun
    /\ \A t \in Threads : pc[t] # "idle" =>
           /\ pc[t] \in Saving /\ phase[t] = "cancel" /\ asked[target[t]]
           /\ out[t].status \in Stages \cup {"cancelled"}
    /\ \A j \in Jobs : pc[j] # "idle" => target[j] \in running
    /\ \A i, j \in Jobs : pc[i] # "idle" /\ pc[j] # "idle" /\ target[i] = target[j] => i = j

\* What a copy of a record may say of a run, given whether somebody asked to
\* cancel the run and how often each step was executed.
Truthful(copy, disputed, executed) ==
    /\ copy.status = "queued" => copy.step = 0
    /\ copy.status = "completed" => \A k \in Steps : executed[k] > 0
    /\ copy.status = "cancelled" \/ copy.cancel => disputed
    /\ copy.report => copy.status = "completed"

TruthfulOf(r, copy) == Truthful(copy, asked[r], ran[r])

CopiesInv ==
    /\ \A r \in Runs : TruthfulOf(r, disk[r]) /\ TruthfulOf(r, tmp[r])
    /\ \A w \in Writers : pc[w] \in Saving => TruthfulOf(target[w], out[w]) /\ Readable(out[w])
    /\ \A j \in Jobs : Started(j) => TruthfulOf(target[j], mem[j])

\* A run that was not created yet.
UnseenInv ==
    \A r \in Runs : disk[r] = Absent =>
        /\ tmp[r] = Absent /\ ~asked[r]
        /\ \A w \in Writers : target[w] # r
        /\ \A k \in Steps : ran[r][k] = 0

\* How far a job has come, and what it saves.
Progressed(j) ==
    LET m == mem[j]
    IN  /\ Readable(m)
        /\ m.status = "queued" => m.step = 0
        /\ m.status \in Stages => m.step \in Steps /\ m.status = Pipeline[m.step]
        /\ m.status = "failed" => m.step > 0
        /\ m.status = "completed" => m.step = Len(Pipeline)
        /\ \A k \in Steps : k < m.step => ran[target[j]][k] > 0
        /\ pc[j] = "next" \/ m.status \notin Stages =>
               \A k \in Steps : k <= m.step => ran[target[j]][k] > 0
        /\ pc[j] = "next" => m.status \in {"queued"} \cup Stages
        /\ pc[j] = "tool" => m.status \in Stages
        /\ artifacts[j] => m.step = Len(Pipeline) /\ (pc[j] = "next" \/ m.status = "completed")

SavesOwn(j) ==
    /\ phase[j] \in {"progress", "result"}
    /\ phase[j] = "progress" => out[j] = [mem[j] EXCEPT !.cancel = out[j].cancel]
    /\ phase[j] = "result" =>
           mem[j].status \in Terminal /\ out[j] = [mem[j] EXCEPT !.report = artifacts[j]]

JobInv(j) ==
    /\ Started(j) => Progressed(j)
    /\ pc[j] \in {"report", "next", "tool"} => phase[j] = "progress"
    /\ pc[j] \in Saving => SavesOwn(j)

JobsInv == \A j \in Jobs : JobInv(j)

\* The record of a run nobody asked to cancel: only its job writes it.
QuietJob(j) ==
    LET r == target[j]
    IN  pc[j] # "idle" /\ ~asked[r] =>
            /\ pc[j] = "begin" => disk[r].status = "queued"
            /\ pc[j] = "write" => fd[j] = "tmp" /\ tmp[r] = Blank
            /\ pc[j] = "replace" => tmp[r] = out[j]
            /\ Started(j) =>
                   /\ disk[r].step <= mem[j].step
                   /\ disk[r].status \in Terminal => disk[r].status = mem[j].status

QuietInv ==
    /\ \A r \in Runs : ~asked[r] /\ disk[r] # Absent => Readable(disk[r])
    /\ \A j \in Jobs : QuietJob(j)

RunInv == TypeOK /\ WritersInv /\ CopiesInv /\ UnseenInv /\ JobsInv /\ QuietInv

\* A copy that execute would accept.
Startable(copy) == copy.status = "queued"

\* While no write has failed: once a step of a run was executed, nothing that
\* may become its record is startable.
OnceRun(r) ==
    /\ \A k \in Steps : ran[r][k] <= 1
    /\ Startable(disk[r]) \/ Startable(tmp[r]) => \A k \in Steps : ran[r][k] = 0
    /\ \A w \in Writers :
           Startable(tmp[r]) /\ target[w] = r /\ pc[w] \in {"write", "replace"} =>
               \E j \in Jobs : target[j] = r /\ pc[j] = "replace" /\ Startable(mem[j])

OnceJob(j) ==
    LET r == target[j]
    IN  /\ pc[j] = "begin" \/ (pc[j] = "report" /\ Startable(mem[j])) =>
               Startable(disk[r]) \/ ~Startable(tmp[r])
        /\ Started(j) =>
               /\ \A k \in Steps : k > mem[j].step => ran[r][k] = 0
               /\ mem[j].status \in Stages /\ pc[j] # "next" => ran[r][mem[j].step] = 0
               /\ ~Startable(mem[j]) \/ pc[j] = "next" => ~Startable(tmp[r])
        /\ pc[j] \in {"write", "replace"} /\ ~Startable(mem[j]) /\ tmp[r] = Absent =>
               ~Startable(disk[r])
        /\ pc[j] = "tool" => ~Startable(disk[r])

OnceInv == (\A r \in Runs : OnceRun(r)) /\ (\A j \in Jobs : OnceJob(j))

\* The record before a job's progress is saved.
Before(m) ==
    CASE m.status = "queued" -> "queued"
      [] m.status \in Stages -> IF m.step = 1 THEN "queued" ELSE Pipeline[m.step - 1]
      [] OTHER -> Pipeline[m.step]

\* While no write has failed: the record of a run nobody asked to cancel.
TrackJob(j) ==
    LET shown == disk[target[j]].status
    IN  pc[j] # "idle" /\ ~asked[target[j]] =>
            /\ pc[j] \in {"next", "tool"} => shown = mem[j].status
            /\ pc[j] = "report" \/ (pc[j] \in Saving /\ phase[j] = "progress") =>
                   shown = Before(mem[j])
            /\ pc[j] \in Saving /\ phase[j] = "result" => shown = mem[j].status
            /\ pc[j] = "ended" => shown \in Terminal

TrackInv == \A j \in Jobs : TrackJob(j)

UnfailedInv == faults = 0 => OnceInv /\ TrackInv
-----------------------------------------------------------------------------
(* The pipeline and the statuses.                                          *)

(* The five stages: each but the last has a successor (agent/runner.py).   *)
LEMMA PipelineFacts ==
    /\ Len(Pipeline) = 5 /\ Steps = 1..5
    /\ Stages = {"scanning", "indexing", "retrieving", "evaluating", "drafting"}
    /\ \A k \in Steps : Pipeline[k] \in Stages
    /\ \A k, l \in Steps : Pipeline[k] = Pipeline[l] => k = l
<1>1. Len(Pipeline) = 5 /\ Steps = 1..5
  BY DEF Pipeline, Steps
<1>2. /\ Pipeline[1] = "scanning" /\ Pipeline[2] = "indexing" /\ Pipeline[3] = "retrieving"
      /\ Pipeline[4] = "evaluating" /\ Pipeline[5] = "drafting"
  BY DEF Pipeline
<1>3. \A k \in Steps : k = 1 \/ k = 2 \/ k = 3 \/ k = 4 \/ k = 5
  BY <1>1
<1>4. Stages = {"scanning", "indexing", "retrieving", "evaluating", "drafting"}
  BY <1>1, <1>2, <1>3 DEF Stages
<1> QED
  BY <1>1, <1>2, <1>3, <1>4

(* The order of the statuses and what is final.                            *)
LEMMA StatusFacts ==
    /\ \A s \in Stages : s \in Statuses /\ s # "queued" /\ s \notin Terminal
    /\ Terminal \subseteq Statuses /\ "queued" \in Statuses /\ "queued" \notin Terminal
    /\ "absent" \notin Statuses /\ "blank" \notin Statuses /\ "garbled" \notin Statuses
    /\ \A s \in Statuses : s = "queued" \/ s \in Stages \/ s \in Terminal
  BY PipelineFacts DEF Statuses, Terminal

(* What a file may hold besides a record cannot be read as one.            *)
LEMMA ContentFacts ==
    /\ Absent \in Content /\ Blank \in Content /\ Garbled \in Content
    /\ ~Readable(Absent) /\ ~Readable(Blank) /\ ~Readable(Garbled)
    /\ Absent # Blank /\ Absent # Garbled /\ Blank # Garbled
    /\ \A n \in 0..MaxRetries : Queued(n) \in Content /\ Readable(Queued(n))
<1> USE RunAssumption, PipelineFacts, StatusFacts DEF Content, Absent, Blank, Garbled, Unreadable, Readable, Queued
<1>1. Absent \in Content /\ Blank \in Content /\ Garbled \in Content
  OBVIOUS
<1>2. \A n \in 0..MaxRetries : Queued(n) \in Content /\ Readable(Queued(n))
  OBVIOUS
<1>3. Absent.status = "absent" /\ Blank.status = "blank" /\ Garbled.status = "garbled"
  OBVIOUS
<1>4. Absent # Blank /\ Absent # Garbled /\ Blank # Garbled
  BY <1>3
<1> QED
  BY <1>1, <1>2, <1>3, <1>4

(* What replacing fields does to a record.                                 *)
LEMMA WithReport ==
    ASSUME NEW c \in Content, NEW b \in BOOLEAN
    PROVE  LET d == [c EXCEPT !.report = b]
           IN  /\ d \in Content /\ d.report = b
               /\ d.status = c.status /\ d.step = c.step /\ d.cancel = c.cancel
  BY DEF Content

(* A record with the cancel flag set keeps its other fields.               *)
LEMMA WithCancel ==
    ASSUME NEW c \in Content, NEW b \in BOOLEAN
    PROVE  LET d == [c EXCEPT !.cancel = b]
           IN  /\ d \in Content /\ d.cancel = b
               /\ d.status = c.status /\ d.step = c.step /\ d.report = c.report
  BY DEF Content

(* A record with another status keeps its other fields.                    *)
LEMMA WithStatus ==
    ASSUME NEW c \in Content, NEW s \in Statuses
    PROVE  LET d == [c EXCEPT !.status = s]
           IN  /\ d \in Content /\ d.status = s
               /\ d.step = c.step /\ d.cancel = c.cancel /\ d.report = c.report
  BY DEF Content

(* A record moved to its next stage.                                       *)
LEMMA Advanced ==
    ASSUME NEW c \in Content, c.step + 1 \in Steps
    PROVE  LET d == [c EXCEPT !.status = Pipeline[c.step + 1], !.step = c.step + 1]
           IN  /\ d \in Content /\ d.status = Pipeline[c.step + 1] /\ d.step = c.step + 1
               /\ d.cancel = c.cancel /\ d.report = c.report
<1>1. PICK n \in 0..5, s \in Statuses : n = c.step + 1 /\ s = Pipeline[n]
  BY PipelineFacts, StatusFacts
<1>2. LET d == [c EXCEPT !.status = s, !.step = n]
      IN  /\ d \in Content /\ d.status = s /\ d.step = n
          /\ d.cancel = c.cancel /\ d.report = c.report
  BY PipelineFacts DEF Content
<1> QED
  BY <1>1, <1>2

(* A record that ends cancelled.                                           *)
LEMMA Cancelled ==
    ASSUME NEW c \in Content, NEW s \in Statuses
    PROVE  /\ LET d == [c EXCEPT !.status = s, !.cancel = TRUE]
               IN  /\ d \in Content /\ d.status = s /\ d.cancel
                   /\ d.step = c.step /\ d.report = c.report
           /\ LET d == [c EXCEPT !.cancel = TRUE, !.status = s]
               IN  /\ d \in Content /\ d.status = s /\ d.cancel
                   /\ d.step = c.step /\ d.report = c.report
  BY DEF Content

\* The record cancel_run saves.
LEMMA CancelRecord ==
    ASSUME NEW c \in Content, c.status \in {"queued"} \cup Stages
    PROVE  LET d == [c EXCEPT !.cancel = TRUE,
                              !.status = IF @ = "queued" THEN "cancelled" ELSE @]
           IN  /\ d \in Content /\ d.cancel /\ d.status \in Stages \cup {"cancelled"}
               /\ d.step = c.step /\ d.report = c.report
<1>1. c.status \in Statuses /\ "cancelled" \in Statuses
  BY StatusFacts DEF Terminal
<1>2. CASE c.status = "queued"
  BY <1>1, <1>2 DEF Content
<1>3. CASE c.status # "queued"
  BY <1>1, <1>3 DEF Content
<1> QED
  BY <1>2, <1>3
-----------------------------------------------------------------------------
(* What the helpers of the actions do.                                     *)

(* A thread or job that is not idle is about a run.                        *)
LEMMA BusyHasRun ==
    ASSUME TypeOK, WritersInv, NEW w \in Writers, pc[w] # "idle"
    PROVE  target[w] \in Runs /\ target[w] # NoRun
  BY RunAssumption DEF TypeOK, WritersInv

\* Nobody but its job works on a run nobody asked to cancel.
LEMMA Alone ==
    ASSUME TypeOK, WritersInv, NEW j \in Jobs, pc[j] # "idle", ~asked[target[j]],
           NEW w \in Writers, target[w] = target[j]
    PROVE  w = j
  BY BusyHasRun, RunAssumption DEF TypeOK, WritersInv, Writers

\* The ways a writer goes on after a save.
GoesOnToResult(w) ==
    /\ w \in Jobs /\ phase[w] = "progress" /\ mem[w].status \in Terminal
    /\ pc' = [pc EXCEPT ![w] = "open"]
    /\ phase' = [phase EXCEPT ![w] = "result"]
    /\ out' = [out EXCEPT ![w] = [mem[w] EXCEPT !.report = artifacts[w]]]
    /\ target' = target /\ answered' = answered

GoesOn(w) ==
    /\ w \in Jobs /\ phase[w] = "progress" /\ mem[w].status \notin Terminal
    /\ pc' = [pc EXCEPT ![w] = IF mem[w].status = "queued" THEN "next" ELSE "tool"]
    /\ target' = target /\ phase' = phase /\ out' = out /\ answered' = answered

Ends(w) ==
    /\ w \in Jobs /\ phase[w] = "result"
    /\ pc' = [pc EXCEPT ![w] = "ended"]
    /\ target' = target /\ phase' = phase /\ out' = out /\ answered' = answered

Answers(w) ==
    /\ w \in Threads
    /\ pc' = [pc EXCEPT ![w] = "idle"]
    /\ target' = [target EXCEPT ![w] = NoRun]
    /\ phase' = [phase EXCEPT ![w] = "none"]
    /\ out' = [out EXCEPT ![w] = Absent]
    /\ answered' \in [Runs -> BOOLEAN]

(* What a writer may do after its save, case by case.                      *)
LEMMA AfterwardsCases ==
    ASSUME TypeOK, WritersInv, JobsInv, NEW w \in Writers, pc[w] \in {"report"} \cup Saving,
           NEW saved \in BOOLEAN, Afterwards(w, saved)
    PROVE  /\ asked' = asked /\ ran' = ran
           /\ GoesOnToResult(w) \/ GoesOn(w) \/ Ends(w) \/ Answers(w)
<1>1. asked' = asked /\ ran' = ran
  BY DEF Afterwards, history
<1>2. w \in Jobs => phase[w] \in {"progress", "result"}
  BY DEF JobsInv, JobInv, SavesOwn, Saving
<1>3. w \in Threads => phase[w] = "cancel"
  BY DEF WritersInv, Saving
<1>4. target[w] \in Runs
  BY BusyHasRun DEF Saving
<1>5. w \in Jobs \/ w \in Threads
  BY DEF Writers
<1>6. CASE phase[w] = "progress" /\ mem[w].status \in Terminal
  BY <1>3, <1>5, <1>6 DEF Afterwards, GoesOnToResult, history
<1>7. CASE phase[w] = "progress" /\ mem[w].status \notin Terminal
  BY <1>3, <1>5, <1>7 DEF Afterwards, GoesOn, history
<1>8. CASE phase[w] = "result"
  BY <1>3, <1>5, <1>8 DEF Afterwards, Ends, history
<1>9. CASE phase[w] = "cancel"
  <2>1. w \in Threads
    BY <1>2, <1>5, <1>9
  <2>2. answered' = [answered EXCEPT ![target[w]] = @ \/ saved]
    BY <1>9 DEF Afterwards
  <2>3. answered' \in [Runs -> BOOLEAN]
    BY <2>2, <1>4 DEF TypeOK
  <2> QED
    BY <2>1, <2>3, <1>9 DEF Afterwards, Answers
<1> QED
  BY <1>1, <1>2, <1>3, <1>5, <1>6, <1>7, <1>8, <1>9
-----------------------------------------------------------------------------
(* Type correctness.                                                       *)

(* The types hold at the start.                                            *)
LEMMA TypeInit == Init => TypeOK
  BY RunAssumption, ContentFacts DEF Init, TypeOK, PC

(* What follows a save keeps the types.                                    *)
LEMMA AfterwardsTyped ==
    ASSUME TypeOK, WritersInv, JobsInv, NEW w \in Writers, pc[w] \in {"report"} \cup Saving,
           NEW saved \in BOOLEAN, Afterwards(w, saved)
    PROVE  /\ pc' \in [Writers -> PC]
           /\ target' \in [Writers -> Runs \cup {NoRun}]
           /\ phase' \in [Writers -> {"none", "progress", "result", "cancel"}]
           /\ out' \in [Writers -> Content]
           /\ asked' \in [Runs -> BOOLEAN] /\ answered' \in [Runs -> BOOLEAN]
           /\ ran' \in [Runs -> [Steps -> Nat]]
<1>0. asked' = asked /\ ran' = ran
  BY AfterwardsCases
<1>1. CASE GoesOnToResult(w)
  <2>1. [mem[w] EXCEPT !.report = artifacts[w]] \in Content
    BY <1>1, WithReport DEF TypeOK, GoesOnToResult
  <2> QED
    BY <1>0, <1>1, <2>1 DEF TypeOK, GoesOnToResult, PC
<1>2. CASE GoesOn(w)
  BY <1>0, <1>2 DEF TypeOK, GoesOn, PC
<1>3. CASE Ends(w)
  BY <1>0, <1>3 DEF TypeOK, Ends, PC
<1>4. CASE Answers(w)
  BY <1>0, <1>4, ContentFacts DEF TypeOK, Answers, PC
<1> QED
  BY <1>1, <1>2, <1>3, <1>4, AfterwardsCases

(* A move of a job keeps the types.                                        *)
LEMMA MoveTyped ==
    ASSUME TypeOK, NEW j \in Jobs, NEW state \in Content, Move(j, state)
    PROVE  TypeOK'
  BY DEF Move, TypeOK, PC, Writers, saveVars, history, troubles

\* The moves of the runner between its steps.
LEMMA MoveCases ==
    ASSUME TypeOK, NEW j \in Jobs, StepLimit(j) \/ ObserveCancel(j) \/ StartStep(j) \/ Complete(j)
    PROVE  /\ pc[j] = "next"
           /\ \E state \in Content :
                  /\ Move(j, state) /\ state.report = mem[j].report
                  /\ \/ /\ state.status = "failed" /\ mem[j].step >= MaxSteps /\ mem[j].step < 5
                        /\ state.step = mem[j].step /\ state.cancel = mem[j].cancel
                     \/ /\ state.status = "cancelled" /\ state.cancel /\ CancelRequested(j)
                        /\ state.step = mem[j].step /\ mem[j].step < 5
                     \/ /\ state.step = mem[j].step + 1 /\ state.step \in Steps
                        /\ state.status = Pipeline[state.step] /\ state.cancel = mem[j].cancel
                     \/ /\ state.status = "completed" /\ mem[j].step = 5
                        /\ state.step = mem[j].step /\ state.cancel = mem[j].cancel
<1>1. mem[j] \in Content /\ mem[j].step \in 0..5
  BY PipelineFacts DEF TypeOK, Content
<1>2. {"failed", "completed", "cancelled"} \subseteq Statuses
  BY DEF Statuses, Terminal
<1>3. CASE StepLimit(j)
  <2> DEFINE d == [mem[j] EXCEPT !.status = "failed"]
  <2>1. /\ d \in Content /\ d.status = "failed"
        /\ d.step = mem[j].step /\ d.cancel = mem[j].cancel /\ d.report = mem[j].report
    BY <1>1, <1>2, WithStatus
  <2>2. pc[j] = "next" /\ mem[j].step >= MaxSteps /\ mem[j].step < 5 /\ Move(j, d)
    BY <1>3, PipelineFacts DEF StepLimit, StepAhead
  <2> QED
    BY <2>1, <2>2
<1>4. CASE ObserveCancel(j)
  <2> DEFINE d == [mem[j] EXCEPT !.status = "cancelled", !.cancel = TRUE]
  <2>1. /\ d \in Content /\ d.status = "cancelled" /\ d.cancel
        /\ d.step = mem[j].step /\ d.report = mem[j].report
    BY <1>1, <1>2, Cancelled
  <2>2. pc[j] = "next" /\ CancelRequested(j) /\ mem[j].step < 5 /\ Move(j, d)
    BY <1>4, PipelineFacts DEF ObserveCancel, StepAhead
  <2> QED
    BY <2>1, <2>2
<1>5. CASE StartStep(j)
  <2> DEFINE d == [mem[j] EXCEPT !.status = Pipeline[mem[j].step + 1], !.step = mem[j].step + 1]
  <2>1. mem[j].step + 1 \in Steps
    BY <1>1, <1>5, PipelineFacts DEF StartStep, StepAhead
  <2>2. /\ d \in Content /\ d.status = Pipeline[mem[j].step + 1] /\ d.step = mem[j].step + 1
        /\ d.cancel = mem[j].cancel /\ d.report = mem[j].report
    BY <1>1, <2>1, Advanced
  <2>3. pc[j] = "next" /\ Move(j, d)
    BY <1>5 DEF StartStep, StepAhead
  <2> HIDE DEF d
  <2> QED
    BY <2>1, <2>2, <2>3
<1>6. CASE Complete(j)
  <2> DEFINE d == [mem[j] EXCEPT !.status = "completed"]
  <2>1. /\ d \in Content /\ d.status = "completed"
        /\ d.step = mem[j].step /\ d.cancel = mem[j].cancel /\ d.report = mem[j].report
    BY <1>1, <1>2, WithStatus
  <2>2. pc[j] = "next" /\ mem[j].step = 5 /\ Move(j, d)
    BY <1>6, PipelineFacts DEF Complete, PipelineDone
  <2> HIDE DEF d
  <2> QED
    BY <2>1, <2>2
<1> QED
  BY <1>3, <1>4, <1>5, <1>6

(* What a write may leave in a file: the text, or a mixture.               *)
LEMMA WriteCases ==
    ASSUME NEW w \in Writers, Write(w)
    PROVE  LET r == target[w]
           IN  \E new \in {out[w], Garbled} :
                   \/ /\ fd[w] = "tmp" /\ tmp' = [tmp EXCEPT ![r] = new] /\ disk' = disk
                      /\ tmp[r] = Blank => new = out[w]
                   \/ fd[w] = "disk" /\ disk' = [disk EXCEPT ![r] = new] /\ tmp' = tmp
                   \/ fd[w] = "lost" /\ disk' = disk /\ tmp' = tmp
  BY DEF Write, Written

(* Every step keeps the types.                                             *)
LEMMA TypesPreserved ==
    ASSUME TypeOK, WritersInv, JobsInv, [Next]_vars
    PROVE  TypeOK'
<1> USE DEF jobVars, saveVars, history, troubles
<1>1. ASSUME NEW w \in Writers, Open(w)
      PROVE  TypeOK'
  BY <1>1, BusyHasRun, ContentFacts DEF Open, Goto, TypeOK, PC
<1>2. ASSUME NEW w \in Writers, Write(w)
      PROVE  TypeOK'
  <2>1. target[w] \in Runs
    BY <1>2, BusyHasRun DEF Write, Goto
  <2>2. disk' \in [Runs -> Content] /\ tmp' \in [Runs -> Content]
    <3>1. out[w] \in Content /\ Garbled \in Content
      BY ContentFacts DEF TypeOK
    <3>2. PICK new \in {out[w], Garbled} :
                 \/ tmp' = [tmp EXCEPT ![target[w]] = new] /\ disk' = disk
                 \/ disk' = [disk EXCEPT ![target[w]] = new] /\ tmp' = tmp
                 \/ disk' = disk /\ tmp' = tmp
      BY <1>2, WriteCases
    <3>3. new \in Content
      BY <3>1
    <3> QED
      BY <2>1, <3>2, <3>3 DEF TypeOK
  <2> QED
    BY <1>2, <2>2 DEF Write, Goto, TypeOK, PC
<1>3. ASSUME NEW w \in Writers, WriteFails(w)
      PROVE  TypeOK'
  <2>1. faults' \in 0..MaxFaults
    BY <1>3, RunAssumption DEF WriteFails, TypeOK
  <2>2. pc[w] \in Saving /\ Afterwards(w, FALSE)
    BY <1>3 DEF WriteFails, Saving
  <2> QED
    BY <1>3, <2>1, <2>2, AfterwardsTyped DEF WriteFails, TypeOK
<1>4. ASSUME NEW w \in Writers, Replace(w)
      PROVE  TypeOK'
  <2>1. pc[w] \in Saving /\ Afterwards(w, TRUE) /\ target[w] \in Runs
    BY <1>4, BusyHasRun DEF Replace, Saving
  <2>2. fd' \in [Writers -> {"none", "tmp", "disk", "lost"}]
    BY <1>4 DEF Replace, TypeOK
  <2>3. disk' \in [Runs -> Content] /\ tmp' \in [Runs -> Content]
    BY <1>4, <2>1, ContentFacts DEF Replace, TypeOK
  <2> QED
    BY <1>4, <2>1, <2>2, <2>3, AfterwardsTyped DEF Replace, TypeOK
<1>5. ASSUME NEW w \in Writers, ReplaceFails(w)
      PROVE  TypeOK'
  <2>1. pc[w] \in Saving /\ Afterwards(w, FALSE)
    BY <1>5 DEF ReplaceFails, Saving
  <2> QED
    BY <1>5, <2>1, AfterwardsTyped DEF ReplaceFails, TypeOK
<1>6. ASSUME NEW r \in Runs, CreateRun(r)
      PROVE  TypeOK'
  BY <1>6, ContentFacts, RunAssumption DEF CreateRun, TypeOK
<1>7. ASSUME NEW r \in Runs, NEW j \in Jobs, Execute(j, r)
      PROVE  TypeOK'
  BY <1>7 DEF Execute, Goto, TypeOK, PC, Writers
<1>8. ASSUME NEW r \in Runs, NEW t \in Threads, CancelRead(t, r)
      PROVE  TypeOK'
  <2>1. [disk[r] EXCEPT !.cancel = TRUE,
                        !.status = IF @ = "queued" THEN "cancelled" ELSE @] \in Content
    BY <1>8, CancelRecord DEF CancelRead, TypeOK
  <2> QED
    BY <1>8, <2>1 DEF CancelRead, Save, Goto, TypeOK, PC, Writers
<1>9. ASSUME NEW r \in Runs, NEW new \in Runs, Retry(r, new)
      PROVE  TypeOK'
  <2>1. disk[r].retry \in 0..MaxRetries
    BY DEF TypeOK, Content
  <2>2. disk[r].retry + 1 \in 0..MaxRetries
    BY <1>9, <2>1, RunAssumption DEF Retry
  <2>3. Queued(disk[r].retry + 1) \in Content
    BY <2>2, ContentFacts
  <2> QED
    BY <1>9, <2>3 DEF Retry, TypeOK
<1>10. ASSUME NEW j \in Jobs, BeginJob(j)
       PROVE  TypeOK'
  BY <1>10, BusyHasRun DEF BeginJob, TypeOK, PC, Writers
<1>11. ASSUME NEW j \in Jobs, Report(j)
       PROVE  TypeOK'
  <2>1. CASE Afterwards(j, FALSE) /\ UNCHANGED fd
    BY <1>11, <2>1, AfterwardsTyped DEF Report, TypeOK, Writers
  <2>2. CASE /\ pc' = [pc EXCEPT ![j] = "open"]
             /\ Save(j, "progress", [mem[j] EXCEPT !.cancel = @ \/ disk[target[j]].cancel])
             /\ UNCHANGED <<target, history>>
    <3>1. target[j] \in Runs
      BY <1>11, BusyHasRun DEF Report, Writers
    <3>2. mem[j].cancel \/ disk[target[j]].cancel \in BOOLEAN
      BY <3>1 DEF TypeOK, Content
    <3>3. [mem[j] EXCEPT !.cancel = mem[j].cancel \/ disk[target[j]].cancel] \in Content
      BY <3>2, WithCancel DEF TypeOK
    <3> QED
      BY <1>11, <2>2, <3>3 DEF Report, Save, TypeOK, PC, Writers
  <2> QED
    BY <1>11, <2>1, <2>2 DEF Report
<1>12. ASSUME NEW j \in Jobs, StepLimit(j) \/ ObserveCancel(j) \/ StartStep(j) \/ Complete(j)
       PROVE  TypeOK'
  BY <1>12, MoveCases, MoveTyped
<1>13. ASSUME NEW j \in Jobs, RunTool(j)
       PROVE  TypeOK'
  <2>1. target[j] \in Runs /\ mem[j].step \in Steps
    BY <1>13, BusyHasRun DEF RunTool, Writers, JobsInv, JobInv, Started, Progressed
  <2>2. ran' \in [Runs -> [Steps -> Nat]]
    BY <1>13, <2>1 DEF RunTool, TypeOK
  <2>3. mem' \in [Jobs -> Content]
    BY <1>13, WithStatus, StatusFacts DEF RunTool, TypeOK, Terminal
  <2> QED
    BY <1>13, <2>2, <2>3 DEF RunTool, TypeOK, PC, Writers
<1>14. ASSUME NEW j \in Jobs, JobDone(j)
       PROVE  TypeOK'
  BY <1>14, ContentFacts DEF JobDone, Goto, TypeOK, PC, Writers
<1>15. CASE Crash
  BY <1>15, ContentFacts, RunAssumption DEF Crash, TypeOK, PC
<1>16. CASE UNCHANGED vars
  BY <1>16 DEF vars, TypeOK
<1> QED
  BY <1>1, <1>2, <1>3, <1>4, <1>5, <1>6, <1>7, <1>8, <1>9, <1>10, <1>11, <1>12, <1>13, <1>14, <1>15, <1>16
     DEF Next, Request, JobStep, SaveStep, Writers
-----------------------------------------------------------------------------
(* Who works on what.                                                      *)

\* The writers' part does not depend on the files.
SameWriters == UNCHANGED <<pc, target, phase, out, running, asked>>

(* Who writes what does not change when no writer moves.                   *)
LEMMA WritersRest == WritersInv /\ SameWriters => WritersInv'
  BY DEF WritersInv, SameWriters

(* What follows a save leaves no file open.                                *)
LEMMA AfterwardsWriters ==
    ASSUME TypeOK, WritersInv, JobsInv, NEW w \in Writers, pc[w] \in {"report"} \cup Saving,
           NEW saved \in BOOLEAN, Afterwards(w, saved), running' = running
    PROVE  WritersInv'
<1> USE RunAssumption DEF WritersInv, TypeOK, Writers, Saving
<1>0. asked' = asked
  BY AfterwardsCases
<1>1. CASE GoesOnToResult(w)
  BY <1>0, <1>1 DEF GoesOnToResult
<1>2. CASE GoesOn(w)
  BY <1>0, <1>2 DEF GoesOn
<1>3. CASE Ends(w)
  BY <1>0, <1>3 DEF Ends
<1>4. CASE Answers(w)
  BY <1>0, <1>4 DEF Answers
<1> QED
  BY <1>1, <1>2, <1>3, <1>4, AfterwardsCases

\* A busy job that only moves on.
JobMoves(j) ==
    /\ pc[j] # "idle"
    /\ \E place \in PC \ {"idle"} : pc' = [pc EXCEPT ![j] = place]
    /\ UNCHANGED <<target, phase, out, running, asked>>

(* A job that moves without writing leaves the writers as they are.        *)
LEMMA JobMovesWriters ==
    ASSUME TypeOK, WritersInv, NEW j \in Jobs, JobMoves(j)
    PROVE  WritersInv'
  BY RunAssumption DEF JobMoves, TypeOK, WritersInv, Writers

(* Every step keeps the account of who writes.                             *)
LEMMA WritersPreserved ==
    ASSUME TypeOK, WritersInv, JobsInv, [Next]_vars
    PROVE  WritersInv'
<1> USE DEF jobVars, saveVars, history, troubles
<1>1. ASSUME NEW w \in Writers, Open(w) \/ Write(w)
      PROVE  WritersInv'
  BY <1>1, RunAssumption DEF Open, Write, Goto, TypeOK, WritersInv, Saving, Writers
<1>2. ASSUME NEW w \in Writers, WriteFails(w) \/ Replace(w) \/ ReplaceFails(w)
      PROVE  WritersInv'
  <2>1. /\ pc[w] \in Saving /\ running' = running
        /\ Afterwards(w, FALSE) \/ Afterwards(w, TRUE)
    BY <1>2 DEF WriteFails, Replace, ReplaceFails, Saving
  <2> QED
    BY <2>1, AfterwardsWriters
<1>3. ASSUME NEW r \in Runs, NEW new \in Runs, CreateRun(r) \/ Retry(r, new)
      PROVE  WritersInv'
  BY <1>3, WritersRest DEF CreateRun, Retry, SameWriters
<1>4. ASSUME NEW r \in Runs, NEW j \in Jobs, Execute(j, r)
      PROVE  WritersInv'
  BY <1>4, RunAssumption DEF Execute, Goto, TypeOK, WritersInv, Writers
<1>5. ASSUME NEW r \in Runs, NEW t \in Threads, CancelRead(t, r)
      PROVE  WritersInv'
  <2>1. LET d == [disk[r] EXCEPT !.cancel = TRUE,
                                 !.status = IF @ = "queued" THEN "cancelled" ELSE @]
        IN  d.status \in Stages \cup {"cancelled"}
    BY <1>5, CancelRecord DEF CancelRead, TypeOK
  <2> QED
    BY <1>5, <2>1, RunAssumption DEF CancelRead, Save, Goto, TypeOK, WritersInv, Saving, Writers
<1>6. ASSUME NEW j \in Jobs, BeginJob(j)
      PROVE  WritersInv'
  BY <1>6, RunAssumption DEF BeginJob, TypeOK, WritersInv, Writers
<1>7. ASSUME NEW j \in Jobs, Report(j)
      PROVE  WritersInv'
  <2>1. CASE Afterwards(j, FALSE)
    BY <1>7, <2>1, AfterwardsWriters DEF Report, Writers
  <2>2. CASE pc' = [pc EXCEPT ![j] = "open"] /\ UNCHANGED <<target, history>>
             /\ Save(j, "progress", [mem[j] EXCEPT !.cancel = @ \/ disk[target[j]].cancel])
    BY <1>7, <2>2, RunAssumption DEF Report, Save, TypeOK, WritersInv, Writers
  <2> QED
    BY <1>7, <2>1, <2>2 DEF Report
<1>8. ASSUME NEW j \in Jobs, StepLimit(j) \/ ObserveCancel(j) \/ StartStep(j) \/ Complete(j)
      PROVE  WritersInv'
  <2>1. JobMoves(j)
    BY <1>8 DEF StepLimit, ObserveCancel, StartStep, Complete, StepAhead, PipelineDone, Move,
                JobMoves, PC
  <2> QED
    BY <2>1, JobMovesWriters
<1>9. ASSUME NEW j \in Jobs, RunTool(j)
      PROVE  WritersInv'
  <2>1. JobMoves(j)
    BY <1>9 DEF RunTool, JobMoves, PC
  <2> QED
    BY <2>1, JobMovesWriters
<1>10. ASSUME NEW j \in Jobs, JobDone(j)
       PROVE  WritersInv'
  BY <1>10, RunAssumption DEF JobDone, Goto, TypeOK, WritersInv, Writers
<1>11. CASE Crash
  BY <1>11 DEF Crash, WritersInv, Writers
<1>12. CASE UNCHANGED vars
  BY <1>12, WritersRest DEF vars, SameWriters
<1> QED
  BY <1>1, <1>2, <1>3, <1>4, <1>5, <1>6, <1>7, <1>8, <1>9, <1>10, <1>11, <1>12
     DEF Next, Request, JobStep, SaveStep, Writers
-----------------------------------------------------------------------------
(* Every copy of a record is truthful.  What was true of a run stays true: *)
(* requests are not forgotten and steps are not undone.                    *)

(* What was asked, answered and executed stays so, or a retry starts anew. *)
LEMMA HistoryGrows ==
    ASSUME TypeOK, WritersInv, JobsInv, [Next]_vars, NEW r \in Runs
    PROVE  /\ asked[r] => asked'[r]
           /\ \A k \in Steps : ran[r][k] > 0 => ran'[r][k] > 0
<1> USE DEF history
<1>1. ASSUME NEW j \in Jobs, RunTool(j)
      PROVE  \A k \in Steps : ran[r][k] > 0 => ran'[r][k] > 0
  <2>1. target[j] \in Runs /\ mem[j].step \in Steps
    BY <1>1, BusyHasRun DEF RunTool, Writers, JobsInv, JobInv, Started, Progressed
  <2> QED
    BY <1>1, <2>1 DEF RunTool, TypeOK
<1>2. ASSUME NEW j \in Jobs, RunTool(j)
      PROVE  asked' = asked
  BY <1>2 DEF RunTool
<1>3. ASSUME NEW q \in Runs, NEW t \in Threads, CancelRead(t, q)
      PROVE  ran' = ran /\ (asked[r] => asked'[r])
  BY <1>3 DEF CancelRead, TypeOK
<1>4. ASSUME NEW w \in Writers, SaveStep(w) \/ (w \in Jobs /\ Report(w))
      PROVE  asked' = asked /\ ran' = ran
  BY <1>4 DEF SaveStep, Open, Write, WriteFails, Replace, ReplaceFails, Report, Afterwards
<1>5. ASSUME NEW j \in Jobs,
             BeginJob(j) \/ StepLimit(j) \/ ObserveCancel(j) \/ StartStep(j) \/ Complete(j) \/ JobDone(j)
      PROVE  asked' = asked /\ ran' = ran
  BY <1>5 DEF BeginJob, StepLimit, ObserveCancel, StartStep, Complete, JobDone, Move
<1>6. ASSUME NEW q \in Runs, NEW j \in Jobs, Execute(j, q)
      PROVE  asked' = asked /\ ran' = ran
  BY <1>6 DEF Execute
<1>7. ASSUME NEW q \in Runs, NEW new \in Runs, CreateRun(q) \/ Retry(q, new) \/ Crash
      PROVE  asked' = asked /\ ran' = ran
  BY <1>7 DEF CreateRun, Retry, Crash
<1>8. CASE UNCHANGED vars
  BY <1>8 DEF vars
<1> QED
  BY <1>1, <1>2, <1>3, <1>4, <1>5, <1>6, <1>7, <1>8 DEF Next, Request, JobStep, Writers

(* A truthful record stays truthful while the history grows.               *)
LEMMA TruthStays ==
    ASSUME NEW copy, NEW a, NEW b, NEW n, NEW m, Truthful(copy, a, n),
           a => b, \A k \in Steps : n[k] > 0 => m[k] > 0
    PROVE  Truthful(copy, b, m)
  BY DEF Truthful

(* A new record, which claims nothing, is truthful.                        *)
LEMMA BareCopiesTruthful ==
    ASSUME NEW a, NEW n
    PROVE  /\ Truthful(Absent, a, n) /\ Truthful(Blank, a, n) /\ Truthful(Garbled, a, n)
           /\ \A count : Truthful(Queued(count), a, n)
  BY DEF Truthful, Absent, Blank, Garbled, Unreadable, Queued

\* The files, what the writers save and what the jobs remember are truthful
\* about the histories to come.
LEMMA CopiesStay ==
    ASSUME TypeOK, WritersInv, JobsInv, CopiesInv, [Next]_vars
    PROVE  /\ \A r \in Runs : /\ Truthful(disk[r], asked'[r], ran'[r])
                              /\ Truthful(tmp[r], asked'[r], ran'[r])
           /\ \A w \in Writers : pc[w] \in Saving =>
                  /\ Truthful(out[w], asked'[target[w]], ran'[target[w]])
                  /\ Readable(out[w])
           /\ \A j \in Jobs : Started(j) =>
                  Truthful(mem[j], asked'[target[j]], ran'[target[j]])
<1>1. ASSUME NEW r \in Runs
      PROVE  /\ asked[r] => asked'[r]
             /\ \A k \in Steps : ran[r][k] > 0 => ran'[r][k] > 0
  BY HistoryGrows
<1>2. \A w \in Writers : pc[w] \in Saving => target[w] \in Runs
  BY BusyHasRun DEF Saving
<1>3. \A j \in Jobs : Started(j) => target[j] \in Runs
  BY BusyHasRun DEF Started, Saving, Writers
<1> QED
  BY <1>1, <1>2, <1>3, TruthStays DEF CopiesInv, TruthfulOf

\* The same of what a step leaves behind.
CopiesLeft ==
    /\ \A r \in Runs : Truthful(disk'[r], asked'[r], ran'[r]) /\ Truthful(tmp'[r], asked'[r], ran'[r])
    /\ \A w \in Writers : pc'[w] \in Saving =>
           Truthful(out'[w], asked'[target'[w]], ran'[target'[w]]) /\ Readable(out'[w])
    /\ \A j \in Jobs : pc'[j] \in {"report", "next", "tool"} \cup Saving =>
           Truthful(mem'[j], asked'[target'[j]], ran'[target'[j]])

(* Copies that are left alone stay truthful.                               *)
LEMMA CopiesNext == CopiesLeft => CopiesInv'
  BY DEF CopiesLeft, CopiesInv, TruthfulOf, Started, Readable

(* What follows a save leaves truthful copies.                             *)
LEMMA AfterwardsCopies ==
    ASSUME TypeOK, WritersInv, JobsInv, CopiesInv, [Next]_vars,
           NEW w \in Writers, pc[w] \in {"report"} \cup Saving,
           NEW saved \in BOOLEAN, Afterwards(w, saved), mem' = mem
    PROVE  /\ \A x \in Writers : pc'[x] \in Saving =>
                  Truthful(out'[x], asked'[target'[x]], ran'[target'[x]]) /\ Readable(out'[x])
           /\ \A j \in Jobs : pc'[j] \in {"report", "next", "tool"} \cup Saving =>
                  Truthful(mem'[j], asked'[target'[j]], ran'[target'[j]])
<1> USE DEF TypeOK, Saving, Started, Writers
<1>1. CASE GoesOnToResult(w)
  <2>1. LET d == [mem[w] EXCEPT !.report = artifacts[w]]
        IN  /\ d.report = artifacts[w]
            /\ d.status = mem[w].status /\ d.step = mem[w].step /\ d.cancel = mem[w].cancel
    BY <1>1, WithReport DEF GoesOnToResult
  <2>2. artifacts[w] => mem[w].status = "completed"
    BY <1>1 DEF GoesOnToResult, JobsInv, JobInv, Progressed, SavesOwn
  <2>3. Truthful(mem[w], asked'[target[w]], ran'[target[w]])
    BY <1>1, CopiesStay DEF GoesOnToResult
  <2>4. LET d == [mem[w] EXCEPT !.report = artifacts[w]]
        IN  Truthful(d, asked'[target[w]], ran'[target[w]]) /\ Readable(d)
    BY <1>1, <2>1, <2>2, <2>3, StatusFacts DEF GoesOnToResult, Truthful, Readable
  <2> QED
    BY <1>1, <2>4, CopiesStay DEF GoesOnToResult
<1>2. CASE GoesOn(w)
  BY <1>2, CopiesStay DEF GoesOn
<1>3. CASE Ends(w)
  BY <1>3, CopiesStay DEF Ends
<1>4. CASE Answers(w)
  BY <1>4, CopiesStay, RunAssumption DEF Answers
<1> QED
  BY <1>1, <1>2, <1>3, <1>4, AfterwardsCases

(* A move of a job leaves truthful copies.                                 *)
LEMMA MoveCopies ==
    ASSUME TypeOK, WritersInv, JobsInv, CopiesInv, [Next]_vars,
           NEW j \in Jobs, pc[j] \in {"next", "tool"}, NEW state, Move(j, state),
           Truthful(state, asked'[target[j]], ran'[target[j]])
    PROVE  CopiesLeft
  BY CopiesStay DEF Move, CopiesLeft, TypeOK, Started, Saving, Writers, saveVars

(* Every step keeps every copy of a record truthful.                       *)
LEMMA CopiesPreserved ==
    ASSUME TypeOK, WritersInv, JobsInv, CopiesInv, UnseenInv, QuietInv, [Next]_vars
    PROVE  CopiesInv'
<1> SUFFICES CopiesLeft
  BY CopiesNext
<1> USE CopiesStay, BareCopiesTruthful, RunAssumption DEF CopiesLeft, jobVars, saveVars, history, troubles
<1>1. ASSUME NEW w \in Writers, Open(w)
      PROVE  CopiesLeft
  BY <1>1 DEF Open, Goto, TypeOK, Started, Saving, Writers
<1>2. ASSUME NEW w \in Writers, Write(w)
      PROVE  CopiesLeft
  <2>1. PICK new \in {out[w], Garbled} :
               \/ tmp' = [tmp EXCEPT ![target[w]] = new] /\ disk' = disk
               \/ disk' = [disk EXCEPT ![target[w]] = new] /\ tmp' = tmp
               \/ disk' = disk /\ tmp' = tmp
    BY <1>2, WriteCases
  <2>2. Truthful(new, asked'[target[w]], ran'[target[w]])
    BY <1>2 DEF Write, Goto, Saving
  <2>3. \A r \in Runs : Truthful(disk'[r], asked'[r], ran'[r]) /\ Truthful(tmp'[r], asked'[r], ran'[r])
    BY <2>1, <2>2 DEF TypeOK
  <2> QED
    BY <1>2, <2>3 DEF Write, Goto, TypeOK, Started, Saving, Writers
<1>3. ASSUME NEW w \in Writers, WriteFails(w) \/ Replace(w) \/ ReplaceFails(w)
      PROVE  CopiesLeft
  <2>1. /\ pc[w] \in Saving /\ mem' = mem
        /\ Afterwards(w, FALSE) \/ Afterwards(w, TRUE)
    BY <1>3 DEF WriteFails, Replace, ReplaceFails, Saving
  <2>2. \A r \in Runs : Truthful(disk'[r], asked'[r], ran'[r]) /\ Truthful(tmp'[r], asked'[r], ran'[r])
    <3>1. CASE Replace(w)
      <4>1. /\ disk' = [disk EXCEPT ![target[w]] = tmp[target[w]]]
            /\ tmp' = [tmp EXCEPT ![target[w]] = Absent]
        BY <3>1 DEF Replace
      <4> QED
        BY <4>1 DEF TypeOK
    <3>2. CASE WriteFails(w) \/ ReplaceFails(w)
      BY <3>2 DEF WriteFails, ReplaceFails
    <3> QED
      BY <1>3, <3>1, <3>2
  <2> QED
    BY <2>1, <2>2, AfterwardsCopies
<1>4. ASSUME NEW r \in Runs, NEW n, disk' = [disk EXCEPT ![r] = Queued(n)],
             UNCHANGED <<tmp, running, pc, target, jobVars, saveVars, history, troubles>>
      PROVE  CopiesLeft
  BY <1>4 DEF TypeOK, Started, Saving, Writers
<1>5. ASSUME NEW r \in Runs, NEW j \in Jobs, Execute(j, r)
      PROVE  CopiesLeft
  BY <1>5 DEF Execute, Goto, TypeOK, Started, Saving, Writers
<1>6. ASSUME NEW r \in Runs, NEW t \in Threads, CancelRead(t, r)
      PROVE  CopiesLeft
  <2> DEFINE d == [disk[r] EXCEPT !.cancel = TRUE,
                                  !.status = IF @ = "queued" THEN "cancelled" ELSE @]
  <2>1. /\ d.cancel /\ d.status \in Stages \cup {"cancelled"} /\ d.report = disk[r].report
    BY <1>6, CancelRecord DEF CancelRead, TypeOK
  <2>2. asked'[r] /\ disk[r].status # "completed"
    BY <1>6, StatusFacts DEF CancelRead, TypeOK, Terminal
  <2>3. "completed" \notin Stages /\ "queued" \notin Stages /\ {"cancelled"} \cup Stages \subseteq Statuses
    BY StatusFacts DEF Terminal
  <2>4. Truthful(d, asked'[r], ran'[r]) /\ Readable(d)
    BY <2>1, <2>2, <2>3 DEF Truthful, Readable
  <2>5. /\ pc' = [pc EXCEPT ![t] = "open"] /\ out' = [out EXCEPT ![t] = d]
        /\ target' = [target EXCEPT ![t] = r] /\ disk' = disk /\ tmp' = tmp /\ mem' = mem
        /\ pc[t] = "idle"
    BY <1>6 DEF CancelRead, Save, Goto
  <2> HIDE DEF d
  <2> QED
    BY <2>4, <2>5 DEF TypeOK, Started, Saving, Writers
<1>7. ASSUME NEW j \in Jobs, BeginJob(j)
      PROVE  CopiesLeft
  <2>1. target[j] \in Runs
    BY <1>7, BusyHasRun DEF BeginJob, Writers
  <2> QED
    BY <1>7, <2>1 DEF BeginJob, TypeOK, Started, Saving, Writers
<1>8. ASSUME NEW j \in Jobs, Report(j)
      PROVE  CopiesLeft
  <2>1. CASE Afterwards(j, FALSE)
    BY <1>8, <2>1, AfterwardsCopies DEF Report, Writers
  <2>2. CASE pc' = [pc EXCEPT ![j] = "open"] /\ UNCHANGED <<target, history>>
             /\ Save(j, "progress", [mem[j] EXCEPT !.cancel = @ \/ disk[target[j]].cancel])
    <3> DEFINE b == mem[j].cancel \/ disk[target[j]].cancel
               d == [mem[j] EXCEPT !.cancel = b]
    <3>1. target[j] \in Runs
      BY <1>8, BusyHasRun DEF Report, Writers
    <3>2. b \in BOOLEAN /\ mem[j] \in Content
      BY <3>1 DEF TypeOK, Content
    <3>3. d.cancel = b /\ d.status = mem[j].status /\ d.step = mem[j].step /\ d.report = mem[j].report
      BY <3>2, WithCancel
    <3>4. /\ Truthful(mem[j], asked'[target[j]], ran'[target[j]])
          /\ Truthful(disk[target[j]], asked'[target[j]], ran'[target[j]])
      BY <1>8, <3>1 DEF Report, Started
    <3>5. Readable(mem[j])
      BY <1>8 DEF Report, JobsInv, JobInv, Started, Progressed
    <3>6. Truthful(d, asked'[target[j]], ran'[target[j]]) /\ Readable(d)
      BY <3>3, <3>4, <3>5 DEF Truthful, Readable
    <3>7. out' = [out EXCEPT ![j] = d] /\ mem' = mem /\ disk' = disk /\ tmp' = tmp /\ target' = target
      BY <1>8, <2>2 DEF Report, Save
    <3> HIDE DEF d
    <3> QED
      BY <1>8, <2>2, <3>6, <3>7 DEF Report, TypeOK, Started, Saving, Writers
  <2> QED
    BY <1>8, <2>1, <2>2 DEF Report
<1>9. ASSUME NEW j \in Jobs, StepLimit(j) \/ ObserveCancel(j) \/ StartStep(j) \/ Complete(j)
      PROVE  CopiesLeft
  <2>1. pc[j] = "next" /\ asked' = asked /\ ran' = ran
    BY <1>9, MoveCases DEF StepLimit, ObserveCancel, StartStep, Complete, StepAhead, PipelineDone, Move
  <2>2. /\ Truthful(mem[j], asked[target[j]], ran[target[j]])
        /\ Progressed(j) /\ target[j] \in Runs
    BY <2>1, BusyHasRun DEF Started, JobsInv, JobInv, CopiesInv, TruthfulOf, Writers
  <2>3. PICK state \in Content :
               /\ Move(j, state) /\ state.report = mem[j].report
               /\ \/ /\ state.status = "failed" /\ state.cancel = mem[j].cancel
                  \/ /\ state.status = "cancelled" /\ CancelRequested(j)
                  \/ /\ state.step \in Steps
                     /\ state.status = Pipeline[state.step] /\ state.cancel = mem[j].cancel
                  \/ /\ state.status = "completed" /\ mem[j].step = 5 /\ state.cancel = mem[j].cancel
    BY <1>9, MoveCases
  <2>4. mem[j].step = 5 => \A k \in Steps : ran[target[j]][k] > 0
    BY <2>1, <2>2, PipelineFacts DEF Progressed
  <2>5. mem[j].report => mem[j].status = "completed"
    BY <2>2 DEF Truthful
  <2>6. mem[j].status \in {"queued"} \cup Stages
    BY <2>1, <2>2 DEF Progressed
  <2>7. CancelRequested(j) => asked[target[j]]
    <3>1. disk[target[j]] # Absent
      BY <2>2 DEF UnseenInv, Writers
    <3>2. ~asked[target[j]] => Readable(disk[target[j]])
      BY <2>2, <3>1 DEF QuietInv
    <3> QED
      BY <2>2, <3>2 DEF CancelRequested, Truthful, CopiesInv, TruthfulOf
  <2>8. Truthful(state, asked[target[j]], ran[target[j]])
    BY <2>2, <2>3, <2>4, <2>5, <2>6, <2>7, StatusFacts, PipelineFacts DEF Truthful, Terminal
  <2> QED
    BY <2>1, <2>3, <2>8, MoveCopies
<1>10. ASSUME NEW j \in Jobs, RunTool(j)
       PROVE  CopiesLeft
  <2>1. /\ mem' = mem \/ mem' = [mem EXCEPT ![j].status = "failed"]
        /\ pc' = [pc EXCEPT ![j] = "next"] \/ pc' = [pc EXCEPT ![j] = "report"]
        /\ disk' = disk /\ tmp' = tmp /\ out' = out /\ target' = target
        /\ pc[j] = "tool"
    BY <1>10 DEF RunTool
  <2>2. LET d == [mem[j] EXCEPT !.status = "failed"]
        IN d.status = "failed" /\ d.step = mem[j].step /\ d.cancel = mem[j].cancel /\ d.report = mem[j].report
    BY WithStatus, StatusFacts DEF TypeOK, Terminal
  <2>3. Truthful(mem[j], asked'[target[j]], ran'[target[j]])
    BY <2>1 DEF Started
  <2>4. ~mem[j].report
    BY <2>1, StatusFacts DEF JobsInv, JobInv, Started, Progressed, CopiesInv, TruthfulOf, Truthful, Terminal
  <2>5. Truthful([mem[j] EXCEPT !.status = "failed"], asked'[target[j]], ran'[target[j]])
    BY <2>2, <2>3, <2>4 DEF Truthful
  <2>6. mem'[j] = mem[j] \/ mem'[j] = [mem[j] EXCEPT !.status = "failed"]
    BY <2>1 DEF TypeOK
  <2>7. \A i \in Jobs \ {j} : mem'[i] = mem[i]
    BY <2>1 DEF TypeOK
  <2> QED
    BY <2>1, <2>3, <2>5, <2>6, <2>7 DEF TypeOK, Started, Saving, Writers
<1>11. ASSUME NEW j \in Jobs, JobDone(j)
       PROVE  CopiesLeft
  BY <1>11 DEF JobDone, Goto, TypeOK, Started, Saving, Writers
<1>12. CASE Crash
  BY <1>12 DEF Crash, Saving, Writers
<1>13. CASE UNCHANGED vars
  BY <1>13 DEF vars, Started
<1>14. ASSUME NEW r \in Runs, NEW new \in Runs, CreateRun(r) \/ Retry(r, new)
       PROVE  CopiesLeft
  BY <1>4, <1>14 DEF CreateRun, Retry
<1> QED
  BY <1>1, <1>2, <1>3, <1>5, <1>6, <1>7, <1>8, <1>9, <1>10, <1>11, <1>12, <1>13, <1>14
     DEF Next, Request, JobStep, SaveStep, Writers
-----------------------------------------------------------------------------
(* A run that was not created yet is untouched, and created once.          *)

(* A run that was not created stays without a trace.                       *)
LEMMA UnseenStays ==
    ASSUME TypeOK, UnseenInv,
           \A r \in Runs : disk'[r] = Absent =>
               /\ disk[r] = Absent /\ tmp'[r] = tmp[r] /\ asked'[r] = asked[r] /\ ran'[r] = ran[r]
               /\ \A w \in Writers : target'[w] = r => target[w] = r
    PROVE  UnseenInv'
  BY DEF UnseenInv

(* Every step leaves no trace of a run that was not created.               *)
LEMMA UnseenPreserved ==
    ASSUME TypeOK, WritersInv, CopiesInv, UnseenInv, JobsInv, [Next]_vars
    PROVE  UnseenInv'
<1> USE ContentFacts, RunAssumption DEF jobVars, saveVars, history, troubles
<1>1. ASSUME NEW w \in Writers, Open(w)
      PROVE  UnseenInv'
  <2>1. target[w] \in Runs /\ disk[target[w]] # Absent
    BY <1>1, BusyHasRun DEF Open, Goto, UnseenInv
  <2> QED
    BY <1>1, <2>1, UnseenStays DEF Open, TypeOK
<1>2. ASSUME NEW w \in Writers, Write(w)
      PROVE  UnseenInv'
  <2>1. target[w] \in Runs /\ disk[target[w]] # Absent
    BY <1>2, BusyHasRun DEF Write, Goto, UnseenInv
  <2>2. PICK new \in {out[w], Garbled} :
               \/ tmp' = [tmp EXCEPT ![target[w]] = new] /\ disk' = disk
               \/ disk' = [disk EXCEPT ![target[w]] = new] /\ tmp' = tmp
               \/ disk' = disk /\ tmp' = tmp
    BY <1>2, WriteCases
  <2>3. new # Absent
    BY <1>2 DEF Write, Goto, Saving, CopiesInv
  <2>4. disk'[target[w]] # Absent /\ \A r \in Runs \ {target[w]} : disk'[r] = disk[r] /\ tmp'[r] = tmp[r]
    BY <2>1, <2>2, <2>3 DEF TypeOK
  <2> QED
    BY <1>2, <2>4, UnseenStays DEF Write
<1>3. ASSUME NEW w \in Writers, pc[w] \in {"report"} \cup Saving,
             Afterwards(w, FALSE) \/ Afterwards(w, TRUE),
             \A r \in Runs : disk'[r] = Absent => disk[r] = Absent /\ tmp'[r] = tmp[r]
      PROVE  UnseenInv'
  <2>1. asked' = asked /\ ran' = ran
    BY <1>3, AfterwardsCases
  <2>2. target' = target \/ target' = [target EXCEPT ![w] = NoRun]
    BY <1>3, AfterwardsCases DEF GoesOnToResult, GoesOn, Ends, Answers
  <2> QED
    BY <1>3, <2>1, <2>2, UnseenStays DEF TypeOK
<1>4. ASSUME NEW w \in Writers, WriteFails(w) \/ ReplaceFails(w)
      PROVE  UnseenInv'
  BY <1>3, <1>4 DEF WriteFails, ReplaceFails, Saving
<1>5. ASSUME NEW w \in Writers, Replace(w)
      PROVE  UnseenInv'
  <2>1. /\ target[w] \in Runs /\ tmp[target[w]] # Absent /\ pc[w] \in Saving /\ Afterwards(w, TRUE)
        /\ disk' = [disk EXCEPT ![target[w]] = tmp[target[w]]]
        /\ tmp' = [tmp EXCEPT ![target[w]] = Absent]
    BY <1>5, BusyHasRun DEF Replace, Saving
  <2>2. \A r \in Runs : disk'[r] = Absent => disk[r] = Absent /\ tmp'[r] = tmp[r]
    BY <2>1 DEF TypeOK
  <2> QED
    BY <1>3, <2>1, <2>2
<1>6. ASSUME NEW r \in Runs, NEW n \in 0..MaxRetries, disk' = [disk EXCEPT ![r] = Queued(n)],
             UNCHANGED <<tmp, target, asked, ran>>
      PROVE  UnseenInv'
  BY <1>6, UnseenStays DEF TypeOK
<1>7. ASSUME NEW r \in Runs, CreateRun(r)
      PROVE  UnseenInv'
  <2>1. disk' = [disk EXCEPT ![r] = Queued(0)] /\ UNCHANGED <<tmp, target, asked, ran>>
    BY <1>7 DEF CreateRun
  <2>2. 0 \in 0..MaxRetries
    OBVIOUS
  <2> QED
    BY <1>6, <2>1, <2>2
<1>8. ASSUME NEW r \in Runs, NEW new \in Runs, Retry(r, new)
      PROVE  UnseenInv'
  <2>1. disk[r].retry \in 0..MaxRetries
    BY DEF TypeOK, Content
  <2>2. disk[r].retry + 1 \in 0..MaxRetries
    BY <1>8, <2>1 DEF Retry
  <2>3. disk' = [disk EXCEPT ![new] = Queued(disk[r].retry + 1)] /\ UNCHANGED <<tmp, target, asked, ran>>
    BY <1>8 DEF Retry
  <2> QED
    BY <1>6, <2>2, <2>3
<1>9. ASSUME NEW r \in Runs, NEW j \in Jobs, Execute(j, r)
      PROVE  UnseenInv'
  <2>1. disk[r] # Absent
    BY <1>9 DEF Execute, Absent, Unreadable
  <2> QED
    BY <1>9, <2>1, UnseenStays DEF Execute, TypeOK
<1>10. ASSUME NEW r \in Runs, NEW t \in Threads, CancelRead(t, r)
       PROVE  UnseenInv'
  <2>1. disk[r] # Absent
    BY <1>10, StatusFacts DEF CancelRead, Readable
  <2> QED
    BY <1>10, <2>1, UnseenStays DEF CancelRead, TypeOK
<1>11. ASSUME NEW j \in Jobs, Report(j)
       PROVE  UnseenInv'
  <2>1. CASE Afterwards(j, FALSE)
    BY <1>3, <1>11, <2>1 DEF Report, Writers
  <2>2. CASE UNCHANGED <<target, history>>
    <3>1. UNCHANGED <<disk, tmp, target, asked, ran>>
      BY <1>11, <2>2 DEF Report
    <3> QED
      BY <3>1, UnseenStays
  <2> QED
    BY <1>11, <2>1, <2>2 DEF Report
<1>12. ASSUME NEW j \in Jobs,
              BeginJob(j) \/ StepLimit(j) \/ ObserveCancel(j) \/ StartStep(j) \/ Complete(j)
       PROVE  UnseenInv'
  <2>1. UNCHANGED <<disk, tmp, target, asked, ran>>
    BY <1>12 DEF BeginJob, StepLimit, ObserveCancel, StartStep, Complete, Move
  <2> QED
    BY <2>1, UnseenStays
<1>13. ASSUME NEW j \in Jobs, RunTool(j)
       PROVE  UnseenInv'
  <2>1. target[j] \in Runs /\ disk[target[j]] # Absent
    BY <1>13, BusyHasRun DEF RunTool, UnseenInv, Writers
  <2>2. UNCHANGED <<disk, tmp, target, asked>> /\ \A r \in Runs \ {target[j]} : ran'[r] = ran[r]
    BY <1>13 DEF RunTool, TypeOK
  <2> QED
    BY <2>1, <2>2, UnseenStays
<1>14. ASSUME NEW j \in Jobs, JobDone(j)
       PROVE  UnseenInv'
  BY <1>14, UnseenStays DEF JobDone, TypeOK, Writers
<1>15. CASE Crash
  BY <1>15, UnseenStays DEF Crash
<1>16. CASE UNCHANGED vars
  BY <1>16, UnseenStays DEF vars
<1> QED
  BY <1>1, <1>2, <1>4, <1>5, <1>7, <1>8, <1>9, <1>10, <1>11, <1>12, <1>13, <1>14, <1>15, <1>16
     DEF Next, Request, JobStep, SaveStep, Writers
-----------------------------------------------------------------------------
(* How far the jobs have come.                                             *)

\* A job that a step does not touch, and whatever happens to the histories.
LEMMA JobRests ==
    ASSUME TypeOK, WritersInv, JobsInv, [Next]_vars, NEW i \in Jobs,
           pc'[i] = pc[i], target'[i] = target[i], mem'[i] = mem[i],
           artifacts'[i] = artifacts[i], phase'[i] = phase[i], out'[i] = out[i]
    PROVE  JobInv(i)'
<1>1. JobInv(i)
  BY DEF JobsInv
<1>2. Started(i) => \A k \in Steps : ran[target[i]][k] > 0 => ran'[target[i]][k] > 0
  BY BusyHasRun, HistoryGrows DEF Started, Saving, Writers
<1>3. Started(i)' => Progressed(i)'
  BY <1>1, <1>2 DEF JobInv, Started, Progressed, Readable
<1> QED
  BY <1>1, <1>3 DEF JobInv, SavesOwn

(* What follows a save keeps a job and its run together.                   *)
LEMMA AfterwardsJobs ==
    ASSUME TypeOK, WritersInv, JobsInv, [Next]_vars, NEW w \in Writers,
           pc[w] \in {"report"} \cup Saving, NEW saved \in BOOLEAN, Afterwards(w, saved),
           UNCHANGED <<mem, artifacts>>
    PROVE  JobsInv'
<1>1. asked' = asked /\ ran' = ran
  BY AfterwardsCases
<1>2. ASSUME NEW i \in Jobs, i # w
      PROVE  JobInv(i)'
  <2>1. pc'[i] = pc[i] /\ target'[i] = target[i] /\ phase'[i] = phase[i] /\ out'[i] = out[i]
    <3>1. CASE GoesOnToResult(w)
      BY <1>2, <3>1 DEF GoesOnToResult, TypeOK, Writers
    <3>2. CASE GoesOn(w) \/ Ends(w)
      BY <1>2, <3>2 DEF GoesOn, Ends, TypeOK, Writers
    <3>3. CASE Answers(w)
      BY <1>2, <3>3 DEF Answers, TypeOK, Writers
    <3> QED
      BY <3>1, <3>2, <3>3, AfterwardsCases
  <2> QED
    BY <2>1, JobRests
<1>3. ASSUME w \in Jobs
      PROVE  JobInv(w)'
  <2>1. Progressed(w) /\ target[w] \in Runs /\ mem[w] \in Content
    BY <1>3, BusyHasRun DEF JobsInv, JobInv, Started, Saving, TypeOK
  <2>2. CASE GoesOnToResult(w)
    <3>1. pc'[w] = "open" /\ phase'[w] = "result" /\ target'[w] = target[w]
      BY <2>2 DEF GoesOnToResult, TypeOK
    <3>2. Progressed(w)'
      BY <1>1, <2>1, <2>2, <3>1, StatusFacts DEF Progressed, Readable, GoesOnToResult, Saving
    <3>3. SavesOwn(w)'
      BY <2>2, <3>1 DEF SavesOwn, GoesOnToResult, TypeOK
    <3> QED
      BY <3>1, <3>2, <3>3 DEF JobInv, Started, Saving
  <2>3. CASE GoesOn(w)
    <3>1. /\ pc'[w] = IF mem[w].status = "queued" THEN "next" ELSE "tool"
          /\ phase'[w] = "progress" /\ target'[w] = target[w]
      BY <2>3 DEF GoesOn, TypeOK
    <3>2. mem[w].status = "queued" \/ mem[w].status \in Stages
      BY <2>1, <2>3, StatusFacts DEF Progressed, Readable, GoesOn
    <3>3. mem[w].status = "queued" => \A k \in Steps : ~(k <= mem[w].step)
      BY <2>1, PipelineFacts DEF Progressed
    <3>4. ~artifacts[w]
      BY <2>1, <2>3, StatusFacts DEF Progressed, GoesOn, Saving, Terminal
    <3>5. Progressed(w)'
      BY <1>1, <2>1, <3>1, <3>2, <3>3, <3>4, StatusFacts DEF Progressed, Readable
    <3> QED
      BY <3>1, <3>5 DEF JobInv, Saving
  <2>4. CASE Ends(w)
    BY <1>3, <2>4 DEF Ends, JobInv, Started, Saving, TypeOK
  <2>5. CASE Answers(w)
    BY <1>3, <2>5, RunAssumption DEF Answers
  <2> QED
    BY <2>2, <2>3, <2>4, <2>5, AfterwardsCases
<1> QED
  BY <1>2, <1>3 DEF JobsInv

(* Every step keeps a job's memory in line with what it executed.          *)
LEMMA JobsPreserved ==
    ASSUME TypeOK, WritersInv, CopiesInv, JobsInv, [Next]_vars
    PROVE  JobsInv'
<1> USE RunAssumption DEF jobVars, saveVars, history, troubles
<1>1. ASSUME NEW w \in Writers, Open(w) \/ Write(w)
      PROVE  JobsInv'
  <2>1. /\ pc[w] \in Saving /\ UNCHANGED <<target, mem, artifacts, phase, out, ran>>
        /\ \E place \in Saving : pc' = [pc EXCEPT ![w] = place]
    BY <1>1 DEF Open, Write, Goto, Saving
  <2>2. ASSUME NEW i \in Jobs, i # w
        PROVE  JobInv(i)'
    <3>1. pc'[i] = pc[i]
      BY <2>1, <2>2 DEF TypeOK
    <3> QED
      BY <2>1, <3>1, JobRests
  <2>3. ASSUME w \in Jobs
        PROVE  JobInv(w)'
    <3>1. pc'[w] \in Saving
      BY <2>1, <2>3 DEF TypeOK
    <3>2. Progressed(w) /\ SavesOwn(w)
      BY <2>1, <2>3 DEF JobsInv, JobInv, Started
    <3> QED
      BY <2>1, <3>1, <3>2 DEF JobInv, Started, Progressed, Readable, SavesOwn, Saving
  <2> QED
    BY <2>2, <2>3 DEF JobsInv
<1>2. ASSUME NEW w \in Writers, WriteFails(w) \/ Replace(w) \/ ReplaceFails(w)
      PROVE  JobsInv'
  <2>1. /\ pc[w] \in Saving /\ UNCHANGED <<mem, artifacts>>
        /\ Afterwards(w, FALSE) \/ Afterwards(w, TRUE)
    BY <1>2 DEF WriteFails, Replace, ReplaceFails, Saving
  <2> QED
    BY <2>1, AfterwardsJobs
<1>3. ASSUME UNCHANGED <<pc, target, mem, artifacts, phase, out>>
      PROVE  JobsInv'
  BY <1>3, JobRests DEF JobsInv
<1>4. ASSUME NEW r \in Runs, NEW new \in Runs, CreateRun(r) \/ Retry(r, new)
      PROVE  JobsInv'
  <2>1. UNCHANGED <<pc, target, mem, artifacts, phase, out>>
    BY <1>4 DEF CreateRun, Retry
  <2> QED
    BY <1>3, <2>1
<1>5. ASSUME NEW j \in Jobs, \A i \in Jobs \ {j} : /\ pc'[i] = pc[i] /\ target'[i] = target[i]
                                                   /\ mem'[i] = mem[i] /\ artifacts'[i] = artifacts[i]
                                                   /\ phase'[i] = phase[i] /\ out'[i] = out[i],
             JobInv(j)'
      PROVE  JobsInv'
  BY <1>5, JobRests DEF JobsInv
<1>6. ASSUME NEW r \in Runs, NEW j \in Jobs, Execute(j, r)
      PROVE  JobsInv'
  <2>1. JobInv(j)'
    BY <1>6 DEF Execute, Goto, JobInv, Started, Saving, TypeOK, Writers
  <2> QED
    BY <1>5, <1>6, <2>1 DEF Execute, Goto, TypeOK, Writers
<1>7. ASSUME NEW r \in Runs, NEW t \in Threads, CancelRead(t, r)
      PROVE  JobsInv'
  <2>1. \A i \in Jobs : /\ pc'[i] = pc[i] /\ target'[i] = target[i]
                        /\ mem'[i] = mem[i] /\ artifacts'[i] = artifacts[i]
                        /\ phase'[i] = phase[i] /\ out'[i] = out[i]
    BY <1>7 DEF CancelRead, Save, Goto, TypeOK, Writers
  <2> QED
    BY <2>1, JobRests DEF JobsInv
<1>8. ASSUME NEW j \in Jobs, BeginJob(j)
      PROVE  JobsInv'
  <2>1. target[j] \in Runs
    BY <1>8, BusyHasRun DEF BeginJob, Writers
  <2>2. /\ mem'[j] = disk[target[j]] /\ ~artifacts'[j] /\ phase'[j] = "progress"
        /\ pc'[j] = IF disk[target[j]].status = "queued" THEN "report" ELSE "ended"
        /\ target' = target /\ ran' = ran
    BY <1>8 DEF BeginJob, TypeOK, Writers
  <2>3. disk[target[j]].status = "queued" => disk[target[j]].step = 0
    BY <2>1 DEF CopiesInv, TruthfulOf, Truthful
  <2>4. JobInv(j)'
    BY <2>2, <2>3, PipelineFacts, StatusFacts DEF JobInv, Started, Progressed, Readable, Saving, Terminal
  <2> QED
    BY <1>5, <1>8, <2>4 DEF BeginJob, TypeOK, Writers
<1>9. ASSUME NEW j \in Jobs, Report(j)
      PROVE  JobsInv'
  <2>1. CASE Afterwards(j, FALSE)
    BY <1>9, <2>1, AfterwardsJobs DEF Report, Writers
  <2>2. CASE pc' = [pc EXCEPT ![j] = "open"] /\ UNCHANGED <<target, history>>
             /\ Save(j, "progress", [mem[j] EXCEPT !.cancel = @ \/ disk[target[j]].cancel])
    <3> DEFINE b == mem[j].cancel \/ disk[target[j]].cancel
               d == [mem[j] EXCEPT !.cancel = b]
    <3>1. target[j] \in Runs
      BY <1>9, BusyHasRun DEF Report, Writers
    <3>2. b \in BOOLEAN /\ mem[j] \in Content
      BY <3>1 DEF TypeOK, Content
    <3>3. d.cancel = b
      BY <3>2, WithCancel
    <3>4. /\ out' = [out EXCEPT ![j] = d] /\ phase' = [phase EXCEPT ![j] = "progress"]
          /\ UNCHANGED <<mem, artifacts, target, ran>>
      BY <1>9, <2>2 DEF Report, Save
    <3>5. out'[j] = [mem'[j] EXCEPT !.cancel = out'[j].cancel]
      BY <3>3, <3>4 DEF TypeOK, Writers
    <3>6. pc'[j] = "open" /\ phase'[j] = "progress"
      BY <2>2, <3>4 DEF TypeOK, Writers
    <3> HIDE DEF d
    <3>7. Progressed(j)
      BY <1>9 DEF Report, JobsInv, JobInv, Started
    <3>8. Progressed(j)'
      BY <1>9, <3>4, <3>6, <3>7 DEF Progressed, Readable, Report
    <3>9. JobInv(j)'
      BY <3>5, <3>6, <3>8 DEF JobInv, SavesOwn, Started, Saving
    <3> QED
      BY <1>5, <2>2, <3>4, <3>9 DEF TypeOK, Writers
  <2> QED
    BY <1>9, <2>1, <2>2 DEF Report
<1>10. ASSUME NEW j \in Jobs, StepLimit(j) \/ ObserveCancel(j) \/ StartStep(j) \/ Complete(j)
       PROVE  JobsInv'
  <2>1. PICK state \in Content :
               /\ Move(j, state)
               /\ \/ state.status = "failed" /\ mem[j].step >= MaxSteps /\ mem[j].step < 5
                     /\ state.step = mem[j].step
                  \/ state.status = "cancelled" /\ state.step = mem[j].step /\ mem[j].step < 5
                  \/ /\ state.step = mem[j].step + 1 /\ state.step \in Steps
                     /\ state.status = Pipeline[state.step]
                  \/ state.status = "completed" /\ mem[j].step = 5 /\ state.step = mem[j].step
    BY <1>10, MoveCases
  <2>2. pc[j] = "next"
    BY <1>10, MoveCases
  <2>3. Progressed(j) /\ phase[j] = "progress" /\ mem[j].step \in 0..5
    BY <2>2, PipelineFacts DEF JobsInv, JobInv, Started, TypeOK, Content
  <2>4. /\ pc'[j] = "report" /\ mem'[j] = state /\ phase'[j] = "progress"
        /\ target' = target /\ artifacts' = artifacts /\ ran' = ran
    BY <2>1, <2>3 DEF Move, TypeOK, Writers
  <2>5. /\ \A k \in Steps : k <= mem[j].step => ran[target[j]][k] > 0
        /\ artifacts[j] => mem[j].step = 5
    BY <2>2, <2>3, PipelineFacts DEF Progressed
  <2>6. Progressed(j)'
    <3>1. CASE state.step = mem[j].step + 1 /\ state.step \in Steps /\ state.status = Pipeline[state.step]
      <4>1. state.status \in Stages /\ state.status \notin Terminal /\ state.status # "queued"
            /\ state.status \in Statuses
        BY <3>1, PipelineFacts, StatusFacts
      <4>2. \A k \in Steps : k < state.step => k <= mem[j].step
        BY <2>3, <3>1, PipelineFacts
      <4>3. ~artifacts[j]
        BY <2>3, <2>5, <3>1, PipelineFacts
      <4> QED
        BY <2>4, <2>5, <3>1, <4>1, <4>2, <4>3 DEF Progressed, Readable, Terminal
    <3>2. CASE state.step = mem[j].step /\ state.status \in {"failed", "cancelled"} /\ mem[j].step < 5
               /\ (state.status = "failed" => mem[j].step > 0)
      BY <2>3, <2>4, <2>5, <3>2, PipelineFacts, StatusFacts DEF Progressed, Readable, Terminal
    <3>3. CASE state.status = "completed" /\ mem[j].step = 5 /\ state.step = mem[j].step
      BY <2>3, <2>4, <2>5, <3>3, PipelineFacts, StatusFacts DEF Progressed, Readable, Terminal
    <3> QED
      BY <2>1, <2>3, <3>1, <3>2, <3>3
  <2>7. JobInv(j)'
    BY <2>4, <2>6 DEF JobInv, Saving
  <2> QED
    BY <1>5, <2>1, <2>7 DEF Move, TypeOK, Writers
<1>11. ASSUME NEW j \in Jobs, RunTool(j)
       PROVE  JobsInv'
  <2>1. /\ pc[j] = "tool" /\ target[j] \in Runs /\ mem[j] \in Content
        /\ Progressed(j) /\ phase[j] = "progress" /\ mem[j].step \in Steps
    BY <1>11, BusyHasRun DEF RunTool, JobsInv, JobInv, Started, Progressed, TypeOK, Writers
  <2>2. /\ target' = target /\ phase' = phase
        /\ ran' = [ran EXCEPT ![target[j]][mem[j].step] = @ + 1]
    BY <1>11 DEF RunTool
  <2>3. \A k \in Steps : k <= mem[j].step => ran'[target[j]][k] > 0
    BY <2>1, <2>2, PipelineFacts DEF Progressed, TypeOK
  <2>4. ~artifacts[j]
    BY <2>1, StatusFacts DEF Progressed, Terminal
  <2>5. CASE pc' = [pc EXCEPT ![j] = "next"] /\ mem' = mem
             /\ artifacts' = [artifacts EXCEPT ![j] = mem[j].step = Len(Pipeline)]
    <3>1. pc'[j] = "next" /\ mem' = mem /\ (artifacts'[j] => mem[j].step = Len(Pipeline))
      BY <2>5 DEF TypeOK, Writers
    <3>2. \A k \in Steps : k < mem[j].step => k <= mem[j].step
      BY <2>1, PipelineFacts
    <3>3. mem[j].status \in Stages /\ mem[j].status # "queued" /\ mem[j].status \notin Terminal
      BY <2>1, StatusFacts DEF Progressed
    <3>4. Progressed(j)'
      BY <2>1, <2>2, <2>3, <3>1, <3>2, <3>3 DEF Progressed, Readable, Terminal
    <3>5. JobInv(j)'
      BY <2>1, <2>2, <3>1, <3>4 DEF JobInv, Saving
    <3> QED
      BY <1>5, <1>11, <2>2, <2>5, <3>5 DEF RunTool, TypeOK, Writers
  <2>6. CASE pc' = [pc EXCEPT ![j] = "report"] /\ mem' = [mem EXCEPT ![j].status = "failed"]
             /\ artifacts' = artifacts
    <3> DEFINE d == [mem[j] EXCEPT !.status = "failed"]
    <3>1. d.status = "failed" /\ d.step = mem[j].step
      BY <2>1, WithStatus, StatusFacts DEF Terminal
    <3>2. pc'[j] = "report" /\ mem'[j] = d /\ artifacts'[j] = artifacts[j]
      BY <2>6 DEF TypeOK, Writers
    <3>3. \A i \in Jobs \ {j} : mem'[i] = mem[i]
      BY <2>6 DEF TypeOK
    <3> HIDE DEF d
    <3>4. Progressed(j)'
      BY <2>1, <2>2, <2>3, <2>4, <3>1, <3>2, PipelineFacts, StatusFacts DEF Progressed, Readable, Terminal
    <3>5. JobInv(j)'
      BY <2>1, <2>2, <3>2, <3>4 DEF JobInv, Saving
    <3> QED
      BY <1>5, <1>11, <2>2, <2>6, <3>3, <3>5 DEF RunTool, TypeOK, Writers
  <2> QED
    BY <1>11, <2>5, <2>6 DEF RunTool
<1>12. ASSUME NEW j \in Jobs, JobDone(j)
       PROVE  JobsInv'
  <2>1. JobInv(j)'
    BY <1>12 DEF JobDone, Goto, JobInv, Started, Saving, TypeOK, Writers
  <2> QED
    BY <1>5, <1>12, <2>1 DEF JobDone, Goto, TypeOK, Writers
<1>13. CASE Crash
  BY <1>13 DEF Crash, JobsInv, JobInv, Started, Saving, Writers
<1>14. CASE UNCHANGED vars
  BY <1>3, <1>14 DEF vars
<1> QED
  BY <1>1, <1>2, <1>4, <1>6, <1>7, <1>8, <1>9, <1>10, <1>11, <1>12, <1>13, <1>14
     DEF Next, Request, JobStep, SaveStep, Writers
-----------------------------------------------------------------------------
(* The record of a run nobody asked to cancel.                             *)

\* A job saves the status and the step that it has reached.
LEMMA SavedOwn ==
    ASSUME TypeOK, JobsInv, NEW j \in Jobs, pc[j] \in Saving
    PROVE  out[j].status = mem[j].status /\ out[j].step = mem[j].step
<1>1. SavesOwn(j)
  BY DEF JobsInv, JobInv
<1>2. mem[j] \in Content /\ out[j].cancel \in BOOLEAN /\ artifacts[j] \in BOOLEAN
  BY DEF TypeOK, Content, Writers
<1>3. CASE out[j] = [mem[j] EXCEPT !.cancel = out[j].cancel]
  <2>1. PICK b \in BOOLEAN : out[j] = [mem[j] EXCEPT !.cancel = b]
    BY <1>2, <1>3
  <2> QED
    BY <1>2, <2>1, WithCancel
<1>4. CASE out[j] = [mem[j] EXCEPT !.report = artifacts[j]]
  <2>1. PICK b \in BOOLEAN : out[j] = [mem[j] EXCEPT !.report = b]
    BY <1>2, <1>4
  <2> QED
    BY <1>2, <2>1, WithReport
<1> QED
  BY <1>1, <1>3, <1>4 DEF SavesOwn

\* A step of somebody who works on another run, or on no run.
LEMMA QuietRests ==
    ASSUME TypeOK, WritersInv, JobsInv, QuietInv, [Next]_vars, NEW i \in Jobs,
           pc'[i] = pc[i], target'[i] = target[i], mem'[i] = mem[i], out'[i] = out[i],
           pc[i] # "idle" /\ ~asked[target[i]] =>
               /\ disk'[target[i]] = disk[target[i]] /\ tmp'[target[i]] = tmp[target[i]]
               /\ fd'[i] = fd[i]
    PROVE  QuietJob(i)'
<1>1. pc[i] # "idle" => target[i] \in Runs
  BY BusyHasRun DEF Writers
<1>2. pc[i] # "idle" /\ asked[target[i]] => asked'[target[i]]
  BY <1>1, HistoryGrows
<1>3. QuietJob(i)
  BY DEF QuietInv
<1> QED
  BY <1>2, <1>3 DEF QuietJob, Started

(* A job of another run stays quiet when a writer moves.                   *)
LEMMA OthersQuiet ==
    ASSUME TypeOK, WritersInv, JobsInv, QuietInv, [Next]_vars, NEW w \in Writers, pc[w] # "idle",
           \A r \in Runs \ {target[w]} : disk'[r] = disk[r] /\ tmp'[r] = tmp[r],
           NEW i \in Jobs, i # w,
           pc'[i] = pc[i], target'[i] = target[i], mem'[i] = mem[i], out'[i] = out[i],
           target[i] # target[w] => fd'[i] = fd[i]
    PROVE  QuietJob(i)'
<1>1. pc[i] # "idle" /\ ~asked[target[i]] => target[i] # target[w] /\ target[i] \in Runs
  BY Alone, BusyHasRun DEF Writers
<1> QED
  BY <1>1, QuietRests

(* What follows a save keeps a quiet run quiet.                            *)
LEMMA AfterwardsQuiet ==
    ASSUME TypeOK, WritersInv, JobsInv, QuietInv, [Next]_vars, NEW w \in Writers,
           pc[w] \in {"report"} \cup Saving, NEW saved \in BOOLEAN, Afterwards(w, saved), mem' = mem,
           \A r \in Runs \ {target[w]} : disk'[r] = disk[r] /\ tmp'[r] = tmp[r],
           \A i \in Writers : target[i] # target[w] => fd'[i] = fd[i],
           w \in Jobs /\ ~asked[target[w]] =>
               LET shown == disk'[target[w]]
               IN  /\ shown.step <= mem[w].step
                   /\ shown.status \in Terminal => shown.status = mem[w].status
    PROVE  \A j \in Jobs : QuietJob(j)'
<1>1. asked' = asked
  BY AfterwardsCases
<1>2. ASSUME NEW i \in Jobs, i # w
      PROVE  QuietJob(i)'
  <2>1. pc'[i] = pc[i] /\ target'[i] = target[i] /\ out'[i] = out[i]
    <3>1. CASE GoesOnToResult(w)
      BY <1>2, <3>1 DEF GoesOnToResult, TypeOK, Writers
    <3>2. CASE GoesOn(w) \/ Ends(w)
      BY <1>2, <3>2 DEF GoesOn, Ends, TypeOK, Writers
    <3>3. CASE Answers(w)
      BY <1>2, <3>3 DEF Answers, TypeOK, Writers
    <3> QED
      BY <3>1, <3>2, <3>3, AfterwardsCases
  <2>2. pc[w] # "idle" /\ (target[i] # target[w] => fd'[i] = fd[i]) /\ mem'[i] = mem[i]
    BY DEF Saving, Writers
  <2> QED
    BY <1>2, <2>1, <2>2, OthersQuiet
<1>3. ASSUME w \in Jobs
      PROVE  QuietJob(w)'
  <2>1. pc'[w] \in {"open", "next", "tool", "ended"} /\ target' = target
    <3>1. CASE GoesOnToResult(w) \/ GoesOn(w) \/ Ends(w)
      BY <3>1 DEF GoesOnToResult, GoesOn, Ends, TypeOK
    <3>2. CASE Answers(w)
      BY <1>3, <3>2, RunAssumption DEF Answers
    <3> QED
      BY <3>1, <3>2, AfterwardsCases
  <2> QED
    BY <1>1, <1>3, <2>1 DEF QuietJob, Started
<1> QED
  BY <1>2, <1>3

(* Every step keeps the runs nobody works on quiet.                        *)
LEMMA QuietPreserved ==
    ASSUME TypeOK, WritersInv, CopiesInv, UnseenInv, JobsInv, QuietInv, [Next]_vars
    PROVE  QuietInv'
<1> USE RunAssumption DEF jobVars, saveVars, history, troubles
<1> DEFINE Shown == \A r \in Runs : ~asked[r] /\ disk[r] # Absent => Readable(disk[r])
<1>0. Shown
  BY DEF QuietInv
<1>1. ASSUME \A r \in Runs : disk'[r] = disk[r]
      PROVE  Shown'
  <2>1. \A r \in Runs : asked[r] => asked'[r]
    BY HistoryGrows
  <2> QED
    BY <1>0, <1>1, <2>1 DEF Readable
<1>2. ASSUME NEW j \in Jobs,
             \A i \in Jobs \ {j} : /\ pc'[i] = pc[i] /\ target'[i] = target[i]
                                   /\ mem'[i] = mem[i] /\ out'[i] = out[i],
             UNCHANGED <<disk, tmp, fd>>, QuietJob(j)'
      PROVE  QuietInv'
  <2>1. ASSUME NEW i \in Jobs, i # j
        PROVE  QuietJob(i)'
    BY <1>2, <2>1, QuietRests
  <2>2. Shown'
    BY <1>1, <1>2
  <2> QED
    BY <1>2, <2>1, <2>2 DEF QuietInv
<1>3. ASSUME NEW w \in Writers, Open(w)
      PROVE  QuietInv'
  <2>1. /\ pc[w] = "open" /\ target[w] \in Runs
        /\ pc' = [pc EXCEPT ![w] = "write"] /\ tmp' = [tmp EXCEPT ![target[w]] = Blank]
        /\ fd' = [fd EXCEPT ![w] = "tmp"]
        /\ UNCHANGED <<disk, target, mem, out, asked>>
    BY <1>3, BusyHasRun DEF Open, Goto
  <2>2. Shown'
    BY <1>1, <2>1
  <2>3. ASSUME NEW i \in Jobs, i # w
        PROVE  QuietJob(i)'
    <3>1. /\ pc[w] # "idle" /\ pc'[i] = pc[i] /\ fd'[i] = fd[i]
          /\ target'[i] = target[i] /\ mem'[i] = mem[i] /\ out'[i] = out[i]
      BY <2>1, <2>3 DEF TypeOK, Writers
    <3>2. \A r \in Runs \ {target[w]} : disk'[r] = disk[r] /\ tmp'[r] = tmp[r]
      BY <2>1 DEF TypeOK
    <3> QED
      BY <2>3, <3>1, <3>2, OthersQuiet
  <2>4. ASSUME w \in Jobs
        PROVE  QuietJob(w)'
    BY <2>1, <2>4 DEF QuietInv, QuietJob, Started, Saving, TypeOK
  <2> QED
    BY <2>2, <2>3, <2>4 DEF QuietInv
<1>4. ASSUME NEW w \in Writers, Write(w)
      PROVE  QuietInv'
  <2>1. /\ pc[w] = "write" /\ target[w] \in Runs /\ pc' = [pc EXCEPT ![w] = "replace"]
        /\ fd' = [fd EXCEPT ![w] = "none"]
        /\ UNCHANGED <<target, mem, out, asked>>
    BY <1>4, BusyHasRun DEF Write, Goto
  <2>2. PICK new \in {out[w], Garbled} :
               \/ /\ fd[w] = "tmp" /\ tmp' = [tmp EXCEPT ![target[w]] = new] /\ disk' = disk
                  /\ tmp[target[w]] = Blank => new = out[w]
               \/ fd[w] = "disk" /\ disk' = [disk EXCEPT ![target[w]] = new] /\ tmp' = tmp
               \/ fd[w] = "lost" /\ disk' = disk /\ tmp' = tmp
    BY <1>4, WriteCases
  <2>3. \A r \in Runs \ {target[w]} : disk'[r] = disk[r] /\ tmp'[r] = tmp[r]
    BY <2>1, <2>2 DEF TypeOK
  <2>4. ~asked[target[w]] => /\ w \in Jobs /\ disk' = disk
                             /\ tmp' = [tmp EXCEPT ![target[w]] = out[w]]
    <3>1. ~asked[target[w]] => w \in Jobs
      BY <2>1 DEF WritersInv, Writers
    <3>2. ~asked[target[w]] => fd[w] = "tmp" /\ tmp[target[w]] = Blank
      BY <2>1, <3>1 DEF QuietInv, QuietJob
    <3> QED
      BY <2>2, <3>1, <3>2
  <2>5. Shown'
    BY <1>0, <2>1, <2>3, <2>4 DEF Readable
  <2>6. ASSUME NEW i \in Jobs, i # w
        PROVE  QuietJob(i)'
    <3>1. /\ pc[w] # "idle" /\ pc'[i] = pc[i] /\ fd'[i] = fd[i]
          /\ target'[i] = target[i] /\ mem'[i] = mem[i] /\ out'[i] = out[i]
      BY <2>1, <2>6 DEF TypeOK, Writers
    <3> QED
      BY <2>3, <2>6, <3>1, OthersQuiet
  <2>7. ASSUME w \in Jobs
        PROVE  QuietJob(w)'
    BY <2>1, <2>4, <2>7 DEF QuietInv, QuietJob, Started, Saving, TypeOK
  <2> QED
    BY <2>5, <2>6, <2>7 DEF QuietInv
<1>5. ASSUME NEW w \in Writers, WriteFails(w) \/ ReplaceFails(w)
      PROVE  QuietInv'
  <2>1. /\ pc[w] \in Saving /\ Afterwards(w, FALSE) /\ UNCHANGED <<disk, tmp, mem>>
        /\ \A i \in Writers : i # w => fd'[i] = fd[i]
    BY <1>5 DEF WriteFails, ReplaceFails, Saving, TypeOK
  <2>2. w \in Jobs /\ ~asked[target[w]] =>
            /\ disk[target[w]].step <= mem[w].step
            /\ disk[target[w]].status \in Terminal => disk[target[w]].status = mem[w].status
    BY <2>1 DEF QuietInv, QuietJob, Started, Saving
  <2>3. \A j \in Jobs : QuietJob(j)'
    BY <2>1, <2>2, AfterwardsQuiet
  <2> QED
    BY <1>1, <2>1, <2>3 DEF QuietInv
<1>6. ASSUME NEW w \in Writers, Replace(w)
      PROVE  QuietInv'
  <2>1. /\ target[w] \in Runs /\ pc[w] = "replace" /\ Afterwards(w, TRUE) /\ mem' = mem
        /\ disk' = [disk EXCEPT ![target[w]] = tmp[target[w]]]
        /\ tmp' = [tmp EXCEPT ![target[w]] = Absent]
        /\ \A i \in Writers : target[i] # target[w] => fd'[i] = fd[i]
    BY <1>6, BusyHasRun DEF Replace
  <2>2. /\ \A r \in Runs \ {target[w]} : disk'[r] = disk[r] /\ tmp'[r] = tmp[r]
        /\ disk'[target[w]] = tmp[target[w]]
    BY <2>1 DEF TypeOK
  <2>3. ~asked[target[w]] => /\ w \in Jobs /\ tmp[target[w]] = out[w] /\ Readable(out[w])
                             /\ out[w].status = mem[w].status /\ out[w].step = mem[w].step
    <3>1. ~asked[target[w]] => w \in Jobs
      BY <2>1 DEF WritersInv, Writers
    <3>2. ~asked[target[w]] => tmp[target[w]] = out[w]
      BY <2>1, <3>1 DEF QuietInv, QuietJob
    <3>3. Readable(out[w])
      BY <2>1 DEF CopiesInv, Saving
    <3> QED
      BY <2>1, <3>1, <3>2, <3>3, SavedOwn DEF Saving
  <2>4. asked' = asked
    BY <2>1, AfterwardsCases DEF Saving
  <2>5. Shown'
    BY <1>0, <2>2, <2>3, <2>4 DEF Readable
  <2>6. w \in Jobs => mem[w].step <= mem[w].step
    BY DEF TypeOK, Content
  <2>7. w \in Jobs /\ ~asked[target[w]] =>
            /\ disk'[target[w]].step <= mem[w].step
            /\ disk'[target[w]].status \in Terminal => disk'[target[w]].status = mem[w].status
    BY <2>2, <2>3, <2>6
  <2>8. \A j \in Jobs : QuietJob(j)'
    BY <2>1, <2>2, <2>7, AfterwardsQuiet DEF Saving
  <2> QED
    BY <2>5, <2>8 DEF QuietInv
<1>7. ASSUME NEW r \in Runs, disk[r] = Absent, NEW n \in 0..MaxRetries,
             disk' = [disk EXCEPT ![r] = Queued(n)],
             UNCHANGED <<tmp, pc, target, mem, out, fd, asked>>
      PROVE  QuietInv'
  <2>1. \A w \in Writers : target[w] # r
    BY <1>7 DEF UnseenInv
  <2>2. \A q \in Runs \ {r} : disk'[q] = disk[q]
    BY <1>7 DEF TypeOK
  <2>3. Readable(disk'[r])
    BY <1>7, ContentFacts DEF TypeOK
  <2>4. Shown'
    BY <1>0, <1>7, <2>2, <2>3 DEF Readable
  <2>5. ASSUME NEW i \in Jobs
        PROVE  QuietJob(i)'
    <3>1. pc[i] # "idle" => target[i] \in Runs \ {r}
      BY <2>1, BusyHasRun DEF Writers
    <3> QED
      BY <1>7, <2>2, <3>1, QuietRests
  <2> QED
    BY <2>4, <2>5 DEF QuietInv
<1>8. ASSUME NEW r \in Runs, CreateRun(r)
      PROVE  QuietInv'
  <2>1. /\ disk[r] = Absent /\ disk' = [disk EXCEPT ![r] = Queued(0)]
        /\ UNCHANGED <<tmp, pc, target, mem, out, fd, asked>>
    BY <1>8 DEF CreateRun
  <2>2. 0 \in 0..MaxRetries
    OBVIOUS
  <2> QED
    BY <1>7, <2>1, <2>2
<1>9. ASSUME NEW r \in Runs, NEW new \in Runs, Retry(r, new)
      PROVE  QuietInv'
  <2>1. disk[r].retry \in 0..MaxRetries
    BY DEF TypeOK, Content
  <2>2. disk[r].retry + 1 \in 0..MaxRetries
    BY <1>9, <2>1 DEF Retry
  <2>3. /\ disk[new] = Absent /\ disk' = [disk EXCEPT ![new] = Queued(disk[r].retry + 1)]
        /\ UNCHANGED <<tmp, pc, target, mem, out, fd, asked>>
    BY <1>9 DEF Retry
  <2> QED
    BY <1>7, <2>2, <2>3
<1>10. ASSUME NEW r \in Runs, NEW j \in Jobs, Execute(j, r)
       PROVE  QuietInv'
  <2>1. /\ disk[r].status = "queued" /\ UNCHANGED <<disk, tmp, fd, mem, out>>
        /\ pc' = [pc EXCEPT ![j] = "begin"] /\ target' = [target EXCEPT ![j] = r]
    BY <1>10 DEF Execute, Goto
  <2>2. QuietJob(j)'
    BY <2>1 DEF QuietJob, Started, Saving, TypeOK, Writers
  <2>3. \A i \in Jobs \ {j} : pc'[i] = pc[i] /\ target'[i] = target[i]
    BY <2>1 DEF TypeOK, Writers
  <2> QED
    BY <1>2, <2>1, <2>2, <2>3
<1>11. ASSUME NEW r \in Runs, NEW t \in Threads, CancelRead(t, r)
       PROVE  QuietInv'
  <2>1. UNCHANGED <<disk, tmp, fd, mem>>
    BY <1>11 DEF CancelRead, Save
  <2>2. \A i \in Jobs : pc'[i] = pc[i] /\ target'[i] = target[i] /\ out'[i] = out[i]
    BY <1>11 DEF CancelRead, Save, Goto, TypeOK, Writers
  <2>3. \A i \in Jobs : QuietJob(i)'
    BY <2>1, <2>2, QuietRests
  <2> QED
    BY <1>1, <2>1, <2>3 DEF QuietInv
<1>12. ASSUME NEW j \in Jobs, BeginJob(j)
       PROVE  QuietInv'
  <2>1. target[j] \in Runs
    BY <1>12, BusyHasRun DEF BeginJob, Writers
  <2>2. /\ UNCHANGED <<disk, tmp, fd, target, out>>
        /\ mem'[j] = disk[target[j]] /\ pc'[j] \in {"report", "ended"}
    BY <1>12 DEF BeginJob, TypeOK, Writers
  <2>3. disk[target[j]].step <= disk[target[j]].step
    BY <2>1 DEF TypeOK, Content
  <2>4. QuietJob(j)'
    BY <2>2, <2>3 DEF QuietJob, Started
  <2>5. \A i \in Jobs \ {j} : pc'[i] = pc[i] /\ mem'[i] = mem[i]
    BY <1>12 DEF BeginJob, TypeOK, Writers
  <2> QED
    BY <1>2, <2>2, <2>4, <2>5
<1>13. ASSUME NEW j \in Jobs, Report(j)
       PROVE  QuietInv'
  <2>1. pc[j] = "report" /\ UNCHANGED <<disk, tmp, fd, mem>>
    BY <1>13 DEF Report, Save
  <2>2. ~asked[target[j]] =>
            /\ disk[target[j]].step <= mem[j].step
            /\ disk[target[j]].status \in Terminal => disk[target[j]].status = mem[j].status
    BY <2>1 DEF QuietInv, QuietJob, Started
  <2>3. CASE Afterwards(j, FALSE)
    <3>1. \A i \in Jobs : QuietJob(i)'
      BY <2>1, <2>2, <2>3, AfterwardsQuiet DEF Writers
    <3> QED
      BY <1>1, <2>1, <3>1 DEF QuietInv
  <2>4. CASE pc' = [pc EXCEPT ![j] = "open"] /\ UNCHANGED <<target, history>>
             /\ Save(j, "progress", [mem[j] EXCEPT !.cancel = @ \/ disk[target[j]].cancel])
    <3>1. pc'[j] = "open" /\ UNCHANGED <<target, asked>>
      BY <2>4 DEF TypeOK, Writers
    <3>2. QuietJob(j)'
      BY <2>1, <2>2, <3>1 DEF QuietJob, Started
    <3>3. \A i \in Jobs \ {j} : pc'[i] = pc[i] /\ out'[i] = out[i]
      BY <2>4 DEF Save, TypeOK, Writers
    <3> QED
      BY <1>2, <2>1, <3>1, <3>2, <3>3
  <2> QED
    BY <1>13, <2>3, <2>4 DEF Report
<1>14. ASSUME NEW j \in Jobs, StepLimit(j) \/ ObserveCancel(j) \/ StartStep(j) \/ Complete(j)
       PROVE  QuietInv'
  <2>1. PICK state \in Content :
               Move(j, state) /\ (state.step = mem[j].step \/ state.step = mem[j].step + 1)
    BY <1>14, MoveCases
  <2>2. pc[j] = "next"
    BY <1>14, MoveCases
  <2>3. mem[j].status \in {"queued"} \cup Stages /\ target[j] \in Runs
    BY <2>2, BusyHasRun DEF JobsInv, JobInv, Started, Progressed, Writers
  <2>4. /\ UNCHANGED <<disk, tmp, fd, target, out, asked>>
        /\ pc' = [pc EXCEPT ![j] = "report"] /\ mem' = [mem EXCEPT ![j] = state]
    BY <2>1 DEF Move
  <2>5. ~asked[target[j]] => /\ disk[target[j]].step <= mem[j].step
                             /\ disk[target[j]].status \notin Terminal
    BY <2>2, <2>3, StatusFacts DEF QuietInv, QuietJob, Started
  <2>6. ~asked[target[j]] => disk[target[j]].step <= state.step
    <3>1. mem[j].step \in 0..5 /\ disk[target[j]].step \in 0..5
      BY <2>3, PipelineFacts DEF TypeOK, Content
    <3> QED
      BY <2>1, <2>5, <3>1
  <2>7. QuietJob(j)'
    BY <2>4, <2>5, <2>6 DEF QuietJob, Started, TypeOK, Writers
  <2>8. \A i \in Jobs \ {j} : pc'[i] = pc[i] /\ mem'[i] = mem[i]
    BY <2>4 DEF TypeOK, Writers
  <2> QED
    BY <1>2, <2>4, <2>7, <2>8
<1>15. ASSUME NEW j \in Jobs, RunTool(j)
       PROVE  QuietInv'
  <2>1. /\ pc[j] = "tool" /\ UNCHANGED <<disk, tmp, fd, target, out, asked>>
        /\ pc' = [pc EXCEPT ![j] = "next"] \/ pc' = [pc EXCEPT ![j] = "report"]
        /\ mem' = mem \/ mem' = [mem EXCEPT ![j].status = "failed"]
    BY <1>15 DEF RunTool
  <2>2. [mem[j] EXCEPT !.status = "failed"].step = mem[j].step
    BY WithStatus, StatusFacts DEF TypeOK, Terminal
  <2>3. mem'[j].step = mem[j].step
    BY <2>1, <2>2 DEF TypeOK
  <2>4. mem[j].status \in Stages
    BY <2>1 DEF JobsInv, JobInv, Started, Progressed
  <2>5. ~asked[target[j]] => /\ disk[target[j]].step <= mem[j].step
                             /\ disk[target[j]].status \notin Terminal
    BY <2>1, <2>4, StatusFacts DEF QuietInv, QuietJob, Started
  <2>6. QuietJob(j)'
    BY <2>1, <2>3, <2>5 DEF QuietJob, Started, TypeOK, Writers
  <2>7. \A i \in Jobs \ {j} : pc'[i] = pc[i] /\ mem'[i] = mem[i]
    BY <2>1 DEF TypeOK, Writers
  <2> QED
    BY <1>2, <2>1, <2>6, <2>7
<1>16. ASSUME NEW j \in Jobs, JobDone(j)
       PROVE  QuietInv'
  <2>1. QuietJob(j)'
    BY <1>16 DEF JobDone, Goto, QuietJob, TypeOK, Writers
  <2>2. UNCHANGED <<disk, tmp, fd>>
    BY <1>16 DEF JobDone
  <2>3. \A i \in Jobs \ {j} : /\ pc'[i] = pc[i] /\ target'[i] = target[i]
                              /\ mem'[i] = mem[i] /\ out'[i] = out[i]
    BY <1>16 DEF JobDone, Goto, TypeOK, Writers
  <2> QED
    BY <1>2, <2>1, <2>2, <2>3
<1>17. CASE Crash
  <2>1. \A i \in Jobs : QuietJob(i)'
    BY <1>17 DEF Crash, QuietJob, Writers
  <2> QED
    BY <1>1, <1>17, <2>1 DEF Crash, QuietInv
<1>18. CASE UNCHANGED vars
  BY <1>18 DEF vars, QuietInv, QuietJob, Started, Readable
<1> QED
  BY <1>3, <1>4, <1>5, <1>6, <1>8, <1>9, <1>10, <1>11, <1>12, <1>13, <1>14, <1>15, <1>16, <1>17, <1>18
     DEF Next, Request, JobStep, SaveStep, Writers
-----------------------------------------------------------------------------
(* The invariant, and what it says of the records that clients see.        *)

(* The invariant holds at the start.                                       *)
LEMMA RunInit == Init => RunInv
<1> SUFFICES ASSUME Init
             PROVE  RunInv
  OBVIOUS
<1>1. TypeOK
  BY TypeInit
<1>2. WritersInv
  BY RunAssumption DEF Init, WritersInv, Writers
<1>3. CopiesInv
  BY BareCopiesTruthful DEF Init, CopiesInv, TruthfulOf, Started, Saving, Writers
<1>4. UnseenInv
  BY RunAssumption DEF Init, UnseenInv
<1>5. JobsInv
  BY DEF Init, JobsInv, JobInv, Started, Saving, Writers
<1>6. QuietInv
  BY DEF Init, QuietInv, QuietJob, Writers
<1> QED
  BY <1>1, <1>2, <1>3, <1>4, <1>5, <1>6 DEF RunInv

(* Every step keeps the invariant.                                         *)
LEMMA RunStep == RunInv /\ [Next]_vars => RunInv'
  BY TypesPreserved, WritersPreserved, CopiesPreserved, UnseenPreserved, JobsPreserved, QuietPreserved
     DEF RunInv

(* However clients, threads, failing writes and restarts interleave: the   *)
(* invariant holds.                                                        *)
THEOREM RunInvariant == Spec => []RunInv
  BY RunInit, RunStep, PTL DEF Spec

(* Every variable has its type.                                            *)
THEOREM RunTypeCorrect == Spec => []TypeOK
<1>1. RunInv => TypeOK
  BY DEF RunInv
<1> QED
  BY <1>1, RunInvariant, PTL

(* A record that says completed is of a run whose stages were all executed,*)
(* also when progress reports were lost and cancel handlers wrote in       *)
(* between.                                                                *)
THEOREM CompletionIsReal == Spec => []CompletedMeansAllStages
<1>1. RunInv => CompletedMeansAllStages
  BY DEF RunInv, CopiesInv, TruthfulOf, Truthful, CompletedMeansAllStages
<1> QED
  BY <1>1, RunInvariant, PTL

(* No run is cancelled that nobody asked to cancel, although the runner    *)
(* takes an unreadable record for a request (runs.py:201): the record of   *)
(* such a run is never unreadable.                                         *)
THEOREM CancelIsRequested == Spec => []NoSpontaneousCancel
<1>1. RunInv => NoSpontaneousCancel
  BY DEF RunInv, CopiesInv, TruthfulOf, Truthful, NoSpontaneousCancel
<1> QED
  BY <1>1, RunInvariant, PTL

(* Only the record of a completed run that drafted its reports names them. *)
THEOREM ReportsAreDrafted == Spec => []ReportOnlyAfterDraft
<1>1. RunInv => ReportOnlyAfterDraft
  <2>1. Len(Pipeline) \in Steps
    BY PipelineFacts
  <2> QED
    BY <2>1 DEF RunInv, CopiesInv, TruthfulOf, Truthful, ReportOnlyAfterDraft
<1> QED
  BY <1>1, RunInvariant, PTL

\* What a step does to the record of a run nobody asked to cancel.
LEMMA RecordSteps ==
    ASSUME RunInv, [Next]_vars, NEW r \in Runs, Readable(disk[r]), ~asked'[r]
    PROVE  \/ disk'[r] = disk[r]
           \/ \E j \in Jobs :
                  /\ Replace(j) /\ target[j] = r /\ disk'[r] = out[j] /\ Readable(out[j])
                  /\ out[j].status = mem[j].status /\ out[j].step = mem[j].step
                  /\ disk[r].step <= mem[j].step
                  /\ disk[r].status \in Terminal => disk[r].status = mem[j].status
<1> USE DEF RunInv
<1>0. ~asked[r]
  BY HistoryGrows
<1>1. ASSUME NEW w \in Writers, Replace(w)
      PROVE  \/ disk'[r] = disk[r]
             \/ /\ w \in Jobs /\ target[w] = r /\ disk'[r] = out[w] /\ Readable(out[w])
                /\ out[w].status = mem[w].status /\ out[w].step = mem[w].step
                /\ disk[r].step <= mem[w].step
                /\ disk[r].status \in Terminal => disk[r].status = mem[w].status
  <2>1. pc[w] = "replace" /\ disk' = [disk EXCEPT ![target[w]] = tmp[target[w]]]
    BY <1>1 DEF Replace
  <2>2. CASE target[w] # r
    BY <2>1, <2>2 DEF TypeOK
  <2>3. CASE target[w] = r
    <3>1. w \in Jobs
      BY <1>0, <2>1, <2>3 DEF WritersInv, Writers
    <3>2. /\ tmp[r] = out[w] /\ disk[r].step <= mem[w].step
          /\ disk[r].status \in Terminal => disk[r].status = mem[w].status
      BY <1>0, <2>1, <2>3, <3>1 DEF QuietInv, QuietJob, Started, Saving
    <3>3. Readable(out[w])
      BY <2>1 DEF CopiesInv, Saving
    <3>4. disk'[r] = tmp[r]
      BY <2>1, <2>3 DEF TypeOK
    <3> QED
      BY <2>1, <2>3, <3>1, <3>2, <3>3, <3>4, SavedOwn DEF Saving
  <2> QED
    BY <2>2, <2>3
<1>2. ASSUME NEW w \in Writers, Write(w)
      PROVE  disk'[r] = disk[r]
  <2>1. CASE target[w] # r
    BY <1>2, <2>1, WriteCases DEF TypeOK
  <2>2. CASE target[w] = r
    <3>1. w \in Jobs /\ pc[w] = "write"
      BY <1>0, <1>2, <2>2 DEF Write, Goto, WritersInv, Writers
    <3>2. fd[w] = "tmp"
      BY <1>0, <2>2, <3>1 DEF QuietInv, QuietJob
    <3> QED
      BY <1>2, <3>2, WriteCases
  <2> QED
    BY <2>1, <2>2
<1>3. ASSUME NEW w \in Writers, Open(w) \/ WriteFails(w) \/ ReplaceFails(w)
      PROVE  disk' = disk
  BY <1>3 DEF Open, WriteFails, ReplaceFails
<1>4. ASSUME NEW q \in Runs, NEW new \in Runs, CreateRun(q) \/ Retry(q, new)
      PROVE  disk'[r] = disk[r]
  <2>1. PICK p, c : p \in Runs /\ disk[p] = Absent /\ disk' = [disk EXCEPT ![p] = c]
    BY <1>4 DEF CreateRun, Retry
  <2>2. p # r
    BY <2>1, ContentFacts
  <2> QED
    BY <2>1, <2>2 DEF TypeOK
<1>5. ASSUME NEW j \in Jobs,
             \/ BeginJob(j) \/ Report(j) \/ StepLimit(j) \/ ObserveCancel(j) \/ StartStep(j)
             \/ Complete(j) \/ RunTool(j) \/ JobDone(j)
      PROVE  disk' = disk
  BY <1>5 DEF BeginJob, Report, StepLimit, ObserveCancel, StartStep, Complete, RunTool, JobDone, Move
<1>6. ASSUME NEW q \in Runs, NEW j \in Jobs, Execute(j, q)
      PROVE  disk' = disk
  BY <1>6 DEF Execute
<1>7. ASSUME NEW q \in Runs, NEW t \in Threads, CancelRead(t, q)
      PROVE  disk' = disk
  BY <1>7 DEF CancelRead
<1>8. CASE Crash \/ UNCHANGED vars
  BY <1>8 DEF Crash, vars
<1> QED
  BY <1>1, <1>2, <1>3, <1>4, <1>5, <1>6, <1>7, <1>8 DEF Next, Request, JobStep, SaveStep, Writers

(* A client that polls a run nobody asked to cancel never sees an          *)
(* unreadable record, nor the run going back, nor an end that changes,     *)
(* although a job ignores whether its reports were saved.                  *)
THEOREM PollingIsMonotone == Spec => ProgressMonotone
<1>1. ASSUME RunInv, [Next]_vars, NEW r \in Runs, Readable(disk[r]), ~asked'[r]
      PROVE  Ahead(disk[r], disk'[r])
  <2>1. disk[r].step <= disk[r].step
    BY <1>1 DEF RunInv, TypeOK, Content
  <2> QED
    BY <1>1, <2>1, RecordSteps DEF Ahead, Readable
<1>2. RunInv /\ [Next]_vars => [\A r \in Runs : Readable(disk[r]) /\ ~asked'[r] => Ahead(disk[r], disk'[r])]_vars
  BY <1>1
<1> QED
  BY <1>2, RunInvariant, PTL DEF Spec, ProgressMonotone
-----------------------------------------------------------------------------
(* While no write has failed: the record is one step behind its job.       *)

(* While no write fails, the record of a run nobody cancels is readable.   *)
LEMMA UnaskedReadable ==
    ASSUME RunInv, NEW w \in Writers, pc[w] # "idle", ~asked[target[w]]
    PROVE  /\ w \in Jobs /\ target[w] \in Runs /\ Readable(disk[target[w]])
           /\ pc[w] = "replace" => /\ tmp[target[w]] = out[w] /\ tmp[target[w]] # Absent
                                   /\ out[w].status = mem[w].status
<1> USE DEF RunInv
<1>1. w \in Jobs
  BY DEF WritersInv, Writers
<1>2. target[w] \in Runs
  BY BusyHasRun
<1>3. disk[target[w]] # Absent
  BY <1>2 DEF UnseenInv
<1>4. Readable(disk[target[w]])
  BY <1>2, <1>3 DEF QuietInv
<1>5. ASSUME pc[w] = "replace"
      PROVE  /\ tmp[target[w]] = out[w] /\ tmp[target[w]] # Absent
             /\ out[w].status = mem[w].status
  <2>1. tmp[target[w]] = out[w]
    BY <1>1, <1>5 DEF QuietInv, QuietJob
  <2>2. Readable(out[w])
    BY <1>5 DEF CopiesInv, Saving
  <2>3. out[w].status = mem[w].status
    BY <1>1, <1>5, SavedOwn DEF Saving
  <2> QED
    BY <2>1, <2>2, <2>3, ContentFacts
<1> QED
  BY <1>1, <1>2, <1>4, <1>5

(* The record keeps up with its job when neither of them moves.            *)
LEMMA TrackRests ==
    ASSUME RunInv, TrackInv, [Next]_vars, NEW i \in Jobs,
           pc'[i] = pc[i], target'[i] = target[i], mem'[i] = mem[i], phase'[i] = phase[i],
           pc[i] # "idle" /\ ~asked[target[i]] => disk'[target[i]] = disk[target[i]]
    PROVE  TrackJob(i)'
<1>1. pc[i] # "idle" /\ asked[target[i]] => asked'[target[i]]
  BY BusyHasRun, HistoryGrows DEF RunInv, Writers
<1>2. TrackJob(i)
  BY DEF TrackInv
<1> QED
  BY <1>1, <1>2 DEF TrackJob, Before

\* Everybody but the writer of a file.
LEMMA OthersTrack ==
    ASSUME RunInv, TrackInv, [Next]_vars, NEW w \in Writers, pc[w] # "idle",
           \A r \in Runs \ {target[w]} : disk'[r] = disk[r],
           NEW i \in Jobs, i # w,
           pc'[i] = pc[i], target'[i] = target[i], mem'[i] = mem[i], phase'[i] = phase[i]
    PROVE  TrackJob(i)'
<1>1. pc[i] # "idle" /\ ~asked[target[i]] => target[i] # target[w] /\ target[i] \in Runs
  BY Alone, BusyHasRun DEF Writers, RunInv
<1> QED
  BY <1>1, TrackRests

(* A rename brings the record to where its job is.                         *)
LEMMA ReplaceTracks ==
    ASSUME RunInv, TrackInv, [Next]_vars, NEW w \in Writers, Replace(w)
    PROVE  TrackInv'
<1> USE DEF RunInv
<1>1. /\ target[w] \in Runs /\ pc[w] = "replace" /\ Afterwards(w, TRUE) /\ mem' = mem
      /\ disk' = [disk EXCEPT ![target[w]] = tmp[target[w]]]
  BY BusyHasRun DEF Replace, jobVars
<1>2. asked' = asked
  BY <1>1, AfterwardsCases DEF Saving
<1>3. GoesOnToResult(w) \/ GoesOn(w) \/ Ends(w) \/ Answers(w)
  BY <1>1, AfterwardsCases DEF Saving
<1>4. ASSUME NEW i \in Jobs, i # w
      PROVE  TrackJob(i)'
  <2>1. pc'[i] = pc[i] /\ target'[i] = target[i] /\ phase'[i] = phase[i]
    <3>1. CASE GoesOnToResult(w)
      BY <1>4, <3>1 DEF GoesOnToResult, TypeOK, Writers
    <3>2. CASE GoesOn(w) \/ Ends(w)
      BY <1>4, <3>2 DEF GoesOn, Ends, TypeOK, Writers
    <3>3. CASE Answers(w)
      BY <1>4, <3>3 DEF Answers, TypeOK, Writers
    <3> QED
      BY <1>3, <3>1, <3>2, <3>3
  <2>2. \A r \in Runs \ {target[w]} : disk'[r] = disk[r]
    BY <1>1 DEF TypeOK
  <2> QED
    BY <1>1, <1>4, <2>1, <2>2, OthersTrack
<1>5. ASSUME w \in Jobs
      PROVE  TrackJob(w)'
  <2>1. ~asked[target[w]] => disk'[target[w]].status = mem[w].status
    BY <1>1, UnaskedReadable DEF TypeOK
  <2>2. CASE GoesOnToResult(w)
    BY <1>1, <1>2, <1>5, <2>1, <2>2 DEF GoesOnToResult, TrackJob, Saving, TypeOK
  <2>3. CASE GoesOn(w)
    BY <1>1, <1>2, <1>5, <2>1, <2>3 DEF GoesOn, TrackJob, Saving, TypeOK
  <2>4. CASE Ends(w)
    <3>1. mem[w].status \in Terminal
      BY <1>1, <1>5, <2>4 DEF Ends, JobsInv, JobInv, SavesOwn, Saving
    <3> QED
      BY <1>1, <1>2, <1>5, <2>1, <2>4, <3>1 DEF Ends, TrackJob, Saving, TypeOK
  <2>5. CASE Answers(w)
    BY <1>5, <2>5, RunAssumption DEF Answers
  <2> QED
    BY <1>3, <2>2, <2>3, <2>4, <2>5
<1> QED
  BY <1>4, <1>5 DEF TrackInv

(* While no write fails, every step keeps the record up with its job.      *)
LEMMA TrackPreserved ==
    ASSUME RunInv, TrackInv, [Next]_vars, faults' = 0
    PROVE  TrackInv'
<1> USE RunAssumption DEF RunInv, jobVars, saveVars, history, troubles
<1>1. ASSUME NEW j \in Jobs,
             \A i \in Jobs \ {j} : /\ pc'[i] = pc[i] /\ target'[i] = target[i]
                                   /\ mem'[i] = mem[i] /\ phase'[i] = phase[i],
             disk' = disk, TrackJob(j)'
      PROVE  TrackInv'
  BY <1>1, TrackRests DEF TrackInv
<1>2. ASSUME NEW w \in Writers, Open(w)
      PROVE  TrackInv'
  <2>1. /\ pc[w] = "open" /\ pc' = [pc EXCEPT ![w] = "write"]
        /\ UNCHANGED <<disk, target, mem, phase, asked>>
    BY <1>2 DEF Open, Goto
  <2>2. ASSUME NEW i \in Jobs, i # w
        PROVE  TrackJob(i)'
    BY <2>1, <2>2, TrackRests DEF TypeOK, Writers
  <2>3. ASSUME w \in Jobs
        PROVE  TrackJob(w)'
    BY <2>1, <2>3 DEF TrackInv, TrackJob, Before, Saving, TypeOK, Writers
  <2> QED
    BY <2>2, <2>3 DEF TrackInv
<1>3. ASSUME NEW w \in Writers, Write(w)
      PROVE  TrackInv'
  <2>1. /\ pc[w] = "write" /\ pc' = [pc EXCEPT ![w] = "replace"]
        /\ UNCHANGED <<target, mem, phase, asked>>
    BY <1>3 DEF Write, Goto
  <2>2. \A r \in Runs : r # target[w] \/ ~asked[r] => disk'[r] = disk[r]
    <3>1. ~asked[target[w]] => fd[w] = "tmp"
      BY <2>1 DEF QuietInv, QuietJob, WritersInv, Writers
    <3> QED
      BY <1>3, <3>1, WriteCases DEF TypeOK
  <2>3. ASSUME NEW i \in Jobs, i # w
        PROVE  TrackJob(i)'
    <3>1. pc[i] # "idle" => target[i] \in Runs
      BY BusyHasRun DEF Writers
    <3> QED
      BY <2>1, <2>2, <2>3, <3>1, TrackRests DEF TypeOK, Writers
  <2>4. ASSUME w \in Jobs
        PROVE  TrackJob(w)'
    <3>1. target[w] \in Runs
      BY <2>1, BusyHasRun
    <3> QED
      BY <2>1, <2>2, <2>4, <3>1 DEF TrackInv, TrackJob, Before, Saving, TypeOK, Writers
  <2> QED
    BY <2>3, <2>4 DEF TrackInv
<1>4. ASSUME NEW w \in Writers, WriteFails(w)
      PROVE  FALSE
  BY <1>4 DEF WriteFails, TypeOK
<1>5. ASSUME NEW w \in Writers, Replace(w)
      PROVE  TrackInv'
  BY <1>5, ReplaceTracks
<1>6. ASSUME NEW w \in Writers, pc[w] \in {"report"} \cup Saving, Afterwards(w, FALSE), mem' = mem,
             disk' = disk, asked[target[w]]
      PROVE  TrackInv'
  <2>1. /\ asked' = asked
        /\ GoesOnToResult(w) \/ GoesOn(w) \/ Ends(w) \/ Answers(w)
    BY <1>6, AfterwardsCases
  <2>2. ASSUME NEW i \in Jobs, i # w
        PROVE  TrackJob(i)'
    <3>1. CASE GoesOnToResult(w)
      BY <1>6, <2>2, <3>1, TrackRests DEF GoesOnToResult, TypeOK, Writers
    <3>2. CASE GoesOn(w) \/ Ends(w)
      BY <1>6, <2>2, <3>2, TrackRests DEF GoesOn, Ends, TypeOK, Writers
    <3>3. CASE Answers(w)
      BY <1>6, <2>2, <3>3, TrackRests DEF Answers, TypeOK, Writers
    <3> QED
      BY <2>1, <3>1, <3>2, <3>3
  <2>3. ASSUME w \in Jobs
        PROVE  TrackJob(w)'
    <3>1. target' = target
      BY <2>1, <2>3 DEF GoesOnToResult, GoesOn, Ends, Answers
    <3> QED
      BY <1>6, <2>1, <3>1 DEF TrackJob
  <2> QED
    BY <2>2, <2>3 DEF TrackInv
<1>7. ASSUME NEW w \in Writers, ReplaceFails(w)
      PROVE  TrackInv'
  <2>1. /\ pc[w] = "replace" /\ tmp[target[w]] = Absent /\ Afterwards(w, FALSE)
        /\ UNCHANGED <<disk, mem>>
    BY <1>7 DEF ReplaceFails
  <2>2. asked[target[w]]
    BY <2>1, UnaskedReadable
  <2> QED
    BY <1>6, <2>1, <2>2 DEF Saving
<1>8. ASSUME NEW r \in Runs, NEW new \in Runs, CreateRun(r) \/ Retry(r, new)
      PROVE  TrackInv'
  <2>1. /\ UNCHANGED <<pc, target, mem, phase>>
        /\ \E p \in Runs : \E c : disk[p] = Absent /\ disk' = [disk EXCEPT ![p] = c]
    BY <1>8 DEF CreateRun, Retry
  <2>2. ASSUME NEW i \in Jobs
        PROVE  TrackJob(i)'
    <3>1. pc[i] # "idle" => target[i] \in Runs /\ disk[target[i]] # Absent
      BY BusyHasRun DEF UnseenInv, Writers
    <3>2. pc[i] # "idle" => disk'[target[i]] = disk[target[i]]
      BY <2>1, <3>1 DEF TypeOK
    <3> QED
      BY <2>1, <3>2, TrackRests
  <2> QED
    BY <2>2 DEF TrackInv
<1>9. ASSUME NEW r \in Runs, NEW j \in Jobs, Execute(j, r)
      PROVE  TrackInv'
  <2>1. /\ UNCHANGED <<disk, mem, phase>>
        /\ pc' = [pc EXCEPT ![j] = "begin"] /\ target' = [target EXCEPT ![j] = r]
    BY <1>9 DEF Execute, Goto
  <2>2. TrackJob(j)'
    BY <2>1 DEF TrackJob, Saving, TypeOK, Writers
  <2>3. \A i \in Jobs \ {j} : pc'[i] = pc[i] /\ target'[i] = target[i]
    BY <2>1 DEF TypeOK, Writers
  <2> QED
    BY <1>1, <2>1, <2>2, <2>3
<1>10. ASSUME NEW r \in Runs, NEW t \in Threads, CancelRead(t, r)
       PROVE  TrackInv'
  <2>1. UNCHANGED <<disk, mem>>
    BY <1>10 DEF CancelRead
  <2>2. \A i \in Jobs : pc'[i] = pc[i] /\ target'[i] = target[i] /\ phase'[i] = phase[i]
    BY <1>10 DEF CancelRead, Save, Goto, TypeOK, Writers
  <2> QED
    BY <2>1, <2>2, TrackRests DEF TrackInv
<1>11. ASSUME NEW j \in Jobs, BeginJob(j)
       PROVE  TrackInv'
  <2>1. pc[j] = "begin" /\ UNCHANGED <<disk, target, asked>>
    BY <1>11 DEF BeginJob
  <2>2. ~asked[target[j]] => disk[target[j]].status = "queued"
    BY <2>1 DEF QuietInv, QuietJob
  <2>3. /\ mem'[j] = disk[target[j]]
        /\ pc'[j] = IF disk[target[j]].status = "queued" THEN "report" ELSE "ended"
    BY <1>11 DEF BeginJob, TypeOK, Writers
  <2>4. TrackJob(j)'
    <3>1. disk[target[j]].status = "queued" => Before(disk[target[j]]) = "queued"
      BY StatusFacts DEF Before
    <3>2. Before(mem[j])' = Before(mem'[j])
      BY DEF Before
    <3> QED
      BY <2>1, <2>2, <2>3, <3>1, <3>2 DEF TrackJob, Saving
  <2>5. \A i \in Jobs \ {j} : pc'[i] = pc[i] /\ mem'[i] = mem[i] /\ phase'[i] = phase[i]
    BY <1>11 DEF BeginJob, TypeOK, Writers
  <2> QED
    BY <1>1, <2>1, <2>4, <2>5
<1>12. ASSUME NEW j \in Jobs, Report(j)
       PROVE  TrackInv'
  <2>1. pc[j] = "report" /\ UNCHANGED <<disk, mem>>
    BY <1>12 DEF Report
  <2>2. CASE ~Readable(disk[target[j]]) /\ Afterwards(j, FALSE)
    <3>1. asked[target[j]]
      BY <2>1, <2>2, UnaskedReadable DEF Writers
    <3> QED
      BY <1>6, <2>1, <2>2, <3>1 DEF Writers
  <2>3. CASE pc' = [pc EXCEPT ![j] = "open"] /\ UNCHANGED <<target, history>>
             /\ Save(j, "progress", [mem[j] EXCEPT !.cancel = @ \/ disk[target[j]].cancel])
    <3>1. /\ pc' = [pc EXCEPT ![j] = "open"] /\ phase' = [phase EXCEPT ![j] = "progress"]
          /\ UNCHANGED <<target, asked>>
      BY <2>3 DEF Save
    <3>2. TrackJob(j)'
      BY <2>1, <3>1 DEF TrackInv, TrackJob, Before, Saving, TypeOK, Writers
    <3>3. \A i \in Jobs \ {j} : pc'[i] = pc[i] /\ phase'[i] = phase[i]
      BY <3>1 DEF TypeOK, Writers
    <3> QED
      BY <1>1, <2>1, <3>1, <3>2, <3>3
  <2> QED
    BY <1>12, <2>2, <2>3 DEF Report
<1>13. ASSUME NEW j \in Jobs, StepLimit(j) \/ ObserveCancel(j) \/ StartStep(j) \/ Complete(j)
       PROVE  TrackInv'
  <2>1. PICK state \in Content :
               /\ Move(j, state)
               /\ \/ state.status = "failed" /\ mem[j].step >= MaxSteps /\ state.step = mem[j].step
                  \/ state.status = "cancelled" /\ CancelRequested(j)
                  \/ /\ state.step = mem[j].step + 1 /\ state.step \in Steps
                     /\ state.status = Pipeline[state.step]
                  \/ state.status = "completed" /\ mem[j].step = 5 /\ state.step = mem[j].step
    BY <1>13, MoveCases
  <2>2. pc[j] = "next" /\ mem[j].step \in 0..5 /\ target[j] \in Runs
    BY <1>13, MoveCases, BusyHasRun, PipelineFacts DEF TypeOK, Content, Writers
  <2>3. /\ mem[j].status = "queued" \/ mem[j].status \in Stages
        /\ mem[j].status = "queued" => mem[j].step = 0
        /\ mem[j].status \in Stages => mem[j].step \in Steps /\ mem[j].status = Pipeline[mem[j].step]
    BY <2>2 DEF JobsInv, JobInv, Started, Progressed
  <2>4. /\ UNCHANGED <<disk, target, phase, asked>>
        /\ pc' = [pc EXCEPT ![j] = "report"] /\ mem' = [mem EXCEPT ![j] = state]
    BY <2>1 DEF Move
  <2>5. ~asked[target[j]] => disk[target[j]].status = mem[j].status /\ ~CancelRequested(j)
    <3>1. ~asked[target[j]] => disk[target[j]].status = mem[j].status
      BY <2>2 DEF TrackInv, TrackJob
    <3>2. ~asked[target[j]] => ~mem[j].cancel /\ ~disk[target[j]].cancel
      BY <2>2 DEF CopiesInv, TruthfulOf, Truthful, Started
    <3>3. ~asked[target[j]] => Readable(disk[target[j]])
      BY <2>2, UnaskedReadable DEF Writers
    <3> QED
      BY <3>1, <3>2, <3>3 DEF CancelRequested
  <2>6. ~asked[target[j]] => disk[target[j]].status = Before(state)
    <3>1. CASE state.status = "failed" /\ mem[j].step >= MaxSteps /\ state.step = mem[j].step
      <4>1. mem[j].status = Pipeline[mem[j].step]
        BY <2>2, <2>3, <3>1
      <4> QED
        BY <2>5, <3>1, <4>1, StatusFacts DEF Before, Terminal
    <3>2. CASE /\ state.step = mem[j].step + 1 /\ state.step \in Steps
               /\ state.status = Pipeline[state.step]
      <4>1. state.status \in Stages /\ state.status # "queued"
        BY <3>2, PipelineFacts, StatusFacts
      <4>2. Before(state) = IF state.step = 1 THEN "queued" ELSE Pipeline[state.step - 1]
        BY <4>1 DEF Before
      <4>3. state.step = 1 => mem[j].status = "queued"
        BY <2>2, <2>3, <3>2, PipelineFacts
      <4>4. state.step # 1 => mem[j].status = Pipeline[state.step - 1]
        BY <2>2, <2>3, <3>2, PipelineFacts
      <4> QED
        BY <2>5, <4>2, <4>3, <4>4
    <3>3. CASE state.status = "completed" /\ mem[j].step = 5 /\ state.step = mem[j].step
      <4>1. mem[j].status = Pipeline[mem[j].step]
        BY <2>3, <3>3
      <4> QED
        BY <2>5, <3>3, <4>1, StatusFacts DEF Before, Terminal
    <3> QED
      BY <2>1, <2>5, <3>1, <3>2, <3>3
  <2>7. TrackJob(j)'
    BY <2>4, <2>6 DEF TrackJob, Before, Saving, TypeOK, Writers
  <2>8. \A i \in Jobs \ {j} : pc'[i] = pc[i] /\ mem'[i] = mem[i]
    BY <2>4 DEF TypeOK, Writers
  <2> QED
    BY <1>1, <2>4, <2>7, <2>8
<1>14. ASSUME NEW j \in Jobs, RunTool(j)
       PROVE  TrackInv'
  <2>1. pc[j] = "tool" /\ UNCHANGED <<disk, target, phase, asked>>
    BY <1>14 DEF RunTool
  <2>2. /\ mem[j].status \in Stages /\ mem[j].status = Pipeline[mem[j].step]
        /\ ~asked[target[j]] => disk[target[j]].status = mem[j].status
    BY <2>1 DEF JobsInv, JobInv, Started, Progressed, TrackInv, TrackJob
  <2>3. CASE pc' = [pc EXCEPT ![j] = "next"] /\ mem' = mem
    <3>1. TrackJob(j)'
      BY <2>1, <2>2, <2>3 DEF TrackJob, Saving, TypeOK, Writers
    <3>2. \A i \in Jobs \ {j} : pc'[i] = pc[i]
      BY <2>3 DEF TypeOK, Writers
    <3> QED
      BY <1>1, <2>1, <2>3, <3>1, <3>2
  <2>4. CASE pc' = [pc EXCEPT ![j] = "report"] /\ mem' = [mem EXCEPT ![j].status = "failed"]
    <3>1. LET d == [mem[j] EXCEPT !.status = "failed"]
          IN  d.status = "failed" /\ d.step = mem[j].step
      BY WithStatus, StatusFacts DEF TypeOK, Terminal
    <3>2. mem'[j].status = "failed" /\ mem'[j].step = mem[j].step
      BY <2>4, <3>1 DEF TypeOK
    <3>3. Before(mem'[j]) = Pipeline[mem[j].step]
      BY <3>2, StatusFacts DEF Before, Terminal
    <3>4. Before(mem[j])' = Before(mem'[j])
      BY DEF Before
    <3>5. TrackJob(j)'
      BY <2>1, <2>2, <2>4, <3>3, <3>4 DEF TrackJob, Saving, TypeOK, Writers
    <3>6. \A i \in Jobs \ {j} : pc'[i] = pc[i] /\ mem'[i] = mem[i]
      BY <2>4 DEF TypeOK, Writers
    <3> QED
      BY <1>1, <2>1, <3>5, <3>6
  <2> QED
    BY <1>14, <2>3, <2>4 DEF RunTool
<1>15. ASSUME NEW j \in Jobs, JobDone(j)
       PROVE  TrackInv'
  <2>1. TrackJob(j)'
    BY <1>15 DEF JobDone, Goto, TrackJob, TypeOK, Writers
  <2>2. /\ disk' = disk
        /\ \A i \in Jobs \ {j} : /\ pc'[i] = pc[i] /\ target'[i] = target[i]
                                 /\ mem'[i] = mem[i] /\ phase'[i] = phase[i]
    BY <1>15 DEF JobDone, Goto, TypeOK, Writers
  <2> QED
    BY <1>1, <2>1, <2>2
<1>16. CASE Crash
  BY <1>16 DEF Crash, TrackInv, TrackJob, Writers
<1>17. CASE UNCHANGED vars
  BY <1>17 DEF vars, TrackInv, TrackJob, Before
<1> QED
  BY <1>2, <1>3, <1>4, <1>5, <1>7, <1>8, <1>9, <1>10, <1>11, <1>12, <1>13, <1>14, <1>15, <1>16, <1>17
     DEF Next, Request, JobStep, SaveStep, Writers
-----------------------------------------------------------------------------
(* While no write has failed: no step is executed twice.                   *)

\* A step of a busy writer concerns the run it works on, and that run's job.
LEMMA OthersOnce ==
    ASSUME RunInv, OnceInv, NEW w \in Writers, pc[w] # "idle", NEW r \in Runs, target[w] = r,
           \A x \in Writers \ {w} : pc'[x] = pc[x] /\ target'[x] = target[x],
           target'[w] \in {r, NoRun},
           \A i \in Jobs \ {w} : mem'[i] = mem[i],
           \A q \in Runs \ {r} : disk'[q] = disk[q] /\ tmp'[q] = tmp[q] /\ ran'[q] = ran[q],
           OnceRun(r)',
           \A j \in Jobs : pc[j] # "idle" /\ target[j] = r => OnceJob(j)'
    PROVE  OnceInv'
<1>1. ASSUME NEW q \in Runs, q # r
      PROVE  OnceRun(q)'
  <2>1. disk'[q] = disk[q] /\ tmp'[q] = tmp[q] /\ ran'[q] = ran[q]
    BY <1>1
  <2>2. OnceRun(q)
    BY DEF OnceInv
  <2>3. ASSUME NEW x \in Writers, Startable(tmp[q]), target'[x] = q, pc'[x] \in {"write", "replace"}
        PROVE  \E j \in Jobs : target'[j] = q /\ pc'[j] = "replace" /\ Startable(mem'[j])
    <3>1. x # w
      BY <1>1, <2>3, RunAssumption
    <3>2. PICK j \in Jobs : target[j] = q /\ pc[j] = "replace" /\ Startable(mem[j])
      BY <2>2, <2>3, <3>1 DEF OnceRun
    <3>3. j # w
      BY <1>1, <3>2
    <3> QED
      BY <3>2, <3>3 DEF Writers
  <2> QED
    BY <2>1, <2>2, <2>3 DEF OnceRun, Startable
<1>2. ASSUME NEW i \in Jobs, ~(pc[i] # "idle" /\ target[i] = r)
      PROVE  OnceJob(i)'
  <2>1. i # w /\ pc'[i] = pc[i] /\ target'[i] = target[i] /\ mem'[i] = mem[i]
    BY <1>2 DEF Writers
  <2>2. CASE pc[i] = "idle"
    BY <2>1, <2>2 DEF OnceJob, Started, Saving
  <2>3. CASE pc[i] # "idle"
    <3>1. target[i] \in Runs \ {r}
      BY <1>2, <2>3, BusyHasRun DEF RunInv, Writers
    <3>2. OnceJob(i)
      BY DEF OnceInv
    <3>3. /\ disk'[target[i]] = disk[target[i]] /\ tmp'[target[i]] = tmp[target[i]]
          /\ ran'[target[i]] = ran[target[i]]
      BY <3>1
    <3> QED
      BY <2>1, <3>2, <3>3 DEF OnceJob, Started, Startable
  <2> QED
    BY <2>2, <2>3
<1>3. \A q \in Runs : OnceRun(q)'
  BY <1>1
<1>4. \A i \in Jobs : OnceJob(i)'
  BY <1>2
<1> QED
  BY <1>3, <1>4 DEF OnceInv

\* Only a job whose run has not started to work writes a startable record.
LEMMA SavedStartable ==
    ASSUME RunInv, OnceInv, NEW w \in Writers, pc[w] \in Saving, Startable(out[w])
    PROVE  /\ w \in Jobs /\ Startable(mem[w])
           /\ \A k \in Steps : ran[target[w]][k] = 0
<1> USE DEF RunInv
<1>1. w \in Jobs
  <2>1. w \in Threads => out[w].status \in Stages \cup {"cancelled"}
    BY DEF WritersInv, Saving
  <2>2. out[w].status \notin Stages \cup {"cancelled"}
    BY StatusFacts DEF Startable, Terminal
  <2> QED
    BY <2>1, <2>2 DEF Writers
<1>2. Startable(mem[w])
  BY <1>1, SavedOwn DEF Startable
<1>3. mem[w].step = 0
  BY <1>1, <1>2 DEF JobsInv, JobInv, Started, Progressed, Startable
<1>4. \A k \in Steps : k > mem[w].step
  BY <1>3, PipelineFacts
<1> QED
  BY <1>1, <1>2, <1>4 DEF OnceInv, OnceJob, Started

(* An emptied temporary file does not let a run start again.               *)
LEMMA OpenOnce ==
    ASSUME RunInv, OnceInv, NEW w \in Writers, Open(w)
    PROVE  OnceInv'
<1> USE DEF RunInv
<1>1. PICK r \in Runs :
            /\ target[w] = r /\ pc[w] = "open" /\ pc' = [pc EXCEPT ![w] = "write"]
            /\ tmp' = [tmp EXCEPT ![r] = Blank] /\ UNCHANGED <<disk, target, mem, ran>>
  BY BusyHasRun DEF Open, Goto, jobVars, history
<1>2. tmp'[r] = Blank /\ ~Startable(Blank) /\ Blank # Absent
  BY <1>1, ContentFacts DEF TypeOK, Startable, Blank, Unreadable
<1>3. OnceRun(r)'
  BY <1>1, <1>2 DEF OnceInv, OnceRun, Startable
<1>4. ASSUME NEW j \in Jobs, pc[j] # "idle", target[j] = r
      PROVE  OnceJob(j)'
  <2>1. pc'[j] = pc[j] \/ (pc[j] = "open" /\ pc'[j] = "write")
    BY <1>1 DEF TypeOK, Writers
  <2> QED
    BY <1>1, <1>2, <1>4, <2>1 DEF OnceInv, OnceJob, Startable, Started, Saving
<1>5. /\ \A x \in Writers \ {w} : pc'[x] = pc[x]
      /\ \A q \in Runs \ {r} : tmp'[q] = tmp[q]
  BY <1>1 DEF TypeOK
<1> QED
  BY <1>1, <1>3, <1>4, <1>5, OthersOnce

(* A text written does not let a run start again.                          *)
LEMMA WriteOnce ==
    ASSUME RunInv, OnceInv, NEW w \in Writers, Write(w)
    PROVE  OnceInv'
<1> USE DEF RunInv
<1>1. PICK r \in Runs :
            /\ target[w] = r /\ pc[w] = "write" /\ pc' = [pc EXCEPT ![w] = "replace"]
            /\ UNCHANGED <<target, mem, ran>>
  BY BusyHasRun DEF Write, Goto, jobVars, history
<1>2. PICK new \in {out[w], Garbled} :
            \/ tmp' = [tmp EXCEPT ![r] = new] /\ disk' = disk
            \/ disk' = [disk EXCEPT ![r] = new] /\ tmp' = tmp
            \/ disk' = disk /\ tmp' = tmp
  BY <1>1, WriteCases
<1>3. new # Absent
  BY <1>1, ContentFacts DEF CopiesInv, Saving
<1>4. Startable(new) => /\ w \in Jobs /\ Startable(mem[w])
                        /\ \A k \in Steps : ran[r][k] = 0
  <2>1. ~Startable(Garbled)
    BY DEF Startable, Garbled, Unreadable
  <2> QED
    BY <1>1, <2>1, SavedStartable DEF Saving
<1>5. /\ \A x \in Writers \ {w} : pc'[x] = pc[x]
      /\ \A q \in Runs \ {r} : disk'[q] = disk[q] /\ tmp'[q] = tmp[q]
      /\ pc'[w] = "replace"
      /\ \/ tmp'[r] = new /\ disk'[r] = disk[r]
         \/ tmp'[r] = tmp[r] /\ disk'[r] = new
         \/ tmp'[r] = tmp[r] /\ disk'[r] = disk[r]
  BY <1>1, <1>2 DEF TypeOK
<1>6. OnceRun(r) /\ \A j \in Jobs : OnceJob(j)
  BY DEF OnceInv
<1>7. Startable(tmp[r]) => (w \in Jobs /\ Startable(mem[w])) \/ \E j \in Jobs : target[j] = r /\ pc[j] = "replace"
  BY <1>1, <1>6 DEF OnceRun
<1>8. OnceRun(r)'
  <2>1. /\ \A k \in Steps : ran'[r][k] <= 1
        /\ Startable(disk'[r]) \/ Startable(tmp'[r]) => \A k \in Steps : ran'[r][k] = 0
    BY <1>1, <1>4, <1>5, <1>6 DEF OnceRun
  <2>2. Startable(tmp'[r]) => \E j \in Jobs : target[j] = r /\ pc'[j] = "replace" /\ Startable(mem[j])
    <3>1. CASE Startable(new)
      BY <1>1, <1>4, <1>5, <3>1
    <3>2. CASE ~Startable(new) /\ Startable(tmp'[r])
      <4>1. Startable(tmp[r])
        BY <1>5, <3>2
      <4>2. PICK j \in Jobs : target[j] = r /\ pc[j] = "replace" /\ Startable(mem[j])
        BY <1>1, <1>6, <4>1 DEF OnceRun
      <4> QED
        BY <1>1, <1>5, <4>2 DEF Writers
    <3> QED
      BY <3>1, <3>2
  <2> QED
    BY <1>1, <2>1, <2>2 DEF OnceRun, Startable
<1>9. ASSUME NEW j \in Jobs, pc[j] # "idle", target[j] = r
      PROVE  OnceJob(j)'
  <2>1. CASE j = w
    BY <1>1, <1>3, <1>4, <1>5, <1>6, <2>1 DEF OnceJob, Startable, Started, Saving
  <2>2. CASE j # w
    <3>1. w \in Threads /\ ~Startable(new) /\ pc'[j] = pc[j]
      BY <1>1, <1>4, <1>5, <1>9, <2>2 DEF WritersInv, Writers
    <3>2. Startable(tmp[r]) => pc[j] = "replace"
      <4>1. Startable(tmp[r]) => \E i \in Jobs : target[i] = r /\ pc[i] = "replace"
        BY <1>1, <1>6 DEF OnceRun
      <4> QED
        BY <1>9, <4>1 DEF WritersInv
    <3> QED
      BY <1>1, <1>3, <1>5, <1>6, <1>9, <3>1, <3>2 DEF OnceJob, Startable, Started, Saving
  <2> QED
    BY <2>1, <2>2
<1> QED
  BY <1>1, <1>5, <1>8, <1>9, OthersOnce

\* What a writer does after a save, once the files are as they are.
LEMMA AfterwardsOnce ==
    ASSUME RunInv, OnceInv, NEW w \in Writers, pc[w] \in {"report"} \cup Saving,
           NEW saved \in BOOLEAN, Afterwards(w, saved), mem' = mem, NEW r \in Runs, target[w] = r,
           \A q \in Runs \ {r} : disk'[q] = disk[q] /\ tmp'[q] = tmp[q],
           ~Startable(tmp'[r]),
           Startable(disk'[r]) => Startable(disk[r]) \/ Startable(tmp[r]),
           \A j \in Jobs : target[j] = r /\ ~Startable(mem[j])
                           /\ (j = w \/ pc[j] \in {"write", "replace", "tool"}) => ~Startable(disk'[r])
    PROVE  OnceInv'
<1> USE DEF RunInv
<1>1. ran' = ran
  BY AfterwardsCases
<1>2. GoesOnToResult(w) \/ GoesOn(w) \/ Ends(w) \/ Answers(w)
  BY AfterwardsCases
<1>3. \A x \in Writers \ {w} : pc'[x] = pc[x] /\ target'[x] = target[x]
  BY <1>2 DEF GoesOnToResult, GoesOn, Ends, Answers, TypeOK
<1>4. target'[w] \in {r, NoRun}
  BY <1>2 DEF GoesOnToResult, GoesOn, Ends, Answers, TypeOK
<1>5. OnceRun(r) /\ \A j \in Jobs : OnceJob(j)
  BY DEF OnceInv
<1>6. OnceRun(r)'
  BY <1>1, <1>5 DEF OnceRun, Startable
<1>7. ASSUME NEW j \in Jobs, pc[j] # "idle", target[j] = r
      PROVE  OnceJob(j)'
  <2>1. CASE j # w
    <3>1. pc'[j] = pc[j] /\ target'[j] = r /\ mem'[j] = mem[j]
      BY <1>3, <1>7, <2>1 DEF Writers
    <3>2. pc[j] = "tool" => ~Startable(mem[j])
      BY StatusFacts DEF JobsInv, JobInv, Started, Progressed, Startable
    <3>3. pc[j] \in {"write", "replace", "tool"} /\ ~Startable(mem[j]) => ~Startable(disk'[r])
      BY <1>7
    <3> QED
      BY <1>1, <1>5, <1>7, <3>1, <3>2, <3>3 DEF OnceJob, Startable, Started, Saving
  <2>2. CASE j = w
    <3>1. /\ target'[j] = r /\ mem'[j] = mem[j] /\ pc'[j] \in {"open", "next", "tool", "ended"}
          /\ pc'[j] = "tool" => ~Startable(mem[j])
      <4>1. CASE GoesOnToResult(w)
        BY <1>7, <2>2, <4>1 DEF GoesOnToResult, TypeOK
      <4>2. CASE GoesOn(w)
        BY <1>7, <2>2, <4>2 DEF GoesOn, Startable, TypeOK
      <4>3. CASE Ends(w)
        BY <1>7, <2>2, <4>3 DEF Ends, TypeOK
      <4>4. CASE Answers(w)
        BY <2>2, <4>4, RunAssumption DEF Answers
      <4> QED
        BY <1>2, <4>1, <4>2, <4>3, <4>4
    <3>2. Started(j) /\ pc[j] # "next"
      BY <2>2 DEF Started, Saving
    <3> QED
      BY <1>1, <1>5, <1>7, <2>2, <3>1, <3>2 DEF OnceJob, Startable, Started, Saving
  <2> QED
    BY <2>1, <2>2
<1>8. \A q \in Runs \ {r} : ran'[q] = ran[q]
  BY <1>1
<1> QED
  BY <1>3, <1>4, <1>6, <1>7, <1>8, OthersOnce DEF Saving

(* A run without a readable record cannot be started.                      *)
LEMMA BareNotStartable ==
    ~Startable(Absent) /\ ~Startable(Blank) /\ ~Startable(Garbled)
  BY DEF Startable, Absent, Blank, Garbled, Unreadable

(* A rename does not let a run start again.                                *)
LEMMA ReplaceOnce ==
    ASSUME RunInv, OnceInv, NEW w \in Writers, Replace(w) \/ ReplaceFails(w)
    PROVE  OnceInv'
<1> USE BareNotStartable DEF RunInv
<1>1. PICK r \in Runs :
            /\ target[w] = r /\ pc[w] = "replace" /\ mem' = mem
            /\ \/ /\ disk' = [disk EXCEPT ![r] = tmp[r]] /\ tmp' = [tmp EXCEPT ![r] = Absent]
                  /\ Afterwards(w, TRUE)
               \/ disk' = disk /\ tmp' = tmp /\ tmp[r] = Absent /\ Afterwards(w, FALSE)
  BY BusyHasRun DEF Replace, ReplaceFails, jobVars
<1>2. /\ \A q \in Runs \ {r} : disk'[q] = disk[q] /\ tmp'[q] = tmp[q]
      /\ tmp'[r] = Absent
      /\ disk'[r] = tmp[r] \/ (disk'[r] = disk[r] /\ tmp[r] = Absent)
  BY <1>1 DEF TypeOK
<1>3. ASSUME NEW j \in Jobs, target[j] = r, ~Startable(mem[j]),
             j = w \/ pc[j] \in {"write", "replace", "tool"}
      PROVE  ~Startable(disk'[r])
  BY <1>1, <1>2, <1>3 DEF OnceInv, OnceJob, Started, Saving
<1>4. PICK saved \in BOOLEAN : Afterwards(w, saved)
  BY <1>1
<1>5. ~Startable(tmp'[r]) /\ (Startable(disk'[r]) => Startable(disk[r]) \/ Startable(tmp[r]))
  BY <1>2
<1>6. pc[w] \in {"report"} \cup Saving
  BY <1>1 DEF Saving
<1> QED
  BY <1>1, <1>2, <1>3, <1>4, <1>5, <1>6, AfterwardsOnce

(* A report of a job does not let its run start again.                     *)
LEMMA ReportOnce ==
    ASSUME RunInv, OnceInv, NEW j \in Jobs, Report(j)
    PROVE  OnceInv'
<1> USE DEF RunInv
<1>1. PICK r \in Runs : /\ target[j] = r /\ pc[j] = "report" /\ UNCHANGED <<disk, tmp, mem>>
  BY BusyHasRun DEF Report, jobVars, Writers
<1>2. CASE ~Readable(disk[r]) /\ Afterwards(j, FALSE)
  <2>1. ~Startable(disk[r])
    BY <1>2, StatusFacts DEF Startable, Readable
  <2>2. ~Startable(tmp[r])
    BY <1>1, <2>1 DEF OnceInv, OnceJob, Started
  <2> QED
    BY <1>1, <1>2, <2>1, <2>2, AfterwardsOnce DEF Writers
<1>3. CASE pc' = [pc EXCEPT ![j] = "open"] /\ UNCHANGED <<target, history>>
  <2>1. /\ pc'[j] = "open" /\ target' = target /\ ran' = ran
        /\ \A x \in Writers \ {j} : pc'[x] = pc[x]
    BY <1>3 DEF TypeOK, history, Writers
  <2>2. OnceRun(r)'
    <3>1. \A x \in Writers : pc'[x] \in {"write", "replace"} => pc[x] = pc'[x]
      BY <2>1
    <3>2. \A i \in Jobs : pc[i] = "replace" => pc'[i] = "replace"
      BY <1>1, <2>1 DEF Writers
    <3>3. OnceRun(r)
      BY DEF OnceInv
    <3> QED
      BY <1>1, <2>1, <3>1, <3>2, <3>3 DEF OnceRun, Startable
  <2>3. ASSUME NEW i \in Jobs, pc[i] # "idle", target[i] = r
        PROVE  OnceJob(i)'
    <3>1. i = j
      BY <1>1, <2>3 DEF WritersInv
    <3> QED
      BY <1>1, <2>1, <3>1 DEF OnceInv, OnceJob, Startable, Started, Saving
  <2> QED
    BY <1>1, <2>1, <2>2, <2>3, OthersOnce DEF Writers
<1> QED
  BY <1>1, <1>2, <1>3 DEF Report

(* A move of a job does not let its run start again.                       *)
LEMMA MoveOnce ==
    ASSUME RunInv, OnceInv, NEW j \in Jobs,
           StepLimit(j) \/ ObserveCancel(j) \/ StartStep(j) \/ Complete(j)
    PROVE  OnceInv'
<1> USE DEF RunInv
<1>1. PICK state \in Content :
            /\ Move(j, state)
            /\ \/ state.status \in Terminal /\ state.step = mem[j].step
               \/ /\ state.step = mem[j].step + 1 /\ state.step \in Steps
                  /\ state.status = Pipeline[state.step]
  BY MoveCases DEF Terminal
<1>2. PICK r \in Runs : target[j] = r /\ pc[j] = "next"
  BY MoveCases, BusyHasRun DEF Writers
<1>3. /\ UNCHANGED <<disk, tmp, target, ran>>
      /\ pc' = [pc EXCEPT ![j] = "report"] /\ mem' = [mem EXCEPT ![j] = state]
  BY <1>1 DEF Move, history
<1>4. /\ pc'[j] = "report" /\ mem'[j] = state /\ target'[j] = r
      /\ \A x \in Writers \ {j} : pc'[x] = pc[x]
      /\ \A i \in Jobs \ {j} : mem'[i] = mem[i]
  BY <1>2, <1>3 DEF TypeOK, Writers
<1>5. OnceRun(r) /\ OnceJob(j)
  BY DEF OnceInv
<1>6. OnceRun(r)'
  <2>1. \A x \in Writers : pc'[x] \in {"write", "replace"} => pc[x] = pc'[x]
    BY <1>4
  <2>2. \A i \in Jobs : pc[i] = "replace" => pc'[i] = "replace" /\ mem'[i] = mem[i]
    BY <1>2, <1>4 DEF Writers
  <2> QED
    BY <1>3, <1>5, <2>1, <2>2 DEF OnceRun, Startable
<1>7. OnceJob(j)'
  <2>0. mem[j].step \in 0..5 /\ state.step \in 0..5
    BY PipelineFacts DEF TypeOK, Content
  <2>1. ~Startable(state) /\ (state.status \in Stages => state.step = mem[j].step + 1 /\ state.step \in Steps)
    BY <1>1, PipelineFacts, StatusFacts DEF Startable
  <2>2. \A k \in Steps : k > state.step => k > mem[j].step
    BY <1>1, <2>0, PipelineFacts
  <2>3. \A k \in Steps : k = mem[j].step + 1 => k > mem[j].step
    BY <2>0, PipelineFacts
  <2>4. ~Startable(tmp[r])
    BY <1>2, <1>5 DEF OnceJob, Started
  <2>5. \A k \in Steps : k > mem[j].step => ran[r][k] = 0
    BY <1>2, <1>5 DEF OnceJob, Started
  <2> QED
    BY <1>3, <1>4, <2>1, <2>2, <2>3, <2>4, <2>5 DEF OnceJob, Startable, Started
<1>8. \A i \in Jobs : pc[i] # "idle" /\ target[i] = r => i = j
  BY <1>2 DEF WritersInv
<1> QED
  BY <1>2, <1>3, <1>4, <1>6, <1>7, <1>8, OthersOnce DEF Writers

(* A stage is executed once.                                               *)
LEMMA ToolOnce ==
    ASSUME RunInv, OnceInv, NEW j \in Jobs, RunTool(j)
    PROVE  OnceInv'
<1> USE DEF RunInv
<1>1. PICK r \in Runs :
            /\ target[j] = r /\ pc[j] = "tool" /\ UNCHANGED <<disk, tmp, target>>
            /\ ran' = [ran EXCEPT ![r][mem[j].step] = @ + 1]
            /\ \/ pc' = [pc EXCEPT ![j] = "next"] /\ mem' = mem
               \/ pc' = [pc EXCEPT ![j] = "report"] /\ mem' = [mem EXCEPT ![j].status = "failed"]
  BY BusyHasRun DEF RunTool, Writers
<1>2. mem[j].status \in Stages /\ mem[j].step \in Steps
  BY <1>1 DEF JobsInv, JobInv, Started, Progressed
<1>3. OnceRun(r) /\ OnceJob(j)
  BY DEF OnceInv
<1>4. /\ ~Startable(disk[r]) /\ ~Startable(tmp[r]) /\ ran[r][mem[j].step] = 0
      /\ \A k \in Steps : k > mem[j].step => ran[r][k] = 0
  BY <1>1, <1>2, <1>3, StatusFacts DEF OnceJob, Started, Startable
<1>5. /\ \A q \in Runs \ {r} : ran'[q] = ran[q]
      /\ \A k \in Steps : k # mem[j].step => ran'[r][k] = ran[r][k]
      /\ ran'[r][mem[j].step] = 1
  BY <1>1, <1>2, <1>4 DEF TypeOK
<1>6. /\ pc'[j] = "next" \/ (pc'[j] = "report" /\ mem'[j].status = "failed")
      /\ mem'[j].step = mem[j].step
      /\ \A x \in Writers \ {j} : pc'[x] = pc[x]
      /\ \A i \in Jobs \ {j} : mem'[i] = mem[i]
  <2>1. LET d == [mem[j] EXCEPT !.status = "failed"]
        IN  d.status = "failed" /\ d.step = mem[j].step
    BY WithStatus, StatusFacts DEF TypeOK, Terminal
  <2>2. CASE pc' = [pc EXCEPT ![j] = "next"] /\ mem' = mem
    BY <2>2 DEF TypeOK, Writers
  <2>3. CASE pc' = [pc EXCEPT ![j] = "report"] /\ mem' = [mem EXCEPT ![j].status = "failed"]
    <3>1. mem'[j] = [mem[j] EXCEPT !.status = "failed"] /\ \A i \in Jobs \ {j} : mem'[i] = mem[i]
      BY <2>3 DEF TypeOK
    <3> QED
      BY <2>1, <2>3, <3>1 DEF TypeOK, Writers
  <2> QED
    BY <1>1, <2>2, <2>3
<1>7. OnceRun(r)'
  <2>1. \A k \in Steps : ran'[r][k] <= 1
    BY <1>3, <1>5 DEF OnceRun
  <2> QED
    BY <1>1, <1>4, <2>1 DEF OnceRun, Startable
<1>8. OnceJob(j)'
  <2>1. \A k \in Steps : k > mem[j].step => k # mem[j].step
    BY <1>2, PipelineFacts
  <2>2. \A k \in Steps : k > mem[j].step => ran'[r][k] = 0
    BY <1>4, <1>5, <2>1
  <2>3. "failed" \notin Stages
    BY StatusFacts DEF Terminal
  <2> QED
    BY <1>1, <1>4, <1>6, <2>2, <2>3 DEF OnceJob, Startable, Started, Saving
<1>9. \A i \in Jobs : pc[i] # "idle" /\ target[i] = r => i = j
  BY <1>1 DEF WritersInv
<1> QED
  BY <1>1, <1>5, <1>6, <1>7, <1>8, <1>9, OthersOnce DEF Writers

\* A step that touches no file and no step of a run.
LEMMA FilesRestOnce ==
    ASSUME RunInv, OnceInv, UNCHANGED <<disk, tmp, ran>>, NEW w \in Writers,
           pc[w] # "replace", pc'[w] \notin {"write", "replace"},
           \A x \in Writers \ {w} : pc'[x] = pc[x] /\ target'[x] = target[x],
           \A i \in Jobs \ {w} : mem'[i] = mem[i],
           w \in Jobs => OnceJob(w)'
    PROVE  OnceInv'
<1>1. ASSUME NEW r \in Runs
      PROVE  OnceRun(r)'
  <2>1. OnceRun(r)
    BY DEF OnceInv
  <2>2. ASSUME NEW x \in Writers, Startable(tmp[r]), target'[x] = r, pc'[x] \in {"write", "replace"}
        PROVE  \E j \in Jobs : target'[j] = r /\ pc'[j] = "replace" /\ Startable(mem'[j])
    <3>1. x # w
      BY <2>2
    <3>2. PICK j \in Jobs : target[j] = r /\ pc[j] = "replace" /\ Startable(mem[j])
      BY <2>1, <2>2, <3>1 DEF OnceRun
    <3>3. j # w
      BY <3>2
    <3> QED
      BY <3>2, <3>3 DEF Writers
  <2> QED
    BY <2>1, <2>2 DEF OnceRun, Startable
<1>2. ASSUME NEW i \in Jobs, i # w
      PROVE  OnceJob(i)'
  BY <1>2 DEF OnceInv, OnceJob, Startable, Started, Writers
<1> QED
  BY <1>1, <1>2 DEF OnceInv

(* While no write fails, every step keeps executions single.               *)
LEMMA OncePreserved ==
    ASSUME RunInv, OnceInv, [Next]_vars, faults' = 0
    PROVE  OnceInv'
<1> USE RunAssumption DEF RunInv, jobVars, saveVars, history, troubles
<1>1. ASSUME NEW w \in Writers, WriteFails(w)
      PROVE  FALSE
  BY <1>1 DEF WriteFails, TypeOK
<1>2. ASSUME NEW r \in Runs, NEW new \in Runs, CreateRun(r) \/ Retry(r, new)
      PROVE  OnceInv'
  <2>1. PICK p \in Runs, c \in Content : disk[p] = Absent /\ disk' = [disk EXCEPT ![p] = c]
    <3>1. Queued(0) \in Content
      BY ContentFacts
    <3>2. CASE CreateRun(r)
      BY <3>1, <3>2 DEF CreateRun
    <3>3. CASE Retry(r, new)
      <4>1. disk[r].retry \in 0..MaxRetries
        BY DEF TypeOK, Content
      <4>2. disk[r].retry + 1 \in 0..MaxRetries
        BY <3>3, <4>1 DEF Retry
      <4>3. Queued(disk[r].retry + 1) \in Content
        BY <4>2, ContentFacts
      <4> QED
        BY <3>3, <4>3 DEF Retry
    <3> QED
      BY <1>2, <3>2, <3>3
  <2>2. UNCHANGED <<tmp, pc, target, mem, ran>>
    BY <1>2 DEF CreateRun, Retry
  <2>3. ASSUME NEW q \in Runs
        PROVE  OnceRun(q)'
    <3>1. CASE q = p
      <4>1. \A k \in Steps : ran[q][k] = 0
        BY <2>1, <3>1 DEF UnseenInv
      <4>2. \A x \in Writers : target[x] # q
        BY <2>1, <3>1 DEF UnseenInv
      <4> QED
        BY <2>2, <4>1, <4>2 DEF OnceRun
    <3>2. CASE q # p
      <4>1. disk'[q] = disk[q]
        BY <2>1, <3>2 DEF TypeOK
      <4> QED
        BY <2>2, <4>1 DEF OnceInv, OnceRun, Startable
    <3> QED
      BY <3>1, <3>2
  <2>4. ASSUME NEW i \in Jobs
        PROVE  OnceJob(i)'
    <3>1. CASE pc[i] = "idle"
      BY <2>2, <3>1 DEF OnceJob, Started, Saving
    <3>2. CASE pc[i] # "idle"
      <4>1. target[i] \in Runs /\ target[i] # p
        BY <2>1, <3>2, BusyHasRun DEF UnseenInv, Writers
      <4>2. disk'[target[i]] = disk[target[i]]
        BY <2>1, <4>1 DEF TypeOK
      <4> QED
        BY <2>2, <4>2 DEF OnceInv, OnceJob, Startable, Started
    <3> QED
      BY <3>1, <3>2
  <2> QED
    BY <2>3, <2>4 DEF OnceInv
<1>3. ASSUME NEW r \in Runs, NEW j \in Jobs, Execute(j, r)
      PROVE  OnceInv'
  <2>1. /\ pc[j] = "idle" /\ Startable(disk[r]) /\ UNCHANGED <<disk, tmp, mem, ran>>
        /\ pc' = [pc EXCEPT ![j] = "begin"] /\ target' = [target EXCEPT ![j] = r]
    BY <1>3 DEF Execute, Goto, Startable
  <2>2. /\ pc'[j] = "begin" /\ target'[j] = r
        /\ \A x \in Writers \ {j} : pc'[x] = pc[x] /\ target'[x] = target[x]
    BY <2>1 DEF TypeOK, Writers
  <2>3. OnceJob(j)'
    BY <2>1, <2>2 DEF OnceJob, Startable, Started, Saving
  <2> QED
    BY <2>1, <2>2, <2>3, FilesRestOnce DEF Writers
<1>4. ASSUME NEW r \in Runs, NEW t \in Threads, CancelRead(t, r)
      PROVE  OnceInv'
  <2>1. /\ pc[t] = "idle" /\ UNCHANGED <<disk, tmp, mem, ran>>
        /\ pc' = [pc EXCEPT ![t] = "open"] /\ target' = [target EXCEPT ![t] = r]
    BY <1>4 DEF CancelRead, Goto
  <2>2. /\ pc'[t] = "open" /\ t \notin Jobs
        /\ \A x \in Writers \ {t} : pc'[x] = pc[x] /\ target'[x] = target[x]
    BY <2>1 DEF TypeOK, Writers
  <2> QED
    BY <2>1, <2>2, FilesRestOnce DEF Writers
<1>5. ASSUME NEW j \in Jobs, BeginJob(j)
      PROVE  OnceInv'
  <2>1. PICK r \in Runs : target[j] = r /\ pc[j] = "begin" /\ UNCHANGED <<disk, tmp, target, ran>>
    BY <1>5, BusyHasRun DEF BeginJob, Writers
  <2>2. /\ mem'[j] = disk[r]
        /\ pc'[j] = IF disk[r].status = "queued" THEN "report" ELSE "ended"
        /\ \A x \in Writers \ {j} : pc'[x] = pc[x]
        /\ \A i \in Jobs \ {j} : mem'[i] = mem[i]
    BY <1>5, <2>1 DEF BeginJob, TypeOK, Writers
  <2>3. Startable(disk[r]) => \A k \in Steps : ran[r][k] = 0
    BY DEF OnceInv, OnceRun
  <2>4. disk[r].status = "queued" => disk[r].status \notin Stages
    BY StatusFacts
  <2>5. OnceJob(j)'
    BY <2>1, <2>2, <2>3, <2>4 DEF OnceJob, Startable, Started, Saving
  <2> QED
    BY <2>1, <2>2, <2>5, FilesRestOnce DEF Writers
<1>6. ASSUME NEW j \in Jobs, JobDone(j)
      PROVE  OnceInv'
  <2>1. /\ pc[j] = "ended" /\ pc'[j] = "idle" /\ UNCHANGED <<disk, tmp, ran>>
        /\ \A x \in Writers \ {j} : pc'[x] = pc[x] /\ target'[x] = target[x]
        /\ \A i \in Jobs \ {j} : mem'[i] = mem[i]
    BY <1>6 DEF JobDone, Goto, TypeOK, Writers
  <2>2. OnceJob(j)'
    BY <2>1 DEF OnceJob, Started, Saving
  <2> QED
    BY <2>1, <2>2, FilesRestOnce DEF Writers
<1>7. CASE Crash
  <2>1. UNCHANGED <<disk, tmp, ran>> /\ \A w \in Writers : pc'[w] = "idle"
    BY <1>7 DEF Crash
  <2>2. \A r \in Runs : OnceRun(r)'
    BY <2>1 DEF OnceInv, OnceRun, Startable
  <2>3. \A j \in Jobs : OnceJob(j)'
    BY <2>1 DEF OnceJob, Started, Saving, Writers
  <2> QED
    BY <2>2, <2>3 DEF OnceInv
<1>8. CASE UNCHANGED vars
  BY <1>8 DEF vars, OnceInv, OnceRun, OnceJob, Startable, Started
<1> QED
  BY <1>1, <1>2, <1>3, <1>4, <1>5, <1>6, <1>7, <1>8,
     OpenOnce, WriteOnce, ReplaceOnce, ReportOnce, MoveOnce, ToolOnce
     DEF Next, Request, JobStep, SaveStep, Writers
-----------------------------------------------------------------------------
(* While no write has failed: a run is executed once, and its record is    *)
(* the one the abstract specification promises.                            *)

(* What holds while no write fails holds at the start.                     *)
LEMMA UnfailedInit == Init => UnfailedInv
<1> SUFFICES ASSUME Init
             PROVE  OnceInv /\ TrackInv
  BY DEF UnfailedInv
<1>1. TrackInv
  BY DEF Init, TrackInv, TrackJob, Writers
<1>2. OnceInv
  BY DEF Init, OnceInv, OnceRun, OnceJob, Started, Saving, Writers
<1> QED
  BY <1>1, <1>2

(* What holds while no write fails is kept by every step.                  *)
LEMMA UnfailedStep == RunInv /\ UnfailedInv /\ [Next]_vars => UnfailedInv'
<1> SUFFICES ASSUME RunInv, UnfailedInv, [Next]_vars, faults' = 0
             PROVE  OnceInv' /\ TrackInv'
  BY DEF UnfailedInv
<1>1. faults' = faults \/ faults' = faults + 1
  BY DEF Next, Request, CreateRun, Execute, CancelRead, Retry, JobStep, BeginJob, Report,
         StepLimit, ObserveCancel, StartStep, Complete, RunTool, JobDone, Move, SaveStep,
         Open, Write, WriteFails, Replace, ReplaceFails, Crash, vars, troubles
<1>2. faults = 0
  BY <1>1 DEF RunInv, TypeOK
<1> QED
  BY <1>2, OncePreserved, TrackPreserved DEF UnfailedInv

(* While no write fails, the record keeps up with the job that works on    *)
(* it, and no run that has begun can be started again                      *)
(* (services/runs.py:247-281).                                             *)
THEOREM UnfailedInvariant == Spec => []UnfailedInv
  BY UnfailedInit, UnfailedStep, RunInvariant, PTL DEF Spec

(* While no write of a record has failed, no step of a run is executed     *)
(* twice: not when clients repeat execute and cancel, when the handlers'   *)
(* writes cross those of the job, nor when the process restarts.           *)
THEOREM ExecutionIsOnce == Spec => [](faults = 0 => AtMostOnceExecution)
<1>1. UnfailedInv => (faults = 0 => AtMostOnceExecution)
  BY DEF UnfailedInv, OnceInv, OnceRun, AtMostOnceExecution
<1> QED
  BY <1>1, UnfailedInvariant, PTL

(* While no write has failed, the task of a run nobody asked to cancel     *)
(* leaves a final record.                                                  *)
THEOREM ResultIsFinal == Spec => [](faults = 0 => UndisturbedResult)
<1>1. UnfailedInv => (faults = 0 => UndisturbedResult)
  BY DEF UnfailedInv, TrackInv, TrackJob, UndisturbedResult
<1> QED
  BY <1>1, UnfailedInvariant, PTL

\* A run whose record is replaced by what its job saves takes a step of the
\* abstract specification.
LEMMA ReplaceAdvances ==
    ASSUME RunInv, TrackInv, NEW j \in Jobs, pc[j] = "replace", NEW r \in Runs, target[j] = r, ~asked[r],
           shownMap' = [shownMap EXCEPT ![r] = mem[j].status]
    PROVE  shownMap' = shownMap \/ Record!Advance(r) \/ Record!Finish(r)
<1> DEFINE m == mem[j]
<1>1. shownMap[r] = disk[r].status
  BY DEF shownMap
<1>2. Progressed(j) /\ SavesOwn(j) /\ m.step \in 0..5
  BY PipelineFacts DEF RunInv, JobsInv, JobInv, Started, Saving, TypeOK, Content
<1>3. shownMap \in [Runs -> Statuses \cup {"absent", "blank", "garbled", "disputed"}]
  BY DEF shownMap, RunInv, TypeOK, Content
<1>4. CASE phase[j] = "result"
  <2>1. shownMap[r] = m.status
    BY <1>1, <1>4 DEF TrackInv, TrackJob, Saving
  <2> QED
    BY <1>3, <2>1
<1>5. CASE phase[j] = "progress"
  <2>1. shownMap[r] = Before(m)
    BY <1>1, <1>5 DEF TrackInv, TrackJob, Saving
  <2>2. CASE m.status = "queued"
    <3>1. shownMap[r] = m.status
      BY <2>1, <2>2, StatusFacts DEF Before
    <3> QED
      BY <1>3, <3>1
  <2>3. CASE m.status \in Stages
    <3>1. m.step \in Steps /\ m.status = Pipeline[m.step]
      BY <1>2, <2>3 DEF Progressed
    <3>2. shownMap[r] = IF m.step = 1 THEN "queued" ELSE Pipeline[m.step - 1]
      BY <2>1, <2>3, StatusFacts DEF Before
    <3>3. m.step = 1 \/ m.step \in 2..Len(Pipeline)
      BY <3>1, PipelineFacts
    <3>4. Record!Advance(r)
      BY <3>1, <3>2, <3>3 DEF Record!Advance, Record!Show
    <3> QED
      BY <3>4
  <2>4. CASE m.status \in {"completed", "failed"}
    <3>1. m.status \notin Stages /\ m.status # "queued"
      BY <2>4, StatusFacts DEF Terminal
    <3>2. shownMap[r] = Pipeline[m.step]
      BY <2>1, <3>1 DEF Before
    <3>3. /\ m.step \in 1..Len(Pipeline)
          /\ m.status = "completed" => m.step = Len(Pipeline)
      BY <1>2, <2>4, PipelineFacts DEF Progressed
    <3>4. Record!Finish(r)
      BY <2>4, <3>2, <3>3 DEF Record!Finish, Record!Show
    <3> QED
      BY <3>4
  <2>5. CASE m.status = "cancelled"
    <3>1. asked[r]
      BY <2>5 DEF RunInv, CopiesInv, TruthfulOf, Truthful, Started, Saving
    <3> QED
      BY <3>1
  <2> QED
    BY <1>2, <2>2, <2>3, <2>4, <2>5, StatusFacts DEF Progressed, Readable, Terminal
<1> QED
  BY <1>2, <1>4, <1>5 DEF SavesOwn

(* A step of the runs is, seen through a client's polls, a step of the     *)
(* record or none.                                                         *)
LEMMA StepRefines ==
    ASSUME RunInv, TrackInv, [Next]_vars, faults' = 0
    PROVE  [Record!Next]_shownMap
<1> USE DEF RunInv, jobVars, saveVars, history, troubles
<1>1. ASSUME asked' = asked, \A r \in Runs : ~asked[r] => disk'[r].status = disk[r].status
      PROVE  shownMap' = shownMap
  BY <1>1 DEF shownMap
<1>2. ASSUME NEW w \in Writers, Replace(w)
      PROVE  [Record!Next]_shownMap
  <2>1. PICK r \in Runs :
              /\ target[w] = r /\ pc[w] = "replace" /\ Afterwards(w, TRUE)
              /\ disk' = [disk EXCEPT ![r] = tmp[r]]
    BY <1>2, BusyHasRun DEF Replace
  <2>2. asked' = asked
    BY <2>1, AfterwardsCases DEF Saving
  <2>3. CASE asked[r]
    <3>1. \A q \in Runs : ~asked[q] => disk'[q].status = disk[q].status
      BY <2>1, <2>3 DEF TypeOK
    <3> QED
      BY <1>1, <2>2, <3>1
  <2>4. CASE ~asked[r]
    <3>1. w \in Jobs /\ tmp[r].status = mem[w].status
      BY <2>1, <2>4, UnaskedReadable
    <3>2. shownMap' = [shownMap EXCEPT ![r] = mem[w].status]
      BY <2>1, <2>2, <2>4, <3>1 DEF shownMap, TypeOK
    <3>3. shownMap' = shownMap \/ Record!Advance(r) \/ Record!Finish(r)
      BY <2>1, <2>4, <3>1, <3>2, ReplaceAdvances
    <3> QED
      BY <3>3 DEF Record!Next
  <2> QED
    BY <2>3, <2>4
<1>3. ASSUME NEW w \in Writers, Write(w)
      PROVE  shownMap' = shownMap
  <2>1. pc[w] = "write" /\ asked' = asked /\ target[w] \in Runs
    BY <1>3, BusyHasRun DEF Write, Goto
  <2>2. ~asked[target[w]] => fd[w] = "tmp"
    BY <2>1 DEF QuietInv, QuietJob, WritersInv, Writers
  <2>3. \A r \in Runs : ~asked[r] => disk'[r] = disk[r]
    BY <1>3, <2>1, <2>2, WriteCases DEF TypeOK
  <2> QED
    BY <1>1, <2>1, <2>3
<1>4. ASSUME NEW p \in Runs, NEW new \in Runs, CreateRun(p) \/ Retry(p, new)
      PROVE  [Record!Next]_shownMap
  <2>1. PICK r, n : r \in Runs /\ disk[r] = Absent /\ disk' = [disk EXCEPT ![r] = Queued(n)]
    BY <1>4 DEF CreateRun, Retry
  <2>2. asked' = asked /\ ~asked[r]
    BY <1>4, <2>1 DEF CreateRun, Retry, UnseenInv
  <2>3. shownMap[r] = "absent"
    BY <2>1, <2>2 DEF shownMap, Absent, Unreadable
  <2>4. Queued(n).status = "queued"
    BY DEF Queued
  <2>5. shownMap' = [shownMap EXCEPT ![r] = "queued"]
    BY <2>1, <2>2, <2>4 DEF shownMap, TypeOK
  <2> QED
    BY <2>1, <2>3, <2>5 DEF Record!Next, Record!Queue, Record!Show
<1>5. ASSUME NEW r \in Runs, NEW t \in Threads, CancelRead(t, r)
      PROVE  [Record!Next]_shownMap
  <2>1. /\ disk[r].status \in {"queued"} \cup Stages /\ disk' = disk
        /\ asked' = [asked EXCEPT ![r] = TRUE]
    BY <1>5 DEF CancelRead
  <2>2. shownMap[r] \notin {"absent", "completed", "failed"}
    BY <2>1, StatusFacts DEF shownMap, Terminal
  <2>3. shownMap' = [shownMap EXCEPT ![r] = "disputed"]
    BY <2>1 DEF shownMap, TypeOK
  <2> QED
    BY <2>2, <2>3 DEF Record!Next, Record!Dispute
<1>6. ASSUME disk' = disk, asked' = asked
      PROVE  shownMap' = shownMap
  BY <1>6 DEF shownMap
<1>7. ASSUME NEW w \in Writers, Open(w) \/ WriteFails(w) \/ ReplaceFails(w)
      PROVE  shownMap' = shownMap
  <2>1. disk' = disk /\ asked' = asked
    BY <1>7 DEF Open, WriteFails, ReplaceFails, Afterwards
  <2> QED
    BY <1>6, <2>1
<1>8. ASSUME NEW j \in Jobs,
             \/ BeginJob(j) \/ Report(j) \/ StepLimit(j) \/ ObserveCancel(j) \/ StartStep(j)
             \/ Complete(j) \/ RunTool(j) \/ JobDone(j)
      PROVE  shownMap' = shownMap
  <2>1. disk' = disk /\ asked' = asked
    BY <1>8 DEF BeginJob, Report, StepLimit, ObserveCancel, StartStep, Complete, RunTool, JobDone,
                Move, Afterwards
  <2> QED
    BY <1>6, <2>1
<1>9. ASSUME NEW r \in Runs, NEW j \in Jobs, Execute(j, r)
      PROVE  shownMap' = shownMap
  <2>1. disk' = disk /\ asked' = asked
    BY <1>9 DEF Execute
  <2> QED
    BY <1>6, <2>1
<1>10. ASSUME Crash \/ UNCHANGED vars
       PROVE  shownMap' = shownMap
  <2>1. disk' = disk /\ asked' = asked
    BY <1>10 DEF Crash, vars
  <2> QED
    BY <1>6, <2>1
<1> QED
  BY <1>2, <1>3, <1>4, <1>5, <1>7, <1>8, <1>9, <1>10 DEF Next, Request, JobStep, SaveStep, Writers

(* As long as no write fails, the record of every run goes through its     *)
(* states in the order RunRecord lists, until somebody asks to cancel it.  *)
THEOREM RunImplementsRecord == Spec /\ [](faults = 0) => ImplementsRecord
<1>1. Init => Record!Init
  BY DEF Init, Record!Init, shownMap, Absent, Unreadable
<1>2. RunInv /\ UnfailedInv /\ faults = 0 /\ (faults = 0)' /\ [Next]_vars => [Record!Next]_shownMap
  BY StepRefines DEF UnfailedInv
<1> QED
  BY <1>1, <1>2, RunInvariant, UnfailedInvariant, PTL DEF Spec, ImplementsRecord, Record!Spec
=============================================================================
