------------------------------ MODULE TaskQueue ------------------------------
(***************************************************************************)
(* app/services/task_queue.py: TaskQueue gates LLM and embedding calls by  *)
(* a global semaphore per kind and a semaphore per kind and project.  The  *)
(* callers run in worker threads with event loops of their own, so every   *)
(* step between two awaits or two lock blocks interleaves with the others. *)
(*                                                                         *)
(* A call is one coroutine inside _enqueue.  Time is the number of polls   *)
(* left before the deadline of the current _acquire; a late wake-up may    *)
(* also exceed the deadline earlier.                                       *)
(***************************************************************************)
EXTENDS Integers, FiniteSets

CONSTANTS
    Calls,        \* the calls of _enqueue, each made once
    Kinds,        \* "llm" and "embedding": one pair of semaphores each
    Projects,     \* project ids
    KindOf,       \* [Calls -> Kinds]
    ProjectOf,    \* [Calls -> Projects]
    GlobalCap,    \* [Kinds -> Nat]: global_max_concurrent_*_calls
    ProjectCap,   \* [Kinds -> Nat]: per_project_max_concurrent_*_calls
    PollLimit,    \* polls of 0.1 s that fit in the queue timeout
    Killable      \* calls whose asyncio task something may cancel

ASSUME QueueAssumption ==
    /\ IsFiniteSet(Calls)
    /\ KindOf \in [Calls -> Kinds]
    /\ ProjectOf \in [Calls -> Projects]
    /\ GlobalCap \in [Kinds -> Nat \ {0}]
    /\ ProjectCap \in [Kinds -> Nat \ {0}]
    /\ PollLimit \in Nat \ {0}
    /\ Killable \subseteq Calls

VARIABLES
    pc,           \* where the coroutine of each call stands
    polls,        \* polls left before the deadline of the current _acquire
    event,        \* the call's cancel_event is set
    outcome,      \* how the call ended
    globalFree,   \* [Kinds -> Int]: permits of the global semaphores
    projectFree,  \* [Kinds -> [Projects -> Int]]: permits of the project ones
    orphan,       \* the semaphore a killed call's worker thread still waits on
    lost,         \* the semaphore whose permit such a thread took for nobody
    active,       \* [Kinds -> Int]: active_llm_calls, active_embedding_calls
    queued,       \* queued_calls
    totals        \* total_completed, total_cancelled, total_timeouts, total_errors

vars == <<pc, polls, event, outcome, globalFree, projectFree, orphan, lost,
          active, queued, totals>>
-----------------------------------------------------------------------------
PC == {"new", "atProject", "inProject", "atGlobal", "inGlobal", "granted",
       "ready", "calling", "exiting", "freeProject", "freeGlobal", "leaving", "done"}

Outcomes == {"none", "completed", "cancelled", "timeout", "error"}

\* The calls that hold a permit of their project's semaphore.
HoldsProject == {"atGlobal", "inGlobal", "granted", "ready", "calling",
                 "exiting", "freeProject"}

\* The calls that hold a permit of the global semaphore.
HoldsGlobal == {"granted", "ready", "calling", "exiting", "freeProject",
                "freeGlobal"}

\* Counted as queued: leaving is between giving up and the handler's lock.
Waiting == {"atProject", "inProject", "atGlobal", "inGlobal", "granted", "leaving"}

Counted == {"ready", "calling", "exiting"}

TotalNames == {"completed", "cancelled", "timeouts", "errors"}

Init ==
    /\ pc = [c \in Calls |-> "new"]
    /\ polls = [c \in Calls |-> PollLimit]
    /\ event = [c \in Calls |-> FALSE]
    /\ outcome = [c \in Calls |-> "none"]
    /\ globalFree = GlobalCap
    /\ projectFree = [k \in Kinds |-> [p \in Projects |-> ProjectCap[k]]]
    /\ orphan = [c \in Calls |-> "none"]
    /\ lost = [c \in Calls |-> "none"]
    /\ active = [k \in Kinds |-> 0]
    /\ queued = 0
    /\ totals = [t \in TotalNames |-> 0]

Goto(c, from, to) == pc[c] = from /\ pc' = [pc EXCEPT ![c] = to]

TakeProjectPermit(c) ==
    /\ projectFree[KindOf[c]][ProjectOf[c]] > 0
    /\ projectFree' = [projectFree EXCEPT ![KindOf[c]][ProjectOf[c]] = @ - 1]

GiveProjectPermit(c) ==
    projectFree' = [projectFree EXCEPT ![KindOf[c]][ProjectOf[c]] = @ + 1]

TakeGlobalPermit(c) ==
    /\ globalFree[KindOf[c]] > 0
    /\ globalFree' = [globalFree EXCEPT ![KindOf[c]] = @ - 1]

semaphores == <<globalFree, projectFree>>
threads == <<orphan, lost>>
-----------------------------------------------------------------------------
(* Waiting for the two permits: _enqueue up to the second _acquire.        *)

\* The project semaphore is created on first use and the call is queued.
Enqueue(c) ==
    /\ Goto(c, "new", "atProject")
    /\ queued' = queued + 1
    /\ UNCHANGED <<polls, event, outcome, semaphores, threads, active, totals>>

\* Mutant: the loop of _acquire does not look at its deadline.
PollPastDeadline(c) ==
    /\ ~event[c]
    /\ Goto(c, "atProject", "inProject")
    /\ UNCHANGED <<polls, event, outcome, semaphores, threads, active, queued, totals>>

\* The head of the loop of _acquire hands the wait to a worker thread.
PollProject(c) ==
    /\ ~event[c] /\ polls[c] > 0
    /\ Goto(c, "atProject", "inProject")
    /\ UNCHANGED <<polls, event, outcome, semaphores, threads, active, queued, totals>>

\* The thread gets the permit; the second _acquire starts a fresh deadline.
GetProject(c) ==
    /\ Goto(c, "inProject", "atGlobal")
    /\ TakeProjectPermit(c)
    /\ polls' = [polls EXCEPT ![c] = PollLimit]
    /\ UNCHANGED <<event, outcome, globalFree, threads, active, queued, totals>>

\* Mutant: every turn of the loop computes a fresh deadline.
MissProjectAfresh(c) ==
    /\ Goto(c, "inProject", "atProject")
    /\ UNCHANGED <<polls, event, outcome, semaphores, threads, active, queued, totals>>

\* The thread waited its 0.1 s for nothing.
MissProject(c) ==
    /\ Goto(c, "inProject", "atProject")
    /\ polls' = [polls EXCEPT ![c] = @ - 1]
    /\ UNCHANGED <<event, outcome, semaphores, threads, active, queued, totals>>

PollGlobal(c) ==
    /\ ~event[c] /\ polls[c] > 0
    /\ Goto(c, "atGlobal", "inGlobal")
    /\ UNCHANGED <<polls, event, outcome, semaphores, threads, active, queued, totals>>

\* Mutant: the global quota is not taken.
GetGlobalForFree(c) ==
    /\ Goto(c, "inGlobal", "granted")
    /\ UNCHANGED <<polls, event, outcome, semaphores, threads, active, queued, totals>>

GetGlobal(c) ==
    /\ Goto(c, "inGlobal", "granted")
    /\ TakeGlobalPermit(c)
    /\ UNCHANGED <<polls, event, outcome, projectFree, threads, active, queued, totals>>

MissGlobal(c) ==
    /\ Goto(c, "inGlobal", "atGlobal")
    /\ polls' = [polls EXCEPT ![c] = @ - 1]
    /\ UNCHANGED <<event, outcome, semaphores, threads, active, queued, totals>>

\* Mutant: no release of the project permit when the global wait ends.
GiveUpKeepingPermit(c, why) ==
    /\ pc[c] \in {"atProject", "atGlobal"}
    /\ pc' = [pc EXCEPT ![c] = "leaving"]
    /\ outcome' = [outcome EXCEPT ![c] = why]
    /\ UNCHANGED <<polls, event, semaphores, threads, active, queued, totals>>

\* _acquire raises at the head of its loop, and a call that waits for the
\* global permit gives its project permit back.
GiveUp(c, why) ==
    /\ pc[c] \in {"atProject", "atGlobal"}
    /\ pc' = [pc EXCEPT ![c] = "leaving"]
    /\ outcome' = [outcome EXCEPT ![c] = why]
    /\ \/ pc[c] = "atGlobal" /\ GiveProjectPermit(c)
       \/ pc[c] = "atProject" /\ UNCHANGED projectFree
    /\ UNCHANGED <<polls, event, globalFree, threads, active, queued, totals>>

CancelWait(c) == event[c] /\ GiveUp(c, "cancelled")

TimeOut(c) == ~event[c] /\ GiveUp(c, "timeout")

\* One of the two handlers counts the call out, under the lock.
CountOut(c) ==
    /\ Goto(c, "leaving", "done")
    /\ queued' = queued - 1
    /\ \/ outcome[c] = "timeout" /\ totals' = [totals EXCEPT !["timeouts"] = @ + 1]
       \/ outcome[c] = "cancelled" /\ totals' = [totals EXCEPT !["cancelled"] = @ + 1]
    /\ UNCHANGED <<polls, event, outcome, semaphores, threads, active>>
-----------------------------------------------------------------------------
(* Executing with both permits.                                            *)

\* Mutant: an active call is still counted as queued.
ActivateStillQueued(c) ==
    /\ Goto(c, "granted", "ready")
    /\ active' = [active EXCEPT ![KindOf[c]] = @ + 1]
    /\ UNCHANGED <<polls, event, outcome, semaphores, threads, queued, totals>>

Activate(c) ==
    /\ Goto(c, "granted", "ready")
    /\ active' = [active EXCEPT ![KindOf[c]] = @ + 1]
    /\ queued' = queued - 1
    /\ UNCHANGED <<polls, event, outcome, semaphores, threads, totals>>

StartCall(c) ==
    /\ ~event[c]
    /\ Goto(c, "ready", "calling")
    /\ UNCHANGED <<polls, event, outcome, semaphores, threads, active, queued, totals>>

\* The check before execution counts the cancellation and raises, and the
\* handler of CancelledError below it counts it once more.
CancelBeforeCall(c) ==
    /\ event[c]
    /\ Goto(c, "ready", "exiting")
    /\ outcome' = [outcome EXCEPT ![c] = "cancelled"]
    /\ totals' = [totals EXCEPT !["cancelled"] = @ + 2]
    /\ UNCHANGED <<polls, event, semaphores, threads, active, queued>>

\* The awaited callable returns, raises an error or is cancelled.
EndCall(c, why, total) ==
    /\ Goto(c, "calling", "exiting")
    /\ outcome' = [outcome EXCEPT ![c] = why]
    /\ totals' = [totals EXCEPT ![total] = @ + 1]
    /\ UNCHANGED <<polls, event, semaphores, threads, active, queued>>

CallReturns(c) == EndCall(c, "completed", "completed")

CallFails(c) == EndCall(c, "error", "errors")

\* Mutant: the gauge goes down after a success only, not in a finally clause.
ClearGaugeOnSuccess(c) ==
    /\ Goto(c, "exiting", "freeProject")
    /\ active' = [active EXCEPT ![KindOf[c]] = IF outcome[c] = "completed" THEN @ - 1 ELSE @]
    /\ UNCHANGED <<polls, event, outcome, semaphores, threads, queued, totals>>

\* The finally clause: the gauge under the lock, then the two releases.
ClearGauge(c) ==
    /\ Goto(c, "exiting", "freeProject")
    /\ active' = [active EXCEPT ![KindOf[c]] = IF @ > 0 THEN @ - 1 ELSE 0]
    /\ UNCHANGED <<polls, event, outcome, semaphores, threads, queued, totals>>

ReleaseProject(c) ==
    /\ Goto(c, "freeProject", "freeGlobal")
    /\ GiveProjectPermit(c)
    /\ UNCHANGED <<polls, event, outcome, globalFree, threads, active, queued, totals>>

ReleaseGlobal(c) ==
    /\ Goto(c, "freeGlobal", "done")
    /\ globalFree' = [globalFree EXCEPT ![KindOf[c]] = @ + 1]
    /\ UNCHANGED <<polls, event, outcome, projectFree, threads, active, queued, totals>>
-----------------------------------------------------------------------------
(* The environment: cancel events, and cancellation of the asyncio task.   *)

SetEvent(c) ==
    /\ pc[c] # "done" /\ ~event[c]
    /\ event' = [event EXCEPT ![c] = TRUE]
    /\ UNCHANGED <<pc, polls, outcome, semaphores, threads, active, queued, totals>>

\* Task cancellation while to_thread waits: the coroutine leaves as in
\* CancelWait, but the thread cannot be interrupted and goes on waiting.
KillWait(c) ==
    /\ c \in Killable
    /\ pc[c] \in {"inProject", "inGlobal"}
    /\ pc' = [pc EXCEPT ![c] = "leaving"]
    /\ outcome' = [outcome EXCEPT ![c] = "cancelled"]
    /\ \/ /\ pc[c] = "inProject"
          /\ orphan' = [orphan EXCEPT ![c] = "project"]
          /\ UNCHANGED projectFree
       \/ /\ pc[c] = "inGlobal"
          /\ orphan' = [orphan EXCEPT ![c] = "global"]
          /\ GiveProjectPermit(c)
    /\ UNCHANGED <<polls, event, globalFree, lost, active, queued, totals>>

KillCall(c) == c \in Killable /\ EndCall(c, "cancelled", "cancelled")

\* The abandoned thread acquires the semaphore; nobody will release it.
OrphanTakes(c) ==
    /\ \/ orphan[c] = "project" /\ TakeProjectPermit(c) /\ UNCHANGED globalFree
       \/ orphan[c] = "global" /\ TakeGlobalPermit(c) /\ UNCHANGED projectFree
    /\ lost' = [lost EXCEPT ![c] = orphan[c]]
    /\ orphan' = [orphan EXCEPT ![c] = "none"]
    /\ UNCHANGED <<pc, polls, event, outcome, active, queued, totals>>

OrphanExpires(c) ==
    /\ orphan[c] # "none"
    /\ orphan' = [orphan EXCEPT ![c] = "none"]
    /\ UNCHANGED <<pc, polls, event, outcome, semaphores, lost, active, queued, totals>>
-----------------------------------------------------------------------------
\* What the coroutine and its threads do by themselves.
Step(c) ==
    \/ PollProject(c) \/ GetProject(c) \/ MissProject(c)
    \/ PollGlobal(c) \/ GetGlobal(c) \/ MissGlobal(c)
    \/ CancelWait(c) \/ TimeOut(c) \/ CountOut(c)
    \/ Activate(c) \/ StartCall(c) \/ CancelBeforeCall(c)
    \/ CallReturns(c) \/ CallFails(c)
    \/ ClearGauge(c) \/ ReleaseProject(c) \/ ReleaseGlobal(c)

Environment(c) ==
    \/ Enqueue(c) \/ SetEvent(c) \/ KillWait(c) \/ KillCall(c)
    \/ OrphanTakes(c) \/ OrphanExpires(c)

Next == \E c \in Calls : Step(c) \/ Environment(c)

Spec == Init /\ [][Next]_vars

\* Threads and event loops are scheduled and the model client has a timeout.
Fairness == \A c \in Calls : WF_vars(Step(c))

FairSpec == Spec /\ Fairness
-----------------------------------------------------------------------------
TypeOK ==
    /\ pc \in [Calls -> PC]
    /\ polls \in [Calls -> 0..PollLimit]
    /\ event \in [Calls -> BOOLEAN]
    /\ outcome \in [Calls -> Outcomes]
    /\ globalFree \in [Kinds -> Int]
    /\ projectFree \in [Kinds -> [Projects -> Int]]
    /\ orphan \in [Calls -> {"none", "project", "global"}]
    /\ lost \in [Calls -> {"none", "project", "global"}]
    /\ active \in [Kinds -> Int]
    /\ queued \in Int
    /\ totals \in [TotalNames -> Nat]

\* The permits of a semaphore that are not free.
GlobalUsers(k) ==
    {c \in Calls : KindOf[c] = k /\ (pc[c] \in HoldsGlobal \/ lost[c] = "global")}

ProjectUsers(k, p) ==
    {c \in Calls : KindOf[c] = k /\ ProjectOf[c] = p
                   /\ (pc[c] \in HoldsProject \/ lost[c] = "project")}

CallsIn(places) == {c \in Calls : pc[c] \in places}

ActiveCalls(k) == {c \in CallsIn(Counted) : KindOf[c] = k}

GlobalConserved ==
    \A k \in Kinds :
        /\ globalFree[k] >= 0
        /\ globalFree[k] + Cardinality(GlobalUsers(k)) = GlobalCap[k]

ProjectConserved ==
    \A k \in Kinds, p \in Projects :
        /\ projectFree[k][p] >= 0
        /\ projectFree[k][p] + Cardinality(ProjectUsers(k, p)) = ProjectCap[k]

\* Every permit of both levels is free, held by one call, or lost to one dead
\* caller: the releases on all the exits of _enqueue (task_queue.py:160-222)
\* never give a permit back twice, so BoundedSemaphore never raises, and never
\* forget one.
PermitsConserved == GlobalConserved /\ ProjectConserved

QueuedExact == queued = Cardinality(CallsIn(Waiting))

ActiveExact == \A k \in Kinds : active[k] = Cardinality(ActiveCalls(k))

\* The gauges are exact: each exit of _enqueue undoes what its entry counted,
\* and the clamp max(0, ...) of the finally clause never hides a drift.
GaugesExact == QueuedExact /\ ActiveExact

\* The active gauges shown by /monitor/queue never exceed the capacities shown
\* beside them (status(), task_queue.py:120-133), whatever the order in which
\* threads acquire, count and release.
GaugeWithinCapacity == \A k \in Kinds : 0 <= active[k] /\ active[k] <= GlobalCap[k]

\* A thread is waited for only while the deadline has not passed.
DeadlineAhead == \A c \in Calls : pc[c] \in {"inProject", "inGlobal"} => polls[c] > 0

\* Only the thread of a call that is gone is orphaned, and it takes one permit.
OrphansOfTheDead ==
    \A c \in Calls :
        /\ (orphan[c] # "none" \/ lost[c] # "none") => pc[c] \in {"leaving", "done"}
        /\ orphan[c] # "none" => lost[c] = "none"

\* The inductive invariant behind the theorems of TaskQueueProofs.
QueueInv ==
    /\ TypeOK
    /\ DeadlineAhead
    /\ OrphansOfTheDead
    /\ PermitsConserved
    /\ GaugesExact

\* When no call is in flight every slot is free again, whether the calls
\* succeeded, failed, were cancelled or timed out ("releases slots after
\* success, cancellation, timeout, or error").
SlotsReturned ==
    (\A c \in Calls : pc[c] \in {"new", "done"} /\ orphan[c] = "none")
        => /\ globalFree = GlobalCap
           /\ \A k \in Kinds, p \in Projects : projectFree[k][p] = ProjectCap[k]

\* No call waits or runs for ever: deadlines bound both waits.
EveryCallLeaves == \A c \in Calls : (pc[c] = "atProject") ~> (pc[c] = "done")

\* The queue implements the quota gate: a callable starts only within the
\* global and the project quota of its kind.
servedMap ==
    [c \in Calls |->
        IF pc[c] = "calling" THEN "running"
        ELSE IF pc[c] \in {"exiting", "freeProject", "freeGlobal", "done"} THEN "gone"
        ELSE "waiting"]

Gate == INSTANCE QuotaGate WITH served <- servedMap

ImplementsGate == Gate!Spec
=============================================================================
