------------------------------ MODULE QuotaGate ------------------------------
(***************************************************************************)
(* What the task queue promises its callers, without semaphores, polling,  *)
(* deadlines or counters: every admitted call waits, may run once and is   *)
(* gone afterwards, and a call starts only while its kind (LLM, embedding) *)
(* has a free global slot and its project a free slot of that kind.        *)
(***************************************************************************)
EXTENDS Naturals, FiniteSets

CONSTANTS Calls, Kinds, Projects, KindOf, ProjectOf, GlobalCap, ProjectCap

VARIABLE served     \* [Calls -> {"waiting", "running", "gone"}]

Running(k) == {c \in Calls : served[c] = "running" /\ KindOf[c] = k}

RunningFor(k, p) == {c \in Running(k) : ProjectOf[c] = p}

Init == served = [c \in Calls |-> "waiting"]

\* A call starts within both quotas.
Begin(c) ==
    LET k == KindOf[c]
        p == ProjectOf[c]
    IN  /\ served[c] = "waiting"
        /\ Cardinality(Running(k)) < GlobalCap[k]
        /\ Cardinality(RunningFor(k, p)) < ProjectCap[k]
        /\ served' = [served EXCEPT ![c] = "running"]

\* A running call ends, or a waiting one gives up (cancelled or timed out).
Leave(c) ==
    /\ served[c] \in {"waiting", "running"}
    /\ served' = [served EXCEPT ![c] = "gone"]

Next == \E c \in Calls : Begin(c) \/ Leave(c)

Spec == Init /\ [][Next]_served
=============================================================================
