------------------------------ MODULE RunRecord ------------------------------
(***************************************************************************)
(* What a client that polls a run may see: the run is queued, goes through *)
(* the five stages of the pipeline in order, and ends completed after the  *)
(* last one or failed after any.  A restart may leave it where it is.      *)
(* Once somebody asks to cancel the run, nothing is promised of its record *)
(* any more.                                                               *)
(***************************************************************************)
EXTENDS Naturals, Sequences

CONSTANTS Runs, Pipeline

VARIABLE shown      \* [Runs -> status]

Init == shown = [r \in Runs |-> "absent"]

Show(r, from, to) == shown[r] = from /\ shown' = [shown EXCEPT ![r] = to]

Queue(r) == Show(r, "absent", "queued")

Advance(r) ==
    \/ Show(r, "queued", Pipeline[1])
    \/ \E k \in 2..Len(Pipeline) : Show(r, Pipeline[k - 1], Pipeline[k])

Finish(r) ==
    \/ Show(r, Pipeline[Len(Pipeline)], "completed")
    \/ \E k \in 1..Len(Pipeline) : Show(r, Pipeline[k], "failed")

\* A cancel request is accepted for a run that has not ended.
Dispute(r) ==
    /\ shown[r] \notin {"absent", "completed", "failed"}
    /\ shown' = [shown EXCEPT ![r] = "disputed"]

Next == \E r \in Runs : Queue(r) \/ Advance(r) \/ Finish(r) \/ Dispute(r)

Spec == Init /\ [][Next]_shown
=============================================================================
