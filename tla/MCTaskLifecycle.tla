-------------------------- MODULE MCTaskLifecycle --------------------------
(* Instances of TaskLifecycle: the statuses clients create tasks with, the *)
(* tables they import, and the flags they import them with.  Only safety   *)
(* is checked, so that tasks and threads may be exchanged (Exchanges).     *)
EXTENDS TaskLifecycle, TLC

CONSTANTS t1, t2, t3, th1, th2, nameA, nameB, rowA, rowB

BothTitles == [r \in Rows |-> IF r = rowA THEN nameA ELSE nameB]
NoFiles == {}
OneRow == {<<rowA>>}
Table == {<<rowA, rowB>>}
Skipping == {[skip |-> TRUE, overwrite |-> FALSE]}
SkippingOrOverwriting == {[skip |-> TRUE, overwrite |-> o] : o \in BOOLEAN}

Exchanges == Permutations(Tasks) \cup Permutations(Threads)
=============================================================================
