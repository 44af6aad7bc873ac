---------------------------- MODULE MCTaskQueue ----------------------------
(* Instances of TaskQueue: which kind and project the calls belong to, and *)
(* the capacities of the semaphores.                                       *)
EXTENDS TaskQueue

CONSTANTS c1, c2, c3, pA, pB, llm, embedding

AllLLM == [c \in Calls |-> llm]
OneProject == [c \in Calls |-> pA]
TwoProjects == [c \in Calls |-> IF c = c2 THEN pB ELSE pA]
Ones == [k \in Kinds |-> 1]
=============================================================================
