--------------------------- MODULE MCRunLifecycle ---------------------------
(* Instances of RunLifecycle: one run with concurrent cancel requests, and *)
(* two runs with retries and restarts.                                     *)
EXTENDS RunLifecycle

CONSTANTS r1, r2, j1, j2, t1, t2
=============================================================================
