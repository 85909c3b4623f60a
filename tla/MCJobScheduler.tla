--------------------------- MODULE MCJobScheduler ---------------------------
(* JobScheduler on two jobs and two workers for TLC. *)
EXTENDS JobScheduler

CONSTANTS j1, j2, w1, w2

MCJobs == {j1, j2}
MCWorkers == {w1, w2}
(* The type of the first job has no handler. *)
MCHandled == {j2}
(* One attempt for the first job, three for the second. *)
MCMaxAttempts == [j \in MCJobs |-> IF j = j1 THEN 1 ELSE 3]
=============================================================================
