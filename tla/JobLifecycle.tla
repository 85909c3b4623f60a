---------------------------- MODULE JobLifecycle ----------------------------
(***************************************************************************)
(* What the job scheduler promises about one table of jobs, without        *)
(* workers, batches, leases or lock tokens: a job is taken at most         *)
(* MaxAttempts times, it succeeds only on the strength of its latest       *)
(* attempt, it is given up only when its attempts are spent, and a settled *)
(* job never changes again.  JobScheduler refines this module and          *)
(* BatchPipeline is built on it.                                           *)
(***************************************************************************)
EXTENDS Integers

CONSTANTS
  Jobs,         \* identities of job rows
  MaxAttempts   \* the maxAttempts column of each row, a positive number

VARIABLES
  status,       \* the status column; "ABSENT" before the row is inserted
  attempts,     \* the attempts column
  finished      \* attempts of each job whose handler returned normally

vars == <<status, attempts, finished>>

Statuses == {"ABSENT", "PENDING", "RUNNING", "SUCCEEDED", "FAILED"}

TypeOK ==
  /\ status \in [Jobs -> Statuses]
  /\ attempts \in [Jobs -> Nat]
  /\ finished \in [Jobs -> SUBSET Nat]

Init ==
  /\ status = [j \in Jobs |-> "ABSENT"]
  /\ attempts = [j \in Jobs |-> 0]
  /\ finished = [j \in Jobs |-> {}]

(* Rewrites the status of every job of a set, as one SQL UPDATE does. *)
SetStatus(C, s) == status' = [j \in Jobs |-> IF j \in C THEN s ELSE status[j]]

Submit(j) ==
  /\ status[j] = "ABSENT"
  /\ SetStatus({j}, "PENDING")
  /\ UNCHANGED <<attempts, finished>>

(* A batch of jobs is taken at once; a running job may be taken again.  *)
Take(C) ==
  /\ \A j \in C : status[j] \in {"PENDING", "RUNNING"} /\ attempts[j] < MaxAttempts[j]
  /\ SetStatus(C, "RUNNING")
  /\ attempts' = [j \in Jobs |-> IF j \in C THEN attempts[j] + 1 ELSE attempts[j]]
  /\ UNCHANGED finished

(* The handler of attempt a, which need not be the latest one, returns. *)
Finish(j, a) ==
  /\ a \in 1..attempts[j]
  /\ finished' = [finished EXCEPT ![j] = @ \cup {a}]
  /\ UNCHANGED <<status, attempts>>

Succeed(j) ==
  /\ status[j] = "RUNNING"
  /\ attempts[j] \in finished[j]
  /\ SetStatus({j}, "SUCCEEDED")
  /\ UNCHANGED <<attempts, finished>>

Retry(j) ==
  /\ status[j] = "RUNNING"
  /\ attempts[j] < MaxAttempts[j]
  /\ SetStatus({j}, "PENDING")
  /\ UNCHANGED <<attempts, finished>>

(* Jobs whose attempts are spent are given up, several at once. *)
GiveUp(C) ==
  /\ \A j \in C : status[j] = "RUNNING" /\ attempts[j] = MaxAttempts[j]
  /\ SetStatus(C, "FAILED")
  /\ UNCHANGED <<attempts, finished>>

Next ==
  \/ \E j \in Jobs : Submit(j) \/ Succeed(j) \/ Retry(j)
  \/ \E j \in Jobs : \E a \in 1..attempts[j] : Finish(j, a)
  \/ \E C \in SUBSET Jobs : Take(C) \/ GiveUp(C)

Spec == Init /\ [][Next]_vars
=============================================================================
