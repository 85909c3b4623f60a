---------------------------- MODULE JobScheduler ----------------------------
(***************************************************************************)
(* PostgresJobScheduler: several worker processes poll one jobs table.     *)
(* A poll sweeps the exhausted rows, claims a batch with one atomic        *)
(* statement, and runs the claimed jobs one after the other.  Claims carry *)
(* a fresh lock token and a lease that is never renewed, so a job of a     *)
(* slow batch can be claimed again by another worker before the first one  *)
(* has even started it.                                                    *)
(*                                                                         *)
(* Time is abstracted: a live lease may run out, and a deferred row may    *)
(* become due, at any moment.  The claim query orders by runAt and skips   *)
(* locked rows; here it takes any set of claimable rows within the limit,  *)
(* which covers every order and every set of rows locked by others.        *)
(***************************************************************************)
EXTENDS Integers, FiniteSets

CONSTANTS
  Jobs,         \* identities of job rows
  Workers,      \* worker processes
  Handled,      \* jobs whose type has a registered handler
  MaxAttempts,  \* the maxAttempts column of each row
  BatchSize     \* rows one claim may take

ASSUME JobSchedulerAssumption ==
  /\ Handled \subseteq Jobs
  /\ MaxAttempts \in [Jobs -> Nat \ {0}]
  /\ BatchSize \in Nat \ {0}

VARIABLES
  jobs,         \* the jobs table
  issued,       \* lock tokens generated so far for each row
  started,      \* tokens of each row under which a handler was invoked
  finished,     \* tokens of each row under which a handler returned normally
  phase,        \* where each worker's poll loop is
  stopping,     \* workers whose stop() was called during a poll
  held          \* claims each worker's current poll still has to deal with

tableVars == <<jobs, issued>>
historyVars == <<started, finished>>
workerVars == <<phase, stopping, held>>
vars == <<jobs, issued, started, finished, phase, stopping, held>>

-----------------------------------------------------------------------------
NoToken == 0

Statuses == {"ABSENT", "PENDING", "RUNNING", "SUCCEEDED", "FAILED"}

(* A row; "lease" is what now() makes of lockedUntil and "due" of runAt. *)
Row == [status : Statuses, attempts : Nat, due : BOOLEAN,
        lease : {"none", "live", "expired"}, lockToken : Nat]

(* What RETURNING hands to the worker, and how far the worker is with it. *)
Claim == [job : Jobs, attempts : Nat, token : Nat,
          step : {"waiting", "executing", "returned", "thrown"}]

Phases == {"down", "idle", "claiming", "running"}

TypeOK ==
  /\ jobs \in [Jobs -> Row]
  /\ issued \in [Jobs -> Nat]
  /\ started \in [Jobs -> SUBSET Nat]
  /\ finished \in [Jobs -> SUBSET Nat]
  /\ phase \in [Workers -> Phases]
  /\ stopping \in [Workers -> BOOLEAN]
  /\ held \in [Workers -> SUBSET Claim]

Init ==
  /\ jobs = [j \in Jobs |-> [status |-> "ABSENT", attempts |-> 0, due |-> FALSE,
                             lease |-> "none", lockToken |-> NoToken]]
  /\ issued = [j \in Jobs |-> 0]
  /\ started = [j \in Jobs |-> {}]
  /\ finished = [j \in Jobs |-> {}]
  /\ phase = [w \in Workers |-> "down"]
  /\ stopping = [w \in Workers |-> FALSE]
  /\ held = [w \in Workers |-> {}]

-----------------------------------------------------------------------------
(* The table. *)

(* A row nobody holds: as inserted, settled, or put back for a retry. *)
Released(r, s, due) ==
  [status |-> s, attempts |-> r.attempts, due |-> due, lease |-> "none", lockToken |-> NoToken]

Enqueue(j) ==
  /\ jobs[j].status = "ABSENT"
  /\ \E due \in BOOLEAN : jobs' = [jobs EXCEPT ![j] = Released(@, "PENDING", due)]
  /\ UNCHANGED <<issued, historyVars, workerVars>>

BecomesDue(j) ==
  /\ jobs[j].status = "PENDING"
  /\ ~jobs[j].due
  /\ jobs' = [jobs EXCEPT ![j].due = TRUE]
  /\ UNCHANGED <<issued, historyVars, workerVars>>

LeaseExpires(j) ==
  /\ jobs[j].lease = "live"
  /\ jobs' = [jobs EXCEPT ![j].lease = "expired"]
  /\ UNCHANGED <<issued, historyVars, workerVars>>

Expired(r) == r.status = "RUNNING" /\ r.lease = "expired"

(* Mutant: an expired lease is claimable however often it was claimed. *)
ClaimableUnbounded(j) ==
  \/ jobs[j].status = "PENDING" /\ jobs[j].due /\ jobs[j].attempts < MaxAttempts[j]
  \/ Expired(jobs[j])

Claimable(j) ==
  /\ jobs[j].attempts < MaxAttempts[j]
  /\ \/ jobs[j].status = "PENDING" /\ jobs[j].due
     \/ Expired(jobs[j])

(* Mutant: the attempt is not counted when the row is claimed. *)
ClaimedUncounted(r, token) ==
  [r EXCEPT !.status = "RUNNING", !.lease = "live", !.lockToken = token]

Claimed(r, token) ==
  [status |-> "RUNNING", attempts |-> r.attempts + 1, due |-> r.due, lease |-> "live",
   lockToken |-> token]

-----------------------------------------------------------------------------
(* The poll loop of one worker. *)

GoTo(w, p) == phase' = [phase EXCEPT ![w] = p]

(* Where a worker goes when its poll is over. *)
EndOfPoll(w) == IF stopping[w] THEN "down" ELSE "idle"

Start(w) ==
  /\ phase[w] = "down"
  /\ GoTo(w, "idle")
  /\ stopping' = [stopping EXCEPT ![w] = FALSE]
  /\ UNCHANGED <<tableVars, historyVars, held>>

(* stop() clears the poll timer; a poll under way runs to its end. *)
Stop(w) ==
  /\ phase[w] # "down"
  /\ ~stopping[w]
  /\ IF phase[w] = "idle"
       THEN GoTo(w, "down") /\ UNCHANGED stopping
       ELSE stopping' = [stopping EXCEPT ![w] = TRUE] /\ UNCHANGED phase
  /\ UNCHANGED <<tableVars, historyVars, held>>

Crash(w) ==
  /\ phase[w] # "down"
  /\ GoTo(w, "down")
  /\ stopping' = [stopping EXCEPT ![w] = FALSE]
  /\ held' = [held EXCEPT ![w] = {}]
  /\ UNCHANGED <<tableVars, historyVars>>

(* Mutant: the sweep is dropped from the poll. *)
SweepNothing(w) ==
  /\ phase[w] = "idle"
  /\ GoTo(w, "claiming")
  /\ UNCHANGED <<tableVars, historyVars, stopping, held>>

SweepExhausted(w) ==
  /\ phase[w] = "idle"
  /\ GoTo(w, "claiming")
  /\ jobs' = [j \in Jobs |->
                IF Expired(jobs[j]) /\ jobs[j].attempts >= MaxAttempts[j]
                  THEN Released(jobs[j], "FAILED", jobs[j].due) ELSE jobs[j]]
  /\ UNCHANGED <<issued, historyVars, stopping, held>>

(* The sweep is best effort: its error is logged and the poll goes on. *)
SweepFails(w) ==
  /\ phase[w] = "idle"
  /\ GoTo(w, "claiming")
  /\ UNCHANGED <<tableVars, historyVars, stopping, held>>

(* Mutant: the lock token is made from the row's id, not afresh per claim. *)
ClaimBatchSameToken(w, C) ==
  /\ phase[w] = "claiming"
  /\ C # {}
  /\ Cardinality(C) <= BatchSize
  /\ \A j \in C : Claimable(j)
  /\ jobs' = [j \in Jobs |-> IF j \in C THEN Claimed(jobs[j], 1) ELSE jobs[j]]
  /\ issued' = [j \in Jobs |-> IF j \in C THEN 1 ELSE issued[j]]
  /\ held' = [held EXCEPT ![w] =
                {[job |-> j, attempts |-> 1, token |-> 1, step |-> "waiting"] : j \in C}]
  /\ GoTo(w, "running")
  /\ UNCHANGED <<historyVars, stopping>>

ClaimBatch(w, C) ==
  /\ phase[w] = "claiming"
  /\ C # {}
  /\ Cardinality(C) <= BatchSize
  /\ \A j \in C : Claimable(j)
  /\ jobs' = [j \in Jobs |-> IF j \in C THEN Claimed(jobs[j], issued[j] + 1) ELSE jobs[j]]
  /\ issued' = [j \in Jobs |-> IF j \in C THEN issued[j] + 1 ELSE issued[j]]
  /\ held' = [held EXCEPT ![w] =
                {[job |-> j, attempts |-> jobs[j].attempts + 1, token |-> issued[j] + 1,
                  step |-> "waiting"] : j \in C}]
  /\ GoTo(w, "running")
  /\ UNCHANGED <<historyVars, stopping>>

(* The query fails, or finds no row that is due and not locked by others. *)
ClaimNothing(w) ==
  /\ phase[w] = "claiming"
  /\ GoTo(w, EndOfPoll(w))
  /\ UNCHANGED <<tableVars, historyVars, stopping, held>>

Advance(w, c, s) == held' = [held EXCEPT ![w] = (@ \ {c}) \cup {[c EXCEPT !.step = s]}]

(* Claimed jobs run one at a time. *)
NextInBatch(w, c) ==
  /\ c \in held[w]
  /\ \A d \in held[w] : d.step = "waiting"

Begin(w, c) ==
  /\ NextInBatch(w, c)
  /\ c.job \in Handled
  /\ Advance(w, c, "executing")
  /\ started' = [started EXCEPT ![c.job] = @ \cup {c.token}]
  /\ UNCHANGED <<tableVars, finished, phase, stopping>>

(* A job whose type has no handler fails without running anything. *)
NoHandler(w, c) ==
  /\ NextInBatch(w, c)
  /\ c.job \notin Handled
  /\ Advance(w, c, "thrown")
  /\ UNCHANGED <<tableVars, historyVars, phase, stopping>>

HandlerReturns(w, c) ==
  /\ c \in held[w]
  /\ c.step = "executing"
  /\ Advance(w, c, "returned")
  /\ finished' = [finished EXCEPT ![c.job] = @ \cup {c.token}]
  /\ UNCHANGED <<tableVars, started, phase, stopping>>

HandlerThrows(w, c) ==
  /\ c \in held[w]
  /\ c.step = "executing"
  /\ Advance(w, c, "thrown")
  /\ UNCHANGED <<tableVars, historyVars, phase, stopping>>

(* Mutant: the job is put back in the batch instead of being dropped. *)
DoneWithRequeue(w, c) ==
  /\ Advance(w, c, "waiting")
  /\ UNCHANGED <<issued, historyVars, phase, stopping>>

(* The worker is done with claim c and turns to the next one, if any. *)
DoneWith(w, c) ==
  /\ held' = [held EXCEPT ![w] = @ \ {c}]
  /\ GoTo(w, IF held[w] = {c} THEN EndOfPoll(w) ELSE "running")
  /\ UNCHANGED <<issued, historyVars, stopping>>

(* Mutant: the outcome is written to any running row, whatever its token. *)
InForceRunning(c) == jobs[c.job].status = "RUNNING"

(* updateMany matches on (id, lockToken): a superseded claim matches no row. *)
InForce(c) == jobs[c.job].lockToken = c.token

MarkSucceeded(w, c) ==
  /\ c \in held[w]
  /\ c.step = "returned"
  /\ jobs' = IF InForce(c)
               THEN [jobs EXCEPT ![c.job] = Released(@, "SUCCEEDED", @.due)] ELSE jobs
  /\ DoneWith(w, c)

(* Mutant: an exhausted job gets a status the table does not know. *)
AfterFailureDead(c) ==
  IF c.attempts >= MaxAttempts[c.job]
    THEN Released(jobs[c.job], "DEAD", FALSE) ELSE Released(jobs[c.job], "PENDING", FALSE)

(* Exhaustion is judged on the attempts the claim returned; a retry waits  *)
(* out its backoff first.                                                  *)
AfterFailure(c) ==
  IF c.attempts >= MaxAttempts[c.job]
    THEN Released(jobs[c.job], "FAILED", jobs[c.job].due)
    ELSE Released(jobs[c.job], "PENDING", FALSE)

MarkFailed(w, c) ==
  /\ c \in held[w]
  /\ c.step = "thrown"
  /\ jobs' = IF InForce(c) THEN [jobs EXCEPT ![c.job] = AfterFailure(c)] ELSE jobs
  /\ DoneWith(w, c)

(* The outcome cannot be written: logged, and the row keeps its lease. *)
MarkErrors(w, c) ==
  /\ c \in held[w]
  /\ c.step \in {"returned", "thrown"}
  /\ UNCHANGED jobs
  /\ DoneWith(w, c)

-----------------------------------------------------------------------------
Table == \E j \in Jobs : Enqueue(j) \/ BecomesDue(j) \/ LeaseExpires(j)

Loop(w) == Start(w) \/ Stop(w) \/ Crash(w) \/ SweepExhausted(w) \/ SweepFails(w) \/ ClaimNothing(w)

Handle(w) ==
  \E c \in held[w] :
    \/ Begin(w, c) \/ NoHandler(w, c) \/ HandlerReturns(w, c) \/ HandlerThrows(w, c)
    \/ MarkSucceeded(w, c) \/ MarkFailed(w, c) \/ MarkErrors(w, c)

ClaimSome(w) == \E C \in SUBSET Jobs : ClaimBatch(w, C)

Next == Table \/ \E w \in Workers : Loop(w) \/ ClaimSome(w) \/ Handle(w)

Spec == Init /\ [][Next]_vars

(***************************************************************************)
(* Time passes, a stopped worker process is replaced, a handler ends, and  *)
(* the steps of a poll follow one another.  The two statements of a poll   *)
(* get strong fairness: workers may crash and statements may fail again    *)
(* and again, but not every single time.                                   *)
(***************************************************************************)
Fairness ==
  /\ \A j \in Jobs : WF_vars(BecomesDue(j)) /\ WF_vars(LeaseExpires(j))
  /\ \A w \in Workers :
       /\ WF_vars(Start(w))
       /\ WF_vars(Handle(w))
       /\ WF_vars(ClaimNothing(w))
       /\ SF_vars(SweepExhausted(w))
       /\ SF_vars(ClaimSome(w))

FairSpec == Spec /\ Fairness

-----------------------------------------------------------------------------
(* Properties. *)

(* No two claims that workers still hold on the same job carry the same     *)
(* lock token, so at most one of them can match the row (runClaimedJob and  *)
(* the per-row gen_random_uuid() of claimBatch).                            *)
OneOwner ==
  \A w, v \in Workers : \A c \in held[w], d \in held[v] :
    c.job = d.job /\ c.token = d.token => w = v /\ c = d

(* A job's handler is invoked under at most as many claims as the row has   *)
(* counted attempts, and attempts never exceed maxAttempts, whatever        *)
(* crashes, expired leases and failed writes happen (claimBatch).           *)
RunsWithinAttempts ==
  \A j \in Jobs :
    Cardinality(started[j]) <= jobs[j].attempts /\ jobs[j].attempts <= MaxAttempts[j]

(* A row says SUCCEEDED only if the handler returned under the row's latest *)
(* claim, and FAILED only if its attempts are spent: a superseded worker's  *)
(* outcome never decides (markSucceeded, markFailed, the sweep).            *)
SettledForAReason ==
  \A j \in Jobs :
    /\ jobs[j].status = "SUCCEEDED" => issued[j] \in finished[j]
    /\ jobs[j].status = "FAILED" => jobs[j].attempts = MaxAttempts[j]

Settled(j) == jobs[j].status \in {"SUCCEEDED", "FAILED"}

(* A settled row never changes again, although workers with stale claims    *)
(* still run the job and report (the lockToken filter).                     *)
SettledIsFinal == [][\A j \in Jobs : Settled(j) => jobs'[j] = jobs[j]]_vars

(* One claim runs the handler at most once: a worker never invokes it under *)
(* a token it was already invoked under (the loop of pollOnce).             *)
OneRunPerClaim ==
  [][\A w \in Workers : \A c \in held[w] : Begin(w, c) => c.token \notin started[c.job]]_vars

(* Every job that was enqueued ends SUCCEEDED or FAILED, although workers   *)
(* crash and outcomes are lost (the lease, the attempt counted at the claim *)
(* and the sweep of exhausted rows).                                        *)
EveryJobSettles == \A j \in Jobs : jobs[j].status = "PENDING" ~> Settled(j)

(* The scheduler keeps the promises of JobLifecycle.                        *)
Lifecycle == INSTANCE JobLifecycle WITH
  status <- [j \in Jobs |-> jobs[j].status], attempts <- [j \in Jobs |-> jobs[j].attempts]

ImplementsLifecycle == Lifecycle!Spec

(* "an exhausted job is never re-executed" (the class comment): once a job  *)
(* that has run is FAILED, no worker invokes its handler again.             *)
ExhaustedNeverRerun ==
  [][\A j \in Jobs :
       jobs[j].status = "FAILED" /\ started[j] # {} => started'[j] = started[j]]_vars
=============================================================================
