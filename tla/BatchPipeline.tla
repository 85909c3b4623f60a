---------------------------- MODULE BatchPipeline ---------------------------
(***************************************************************************)
(* The life of a batch request: POST /v1/batches queues it in Redis and    *)
(* then inserts its tracking row, a worker's drain loop pops it and hands  *)
(* it to the job scheduler, and process_scheduled_request jobs execute it, *)
(* record the outcome and enqueue the webhook.  The jobs table is seen     *)
(* through JobLifecycle, which JobScheduler implements; taking a running   *)
(* job again is what an expired lease comes to here, and each take is an   *)
(* execution ("run") of the handler that may overlap the earlier ones.     *)
(*                                                                         *)
(* Faults names what may go wrong and MaxFaults bounds how often, counted  *)
(* over a behaviour.  An operation that fails may have taken effect        *)
(* without the caller learning of it wherever the code would not notice.   *)
(***************************************************************************)
EXTENDS Integers, FiniteSets

CONSTANTS
  Batches,      \* ticket ids, which are also the ids of the tracking rows
  Background,   \* those of request class "background"; the others are "batch"
  Hooked,       \* those submitted with a webhookUrl
  Drainers,     \* worker processes, one drain loop each
  DrainSize,    \* DrainLoop's batchSize
  HandOffs,     \* bound on the jobs created for one batch
  Attempts,     \* maxAttempts of a job
  Faults,       \* the kinds of fault that may happen
  MaxFaults     \* bound on their number

FaultKinds == {"create", "pop", "lookup", "handOff", "requeue", "mark",
               "persist", "notify", "drainCrash", "runCrash"}

ASSUME BatchPipelineAssumption ==
  /\ Background \subseteq Batches /\ Hooked \subseteq Batches
  /\ DrainSize \in Nat \ {0} /\ HandOffs \in Nat \ {0} /\ Attempts \in Nat \ {0}
  /\ Faults \subseteq FaultKinds /\ MaxFaults \in Nat

VARIABLES
  status, attempts, finished,   \* the jobs table (JobLifecycle)
  hookOf,       \* whether the payload of a job carries a webhookUrl
  runs,         \* executions of the handler under way
  api,          \* how far POST /v1/batches got with each batch
  row,          \* the status column of the tracking row, or "absent"
  queue,        \* tickets in the Redis queues
  loop,         \* where each drain loop is
  inHand,       \* tickets a drain loop has popped and not handed off yet
  routed,       \* how often the batch was sent to the routing engine
  failOpens,    \* how often a run went on without having claimed the row
  notified,     \* outcomes for which a deliver_webhook job was enqueued
  harmed,       \* batches that met a fault the code gives up on (it only logs it)
  faults        \* faults so far

jobVars == <<status, attempts, finished>>
rowVars == <<row, failOpens>>
loopVars == <<loop, inHand>>
historyVars == <<routed, notified>>
vars == <<jobVars, hookOf, runs, api, rowVars, queue, loopVars, historyVars, harmed, faults>>

Jobs == Batches \X (1..HandOffs)
BatchOf(j) == j[1]

Table == INSTANCE JobLifecycle WITH MaxAttempts <- [j \in Jobs |-> Attempts]

Outcomes == {"succeeded", "failed"}
Ticket == [batch : Batches, stage : {"popped", "looked", "requeue"}, hook : BOOLEAN]
Run == [job : Jobs, attempt : Nat, pc : {"mark", "route", "persist", "notify"},
        outcome : Outcomes \cup {"none"}]

TypeOK ==
  /\ Table!TypeOK
  /\ hookOf \in [Jobs -> BOOLEAN]
  /\ runs \subseteq Run
  /\ api \in [Batches -> {"new", "queued", "accepted", "rejected"}]
  /\ row \in [Batches -> {"absent", "pending", "processing"} \cup Outcomes]
  /\ queue \subseteq Batches
  /\ loop \in [Drainers -> {"idle", "popping", "handing"}]
  /\ inHand \in [Drainers -> SUBSET Ticket]
  /\ routed \in [Batches -> Nat]
  /\ failOpens \in [Batches -> Nat]
  /\ notified \in [Batches -> SUBSET Outcomes]
  /\ harmed \subseteq Batches
  /\ faults \in 0..MaxFaults

Init ==
  /\ Table!Init
  /\ hookOf = [j \in Jobs |-> FALSE]
  /\ runs = {}
  /\ api = [b \in Batches |-> "new"]
  /\ row = [b \in Batches |-> "absent"]
  /\ queue = {}
  /\ loop = [d \in Drainers |-> "idle"]
  /\ inHand = [d \in Drainers |-> {}]
  /\ routed = [b \in Batches |-> 0]
  /\ failOpens = [b \in Batches |-> 0]
  /\ notified = [b \in Batches |-> {}]
  /\ harmed = {}
  /\ faults = 0

(* One fault of the given kind happens now. *)
Fault(kind) == kind \in Faults /\ faults < MaxFaults /\ faults' = faults + 1

Harm(B) == harmed' = harmed \cup B

-----------------------------------------------------------------------------
(* POST /v1/batches: the ticket is queued before its row is created. *)

Enqueue(b) ==
  /\ api[b] = "new"
  /\ api' = [api EXCEPT ![b] = "queued"]
  /\ queue' = queue \cup {b}
  /\ UNCHANGED <<jobVars, hookOf, runs, rowVars, loopVars, historyVars, harmed, faults>>

CreateRow(b) ==
  /\ api[b] = "queued"
  /\ api' = [api EXCEPT ![b] = "accepted"]
  /\ row' = [row EXCEPT ![b] = "pending"]
  /\ UNCHANGED <<jobVars, hookOf, runs, failOpens, queue, loopVars, historyVars, harmed, faults>>

(* The insert fails, or the API process dies before it: no row, no 202. *)
CreateRowFails(b) ==
  /\ api[b] = "queued"
  /\ Fault("create")
  /\ api' = [api EXCEPT ![b] = "rejected"]
  /\ UNCHANGED <<jobVars, hookOf, runs, rowVars, queue, loopVars, historyVars, harmed>>

-----------------------------------------------------------------------------
(* DrainLoop.tick: dequeueNext pops the batch queue, then the background    *)
(* queue if there is room left, and each ticket is handed off in turn.      *)

InHandOf(d) == {t.batch : t \in inHand[d]}

Popped(B) == {[batch |-> b, stage |-> "popped", hook |-> FALSE] : b \in B}

(* ZPOPMIN count: as many members as there are, up to count. *)
PopMin(Q, count) ==
  {S \in SUBSET Q : Cardinality(S) = count \/ (S = Q /\ Cardinality(S) <= count)}

PopBatch(d) ==
  /\ loop[d] = "idle"
  /\ queue # {}
  /\ \E S \in PopMin(queue \ Background, DrainSize) :
       /\ queue' = queue \ S
       /\ inHand' = [inHand EXCEPT ![d] = Popped(S)]
       /\ loop' = [loop EXCEPT ![d] = IF Cardinality(S) = DrainSize THEN "handing" ELSE "popping"]
  /\ UNCHANGED <<jobVars, hookOf, runs, api, rowVars, historyVars, harmed, faults>>

PopBackground(d) ==
  /\ loop[d] = "popping"
  /\ \E S \in PopMin(queue \cap Background, DrainSize - Cardinality(inHand[d])) :
       /\ queue' = queue \ S
       /\ inHand' = [inHand EXCEPT ![d] = @ \cup Popped(S)]
       /\ loop' = [loop EXCEPT ![d] = IF inHand[d] \cup Popped(S) = {} THEN "idle" ELSE "handing"]
  /\ UNCHANGED <<jobVars, hookOf, runs, api, rowVars, historyVars, harmed, faults>>

(* The second ZPOPMIN throws: tick returns, and what the first one popped   *)
(* is gone.                                                                 *)
PopBackgroundFails(d) ==
  /\ loop[d] = "popping"
  /\ Fault("pop")
  /\ loop' = [loop EXCEPT ![d] = "idle"]
  /\ inHand' = [inHand EXCEPT ![d] = {}]
  /\ Harm(InHandOf(d))
  /\ UNCHANGED <<jobVars, hookOf, runs, api, rowVars, queue, historyVars>>

(* scheduleProcessing works on one ticket at a time. *)
Turn(d, t) ==
  /\ loop[d] = "handing"
  /\ t \in inHand[d]
  /\ t.stage = "popped" => \A u \in inHand[d] : u.stage = "popped"

Staged(t, stage, hook) == [batch |-> t.batch, stage |-> stage, hook |-> hook]

SetTicket(d, t, stage, hook) ==
  /\ inHand' = [inHand EXCEPT ![d] = (@ \ {t}) \cup {Staged(t, stage, hook)}]
  /\ UNCHANGED loop

DropTicket(d, t) ==
  /\ inHand' = [inHand EXCEPT ![d] = @ \ {t}]
  /\ loop' = [loop EXCEPT ![d] = IF inHand[d] = {t} THEN "idle" ELSE "handing"]

(* Mutant: the looked-up webhookUrl does not reach the payload. *)
LookUpIgnored(d, t) ==
  /\ Turn(d, t)
  /\ t.stage = "popped"
  /\ SetTicket(d, t, "looked", FALSE)
  /\ UNCHANGED <<jobVars, hookOf, runs, api, rowVars, queue, historyVars, harmed, faults>>

(* The webhookUrl comes from the row, as far as there is a row by now. *)
LookUp(d, t) ==
  /\ Turn(d, t)
  /\ t.stage = "popped"
  /\ SetTicket(d, t, "looked", row[t.batch] # "absent" /\ t.batch \in Hooked)
  /\ UNCHANGED <<jobVars, hookOf, runs, api, rowVars, queue, historyVars, harmed, faults>>

LookUpFails(d, t) ==
  /\ Turn(d, t)
  /\ t.stage = "popped"
  /\ Fault("lookup")
  /\ SetTicket(d, t, "looked", FALSE)
  /\ Harm({t.batch})
  /\ UNCHANGED <<jobVars, hookOf, runs, api, rowVars, queue, historyVars>>

(* jobScheduler.enqueue inserts a fresh job row for the ticket. *)
JobsOf(b) == {j \in Jobs : BatchOf(j) = b /\ status[j] # "ABSENT"}

Insert(t) ==
  LET n == Cardinality(JobsOf(t.batch)) + 1 IN
    /\ n <= HandOffs
    /\ Table!Submit(<<t.batch, n>>)
    /\ hookOf' = [hookOf EXCEPT ![<<t.batch, n>>] = t.hook]

HandOff(d, t) ==
  /\ Turn(d, t)
  /\ t.stage = "looked"
  /\ Insert(t)
  /\ DropTicket(d, t)
  /\ UNCHANGED <<runs, api, rowVars, queue, historyVars, harmed, faults>>

(* The insert throws, whether or not the row was committed. *)
HandOffFails(d, t) ==
  /\ Turn(d, t)
  /\ t.stage = "looked"
  /\ Fault("handOff")
  /\ SetTicket(d, t, "requeue", t.hook)
  /\ Insert(t) \/ UNCHANGED <<jobVars, hookOf>>
  /\ UNCHANGED <<runs, api, rowVars, queue, historyVars, harmed>>

(* Mutant: a ticket whose hand-off failed is dropped. *)
RequeueDropped(d, t) ==
  /\ Turn(d, t)
  /\ t.stage = "requeue"
  /\ DropTicket(d, t)
  /\ UNCHANGED <<jobVars, hookOf, runs, api, rowVars, queue, historyVars, harmed, faults>>

(* Back under the same ticket id: the same member of the sorted set. *)
Requeue(d, t) ==
  /\ Turn(d, t)
  /\ t.stage = "requeue"
  /\ queue' = queue \cup {t.batch}
  /\ DropTicket(d, t)
  /\ UNCHANGED <<jobVars, hookOf, runs, api, rowVars, historyVars, harmed, faults>>

RequeueFails(d, t) ==
  /\ Turn(d, t)
  /\ t.stage = "requeue"
  /\ Fault("requeue")
  /\ DropTicket(d, t)
  /\ Harm({t.batch})
  /\ UNCHANGED <<jobVars, hookOf, runs, api, rowVars, queue, historyVars>>

(* The worker process dies with tickets in hand, and is replaced. *)
DrainCrash(d) ==
  /\ inHand[d] # {}
  /\ Fault("drainCrash")
  /\ loop' = [loop EXCEPT ![d] = "idle"]
  /\ inHand' = [inHand EXCEPT ![d] = {}]
  /\ Harm(InHandOf(d))
  /\ UNCHANGED <<jobVars, hookOf, runs, api, rowVars, queue, historyVars>>

-----------------------------------------------------------------------------
(* The job scheduler and the handler of process_scheduled_request. *)

NewRun(j) == [job |-> j, attempt |-> attempts[j] + 1, pc |-> "mark", outcome |-> "none"]

Take(j) ==
  /\ Table!Take({j})
  /\ runs' = runs \cup {NewRun(j)}
  /\ UNCHANGED <<hookOf, api, rowVars, queue, loopVars, historyVars, harmed, faults>>

(* The scheduler writes SUCCEEDED, or sweeps an exhausted row to FAILED. *)
SettleJob(j) ==
  /\ Table!Succeed(j) \/ Table!GiveUp({j})
  /\ UNCHANGED <<hookOf, runs, api, rowVars, queue, loopVars, historyVars, harmed, faults>>

BatchIn(r) == BatchOf(r.job)

Advanced(r, pc, outcome) ==
  [job |-> r.job, attempt |-> r.attempt, pc |-> pc, outcome |-> outcome]

GoOn(r, pc, outcome) ==
  /\ runs' = (runs \ {r}) \cup {Advanced(r, pc, outcome)}
  /\ UNCHANGED jobVars

(* The handler returns normally. *)
Return(r) ==
  /\ runs' = runs \ {r}
  /\ Table!Finish(r.job, r.attempt)

(* Mutant: any row that is not settled is claimed, not only a pending one. *)
MarkProcessingUnsettled(r) ==
  /\ r.pc = "mark"
  /\ row[BatchIn(r)] \in {"pending", "processing"}
  /\ row' = [row EXCEPT ![BatchIn(r)] = "processing"]
  /\ GoOn(r, "route", "none")
  /\ UNCHANGED <<hookOf, api, failOpens, queue, loopVars, historyVars, harmed, faults>>

(* Mutant: the row is claimed whatever its status. *)
MarkProcessingAlways(r) ==
  /\ r.pc = "mark"
  /\ row' = [row EXCEPT ![BatchIn(r)] = "processing"]
  /\ GoOn(r, "route", "none")
  /\ UNCHANGED <<hookOf, api, failOpens, queue, loopVars, historyVars, harmed, faults>>

MarkProcessing(r) ==
  /\ r.pc = "mark"
  /\ row[BatchIn(r)] = "pending"
  /\ row' = [row EXCEPT ![BatchIn(r)] = "processing"]
  /\ GoOn(r, "route", "none")
  /\ UNCHANGED <<hookOf, api, failOpens, queue, loopVars, historyVars, harmed, faults>>

(* The row is absent, or no longer pending: the run is skipped. *)
SkipDuplicate(r) ==
  /\ r.pc = "mark"
  /\ row[BatchIn(r)] # "pending"
  /\ Return(r)
  /\ UNCHANGED <<hookOf, api, rowVars, queue, loopVars, historyVars, harmed, faults>>

(* markProcessing throws, whether or not it took effect: fail open. *)
MarkProcessingFails(r) ==
  /\ r.pc = "mark"
  /\ Fault("mark")
  /\ \/ UNCHANGED row
     \/ row[BatchIn(r)] = "pending" /\ row' = [row EXCEPT ![BatchIn(r)] = "processing"]
  /\ failOpens' = [failOpens EXCEPT ![BatchIn(r)] = @ + 1]
  /\ GoOn(r, "route", "none")
  /\ UNCHANGED <<hookOf, api, queue, loopVars, historyVars, harmed>>

(* Mutant: an error of the engine is caught without setting the outcome. *)
RouteSwallows(r) ==
  /\ r.pc = "route"
  /\ \E outcome \in {"succeeded", "none"} : GoOn(r, "persist", outcome)
  /\ routed' = [routed EXCEPT ![BatchIn(r)] = @ + 1]
  /\ UNCHANGED <<hookOf, api, rowVars, queue, loopVars, notified, harmed, faults>>

Route(r) ==
  /\ r.pc = "route"
  /\ \E outcome \in Outcomes : GoOn(r, "persist", outcome)
  /\ routed' = [routed EXCEPT ![BatchIn(r)] = @ + 1]
  /\ UNCHANGED <<hookOf, api, rowVars, queue, loopVars, notified, harmed, faults>>

(* markSucceeded and markFailed overwrite the row whatever its status. *)
Persist(r) ==
  /\ r.pc = "persist"
  /\ row[BatchIn(r)] # "absent"
  /\ row' = [row EXCEPT ![BatchIn(r)] = r.outcome]
  /\ GoOn(r, "notify", r.outcome)
  /\ UNCHANGED <<hookOf, api, failOpens, queue, loopVars, historyVars, harmed, faults>>

(* The update of a row that does not exist throws, three times over. *)
PersistNoRow(r) ==
  /\ r.pc = "persist"
  /\ row[BatchIn(r)] = "absent"
  /\ GoOn(r, "notify", r.outcome)
  /\ UNCHANGED <<hookOf, api, rowVars, queue, loopVars, historyVars, harmed, faults>>

PersistFails(r) ==
  /\ r.pc = "persist"
  /\ Fault("persist")
  /\ GoOn(r, "notify", r.outcome)
  /\ Harm({BatchIn(r)})
  /\ UNCHANGED <<hookOf, api, rowVars, queue, loopVars, historyVars>>

(* Mutant: the webhook always reports success. *)
NotifySuccess(r) ==
  /\ r.pc = "notify"
  /\ notified' = IF hookOf[r.job] THEN [notified EXCEPT ![BatchIn(r)] = @ \cup {"succeeded"}]
                                  ELSE notified
  /\ Return(r)
  /\ UNCHANGED <<hookOf, api, rowVars, queue, loopVars, routed, harmed, faults>>

Notify(r) ==
  /\ r.pc = "notify"
  /\ notified' = IF hookOf[r.job] THEN [notified EXCEPT ![BatchIn(r)] = @ \cup {r.outcome}]
                                  ELSE notified
  /\ Return(r)
  /\ UNCHANGED <<hookOf, api, rowVars, queue, loopVars, routed, harmed, faults>>

NotifyFails(r) ==
  /\ r.pc = "notify"
  /\ hookOf[r.job]
  /\ Fault("notify")
  /\ Return(r)
  /\ Harm({BatchIn(r)})
  /\ UNCHANGED <<hookOf, api, rowVars, queue, loopVars, historyVars>>

(* The worker process dies.  A run that had not claimed the batch yet is    *)
(* made good by the next attempt, if there is one.                          *)
RunCrash(r) ==
  /\ Fault("runCrash")
  /\ runs' = runs \ {r}
  /\ IF r.pc = "mark" /\ r.attempt < Attempts THEN UNCHANGED harmed ELSE Harm({BatchIn(r)})
  /\ UNCHANGED <<jobVars, hookOf, api, rowVars, queue, loopVars, historyVars>>

-----------------------------------------------------------------------------
Submission == \E b \in Batches : Enqueue(b) \/ CreateRow(b) \/ CreateRowFails(b)

Drain(d) ==
  \/ PopBatch(d) \/ PopBackground(d)
  \/ \E t \in inHand[d] : LookUp(d, t) \/ HandOff(d, t) \/ Requeue(d, t)

DrainFault(d) ==
  \/ PopBackgroundFails(d) \/ DrainCrash(d)
  \/ \E t \in inHand[d] : LookUpFails(d, t) \/ HandOffFails(d, t) \/ RequeueFails(d, t)

Handle(r) ==
  \/ MarkProcessing(r) \/ SkipDuplicate(r) \/ Route(r)
  \/ Persist(r) \/ PersistNoRow(r) \/ Notify(r)

HandleFault(r) ==
  MarkProcessingFails(r) \/ PersistFails(r) \/ NotifyFails(r) \/ RunCrash(r)

Next ==
  \/ Submission
  \/ \E d \in Drainers : Drain(d) \/ DrainFault(d)
  \/ \E j \in Jobs : Take(j) \/ SettleJob(j)
  \/ \E r \in runs : Handle(r) \/ HandleFault(r)

Spec == Init /\ [][Next]_vars

(***************************************************************************)
(* A drain loop keeps ticking, handlers run to their end, and the job      *)
(* scheduler takes every claimable job (JobScheduler!EveryJobSettles); a   *)
(* process that died is replaced.  Nothing obliges a client to submit.     *)
(***************************************************************************)
Fairness ==
  /\ \A b \in Batches : WF_vars(CreateRow(b) \/ CreateRowFails(b))
  /\ \A d \in Drainers : WF_vars(Drain(d))
  /\ \A j \in Jobs : WF_vars(Take(j))
  /\ WF_vars(\E r \in runs : Handle(r))

FairSpec == Spec /\ Fairness

-----------------------------------------------------------------------------
(* Properties. *)

(* A batch reaches the routing engine at most once, plus once for every run *)
(* that failed open: hand-offs made twice, expired leases and crashes do    *)
(* not execute it again (markProcessing as idempotency guard).              *)
RoutedOnceUnlessFailOpen == \A b \in Batches : routed[b] <= 1 + failOpens[b]

(* As long as no run failed open, a recorded outcome is never overwritten,  *)
(* although markSucceeded and markFailed do not look at the row's status.   *)
OutcomeIsFinal ==
  [][\A b \in Batches :
       row[b] \in Outcomes /\ failOpens[b] = 0 => row'[b] = row[b]]_vars

(* As long as no run failed open, every webhook enqueued for a batch tells  *)
(* the same outcome, and the one the row shows if it shows any.             *)
NotifiedAgreesWithRow ==
  \A b \in Batches : failOpens[b] = 0 =>
    /\ \A x, y \in notified[b] : x = y
    /\ row[b] \in Outcomes => notified[b] \subseteq {row[b]}

(* A queued batch is never dropped without trace: it is in the queue, in    *)
(* some drain loop's hand, or in the jobs table, unless it met one of the   *)
(* faults the code only logs (DrainLoop.scheduleProcessing, dequeueNext).   *)
NeverDropped ==
  \A b \in Batches : api[b] # "new" /\ b \notin harmed =>
    b \in queue \/ JobsOf(b) # {} \/ \E d \in Drainers : b \in InHandOf(d)

Completed(b) == row[b] \in Outcomes /\ (b \in Hooked => notified[b] # {})

(* A batch whose row exists before its ticket is handed off ends with a     *)
(* recorded outcome and its webhook enqueued, unless it meets one of the    *)
(* faults the code only logs; failed hand-offs, expired leases, fail-open   *)
(* runs and crashes before the claim do not lose it.                        *)
LostOnlyToKnownGaps ==
  \A b \in Batches :
    row[b] = "pending" /\ b \in queue /\ JobsOf(b) = {} ~> Completed(b) \/ b \in harmed

(* "a batch request is accepted, queued, processed asynchronously"          *)
(* (ARCHITECTURE.md, exit criteria of the batch phase).                     *)
AcceptedIsProcessed == \A b \in Batches : api[b] = "accepted" ~> routed[b] > 0
=============================================================================
