------------------------------- MODULE Budget -------------------------------
(***************************************************************************)
(* Budget enforcement for one tenant scope: gateway requests reserve a     *)
(* provisional amount in a Redis counter before they run and true it up    *)
(* to the real cost afterwards, while the cost goes to an append-only      *)
(* ledger on its own, and a recurring budget_reconcile job overwrites the  *)
(* counter with what the ledger says.  reserve() and adjust() are          *)
(* optimistic WATCH / MULTI / EXEC transactions on the counter's key.      *)
(*                                                                         *)
(* WATCH and GET are one step, as are a reconciliation's reads of the      *)
(* policy and of the ledger, and its end and the enqueue of the next.      *)
(* Amounts are small integers.  Periods follow one another and the last    *)
(* one does not end; the keys of a period may expire once it is over, and  *)
(* a period armed again while its job still recurs keeps that one job.  A  *)
(* tenant whose requests stop for good is the finite set Requests.         *)
(*                                                                         *)
(* A request is one call of checkAndReserve, <<r, 0>>, and a call of debit *)
(* for every "done" event, <<r, 1>>, <<r, 2>> and so on: a JSON request    *)
(* has one, a stream one per done event its provider's adapter yields.     *)
(***************************************************************************)
EXTENDS Integers, FiniteSets

CONSTANTS
  Requests,     \* requests of the tenant, over all gateway processes
  Last,         \* number of budget periods
  Costs,        \* what a request may turn out to cost
  Policies,     \* budget.policy values, the first of which is First
  First,        \* the policy in force at the beginning
  NoPolicy,     \* no budget.policy is configured
  Absent,       \* a key that does not exist
  MaxRetries,   \* MAX_OPTIMISTIC_RETRIES
  MaxBills,     \* bound on the done events of a request
  MaxDones,     \* bound on the done events of all requests
  MaxChanges,   \* bound on policy changes
  Starts        \* bound: the period and the changes a behaviour begins with, and its streams

Periods == 1..Last
Bills == Requests \X (1..MaxBills)
Calls == Requests \X (0..MaxBills)
Policy == [hard : Nat \ {0}, soft : Nat, hold : Nat \ {0}]

ASSUME BudgetAssumption ==
  /\ Last \in Nat \ {0} /\ MaxRetries \in Nat \ {0}
  /\ MaxBills \in Nat \ {0} /\ MaxDones \in Nat /\ MaxChanges \in Nat
  /\ Costs \subseteq Nat /\ Starts \subseteq Periods \X (0..MaxChanges) \X SUBSET Requests
  /\ Policies \subseteq Policy /\ First \in Policies /\ NoPolicy \notin Policies
  /\ Absent \notin Int

VARIABLES
  now,          \* the current period
  policy,       \* the configured policy
  changes,      \* policy changes so far
  streams,      \* requests answered by a stream with more than one done event
  counter,      \* the counter key of each period: what is left to spend
  spent,        \* the sum of the ledger entries created in each period
  call,         \* the calls of checkAndReserve and debit
  appending,    \* bills whose ledger entry is not written yet
  armed,        \* periods whose recon-armed key is set
  warned,       \* periods whose soft-limit-alerted key is set
  alerts,       \* soft limit alerts published for each period
  job,          \* the budget_reconcile job of each period that is not finished
  held,         \* requests whose reservation was committed
  settled,      \* bills whose true-up was committed
  repeated,     \* those of them whose request had been trued up before
  disturbed     \* periods whose counter was overwritten, or expired

world == <<now, policy, changes, streams>>
alertVars == <<warned, alerts>>
history == <<held, settled, repeated, disturbed>>
vars == <<world, counter, spent, call, appending, armed, alertVars, job, history>>

(* Where a call is; the period it counts against, 0 if there is none; the    *)
(* policy it resolved; the counter as its transaction read it and the        *)
(* transaction's attempts; and the cost of a bill.                           *)
Executing == {"reserveExec", "adjustExec"}
Stages == {"new", "none", "reserve", "admitted", "debit", "adjust", "warn", "done", "denied"} \cup Executing
Call == [at : Stages, period : Periods \cup {0}, using : Policies,
         seen : Int \cup {Absent}, tries : 0..(MaxRetries - 1), cost : Costs \cup {0}]
Fresh == [at |-> "new", period |-> 0, using |-> First, seen |-> Absent, tries |-> 0, cost |-> 0]
NoJob == [step |-> "none", target |-> 0]
Waiting == [step |-> "waiting", target |-> 0]

TypeOK ==
  /\ now \in Periods /\ changes \in 0..MaxChanges /\ streams \subseteq Requests
  /\ policy \in Policies \cup {NoPolicy}
  /\ counter \in [Periods -> Int \cup {Absent}]
  /\ spent \in [Periods -> Nat]
  /\ call \in [Calls -> Call]
  /\ appending \subseteq Bills
  /\ armed \subseteq Periods /\ warned \subseteq Periods
  /\ alerts \in [Periods -> Nat]
  /\ job \in [Periods -> [step : {"none", "waiting", "summed"}, target : Int]]
  /\ held \subseteq Requests /\ settled \subseteq Bills /\ repeated \subseteq settled
  /\ disturbed \subseteq Periods

Init ==
  /\ \E start \in Starts : now = start[1] /\ changes = start[2] /\ streams = start[3]
  /\ policy = First
  /\ counter = [p \in Periods |-> Absent]
  /\ spent = [p \in Periods |-> 0]
  /\ call = [c \in Calls |-> IF c \in Bills THEN [Fresh EXCEPT !.at = "none"] ELSE Fresh]
  /\ appending = {}
  /\ armed = {} /\ warned = {}
  /\ alerts = [p \in Periods |-> 0]
  /\ job = [p \in Periods |-> NoJob]
  /\ held = {} /\ settled = {} /\ repeated = {} /\ disturbed = {}

-----------------------------------------------------------------------------
At(c, stage) == call[c].at = stage
Period(c) == call[c].period
GoTo(c, stage) == call' = [call EXCEPT ![c].at = stage]

Read(c, v, stage) == call' = [call EXCEPT ![c].at = stage, ![c].seen = v]

(* Mutant: nobody watches the key it read. *)
InvalidatedNone(p) == call

(* A write to the counter of period p aborts every transaction on it: what   *)
(* it read no longer counts.                                                 *)
Invalidated(p) ==
  [c \in Calls |-> IF call[c].at \in Executing /\ Period(c) = p
                        THEN [call[c] EXCEPT !.seen = Absent] ELSE call[c]]

SetCounter(p, v) == counter' = [counter EXCEPT ![p] = v] /\ call' = Invalidated(p)

(* Once its transaction is over a call needs nothing of what it read. *)
Left(c, stage) ==
  [Fresh EXCEPT !.at = stage, !.cost = call[c].cost,
                !.period = IF stage = "denied" THEN 0 ELSE Period(c)]

Leave(c, stage) == call' = [call EXCEPT ![c] = Left(c, stage)]

Commit(c, v, stage) ==
  /\ call[c].seen # Absent
  /\ counter' = [counter EXCEPT ![Period(c)] = v]
  /\ call' = [Invalidated(Period(c)) EXCEPT ![c] = Left(c, stage)]

(* Mutant: one attempt too many. *)
RetryOneMore(c, stage, otherwise) ==
  /\ call[c].seen = Absent
  /\ IF call[c].tries < MaxRetries
       THEN call' = [call EXCEPT ![c].at = stage, ![c].tries = @ + 1]
       ELSE Leave(c, otherwise)
  /\ UNCHANGED <<world, counter, spent, appending, armed, alertVars, job, history>>

(* An aborted transaction starts over, MaxRetries times in all. *)
Retry(c, stage, otherwise) ==
  /\ call[c].seen = Absent
  /\ IF call[c].tries + 1 < MaxRetries
       THEN call' = [call EXCEPT ![c].at = stage, ![c].tries = @ + 1]
       ELSE Leave(c, otherwise)
  /\ UNCHANGED <<world, counter, spent, appending, armed, alertVars, job, history>>

-----------------------------------------------------------------------------
(* checkAndReserve. *)

Resolve(c) ==
  /\ At(c, "new")
  /\ call' = IF policy = NoPolicy
                  THEN [call EXCEPT ![c].at = "admitted"]
                  ELSE [call EXCEPT ![c].at = "reserve", ![c].period = now, ![c].using = policy]
  /\ UNCHANGED <<world, counter, spent, appending, armed, alertVars, job, history>>

(* An absent counter counts as the whole hard limit. *)
Available(c) == IF counter[Period(c)] = Absent THEN call[c].using.hard ELSE counter[Period(c)]

(* Mutant: the reservation is not compared with what is left. *)
ReserveReadUnchecked(c) ==
  /\ At(c, "reserve")
  /\ Read(c, Available(c), "reserveExec")
  /\ UNCHANGED <<world, counter, spent, appending, armed, alertVars, job, history>>

(* With less left than the reservation the request is denied, for good. *)
ReserveRead(c) ==
  /\ At(c, "reserve")
  /\ IF Available(c) < call[c].using.hold THEN Leave(c, "denied") ELSE Read(c, Available(c), "reserveExec")
  /\ UNCHANGED <<world, counter, spent, appending, armed, alertVars, job, history>>

(* The mark of period p, a key set with NX and a lifetime, is not there: it  *)
(* never was, or the period is over and the key has expired since.           *)
Unmarked(p, marks) == p \notin marks \/ p < now

(* armReconciliation runs on its own: the recon-armed key is set with NX,   *)
(* and the first one enqueues the period's first job.  Nobody else reads    *)
(* the key, so it is one step; failing, it may leave the period armed       *)
(* without a job.                                                           *)
Arm(p) ==
  \/ /\ Unmarked(p, armed)
     /\ armed' = armed \cup {p}
     /\ job' = IF job[p] = NoJob THEN [job EXCEPT ![p] = Waiting] ELSE job
  \/ armed' \in {armed, armed \cup {p}} /\ UNCHANGED job

Take(c, stage) ==
  /\ At(c, "reserveExec")
  /\ Commit(c, call[c].seen - call[c].using.hold, stage)
  /\ held' = held \cup {c[1]}

ReserveExec(c) ==
  /\ Take(c, "admitted")
  /\ Arm(Period(c))
  /\ UNCHANGED <<world, spent, appending, alertVars, settled, repeated, disturbed>>

ReserveAborts(c) == At(c, "reserveExec") /\ Retry(c, "reserve", "denied")

(* reserve() throws, whether or not it took effect: fail closed. *)
ReserveErrors(c) ==
  /\ \/ call[c].at \in {"reserve", "reserveExec"} /\ Leave(c, "denied") /\ UNCHANGED <<counter, held>>
     \/ Take(c, "done")
  /\ UNCHANGED <<world, spent, appending, armed, alertVars, job, settled, repeated, disturbed>>

-----------------------------------------------------------------------------
(* The rest of the request: for every done event recordUsage and debit, both *)
(* fire-and-forget.  After it the stream may go on, to another done event.   *)

Complete(r, k) ==
  LET q == call[<<r, 0>>] IN
  /\ q.at = "admitted" /\ At(<<r, k>>, "none")
  /\ k > 1 => ~At(<<r, k - 1>>, "none")
  /\ Cardinality({b \in Bills : ~At(b, "none")}) < MaxDones
  /\ \E c \in Costs, more \in BOOLEAN :
       /\ more => r \in streams /\ k < MaxBills
       /\ call' = [call EXCEPT
            ![<<r, 0>>].at = IF more THEN "admitted" ELSE "done",
            ![<<r, k>>] = [Fresh EXCEPT !.at = IF q.period = 0 THEN "done" ELSE "debit",
                                        !.period = q.period, !.cost = c]]
  /\ appending' = appending \cup {<<r, k>>}
  /\ UNCHANGED <<world, counter, spent, armed, alertVars, job, history>>

(* An entry belongs to the period in which it is created; the append may     *)
(* also fail, and is not tried again.                                        *)
Append(c) ==
  /\ c \in appending
  /\ appending' = appending \ {c}
  /\ \/ spent' = [spent EXCEPT ![now] = @ + call[c].cost]
     \/ UNCHANGED spent
  /\ UNCHANGED <<world, counter, call, armed, alertVars, job, history>>

(* debit() resolves the policy anew, but keeps the reservation's period. *)
Debit(c) ==
  /\ At(c, "debit")
  /\ call' = IF policy = NoPolicy
                  THEN [call EXCEPT ![c].at = "done"]
                  ELSE [call EXCEPT ![c].at = "adjust", ![c].using = policy]
  /\ UNCHANGED <<world, counter, spent, appending, armed, alertVars, job, history>>

(* Without a counter there is nothing to true up. *)
AdjustRead(c) ==
  /\ At(c, "adjust")
  /\ IF counter[Period(c)] = Absent THEN Leave(c, "done") ELSE Read(c, counter[Period(c)], "adjustExec")
  /\ UNCHANGED <<world, counter, spent, appending, armed, alertVars, job, history>>

Remaining(c) == call[c].seen - (call[c].cost - call[c].using.hold)

(* Every true-up gives the reservation back, also one of a request which had *)
(* it back before.                                                           *)
AdjustExec(c) ==
  /\ At(c, "adjustExec")
  /\ Commit(c, Remaining(c),
            IF call[c].using.hard - Remaining(c) < call[c].using.soft THEN "done" ELSE "warn")
  /\ settled' = settled \cup {c}
  /\ repeated' = IF \E b \in settled : b[1] = c[1] THEN repeated \cup {c} ELSE repeated
  /\ UNCHANGED <<world, spent, appending, armed, alertVars, job, held, disturbed>>

AdjustAborts(c) == At(c, "adjustExec") /\ Retry(c, "adjust", "done")

(* Mutant: every debit over the soft limit publishes an alert. *)
WarnAlways(c) ==
  /\ At(c, "warn")
  /\ warned' = warned \cup {Period(c)}
  /\ alerts' = [alerts EXCEPT ![Period(c)] = @ + 1]
  /\ GoTo(c, "done")
  /\ UNCHANGED <<world, counter, spent, appending, armed, job, history>>

(* warnIfSoftLimitCrossed: tryArmOnce, and an alert for the first. *)
Warn(c) ==
  /\ At(c, "warn")
  /\ warned' = warned \cup {Period(c)}
  /\ \/ Period(c) \in warned /\ UNCHANGED alerts
     \/ Unmarked(Period(c), warned) /\ alerts' = [alerts EXCEPT ![Period(c)] = @ + 1]
  /\ GoTo(c, "done")
  /\ UNCHANGED <<world, counter, spent, appending, armed, job, history>>

(* The request is rejected later on, its provider or a store fails, the     *)
(* client disconnects or the process dies: nothing gives the reservation    *)
(* back.                                                                   *)
Abandon(c) ==
  /\ call[c].at \in {"admitted", "debit", "adjust", "adjustExec", "warn"}
  /\ Leave(c, "done")
  /\ UNCHANGED <<world, counter, spent, appending, armed, alertVars, job, history>>

-----------------------------------------------------------------------------
(* budget_reconcile: reconcile() and the next run's enqueue. *)

(* A reconciliation recurs, also after a failure, until its period is over. *)
(* The enqueue of the next run may fail: logged, and the recurrence ends.   *)
Ends(p) == job' \in {[job EXCEPT ![p] = j] : j \in IF p < now THEN {NoJob} ELSE {Waiting, NoJob}}

Sum(p) ==
  /\ job[p].step = "waiting"
  /\ IF policy = NoPolicy
       THEN Ends(p)
       ELSE job' = [job EXCEPT ![p] = [step |-> "summed", target |-> policy.hard - spent[p]]]
  /\ UNCHANGED <<world, counter, spent, call, appending, armed, alertVars, history>>

(* Mutant: a counter that exists is left alone. *)
WriteIfAbsent(p) ==
  /\ job[p].step = "summed"
  /\ IF counter[p] = Absent THEN SetCounter(p, job[p].target) ELSE UNCHANGED <<counter, call>>
  /\ disturbed' = disturbed \cup {p}
  /\ Ends(p)
  /\ UNCHANGED <<world, spent, appending, armed, alertVars, held, settled, repeated>>

(* Whatever the counter shows is overwritten. *)
Write(p) ==
  /\ job[p].step = "summed"
  /\ SetCounter(p, job[p].target)
  /\ disturbed' = disturbed \cup {p}
  /\ Ends(p)
  /\ UNCHANGED <<world, spent, appending, armed, alertVars, held, settled, repeated>>

(* The ledger, the configuration or the counter cannot be reached. *)
ReconcileFails(p) ==
  /\ job[p].step \in {"waiting", "summed"}
  /\ Ends(p)
  /\ UNCHANGED <<world, counter, spent, call, appending, armed, alertVars, history>>

-----------------------------------------------------------------------------
PeriodEnds ==
  /\ now < Last
  /\ now' = now + 1
  /\ UNCHANGED <<policy, changes, streams, counter, spent, call, appending, armed, alertVars, job, history>>

CounterExpires(p) ==
  /\ p < now /\ counter[p] # Absent
  /\ SetCounter(p, Absent)
  /\ disturbed' = disturbed \cup {p}
  /\ UNCHANGED <<world, spent, appending, armed, alertVars, job, held, settled, repeated>>

(* An administrator writes another policy, or its row is removed. *)
ChangePolicy ==
  /\ changes < MaxChanges
  /\ changes' = changes + 1
  /\ policy' \in (Policies \cup {NoPolicy}) \ {policy}
  /\ disturbed' = IF policy' = NoPolicy THEN disturbed ELSE Periods
  /\ UNCHANGED <<now, streams, counter, spent, call, appending, armed, alertVars, job, held, settled, repeated>>

-----------------------------------------------------------------------------
Admission(c) ==
  \/ Resolve(c) \/ ReserveRead(c) \/ ReserveExec(c) \/ ReserveAborts(c) \/ ReserveErrors(c)

Settlement(c) ==
  \/ Append(c) \/ Debit(c)
  \/ AdjustRead(c) \/ AdjustExec(c) \/ AdjustAborts(c) \/ Warn(c) \/ Abandon(c)

Reconcile(p) == Sum(p) \/ Write(p) \/ ReconcileFails(p)

Next ==
  \/ \E c \in Calls : Admission(c) \/ Settlement(c)
  \/ \E r \in Requests, k \in 1..MaxBills : Complete(r, k)
  \/ \E p \in Periods : Reconcile(p) \/ CounterExpires(p)
  \/ PeriodEnds \/ ChangePolicy

Spec == Init /\ [][Next]_vars

(***************************************************************************)
(* A job that waits is run in the end (JobScheduler!EveryJobSettles), and  *)
(* not every single run fails at the counter it writes.  Nothing is        *)
(* assumed of the requests.                                                *)
(***************************************************************************)
Fairness == \A p \in Periods : WF_vars(Sum(p)) /\ SF_vars(Write(p))

FairSpec == Spec /\ Fairness

-----------------------------------------------------------------------------
(* Properties. *)

(* What period p's requests took of its budget: what their true-ups cost,    *)
(* counted unit by unit (amounts are whole numbers), and the reservations    *)
(* of those not trued up, which stay for good if it never comes to that.     *)
Units(p) == UNION {{b} \X (1..call[b].cost) : b \in {x \in settled : Period(x) = p}}
Unsettled(p) == {r \in held : Period(<<r, 0>>) = p /\ \A b \in settled : b[1] # r}
Committed(p) == Cardinality(Units(p)) + First.hold * Cardinality(Unsettled(p))

(* What period p's true-ups gave back once too often: a request has one      *)
(* reservation, and a true-up for each of its done events.                   *)
Repeated(p) == {b \in repeated : Period(b) = p}
Excess(p) == First.hold * Cardinality(Repeated(p))

(* Until a reconciliation, an expiry or a new policy changes the counter    *)
(* on its own, it shows what its period's requests took, and too much by    *)
(* exactly one reservation for every done event after a request's first:    *)
(* however transactions interleave, abort and give up, none is lost,        *)
(* applied twice or to another period (reserve, adjust).                    *)
CounterIsExact ==
  \A p \in Periods \ disturbed :
    IF counter[p] = Absent THEN \A r \in held : Period(<<r, 0>>) # p
                           ELSE counter[p] = First.hard - Committed(p) + Excess(p)

(* Until then a request is admitted only if its reservation and all that    *)
(* was taken before stay within the hard limit - and pass it by no more     *)
(* than what repeated true-ups gave back (checkAndReserve).                 *)
AdmittedWithinLimit ==
  [][\A r \in held' \ held : LET p == Period(<<r, 0>>) IN
       p \notin disturbed => Committed(p) + First.hold <= First.hard + Excess(p)]_vars

(* One soft limit alert while a period lasts, however many debits see the   *)
(* crossing at once; once it is over its key lives a second, and a debit    *)
(* that comes later than that alerts again (warnIfSoftLimitCrossed).        *)
SoftLimitAlertedOnce == \A p \in Periods : now <= p => alerts[p] <= 1

(* In the end the counter agrees with the ledger, although ledger appends   *)
(* race debits, reservations leak, true-ups are skipped and policies change *)
(* - as long as a reconciliation job of the period still recurs.            *)
DriftIsCorrected ==
  <>[](job[Last] # NoJob /\ counter[Last] # Absent /\ policy # NoPolicy =>
         counter[Last] = policy.hard - spent[Last])
=============================================================================
