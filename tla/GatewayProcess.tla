--------------------------- MODULE GatewayProcess ---------------------------
(***************************************************************************)
(* The API process from its start to its exit, and the requests that pass  *)
(* its middleware: authentication, request signing, rate limit, budget,    *)
(* then validation and enrichment in the chat route, then the engine.      *)
(***************************************************************************)
EXTENDS TokenBucket, Enrichment

CONSTANTS
  Tenants,         \* the settings and the rate-limit.policy a tenant may have
  Leavers,         \* bound: the requests whose client may leave
  MaxClock         \* bound on time

ASSUME TenantAssumption ==
  Tenants \subseteq [settings : Settings, limits : {"absent", "malformed", "value"}]

VARIABLES
  proc,      \* the process: phase, open resources
  request,   \* each request
  left,      \* the active requests whose client closed its connection
  tenant     \* whose requests they are

vars == <<bucketVars, proc, request, left, tenant>>

Resources == {"prisma", "redis", "publisher", "config", "registry", "cost"}

(* What each stage of buildComposition() opens before it may fail. *)
Stages == <<"connect", "config", "registry", "cost", "listen">>
StageOpens == [connect |-> {"prisma", "redis", "publisher"}, config |-> {"config"},
               registry |-> {"registry"}, cost |-> {"cost"}, listen |-> {}]
CloseOrder == <<"registry", "cost", "config", "prisma", "redis", "publisher">>

NoProcess == [pc |-> "exited", stage |-> 1, open |-> {}, timedOut |-> FALSE,
              scraped |-> FALSE]
IdleRequest == [pc |-> "idle", body |-> Fresh, stage |-> 1]

Init ==
  /\ BucketInit
  /\ proc = NoProcess
  /\ request = [r \in Requests |-> IdleRequest]
  /\ left = {}
  /\ tenant \in Tenants

Same == UNCHANGED <<left, tenant>>
Serving == proc.pc \in {"listening", "draining", "closing", "flushing"}
Active(r) == request[r].pc # "idle"

----------------------------------------------------------------------------
(* The process *)

Begin ==
  /\ proc.pc = "exited"
  /\ proc' = [NoProcess EXCEPT !.pc = "starting"]
  /\ UNCHANGED <<bucketVars, request>> /\ Same

Opened == proc.open \cup StageOpens[Stages[proc.stage]]
LastStage == proc.stage = Len(Stages)

StageDone ==
  /\ proc.pc = "starting"
  /\ proc' = [proc EXCEPT !.pc = IF LastStage THEN "listening" ELSE "starting",
                          !.stage = IF LastStage THEN 1 ELSE @ + 1, !.open = Opened]
  /\ UNCHANGED <<bucketVars, request>> /\ Same

(* A stage fails after it opened what it opens: the teardown. *)
StageFails ==
  /\ proc.pc = "starting"
  /\ proc' = [proc EXCEPT !.pc = "teardown", !.open = Opened]
  /\ UNCHANGED <<bucketVars, request>> /\ Same

(* Each step of the teardown is guarded on its own: an error is only logged. *)
Teardown ==
  /\ proc.pc = "teardown"
  /\ proc' = NoProcess
  /\ UNCHANGED <<bucketVars, request>> /\ Same

(* The requests of a process that ends are cut off. *)
CutOff == request' = [r \in Requests |-> IdleRequest] /\ left' = {}
AbandonTx == tx' = [r \in Requests |-> IdleTx]

(* The first signal; a later one is ignored. *)
Signal ==
  /\ proc.pc = "listening"
  /\ proc' = [proc EXCEPT !.pc = "draining"]
  /\ UNCHANGED <<bucketVars, request>> /\ Same

(* A crash, or a signal before the handlers are registered. *)
Kill ==
  /\ proc.pc # "exited"
  /\ proc' = NoProcess /\ CutOff /\ AbandonTx
  /\ UNCHANGED <<clock, bucket, granted, tenant>>

(* Mutant: the listener is closed without waiting for its requests. *)
DrainedAtOnce ==
  /\ proc.pc = "draining"
  /\ proc' = [proc EXCEPT !.pc = "closing"]
  /\ UNCHANGED <<bucketVars, request>> /\ Same

(* server.close() calls back when the last connection ended: its request was *)
(* answered, or its client left and the handler goes on without it.          *)
Drained ==
  /\ proc.pc = "draining" /\ \A r \in Requests : Active(r) => r \in left
  /\ proc' = [proc EXCEPT !.pc = "closing"]
  /\ UNCHANGED <<bucketVars, request>> /\ Same

(* Mutant: the shutdown waits for server.close() alone. *)
DrainTimeoutNever == FALSE /\ UNCHANGED vars

DrainTimeout ==
  /\ proc.pc = "draining"
  /\ proc' = [proc EXCEPT !.pc = "closing", !.timedOut = TRUE]
  /\ UNCHANGED <<bucketVars, request>> /\ Same

AllClosed == proc.pc = "closing" /\ proc.stage > Len(CloseOrder)

(* composition.shutdown(), one resource after the other; an error escapes    *)
(* the signal handler and ends the process.  After the last of them          *)
(* metricsServer.close() is called, with connections to it or without.       *)
CloseNext ==
  /\ proc.pc = "closing" /\ ~AllClosed
  /\ \E scraped \in IF proc.stage = Len(CloseOrder) THEN BOOLEAN ELSE {FALSE} :
       proc' = [proc EXCEPT !.stage = @ + 1, !.open = @ \ {CloseOrder[proc.stage]}, !.scraped = scraped]
  /\ UNCHANGED <<bucketVars, request>> /\ Same

Exit ==
  /\ proc' = NoProcess /\ CutOff /\ AbandonTx
  /\ UNCHANGED <<clock, bucket, granted, tenant>>

CloseFails == proc.pc = "closing" /\ proc.stage \in {3, 4} /\ Exit

(* The last connection to the metrics server ends; it takes no new ones.     *)
ScrapeEnds ==
  /\ proc.scraped
  /\ proc' = [proc EXCEPT !.scraped = FALSE]
  /\ UNCHANGED <<bucketVars, request>> /\ Same

(* metricsServer.close() calls back then; there is no timer. *)
MetricsClosed ==
  /\ AllClosed /\ ~proc.scraped
  /\ proc' = [proc EXCEPT !.pc = "flushing"]
  /\ UNCHANGED <<bucketVars, request>> /\ Same

(* The spans are flushed, or not, and the process ends. *)
Flush == proc.pc = "flushing" /\ Exit

----------------------------------------------------------------------------
(* Requests *)

Has(resource) == resource \in proc.open

(* On a new connection, or on one that is kept alive past server.close().    *)
Arrive(r) ==
  /\ proc.pc \in {"listening", "draining"} \/ (Serving /\ proc.timedOut)
  /\ ~Active(r)
  /\ request' = [request EXCEPT ![r] = [IdleRequest EXCEPT !.pc = "auth"]]
  /\ tx' = [tx EXCEPT ![r] = IdleTx]
  /\ UNCHANGED <<clock, bucket, granted, proc>> /\ Same

(* The client closes its connection.  No handler learns of it but a stream's,*)
(* whose provider call is aborted; each goes on until it answers.            *)
ClientLeaves(r) ==
  /\ Serving /\ Active(r) /\ r \in Leavers
  /\ left' = left \cup {r}
  /\ UNCHANGED <<bucketVars, proc, request, tenant>>

(* Mutant: the transaction outlives its request. *)
AnswerKeepsTx(r) ==
  /\ request' = [request EXCEPT ![r] = IdleRequest]
  /\ left' = left \ {r}
  /\ UNCHANGED <<bucketVars, proc, tenant>>

(* The response, of any status, ends the request. *)
Answer(r) ==
  /\ request' = [request EXCEPT ![r] = IdleRequest]
  /\ left' = left \ {r}
  /\ tx' = [tx EXCEPT ![r] = IdleTx]
  /\ UNCHANGED <<clock, bucket, granted, proc, tenant>>

GoesOn(r, pc, body, stage) ==
  /\ request' = [request EXCEPT ![r] = [pc |-> pc, body |-> body, stage |-> stage]]
  /\ UNCHANGED <<bucketVars, proc>> /\ Same

Passes(r, pc) == GoesOn(r, pc, Fresh, 1)

In(r, pc) == Serving /\ request[r].pc = pc

(* An API key must be known, unrevoked, match its hash and name a project;   *)
(* a token must verify and name a user.  A read that fails is a 500.         *)
Authenticate(r) ==
  /\ In(r, "auth")
  /\ \/ Has("prisma") /\ Passes(r, "signing")
     \/ Answer(r)

(* Signing is asked for per project: absent or malformed means disabled; a   *)
(* user's token has no project, so its requests fail where it is enabled.    *)
CheckSignature(r) ==
  /\ In(r, "signing")
  /\ \/ Passes(r, "limit")
     \/ Answer(r)

(* The policy is resolved: no policy is no limit, a malformed one refuses,   *)
(* a failed read is a 500.                                                   *)
ResolveLimit(r) ==
  /\ In(r, "limit")
  /\ \/ tenant.limits = "absent" /\ Passes(r, "budget")
     \/ tenant.limits = "malformed" /\ Answer(r)
     \/ tenant.limits = "value" /\ Passes(r, "bucket")
     \/ Answer(r)

Consume(r) ==
  /\ In(r, "bucket")
  /\ \/ Has("redis") /\ (Aborts(r) \/ Commits(r) \/ \E skew \in 0..MaxSkew : ReadBucket(r, skew))
     \/ BucketFails(r)
  /\ UNCHANGED <<proc, request>> /\ Same

Limited(r) ==
  /\ In(r, "bucket")
  /\ \/ tx[r].pc = "refused" /\ Answer(r)
     \/ tx[r].pc = "allowed" /\ Passes(r, "budget")

ReserveBudget(r) ==
  /\ In(r, "budget")
  /\ \/ Passes(r, "route")
     \/ Answer(r)

(* The chat route up to the enrichment: the body, the stored routing policy  *)
(* and the model; and the stage list, which is resolved per request.         *)
StartEnrichment(r) ==
  /\ In(r, "route")
  /\ \/ \E stages \in Readings(tenant.settings.stages) :
          IF Resolvable(stages)
          THEN Passes(r, "enriching")
          ELSE Answer(r)
     \/ Answer(r)

RunStage(r) ==
  /\ In(r, "enriching")
  /\ request[r].stage <= Len(StageNames(tenant.settings.stages))
  /\ \E result \in StageResults(StageNames(tenant.settings.stages)[request[r].stage], request[r].body, tenant.settings) :
       IF result.action = "reject" THEN Answer(r)
       ELSE GoesOn(r, "enriching", result.request, request[r].stage + 1)

Forward(r) ==
  /\ In(r, "enriching")
  /\ request[r].stage > Len(StageNames(tenant.settings.stages))
  /\ GoesOn(r, "routing", request[r].body, 1)

EngineAnswers(r) == In(r, "routing") /\ Answer(r)

Tick ==
  /\ tenant.limits = "value" /\ clock < MaxClock
  /\ clock' = clock + 1
  /\ UNCHANGED <<bucket, tx, granted, proc, request>> /\ Same

----------------------------------------------------------------------------
Process ==
  \/ Begin \/ StageDone \/ StageFails \/ Teardown \/ Signal \/ Kill \/ Drained \/ DrainTimeout
  \/ CloseNext \/ CloseFails \/ ScrapeEnds \/ MetricsClosed \/ Flush

Handle(r) ==
  \/ Arrive(r) \/ ClientLeaves(r) \/ Authenticate(r) \/ CheckSignature(r) \/ ResolveLimit(r) \/ Consume(r)
  \/ Limited(r) \/ ReserveBudget(r) \/ StartEnrichment(r) \/ RunStage(r) \/ Forward(r) \/ EngineAnswers(r)

Next == Process \/ Tick \/ \E r \in Requests : Handle(r)

(* The timer fires and the steps of the shutdown go on; no request need end, *)
(* and no connection.                                                        *)
Fairness ==
  /\ WF_vars(DrainTimeout) /\ WF_vars(CloseNext) /\ WF_vars(MetricsClosed) /\ WF_vars(Flush)
  /\ WF_vars(Teardown)

Spec == Init /\ [][Next]_vars /\ Fairness

----------------------------------------------------------------------------
(* Properties *)

(* Every process, request and transaction is in a state the code can be in.  *)
TypeOK ==
  /\ proc.pc \in {"exited", "starting", "teardown", "listening", "draining", "closing", "flushing"}
  /\ proc.open \subseteq Resources /\ left \subseteq {r \in Requests : Active(r)}
  /\ proc.pc = "exited" => proc.open = {} /\ \A r \in Requests : ~Active(r)
  /\ \A r \in Requests :
       /\ request[r].pc \in {"idle", "auth", "signing", "limit", "bucket", "budget", "route",
                             "enriching", "routing"}
       /\ tx[r].pc # "idle" \/ tx[r].tries > 0 => request[r].pc \in {"bucket", "budget", "route", "enriching", "routing"}
       /\ tx[r].tries <= MaxBucketTries
  /\ bucket.tokens \in 0..Capacity

(* No client that waits is served without the process' connections and       *)
(* subscriptions: the listener opens after the last of them, and the         *)
(* shutdown closes them after the last connection, unless its timer fired    *)
(* first.  (index.ts:40, composition-root.ts)                                *)
ServedByWholeProcess ==
  \A r \in Requests : Active(r) /\ r \notin left => proc.open = Resources \/ proc.timedOut

(* A request reaches the engine only enriched as configured: past every      *)
(* stage of a readable list, checked and redacted if compliance is on it.    *)
(* (default-request-enrichment-pipeline.ts, compliance-policy.stage.ts)      *)
ForwardedAsConfigured ==
  \A r \in Requests : request[r].pc = "routing" =>
    /\ tenant.settings.stages \in {"absent", "compliance", "all"}
    /\ tenant.settings.stages # "absent" =>
         /\ request[r].body.checked
         /\ tenant.settings.pii = "on" => request[r].body.redacted
    /\ tenant.limits # "malformed"
    /\ tenant.limits = "value" => tx[r].pc = "allowed"

(* A shutdown that began ends, also when a request never does; only a        *)
(* connection to the metrics server that stays open can keep the process,    *)
(* and then everything else is closed.  (index.ts:30-71)                     *)
ShutdownEnds ==
  proc.pc \in {"draining", "closing", "flushing"} ~>
    (proc.pc = "exited" \/ [](AllClosed /\ proc.scraped))
=============================================================================
