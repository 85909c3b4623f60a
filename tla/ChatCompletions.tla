-------------------------- MODULE ChatCompletions ---------------------------
(***************************************************************************)
(* POST /v1/chat/completions on top of the routing engine, and the SDK     *)
(* client that calls it: the JSON answer, the event stream, the client     *)
(* that leaves, the usage that is recorded, and the retries of a client    *)
(* that heard nothing.                                                     *)
(***************************************************************************)
EXTENDS RoutingEngine

CONSTANTS
  Attempts,       \* the call that serves each attempt of the SDK, in order
  MaxFrames       \* frames an upstream sends in one stream

ASSUME AttemptsAreCalls ==
  /\ Attempts \in Seq(Calls) /\ Attempts # <<>> /\ IsInjective(Attempts)
  /\ MaxFrames \in Nat

VARIABLES
  chat,           \* the route handler of each call
  sdk,            \* the SDK client
  caller          \* who makes the calls: the SDK client, or a caller of the engine

vars == <<call, registered, cursor, pin, shadow, chat, sdk, caller>>

IdleChat ==
  [pc |-> "idle", kind |-> "json", left |-> FALSE, told |-> FALSE, sent |-> <<>>, frames |-> 0,
   finished |-> FreshStream, reply |-> 0, reason |-> None, recorded |-> 0]

Init ==
  /\ EngineInit
  /\ chat = [c \in Calls |-> IdleChat]
  /\ caller \in {"sdk", "port"}
  /\ sdk \in [pc : {"ready"}, kind : {"json", "sse"}, attempt : {0}]

Put(c, r) == chat' = [chat EXCEPT ![c] = r]
Close(c, r) == Put(c, [r EXCEPT !.pc = "closed", !.frames = 0, !.finished = FreshStream])

SafeStatuses == {400, 401, 403, 404, 408, 409, 422, 429, 502, 503, 504}
ToSafeUpstreamStatus(status) == IF status \in SafeStatuses THEN status ELSE 502

(* A thrown NoAvailableProviderError answers with its first cause when that  *)
(* is a GatewayError; every other error is the fallback handler's 500.       *)
ErrorStatus(c) ==
  IF call[c].pc = "threw" THEN 500
  ELSE IF call[c].cause = NoFailure THEN 502
  ELSE ToSafeUpstreamStatus(call[c].cause)

ManualPolicy(p) == [type |-> "manual", candidates |-> <<p>>, weight |-> <<1>>, shadow |-> FALSE]

----------------------------------------------------------------------------
(* The handler *)

(* Validation, the stored policy, the catalog or the enrichment refuses (400), *)
(* or one of their reads fails (500): nothing is routed.                      *)
Refuse(c) ==
  /\ chat[c].pc = "received"
  /\ \E status \in {400, 500} :
       Close(c, [chat[c] EXCEPT !.reply = status])
  /\ UNCHANGED <<engineVars, sdk, caller>>

Accept(c) ==
  /\ chat[c].pc = "received"
  /\ \E p \in Providers :
       Start(c, IF chat[c].kind = "json" THEN "complete" ELSE "stream", ManualPolicy(p))
  /\ Put(c, [chat[c] EXCEPT !.pc = "routing"])
  /\ UNCHANGED <<sdk, caller>>

(* recordUsage() and the debit of the budget, which are not awaited. *)
Bill(r, n) == [r EXCEPT !.recorded = @ + n]

Routing(c, kind) == chat[c].pc = "routing" /\ chat[c].kind = kind

AnswerJson(c) ==
  /\ Routing(c, "json") /\ At(c, "response")
  /\ Close(c, Bill([chat[c] EXCEPT !.reply = 200], 1))
  /\ UNCHANGED <<engineVars, sdk, caller>>

FailJson(c) ==
  /\ Routing(c, "json") /\ call[c].pc \in {"unavailable", "threw"}
  /\ Close(c, [chat[c] EXCEPT !.reply = ErrorStatus(c)])
  /\ UNCHANGED <<engineVars, sdk, caller>>

(* The first event of a stream: every candidate failed, or headers open. *)
FailFirstPull(c) ==
  /\ Routing(c, "sse") /\ call[c].pc \in {"unavailable", "threw"}
  /\ Close(c, IF chat[c].told
              THEN [chat[c] EXCEPT !.reason = "client_disconnect"]
              ELSE [chat[c] EXCEPT !.reason = "error", !.reply = ErrorStatus(c)])
  /\ UNCHANGED <<engineVars, sdk, caller>>

OpenStream(c) ==
  /\ Routing(c, "sse") /\ At(c, "streaming")
  /\ IF chat[c].told
     THEN Close(c, [chat[c] EXCEPT !.reason = "client_disconnect"])
     ELSE Put(c, [chat[c] EXCEPT !.pc = "open", !.reply = 200, !.sent = <<"start">>])
  /\ UNCHANGED <<engineVars, sdk, caller>>

Open(c) == chat[c].pc = "open" /\ ~chat[c].told
Streaming(c) == Last(call[c].log).provider

(* Events the loop passes on, billing at each "done". *)
Sent(r, events) ==
  Bill([r EXCEPT !.sent = @ \o events], Cardinality({i \in DOMAIN events : events[i] = "done"}))

Frame(c) ==
  /\ Open(c) /\ chat[c].frames < MaxFrames
  /\ \E f \in StreamFrames(Streaming(c)) :
       Put(c, Sent([chat[c] EXCEPT !.frames = @ + 1, !.finished = AfterFrame(Streaming(c), @, f)],
                   FrameEvents(Streaming(c), f)))
  /\ UNCHANGED <<engineVars, sdk, caller>>

(* The upstream closed the stream. *)
EndStream(c) ==
  /\ Open(c)
  /\ LET r == Sent(chat[c], EndEvents(Streaming(c), chat[c].finished))
     IN Close(c, IF Finished(Streaming(c), chat[c].finished)
                 THEN [r EXCEPT !.reason = "completed"]
                 ELSE [r EXCEPT !.reason = "error", !.sent = Append(@, "error")])
  /\ UNCHANGED <<engineVars, sdk, caller>>

(* The upstream connection broke: the engine yields an error event. *)
BreakStream(c) ==
  /\ Open(c)
  /\ Close(c, [chat[c] EXCEPT !.reason = "error", !.sent = Append(@, "error")])
  /\ UNCHANGED <<engineVars, sdk, caller>>

(* The handler was told that the client left: the abort, or the next event,  *)
(* makes the loop stop.                                                      *)
NoticeLeft(c) ==
  /\ chat[c].pc = "open" /\ chat[c].told
  /\ Close(c, [chat[c] EXCEPT !.reason = "client_disconnect"])
  /\ UNCHANGED <<engineVars, sdk, caller>>

(* The provider answers the call in progress.  A stream that was aborted     *)
(* rejects like a broken connection.                                         *)
Upstream(c) ==
  /\ At(c, "calling")
  /\ LET p == call[c].current.provider
         aborted == chat[c].told
     IN \E r \in (IF aborted THEN {Unreachable} ELSE Replies) : ProviderAnswers(c, Completion(p, r))
  /\ UNCHANGED <<chat, sdk, caller>>

----------------------------------------------------------------------------
(* The SDK client: executeWithRetry() *)

Serving == Attempts[sdk.attempt]

Send ==
  /\ caller = "sdk" /\ sdk.pc = "ready"
  /\ sdk' = [sdk EXCEPT !.pc = "waiting", !.attempt = @ + 1]
  /\ Put(Attempts[sdk'.attempt], [IdleChat EXCEPT !.pc = "received", !.kind = sdk.kind])
  /\ UNCHANGED <<engineVars, caller>>

(* The client goes.  A JSON answer is never told; an event stream is if the  *)
(* request still emits "close", which Node may have done when its body ended.*)
Leave(c) ==
  \E told \in {FALSE, chat[c].kind = "sse"} :
    Put(c, [chat[c] EXCEPT !.left = TRUE, !.told = told])

(* No response arrived: the timer fired, the connection broke, or the answer *)
(* was lost on its way.                                                      *)
HearNothing ==
  /\ sdk.pc = "waiting"
  /\ sdk' = [sdk EXCEPT !.pc = IF sdk.attempt < Len(Attempts) THEN "ready" ELSE "failed"]
  /\ Leave(Serving)
  /\ UNCHANGED <<engineVars, caller>>

(* Mutant: an error response is retried too. *)
HearAnswerRetryErrors ==
  /\ sdk.pc = "waiting" /\ chat[Serving].reply # 0
  /\ sdk' = [sdk EXCEPT !.pc = IF chat[Serving].reply = 200 \/ sdk.attempt = Len(Attempts)
                               THEN "answered" ELSE "ready"]
  /\ UNCHANGED <<engineVars, chat, caller>>

(* Any response, of any status, ends the retries. *)
HearAnswer ==
  /\ sdk.pc = "waiting" /\ chat[Serving].reply # 0
  /\ sdk' = [sdk EXCEPT !.pc = "answered"]
  /\ UNCHANGED <<engineVars, chat, caller>>

(* The application stops reading the stream it was given. *)
StopReading ==
  /\ sdk.pc = "answered" /\ sdk.kind = "sse" /\ chat[Serving].pc = "open" /\ ~chat[Serving].left
  /\ Leave(Serving)
  /\ UNCHANGED <<engineVars, sdk, caller>>

----------------------------------------------------------------------------
(* A caller of the RoutingEngine port, with any policy.  Bound: one of them  *)
(* tries its candidates at a time, as calls that do share nothing; they      *)
(* interleave while they select.                                             *)
Selects(c) == call[c].pc \in {"idle", "select", "pinning", "done"}
OneTries(c) == caller = "port" => \A d \in Calls \ {c} : Selects(d)

CallPort(c) ==
  /\ caller = "port" /\ OneTries(c)
  /\ \E mode \in {"complete", "stream"}, policy \in Policies :
       (ValidShape(policy) \/ policy.type = "unknown") /\ Start(c, mode, policy)
  /\ UNCHANGED <<chat, sdk, caller>>

TakeAnswer(c) ==
  /\ caller = "port" /\ call[c].pc \in {"response", "streaming", "unavailable", "threw"}
  /\ call' = [call EXCEPT ![c] = [IdleCall EXCEPT !.pc = "done"]]
  /\ UNCHANGED <<registered, cursor, pin, shadow, chat, sdk, caller>>

Engine(c) == EngineStep(c) /\ OneTries(c) /\ UNCHANGED <<chat, sdk, caller>>
Operate == \E p \in Providers : Disable(p) /\ UNCHANGED <<chat, sdk, caller>>

Handler(c) ==
  \/ Refuse(c) \/ Accept(c) \/ AnswerJson(c) \/ FailJson(c) \/ FailFirstPull(c)
  \/ OpenStream(c) \/ EndStream(c) \/ BreakStream(c) \/ NoticeLeft(c)
  \/ Frame(c)

Client == Send \/ HearNothing \/ HearAnswer \/ StopReading

Next ==
  \/ \E c \in Calls : CallPort(c) \/ TakeAnswer(c) \/ Engine(c) \/ Upstream(c) \/ Handler(c)
  \/ Client \/ Operate

Spec == Init /\ [][Next]_vars

----------------------------------------------------------------------------
(* Properties *)

(* What a call has tried, is trying or has yet to try. *)
InHand(r) == IF r.current = NoAttempt THEN 0 ELSE 1
Tries(r) == Len(r.log) + InHand(r) + Len(r.queue)

(* Every call, handler and client attempt is in a state the code can be in,  *)
(* and no call tries more candidates than a policy names.                    *)
TypeOK ==
  /\ \A c \in Calls :
       /\ call[c].pc \in {"idle", "select", "pinning", "next", "calling", "succeeded",
                          "failed", "response", "streaming", "unavailable", "threw", "done"}
       /\ Tries(call[c]) <= 1 \/ \E policy \in Policies : Tries(call[c]) <= Len(policy.candidates)
       /\ call[c].tries <= MaxPinTries
       /\ chat[c].pc \in {"idle", "received", "routing", "open", "closed"}
       /\ chat[c].reply \in {0, 200, 500} \cup SafeStatuses
       /\ chat[c].sent = <<>> <=> chat[c].kind = "json" \/ chat[c].reply # 200
  /\ registered \subseteq Providers
  /\ pin \in Providers \cup {None}
  /\ sdk.attempt \in 0..Len(Attempts)
  /\ sdk.attempt > 0 => sdk.pc # "ready" \/ sdk.attempt < Len(Attempts)

(* The breaker and the health tracker are told of every candidate the engine *)
(* tried, once, what its last provider call was, before the next one is      *)
(* tried or the call ends; a half-open trial and a stream are one provider   *)
(* call each, and no candidate is tried again after one that answered.       *)
(* (default-routing-engine.ts, recordOutcome and its two callers)            *)
OutcomesMatchCalls ==
  \A c \in Calls :
    LET r == call[c]
        answered == {i \in DOMAIN r.log : r.log[i].told = "success"}
    IN /\ \A i \in DOMAIN r.log : r.log[i].told = (IF r.log[i].last = "ok" THEN "success" ELSE "failure")
       /\ answered = (IF r.pc \in {"response", "streaming"} THEN {Len(r.log)} ELSE {})
       /\ r.current # NoAttempt <=> r.pc \in {"calling", "succeeded", "failed"}
       /\ r.current.calls <= (IF r.current.trial \/ r.mode = "stream" THEN 1 ELSE MaxAttempts)
       /\ r.pc \in {"succeeded", "failed"} => r.current.calls > 0

(* What the client got, what the provider did and what was billed agree: a   *)
(* JSON answer is billed once, an answer of any other status never, and an   *)
(* event stream that was not closed for its client leaving ends with the     *)
(* terminal event its reason names, billed if it completed.                  *)
(* (chat-completions.routes.ts, both paths)                                  *)
AnswerMatchesBill ==
  \A c \in Calls :
    LET r == chat[c]
    IN /\ r.kind = "json" => r.recorded = (IF r.reply = 200 THEN 1 ELSE 0)
       /\ r.reply = 200 => call[c].pc = (IF r.kind = "json" THEN "response" ELSE "streaming")
       /\ r.recorded > 0 => r.reply = 200
       /\ r.pc = "closed" /\ r.sent # <<>> /\ r.reason # "client_disconnect" =>
            Last(r.sent) = (IF r.reason = "completed" THEN "done" ELSE "error")
       /\ r.reason = "completed" => r.recorded > 0

(* One client call is executed and billed more than once only after the      *)
(* client heard nothing of an earlier attempt: any response ends it.         *)
(* (sdk-node/transport.ts and sdk-python/transport.py, the retry loop)       *)
DuplicateOnlyAfterSilence ==
  LET served == {i \in DOMAIN Attempts : chat[Attempts[i]].pc # "idle"}
      silent == {i \in served : chat[Attempts[i]].left}
  IN caller = "sdk" =>
       /\ Cardinality({i \in served : chat[Attempts[i]].recorded > 0}) <= Cardinality(silent) + 1
       /\ \A i \in served : i # sdk.attempt => i \in silent
       /\ sdk.pc = "failed" => silent = DOMAIN Attempts

(* Calls of one sticky session agree: one that kept or claimed the pin put   *)
(* first the provider the pin names until somebody replaces it.              *)
(* (redis-sticky-routing-strategy.ts, the WATCH/MULTI/EXEC compare-and-set)  *)
PinIsShared ==
  [][\A c \in Calls :
       pin' # pin /\ call[c].pc = "pinning" /\ call'[c].pc = "next" =>
         /\ call'[c].front = pin'
         /\ pin \in ToSet(call[c].policy.candidates) => pin' = pin]_vars

(* A stream's usage is recorded once: chat-completions.routes.ts:316 has it  *)
(* recorded when "the final usage figure is known (the "done" event)".       *)
BilledOnce == \A c \in Calls : chat[c].recorded <= 1
=============================================================================
