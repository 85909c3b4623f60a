----------------------- MODULE ChatCompletions_proofs -----------------------
(***************************************************************************)
(* Theorems about the chat route and the engine under it: what the breaker *)
(* is told matches the calls made, a client call is served again only      *)
(* after silence, and sticky calls agree on one pin.                       *)
(***************************************************************************)
EXTENDS ChatCompletions, FiniteSetTheorems, WellFoundedInduction, TLAPS

----------------------------------------------------------------------------
(* Shapes.  A step replaces fields of the records of calls and handlers and *)
(* keeps the rest.                                                          *)

CallFields == {"pc", "mode", "policy", "seen", "moved", "tries", "queue", "front", "current", "log", "cause"}
ChatFields == {"pc", "kind", "left", "told", "sent", "frames", "finished", "reply", "reason", "recorded"}
AttemptFields == {"provider", "trial", "calls", "last"}

Shaped(f, fields) == f = [c \in Calls |-> f[c]] /\ \A c \in Calls : DOMAIN f[c] = fields

(* The fields of a call, a handler and an attempt at rest. *)
LEMMA IdleShapes == DOMAIN IdleCall = CallFields /\ DOMAIN IdleChat = ChatFields /\ DOMAIN NoAttempt = AttemptFields
BY DEF IdleCall, IdleChat, CallFields, ChatFields, NoAttempt, Attempt, AttemptFields

----------------------------------------------------------------------------
(* The client.  What its attempts left behind follows from how many there   *)
(* were; a handler neither starts nor forgets that its client left.         *)

Served(i) == chat[Attempts[i]].pc # "idle"
Silent(i) == chat[Attempts[i]].left

SdkInv ==
  /\ caller # "sdk" => sdk.pc = "ready" /\ sdk.attempt = 0
  /\ caller = "sdk" =>
       /\ sdk.pc \in {"ready", "waiting", "answered", "failed"}
       /\ sdk.attempt \in 0..Len(Attempts)
       /\ sdk.pc = "ready" => sdk.attempt < Len(Attempts)
       /\ sdk.pc # "ready" => sdk.attempt > 0
       /\ sdk.pc = "failed" => sdk.attempt = Len(Attempts)
       /\ DOMAIN sdk = {"pc", "kind", "attempt"}
       /\ \A i \in DOMAIN Attempts :
            /\ Served(i) <=> i <= sdk.attempt
            /\ i < sdk.attempt => Silent(i)
            /\ i = sdk.attempt /\ sdk.pc \in {"ready", "failed"} => Silent(i)

ChatInv == Shaped(chat, ChatFields) /\ SdkInv

(* Each attempt of the client is served by a call. *)
LEMMA AttemptsType ==
  DOMAIN Attempts = 1..Len(Attempts) /\ Len(Attempts) \in Nat /\ \A i \in 1..Len(Attempts) : Attempts[i] \in Calls
BY AttemptsAreCalls

(* The handler of a call that is served goes on. *)
HandlerMoves(c) ==
  \E r : /\ chat' = [chat EXCEPT ![c] = r] /\ DOMAIN r = ChatFields
         /\ chat[c].pc # "idle" /\ r.pc # "idle" /\ r.left = chat[c].left

(* A handler that closes has moved on. *)
LEMMA ClosedMoves ==
  ASSUME NEW c \in Calls, Shaped(chat, ChatFields), chat[c].pc # "idle", NEW r, Close(c, r),
         DOMAIN r = ChatFields, r.left = chat[c].left
  PROVE  HandlerMoves(c)
<1> DEFINE s == [r EXCEPT !.pc = "closed", !.frames = 0, !.finished = FreshStream]
<1>1. DOMAIN s = ChatFields /\ s.pc = "closed" /\ s.left = r.left BY DEF ChatFields
<1>2. chat' = [chat EXCEPT ![c] = s] BY DEF Close, Put
<1> HIDE DEF s
<1> QED BY <1>1, <1>2 DEF HandlerMoves

(* Sending events changes neither the stage of a handler nor its client's leaving. *)
LEMMA SentShape ==
  ASSUME NEW r, DOMAIN r = ChatFields, NEW events
  PROVE  DOMAIN Sent(r, events) = ChatFields /\ Sent(r, events).left = r.left /\ Sent(r, events).pc = r.pc
<1> DEFINE s == [r EXCEPT !.sent = @ \o events]
<1>1. DOMAIN s = ChatFields /\ s.left = r.left /\ s.pc = r.pc BY DEF ChatFields
<1> HIDE DEF s
<1> DEFINE n == Cardinality({i \in DOMAIN events : events[i] = "done"})
<1> HIDE DEF n
<1>2. DOMAIN Bill(s, n) = ChatFields /\ Bill(s, n).left = s.left /\ Bill(s, n).pc = s.pc
  BY <1>1 DEF Bill, ChatFields
<1>3. Sent(r, events) = Bill(s, n) BY DEF Sent, s, n
<1> QED BY <1>1, <1>2, <1>3

(* Every step of a handler moves it on. *)
LEMMA HandlerStep == ASSUME NEW c \in Calls, Shaped(chat, ChatFields), Handler(c) PROVE HandlerMoves(c)
<1> DEFINE q == chat[c]
<1>1. DOMAIN q = ChatFields BY DEF Shaped
<1>2. CASE Refuse(c)
  <2>1. PICK status \in {400, 500} : Close(c, [q EXCEPT !.reply = status]) BY <1>2 DEF Refuse
  <2>2. DOMAIN [q EXCEPT !.reply = status] = ChatFields /\ [q EXCEPT !.reply = status].left = q.left
    BY <1>1 DEF ChatFields
  <2> QED BY <1>2, <2>1, <2>2, ClosedMoves DEF Refuse
<1>3. CASE Accept(c)
  <2> DEFINE s == [q EXCEPT !.pc = "routing"]
  <2>1. DOMAIN s = ChatFields /\ s.pc = "routing" /\ s.left = q.left BY <1>1 DEF ChatFields
  <2>2. chat' = [chat EXCEPT ![c] = s] /\ q.pc # "idle" BY <1>3 DEF Accept, Put
  <2> HIDE DEF s
  <2> QED BY <2>1, <2>2 DEF HandlerMoves
<1>4. CASE AnswerJson(c)
  <2> DEFINE s == [q EXCEPT !.reply = 200]
  <2>1. DOMAIN s = ChatFields /\ s.left = q.left BY <1>1 DEF ChatFields
  <2>2. Close(c, Bill(s, 1)) /\ q.pc # "idle" BY <1>4 DEF AnswerJson, Routing
  <2> HIDE DEF s
  <2>3. DOMAIN Bill(s, 1) = ChatFields /\ Bill(s, 1).left = q.left BY <2>1 DEF Bill, ChatFields
  <2> QED BY <2>2, <2>3, ClosedMoves
<1>5. CASE FailJson(c)
  <2> DEFINE s == [q EXCEPT !.reply = ErrorStatus(c)]
  <2>1. DOMAIN s = ChatFields /\ s.left = q.left BY <1>1 DEF ChatFields
  <2>2. Close(c, s) /\ q.pc # "idle" BY <1>5 DEF FailJson, Routing
  <2> HIDE DEF s
  <2> QED BY <2>1, <2>2, ClosedMoves
<1>6. CASE FailFirstPull(c)
  <2> DEFINE s == IF q.told THEN [q EXCEPT !.reason = "client_disconnect"]
                  ELSE [q EXCEPT !.reason = "error", !.reply = ErrorStatus(c)]
  <2>1. DOMAIN s = ChatFields /\ s.left = q.left BY <1>1 DEF ChatFields
  <2>2. Close(c, s) /\ q.pc # "idle" BY <1>6 DEF FailFirstPull, Routing
  <2> HIDE DEF s
  <2> QED BY <2>1, <2>2, ClosedMoves
<1>7. CASE OpenStream(c)
  <2>0. q.pc # "idle" BY <1>7 DEF OpenStream, Routing
  <2>1. CASE q.told
    <3> DEFINE s == [q EXCEPT !.reason = "client_disconnect"]
    <3>1. DOMAIN s = ChatFields /\ s.left = q.left BY <1>1 DEF ChatFields
    <3>2. Close(c, s) BY <1>7, <2>1 DEF OpenStream
    <3> HIDE DEF s
    <3> QED BY <2>0, <3>1, <3>2, ClosedMoves
  <2>2. CASE ~q.told
    <3> DEFINE s == [q EXCEPT !.pc = "open", !.reply = 200, !.sent = <<"start">>]
    <3>1. DOMAIN s = ChatFields /\ s.left = q.left /\ s.pc = "open" BY <1>1 DEF ChatFields
    <3>2. chat' = [chat EXCEPT ![c] = s] BY <1>7, <2>2 DEF OpenStream, Put
    <3> HIDE DEF s
    <3> QED BY <2>0, <3>1, <3>2 DEF HandlerMoves
  <2> QED BY <2>1, <2>2
<1>8. CASE EndStream(c)
  <2> DEFINE r == Sent(q, EndEvents(Streaming(c), q.finished))
             s == IF Finished(Streaming(c), q.finished) THEN [r EXCEPT !.reason = "completed"]
                  ELSE [r EXCEPT !.reason = "error", !.sent = Append(@, "error")]
  <2>1. DOMAIN r = ChatFields /\ r.left = q.left BY <1>1, SentShape
  <2>2. Close(c, s) /\ q.pc # "idle" BY <1>8 DEF EndStream, Open
  <2> HIDE DEF r
  <2>3. DOMAIN s = ChatFields /\ s.left = q.left BY <2>1 DEF ChatFields
  <2> HIDE DEF s
  <2> QED BY <2>2, <2>3, ClosedMoves
<1>9. CASE BreakStream(c)
  <2> DEFINE s == [q EXCEPT !.reason = "error", !.sent = Append(@, "error")]
  <2>1. DOMAIN s = ChatFields /\ s.left = q.left BY <1>1 DEF ChatFields
  <2>2. Close(c, s) /\ q.pc # "idle" BY <1>9 DEF BreakStream, Open
  <2> HIDE DEF s
  <2> QED BY <2>1, <2>2, ClosedMoves
<1>10. CASE NoticeLeft(c)
  <2> DEFINE s == [q EXCEPT !.reason = "client_disconnect"]
  <2>1. DOMAIN s = ChatFields /\ s.left = q.left BY <1>1 DEF ChatFields
  <2>2. Close(c, s) /\ q.pc # "idle" BY <1>10 DEF NoticeLeft
  <2> HIDE DEF s
  <2> QED BY <2>1, <2>2, ClosedMoves
<1>11. CASE Frame(c)
  <2>1. PICK f \in StreamFrames(Streaming(c)) :
          Put(c, Sent([q EXCEPT !.frames = @ + 1, !.finished = AfterFrame(Streaming(c), @, f)],
                      FrameEvents(Streaming(c), f)))
    BY <1>11 DEF Frame
  <2> DEFINE r == [q EXCEPT !.frames = @ + 1, !.finished = AfterFrame(Streaming(c), @, f)]
             s == Sent(r, FrameEvents(Streaming(c), f))
  <2>2. DOMAIN r = ChatFields /\ r.left = q.left /\ r.pc = q.pc BY <1>1 DEF ChatFields
  <2>3. chat' = [chat EXCEPT ![c] = s] BY <2>1 DEF Put
  <2> HIDE DEF r
  <2>4. DOMAIN s = ChatFields /\ s.left = q.left /\ s.pc = q.pc BY <2>2, SentShape
  <2>5. q.pc # "idle" BY <1>11 DEF Frame, Open
  <2> HIDE DEF s
  <2> QED BY <2>3, <2>4, <2>5 DEF HandlerMoves
<1> QED BY <1>2, <1>3, <1>4, <1>5, <1>6, <1>7, <1>8, <1>9, <1>10, <1>11 DEF Handler

(* A handler that moves on leaves the client's account alone. *)
LEMMA HandlerSdk == ASSUME NEW c \in Calls, ChatInv, HandlerMoves(c), UNCHANGED <<sdk, caller>> PROVE ChatInv'
<1>1. PICK r : /\ chat' = [chat EXCEPT ![c] = r] /\ DOMAIN r = ChatFields
               /\ chat[c].pc # "idle" /\ r.pc # "idle" /\ r.left = chat[c].left
  BY DEF HandlerMoves
<1>2. Shaped(chat', ChatFields) /\ chat'[c] = r /\ \A d \in Calls \ {c} : chat'[d] = chat[d]
  BY <1>1 DEF ChatInv, Shaped
<1>3. \A d \in Calls : (chat'[d].pc # "idle" <=> chat[d].pc # "idle") /\ chat'[d].left = chat[d].left
  BY <1>1, <1>2
<1>4. \A i \in DOMAIN Attempts : (Served(i)' <=> Served(i)) /\ (Silent(i)' <=> Silent(i))
  BY <1>3, AttemptsType DEF Served, Silent
<1>5. SdkInv' BY <1>4 DEF ChatInv, SdkInv
<1>6. Shaped(chat, ChatFields)' BY <1>2 DEF Shaped
<1> QED BY <1>5, <1>6 DEF ChatInv

(* A client that hears nothing leaves; one that stops reading does, too.    *)
LEMMA LeaveShape ==
  ASSUME NEW c \in Calls, Shaped(chat, ChatFields), Leave(c)
  PROVE  /\ Shaped(chat', ChatFields) /\ chat'[c].left
         /\ \A d \in Calls : chat'[d].pc = chat[d].pc /\ (d # c => chat'[d].left = chat[d].left)
<1>1. PICK told : chat' = [chat EXCEPT ![c] = [chat[c] EXCEPT !.left = TRUE, !.told = told]]
  BY DEF Leave, Put
<1> DEFINE r == [chat[c] EXCEPT !.left = TRUE, !.told = told]
<1>2. DOMAIN r = ChatFields /\ r.left /\ r.pc = chat[c].pc BY DEF Shaped, ChatFields
<1>3. chat' = [chat EXCEPT ![c] = r] BY <1>1
<1> HIDE DEF r
<1>4. Shaped(chat', ChatFields) /\ chat'[c] = r /\ \A d \in Calls \ {c} : chat'[d] = chat[d]
  BY <1>2, <1>3 DEF Shaped
<1> QED BY <1>2, <1>4

(* Every step of the client keeps its account. *)
LEMMA ClientStep == ASSUME ChatInv, Client PROVE ChatInv'
<1>0. Shaped(chat, ChatFields) BY DEF ChatInv
<1>a. caller' = caller BY DEF Client, Send, HearNothing, HearAnswer, StopReading
<1>1. CASE Send
  <2>1. /\ caller = "sdk" /\ sdk.pc = "ready" /\ sdk.attempt \in 0..Len(Attempts) /\ sdk.attempt < Len(Attempts)
        /\ DOMAIN sdk = {"pc", "kind", "attempt"}
    BY <1>1 DEF Send, ChatInv, SdkInv
  <2>2. sdk' = [sdk EXCEPT !.pc = "waiting", !.attempt = @ + 1] BY <1>1 DEF Send
  <2>3. sdk'.pc = "waiting" /\ sdk'.attempt = sdk.attempt + 1 /\ DOMAIN sdk' = {"pc", "kind", "attempt"}
    BY <2>1, <2>2
  <2>4. PICK n \in 1..Len(Attempts) : n = sdk.attempt + 1 BY <2>1, AttemptsType
  <2> DEFINE r == [IdleChat EXCEPT !.pc = "received", !.kind = sdk.kind]
  <2>5. Attempts[n] \in Calls BY AttemptsType
  <2>6. DOMAIN r = ChatFields /\ r.pc = "received" BY IdleShapes DEF ChatFields
  <2>7. chat' = [chat EXCEPT ![Attempts[n]] = r] BY <1>1, <2>3, <2>4 DEF Send, Put
  <2> HIDE DEF r
  <2>8. Shaped(chat', ChatFields) /\ chat'[Attempts[n]] = r /\ \A d \in Calls \ {Attempts[n]} : chat'[d] = chat[d]
    BY <1>0, <2>6, <2>7, <2>5 DEF Shaped
  <2>9. ASSUME NEW i \in DOMAIN Attempts, i # n PROVE (Served(i)' <=> Served(i)) /\ (Silent(i)' <=> Silent(i))
    <3>1. Attempts[i] # Attempts[n] BY <2>9, AttemptsType, AttemptsAreCalls DEF IsInjective
    <3>2. chat'[Attempts[i]] = chat[Attempts[i]] BY <2>8, <2>9, <3>1, AttemptsType
    <3> QED BY <3>2 DEF Served, Silent
  <2>10. Served(n)' BY <2>6, <2>8 DEF Served
  <2>11. ASSUME NEW i \in DOMAIN Attempts
         PROVE  /\ Served(i)' <=> i <= n
                /\ i < n => Silent(i)'
    <3>1. /\ Served(i) <=> i <= sdk.attempt
          /\ i < sdk.attempt => Silent(i)
          /\ i = sdk.attempt => Silent(i)
      BY <2>1 DEF ChatInv, SdkInv
    <3>2. i \in Nat /\ sdk.attempt \in Nat /\ n = sdk.attempt + 1 BY <2>1, <2>4, <2>11, AttemptsType
    <3>3. CASE i = n BY <2>10, <3>2, <3>3
    <3>4. CASE i # n BY <2>9, <3>1, <3>2, <3>4
    <3> QED BY <3>3, <3>4
  <2>12. sdk'.attempt = n /\ n \in 0..Len(Attempts) /\ n > 0 BY <2>3, <2>4, AttemptsType
  <2>13. SdkInv' BY <1>a, <2>1, <2>3, <2>11, <2>12 DEF SdkInv
  <2>14. Shaped(chat, ChatFields)' BY <2>8 DEF Shaped
  <2> QED BY <2>13, <2>14 DEF ChatInv
<1>2. CASE HearNothing
  <2>1. CASE caller = "sdk"
    <3>1. /\ sdk.pc = "waiting" /\ sdk.attempt \in 1..Len(Attempts) /\ DOMAIN sdk = {"pc", "kind", "attempt"}
      BY <1>2, <2>1, AttemptsType DEF HearNothing, ChatInv, SdkInv
    <3>2. sdk' = [sdk EXCEPT !.pc = IF sdk.attempt < Len(Attempts) THEN "ready" ELSE "failed"] /\ Leave(Serving)
      BY <1>2 DEF HearNothing
    <3>3. /\ sdk'.pc = (IF sdk.attempt < Len(Attempts) THEN "ready" ELSE "failed")
          /\ sdk'.attempt = sdk.attempt /\ DOMAIN sdk' = {"pc", "kind", "attempt"}
      BY <3>1, <3>2
    <3>4. Serving \in Calls BY <3>1, AttemptsType DEF Serving
    <3>5. /\ Shaped(chat', ChatFields) /\ chat'[Serving].left
          /\ \A d \in Calls : chat'[d].pc = chat[d].pc /\ (d # Serving => chat'[d].left = chat[d].left)
      BY <1>0, <3>2, <3>4, LeaveShape
    <3>6. ASSUME NEW i \in DOMAIN Attempts
          PROVE  (Served(i)' <=> Served(i)) /\ (Silent(i) => Silent(i)') /\ (i = sdk.attempt => Silent(i)')
      BY <3>5, AttemptsType DEF Served, Silent, Serving
    <3>7. SdkInv' BY <1>a, <2>1, <3>1, <3>3, <3>6, AttemptsType DEF ChatInv, SdkInv
    <3>8. Shaped(chat, ChatFields)' BY <3>5 DEF Shaped
    <3> QED BY <3>7, <3>8 DEF ChatInv
  <2>2. caller = "sdk" BY <1>2 DEF HearNothing, ChatInv, SdkInv
  <2> QED BY <2>1, <2>2
<1>3. CASE HearAnswer
  <2>1. sdk.pc = "waiting" /\ sdk' = [sdk EXCEPT !.pc = "answered"] /\ chat' = chat BY <1>3 DEF HearAnswer
  <2>2. caller = "sdk" /\ DOMAIN sdk = {"pc", "kind", "attempt"} BY <2>1 DEF ChatInv, SdkInv
  <2>3. sdk'.pc = "answered" /\ sdk'.attempt = sdk.attempt /\ DOMAIN sdk' = {"pc", "kind", "attempt"}
    BY <2>1, <2>2
  <2>4. \A i \in DOMAIN Attempts : (Served(i)' <=> Served(i)) /\ (Silent(i)' <=> Silent(i))
    BY <2>1 DEF Served, Silent
  <2>5. SdkInv' BY <1>a, <2>1, <2>2, <2>3, <2>4 DEF ChatInv, SdkInv
  <2> QED BY <1>0, <2>1, <2>5 DEF ChatInv, Shaped
<1>4. CASE StopReading
  <2>1. sdk.pc = "answered" /\ sdk' = sdk /\ Leave(Serving) BY <1>4 DEF StopReading
  <2>2. caller = "sdk" /\ sdk.attempt \in 1..Len(Attempts) BY <2>1, AttemptsType DEF ChatInv, SdkInv
  <2>3. Serving \in Calls BY <2>2, AttemptsType DEF Serving
  <2>4. /\ Shaped(chat', ChatFields) /\ chat'[Serving].left
        /\ \A d \in Calls : chat'[d].pc = chat[d].pc /\ (d # Serving => chat'[d].left = chat[d].left)
    BY <1>0, <2>1, <2>3, LeaveShape
  <2>5. ASSUME NEW i \in DOMAIN Attempts
        PROVE  (Served(i)' <=> Served(i)) /\ (Silent(i) => Silent(i)')
    BY <2>4, AttemptsType DEF Served, Silent, Serving
  <2>6. SdkInv' BY <1>a, <2>1, <2>2, <2>5 DEF ChatInv, SdkInv
  <2> QED BY <2>4, <2>6 DEF ChatInv, Shaped
<1> QED BY <1>1, <1>2, <1>3, <1>4 DEF Client

----------------------------------------------------------------------------
(* The engine.  What a call was told, how often it called the provider it   *)
(* is trying, and what it read of the pin.                                  *)

Entry == [provider : Providers, last : {"ok", "error"}, told : {"success", "failure"}]
Trying == {"calling", "succeeded", "failed"}
Answering == {"response", "streaming"}

LogInv(r) ==
  /\ r.log \in Seq(Entry)
  /\ \A i \in 1..Len(r.log) :
       /\ r.log[i].told = (IF r.log[i].last = "ok" THEN "success" ELSE "failure")
       /\ r.log[i].told = "success" <=> r.pc \in Answering /\ i = Len(r.log)
  /\ r.pc \in Answering => Len(r.log) > 0

OneCall(r) == r.current.trial \/ r.mode = "stream"

CurrentInv(r) ==
  /\ r.pc \notin Trying => r.current = NoAttempt
  /\ r.pc \in Trying =>
       /\ DOMAIN r.current = AttemptFields /\ r.current.provider \in Providers /\ r.current.calls \in Nat
       /\ r.current.trial \in BOOLEAN
       /\ r.mode \in {"complete", "stream"}
  /\ r.pc = "calling" =>
       /\ OneCall(r) => r.current.calls = 0
       /\ r.current.calls < MaxAttempts
  /\ r.pc \in {"succeeded", "failed"} =>
       /\ r.current.calls > 0 /\ r.current.calls <= (IF OneCall(r) THEN 1 ELSE MaxAttempts)
       /\ r.current.last = (IF r.pc = "succeeded" THEN "ok" ELSE "error")

ModeInv(r) == r.pc \in {"select", "pinning", "next"} => r.mode \in {"complete", "stream"}
ReadInv(r, p) == r.pc = "pinning" => r.moved \/ r.seen = p

CallInv(r) == DOMAIN r = CallFields /\ LogInv(r) /\ CurrentInv(r) /\ ModeInv(r)

EngineInv ==
  /\ call = [c \in Calls |-> call[c]]
  /\ registered \subseteq Providers
  /\ \A c \in Calls : CallInv(call[c]) /\ ReadInv(call[c], pin)

(* A call at rest was told nothing. *)
LEMMA IdleInv == CallInv(IdleCall) /\ IdleCall.pc = "idle" /\ IdleCall.log = <<>>
<1>1. DOMAIN IdleCall = CallFields /\ IdleCall.pc = "idle" /\ IdleCall.log = <<>> /\ IdleCall.current = NoAttempt
  BY IdleShapes DEF IdleCall
<1>2. LogInv(IdleCall) BY <1>1 DEF LogInv, Answering
<1>3. CurrentInv(IdleCall) /\ ModeInv(IdleCall) BY <1>1 DEF CurrentInv, ModeInv, Trying
<1> QED BY <1>1, <1>2, <1>3 DEF CallInv

(* One call moves on and the pin stays. *)
LEMMA CallStep ==
  ASSUME EngineInv, NEW c \in Calls, NEW r, CallInv(r), ReadInv(r, pin), call' = [call EXCEPT ![c] = r],
         pin' = pin, registered' \subseteq Providers
  PROVE  EngineInv'
<1>1. call' = [d \in Calls |-> call'[d]] BY DEF EngineInv
<1>2. ASSUME NEW d \in Calls PROVE CallInv(call'[d]) /\ ReadInv(call'[d], pin')
  <2>1. CASE d = c
    <3>1. call'[d] = r BY <2>1 DEF EngineInv
    <3> QED BY <3>1
  <2>2. CASE d # c
    <3>1. call'[d] = call[d] BY <2>2 DEF EngineInv
    <3> QED BY <3>1 DEF EngineInv
  <2> QED BY <2>1, <2>2
<1> QED BY <1>1, <1>2 DEF EngineInv

(* Where nothing is being tried the log has no success and decides the rest.*)
LEMMA RestInv ==
  ASSUME NEW q, CallInv(q), q.pc \notin Trying, q.pc \notin Answering,
         NEW r, DOMAIN r = CallFields, r.log \in {q.log, <<>>}, r.current = NoAttempt,
         r.pc \notin Trying, r.pc \notin Answering, ModeInv(r)
  PROVE  CallInv(r)
<1>1. LogInv(q) /\ LogInv(r)
  <2>1. LogInv(q) BY DEF CallInv
  <2>2. CASE r.log = q.log BY <2>1, <2>2 DEF LogInv
  <2>3. CASE r.log = <<>>
    <3>1. r.log \in Seq(Entry) /\ Len(r.log) = 0 BY <2>3
    <3>2. \A i \in 1..Len(r.log) : FALSE BY <3>1
    <3>3. LogInv(r) BY <3>1, <3>2 DEF LogInv
    <3> QED BY <2>1, <3>3
  <2> QED BY <2>1, <2>2, <2>3
<1>2. CurrentInv(r) BY DEF CurrentInv, Trying
<1> QED BY <1>1, <1>2 DEF CallInv

(* A call that throws or finds nobody takes its log with it. *)
LEMMA EndsStep ==
  ASSUME EngineInv, NEW c \in Calls, NEW pc \in {"threw", "unavailable"}, Ends(c, pc),
         call[c].pc \in {"idle", "select", "next"}, pin' = pin, registered' \subseteq Providers
  PROVE  EngineInv'
<1> DEFINE r == [IdleCall EXCEPT !.pc = pc, !.mode = call[c].mode, !.log = call[c].log, !.cause = call[c].cause]
<1>1. DOMAIN r = CallFields /\ r.pc = pc /\ r.log = call[c].log /\ r.current = NoAttempt
  BY DEF IdleCall, CallFields
<1>2. call' = [call EXCEPT ![c] = r] BY DEF Ends
<1> HIDE DEF r
<1>3. CallInv(call[c]) BY DEF EngineInv
<1>4. ModeInv(r) /\ ReadInv(r, pin) BY <1>1 DEF ModeInv, ReadInv
<1>5. CallInv(r) BY <1>1, <1>3, <1>4, RestInv DEF Trying, Answering
<1> QED BY <1>2, <1>4, <1>5, CallStep

(* A call starts with an empty log. *)
LEMMA StartStep ==
  ASSUME EngineInv, NEW c \in Calls, NEW mode \in {"complete", "stream"}, NEW policy, Start(c, mode, policy)
  PROVE  EngineInv'
<1>1. call[c].pc = "idle" /\ pin' = pin /\ registered' \subseteq Providers BY DEF Start, At, EngineInv
<1>2. CASE policy.type = "unknown"
  <2>1. Ends(c, "threw") BY <1>2 DEF Start
  <2> QED BY <1>1, <2>1, EndsStep
<1>3. CASE policy.type # "unknown"
  <2> DEFINE r == [call[c] EXCEPT !.pc = "select", !.mode = mode, !.policy = policy]
  <2>0. CallInv(call[c]) /\ DOMAIN call[c] = CallFields BY DEF EngineInv, CallInv
  <2>1. DOMAIN r = CallFields /\ r.pc = "select" /\ r.mode = mode /\ r.log = call[c].log /\ r.current = call[c].current
    BY <2>0 DEF CallFields
  <2>2. call' = [call EXCEPT ![c].pc = "select", ![c].mode = mode, ![c].policy = policy] BY <1>3 DEF Start
  <2>3. call' = [call EXCEPT ![c] = r] BY <2>0, <2>2 DEF EngineInv
  <2> HIDE DEF r
  <2>4. r.current = NoAttempt BY <1>1, <2>0, <2>1 DEF CallInv, CurrentInv, Trying
  <2>5. ModeInv(r) /\ ReadInv(r, pin) BY <2>1 DEF ModeInv, ReadInv
  <2>6. CallInv(r) BY <1>1, <2>0, <2>1, <2>4, <2>5, RestInv DEF Trying, Answering
  <2> QED BY <1>1, <2>3, <2>5, <2>6, CallStep
<1> QED BY <1>2, <1>3

(* A call that was selecting has its candidates. *)
LEMMA RankingInv ==
  ASSUME EngineInv, NEW c \in Calls, call[c].pc \in {"select", "pinning"}, NEW candidates,
         NEW r \in Rankings(c, candidates)
  PROVE  CallInv(r) /\ r.pc = "next" /\ r.front = Head(candidates)
<1>1. PICK score \in [DOMAIN candidates -> {0, 1}] :
        r = [call[c] EXCEPT !.pc = "next", !.queue = SortedDown(candidates, score), !.front = Head(candidates),
                            !.policy = None, !.seen = None, !.moved = FALSE, !.tries = 0]
  BY DEF Rankings
<1>2. CallInv(call[c]) /\ DOMAIN call[c] = CallFields BY DEF EngineInv, CallInv
<1>3. /\ DOMAIN r = CallFields /\ r.pc = "next" /\ r.front = Head(candidates) /\ r.log = call[c].log
      /\ r.current = call[c].current /\ r.mode = call[c].mode
  BY <1>1, <1>2 DEF CallFields
<1>4. r.current = NoAttempt BY <1>2, <1>3 DEF CallInv, CurrentInv, Trying
<1>5. ModeInv(r) BY <1>2, <1>3 DEF CallInv, ModeInv
<1>6. CallInv(r) BY <1>2, <1>3, <1>4, <1>5, RestInv DEF Trying, Answering
<1> QED BY <1>3, <1>6

(* A call ranks its candidates. *)
LEMMA RankStep ==
  ASSUME EngineInv, NEW c \in Calls, call[c].pc \in {"select", "pinning"}, NEW candidates,
         Rank(c, candidates), pin' = pin, registered' \subseteq Providers
  PROVE  EngineInv'
<1>1. PICK r \in Rankings(c, candidates) : call' = [call EXCEPT ![c] = r] BY DEF Rank
<1>2. CallInv(r) /\ r.pc = "next" BY RankingInv
<1>3. ReadInv(r, pin) BY <1>2 DEF ReadInv
<1> QED BY <1>1, <1>2, <1>3, CallStep

(* Whoever watches the pin learns that it was written. *)
LEMMA WriterStep ==
  ASSUME EngineInv, NEW c \in Calls, call[c].pc = "pinning", NEW candidates,
         RankAsWriter(c, candidates), registered' \subseteq Providers
  PROVE  EngineInv' /\ call'[c].front = Head(candidates) /\ \A d \in Calls \ {c} : call'[d].pc = call[d].pc
<1>1. PICK r \in Rankings(c, candidates) :
        call' = [d \in Calls |-> IF d = c THEN r
                                 ELSE IF d \in Watchers(c) THEN [call[d] EXCEPT !.moved = TRUE] ELSE call[d]]
  BY DEF RankAsWriter
<1>2. CallInv(r) /\ r.pc = "next" /\ r.front = Head(candidates) BY RankingInv
<1>3. ASSUME NEW d \in Calls \ {c}
      PROVE  CallInv(call'[d]) /\ ReadInv(call'[d], pin') /\ call'[d].pc = call[d].pc
  <2>1. CallInv(call[d]) /\ DOMAIN call[d] = CallFields BY DEF EngineInv, CallInv
  <2>2. CASE d \in Watchers(c)
    <3> DEFINE s == [call[d] EXCEPT !.moved = TRUE]
    <3>1. /\ DOMAIN s = CallFields /\ s.pc = call[d].pc /\ s.moved /\ s.log = call[d].log
          /\ s.current = call[d].current /\ s.mode = call[d].mode
      BY <2>1 DEF CallFields
    <3>2. call'[d] = s /\ call[d].pc = "pinning" BY <1>1, <2>2 DEF Watchers, At
    <3> HIDE DEF s
    <3>3. s.current = NoAttempt BY <2>1, <3>1, <3>2 DEF CallInv, CurrentInv, Trying
    <3>4. ModeInv(s) BY <2>1, <3>1 DEF CallInv, ModeInv
    <3>5. CallInv(s) BY <2>1, <3>1, <3>2, <3>3, <3>4, RestInv DEF Trying, Answering
    <3>6. ReadInv(s, pin') BY <3>1 DEF ReadInv
    <3> QED BY <3>1, <3>2, <3>5, <3>6
  <2>3. CASE d \notin Watchers(c)
    <3>1. call'[d] = call[d] BY <1>1, <2>3
    <3>2. call[d].pc # "pinning" BY <2>3 DEF Watchers, At
    <3>3. ReadInv(call[d], pin') BY <3>2 DEF ReadInv
    <3> QED BY <2>1, <3>1, <3>3
  <2> QED BY <2>2, <2>3
<1>4. call'[c] = r BY <1>1
<1>5. ReadInv(r, pin') BY <1>2 DEF ReadInv
<1>6. \A d \in Calls : CallInv(call'[d]) /\ ReadInv(call'[d], pin') BY <1>2, <1>3, <1>4, <1>5
<1>7. call' = [d \in Calls |-> call'[d]] BY <1>1
<1> QED BY <1>2, <1>3, <1>4, <1>6, <1>7 DEF EngineInv

(* No step of a selection tells anybody an outcome. *)
LEMMA SelectSteps ==
  ASSUME EngineInv, NEW c \in Calls,
         SelectThrows(c) \/ SelectLocally(c) \/ TakeTurn(c) \/ ReadPin(c) \/ CommitPin(c)
  PROVE  EngineInv'
<1>0. registered' \subseteq Providers
  BY DEF SelectThrows, SelectLocally, TakeTurn, ReadPin, CommitPin, EngineInv
<1>1. CallInv(call[c]) /\ DOMAIN call[c] = CallFields BY DEF EngineInv, CallInv
<1>2. CASE SelectThrows(c)
  <2>1. Ends(c, "threw") /\ call[c].pc = "select" /\ pin' = pin BY <1>2 DEF SelectThrows, At
  <2> QED BY <1>0, <2>1, EndsStep
<1>3. CASE SelectLocally(c)
  <2>1. PICK candidates : Rank(c, candidates) BY <1>3 DEF SelectLocally
  <2>2. call[c].pc = "select" /\ pin' = pin BY <1>3 DEF SelectLocally, Selecting, At
  <2> QED BY <1>0, <2>1, <2>2, RankStep
<1>4. CASE TakeTurn(c)
  <2>1. PICK candidates : Rank(c, candidates) BY <1>4 DEF TakeTurn
  <2>2. call[c].pc = "select" /\ pin' = pin BY <1>4 DEF TakeTurn, Selecting, At
  <2> QED BY <1>0, <2>1, <2>2, RankStep
<1>5. CASE ReadPin(c)
  <2>1. call[c].pc = "select" /\ pin' = pin BY <1>5 DEF ReadPin, Selecting, At
  <2> DEFINE r == [call[c] EXCEPT !.pc = "pinning", !.seen = pin, !.tries = @ + 1]
  <2>2. call' = [call EXCEPT ![c].pc = "pinning", ![c].seen = pin, ![c].tries = @ + 1] BY <1>5 DEF ReadPin
  <2>3. call' = [call EXCEPT ![c] = r] BY <1>1, <2>2 DEF EngineInv
  <2>4. /\ DOMAIN r = CallFields /\ r.pc = "pinning" /\ r.seen = pin /\ r.log = call[c].log
        /\ r.current = call[c].current /\ r.mode = call[c].mode
    BY <1>1 DEF CallFields
  <2> HIDE DEF r
  <2>5. r.current = NoAttempt BY <1>1, <2>1, <2>4 DEF CallInv, CurrentInv, Trying
  <2>6. ModeInv(r) BY <1>1, <2>1, <2>4 DEF CallInv, ModeInv
  <2>7. CallInv(r) BY <1>1, <2>1, <2>4, <2>5, <2>6, RestInv DEF Trying, Answering
  <2>8. ReadInv(r, pin) BY <2>4 DEF ReadInv
  <2> QED BY <1>0, <2>1, <2>3, <2>7, <2>8, CallStep
<1>6. CASE CommitPin(c)
  <2>1. call[c].pc = "pinning" BY <1>6 DEF CommitPin, At
  <2>2. CASE call[c].moved /\ call[c].tries < MaxPinTries
    <3> DEFINE r == [call[c] EXCEPT !.pc = "select", !.seen = None, !.moved = FALSE]
    <3>1. call' = [call EXCEPT ![c].pc = "select", ![c].seen = None, ![c].moved = FALSE] /\ pin' = pin
      BY <1>6, <2>2 DEF CommitPin
    <3>2. call' = [call EXCEPT ![c] = r] BY <1>1, <3>1 DEF EngineInv
    <3>3. /\ DOMAIN r = CallFields /\ r.pc = "select" /\ r.log = call[c].log
          /\ r.current = call[c].current /\ r.mode = call[c].mode
      BY <1>1 DEF CallFields
    <3> HIDE DEF r
    <3>4. r.current = NoAttempt BY <1>1, <2>1, <3>3 DEF CallInv, CurrentInv, Trying
    <3>5. ModeInv(r) BY <1>1, <2>1, <3>3 DEF CallInv, ModeInv
    <3>6. CallInv(r) BY <1>1, <2>1, <3>3, <3>4, <3>5, RestInv DEF Trying, Answering
    <3>7. ReadInv(r, pin) BY <3>3 DEF ReadInv
    <3> QED BY <1>0, <3>1, <3>2, <3>6, <3>7, CallStep
  <2>3. CASE call[c].moved /\ ~(call[c].tries < MaxPinTries)
    <3>1. PICK candidates : Rank(c, candidates) /\ pin' = pin BY <1>6, <2>3 DEF CommitPin
    <3> QED BY <1>0, <2>1, <3>1, RankStep
  <2>4. CASE ~call[c].moved
    <3>1. PICK candidates : RankAsWriter(c, candidates) BY <1>6, <2>4 DEF CommitPin
    <3> QED BY <1>0, <2>1, <3>1, WriterStep
  <2> QED BY <2>2, <2>3, <2>4
<1> QED BY <1>2, <1>3, <1>4, <1>5, <1>6
(* The call drops the candidate in front, or goes on with it. *)
LEMMA SkipSteps ==
  ASSUME EngineInv, NEW c \in Calls, NotRegistered(c) \/ BreakerOpen(c) \/ BreakerThrows(c) \/ Exhausted(c)
  PROVE  EngineInv'
<1>1. call[c].pc = "next" /\ pin' = pin /\ registered' \subseteq Providers
  BY DEF NotRegistered, BreakerOpen, BreakerThrows, Exhausted, Resolved, At, EngineInv
<1>2. CASE NotRegistered(c) \/ BreakerOpen(c)
  <2>1. PICK cause : Skip(c, cause) BY <1>2 DEF NotRegistered, BreakerOpen
  <2>2. CallInv(call[c]) /\ DOMAIN call[c] = CallFields BY DEF EngineInv, CallInv
  <2> DEFINE r == [call[c] EXCEPT !.queue = Tail(@), !.front = None, !.cause = FirstCause(c, cause)]
  <2>3. call' = [call EXCEPT ![c].queue = Tail(@), ![c].front = None, ![c].cause = FirstCause(c, cause)]
    BY <2>1 DEF Skip
  <2>4. call' = [call EXCEPT ![c] = r] BY <2>2, <2>3 DEF EngineInv
  <2>5. /\ DOMAIN r = CallFields /\ r.pc = "next" /\ r.log = call[c].log
        /\ r.current = call[c].current /\ r.mode = call[c].mode
    BY <1>1, <2>2 DEF CallFields
  <2> HIDE DEF r
  <2>6. r.current = NoAttempt BY <1>1, <2>2, <2>5 DEF CallInv, CurrentInv, Trying
  <2>7. ModeInv(r) BY <1>1, <2>2, <2>5 DEF CallInv, ModeInv
  <2>8. CallInv(r) BY <1>1, <2>2, <2>5, <2>6, <2>7, RestInv DEF Trying, Answering
  <2>9. ReadInv(r, pin) BY <2>5 DEF ReadInv
  <2> QED BY <1>1, <2>4, <2>8, <2>9, CallStep
<1>3. CASE BreakerThrows(c) BY <1>1, <1>3, EndsStep DEF BreakerThrows
<1>4. CASE Exhausted(c) BY <1>1, <1>4, EndsStep DEF Exhausted
<1> QED BY <1>2, <1>3, <1>4

(* A candidate is tried from its first call on. *)
LEMMA ReserveStep == ASSUME EngineInv, NEW c \in Calls, Reserve(c) PROVE EngineInv'
<1>1. /\ call[c].pc = "next" /\ pin' = pin /\ registered' \subseteq Providers
      /\ Head(call[c].queue) \in Providers
  BY DEF Reserve, Resolved, At, EngineInv
<1>2. PICK trial \in BOOLEAN :
        call' = [call EXCEPT ![c].pc = "calling", ![c].queue = Tail(@), ![c].front = None,
                             ![c].current = Attempt(Head(call[c].queue), trial)]
  BY DEF Reserve
<1>3. DOMAIN call[c] = CallFields /\ LogInv(call[c]) /\ ModeInv(call[c]) BY DEF EngineInv, CallInv
<1> DEFINE a == Attempt(Head(call[c].queue), trial)
           r == [call[c] EXCEPT !.pc = "calling", !.queue = Tail(@), !.front = None, !.current = a]
<1>4. DOMAIN a = AttemptFields /\ a.provider \in Providers /\ a.trial \in BOOLEAN /\ a.calls = 0
  BY <1>1 DEF Attempt, AttemptFields
<1>5. call' = [call EXCEPT ![c] = r] BY <1>2, <1>3 DEF EngineInv
<1> HIDE DEF a
<1>6. DOMAIN r = CallFields /\ r.pc = "calling" /\ r.log = call[c].log /\ r.current = a /\ r.mode = call[c].mode
  BY <1>3 DEF CallFields
<1> HIDE DEF r
<1>7. LogInv(r) BY <1>1, <1>3, <1>6 DEF LogInv, Answering
<1>8. r.mode \in {"complete", "stream"} BY <1>1, <1>3, <1>6 DEF ModeInv
<1>9. MaxAttempts \in Nat /\ 0 < MaxAttempts BY RoutingBounds
<1>10. CurrentInv(r) BY <1>4, <1>6, <1>8, <1>9 DEF CurrentInv, Trying
<1>11. CallInv(r) /\ ReadInv(r, pin) BY <1>6, <1>7, <1>10 DEF CallInv, ModeInv, ReadInv
<1> QED BY <1>1, <1>5, <1>11, CallStep

(* The provider's answer ends the attempt, unless it is retried. *)
LEMMA AnswersStep == ASSUME EngineInv, NEW c \in Calls, NEW answer, ProviderAnswers(c, answer) PROVE EngineInv'
<1> DEFINE q == call[c]
<1>1. q.pc = "calling" /\ pin' = pin /\ registered' \subseteq Providers
  BY DEF ProviderAnswers, At, EngineInv
<1>2. DOMAIN q = CallFields /\ LogInv(q) /\ CurrentInv(q) BY DEF EngineInv, CallInv
<1>3. /\ DOMAIN q.current = AttemptFields /\ q.current.provider \in Providers /\ q.current.calls \in Nat
      /\ q.current.trial \in BOOLEAN /\ q.mode \in {"complete", "stream"}
      /\ OneCall(q) => q.current.calls = 0
      /\ q.current.calls < MaxAttempts
  BY <1>1, <1>2 DEF CurrentInv, Trying
<1>4. MaxAttempts \in Nat BY RoutingBounds
<1>5. ASSUME NEW last \in {"ok", "error"}
      PROVE  /\ DOMAIN Called(c, last) = AttemptFields /\ Called(c, last).provider = q.current.provider
             /\ Called(c, last).trial = q.current.trial /\ Called(c, last).calls = q.current.calls + 1
             /\ Called(c, last).last = last
  BY <1>3 DEF Called, AttemptFields
<1>6. ASSUME NEW r, DOMAIN r = CallFields, r.log = q.log, r.mode = q.mode, NEW last \in {"ok", "error"},
             r.current = Called(c, last), r.pc \in Trying, call' = [call EXCEPT ![c] = r],
             r.pc = "calling" => ~OneCall(q) /\ q.current.calls + 1 < MaxAttempts,
             r.pc = "succeeded" => last = "ok", r.pc = "failed" => last = "error"
      PROVE  EngineInv'
  <2>1. LogInv(r) BY <1>1, <1>2, <1>6 DEF LogInv, Answering, Trying
  <2>2. OneCall(r) <=> OneCall(q) BY <1>5, <1>6 DEF OneCall
  <2>3. r.current.calls = q.current.calls + 1 /\ r.current.last = last /\ DOMAIN r.current = AttemptFields
        /\ r.current.provider \in Providers /\ r.current.trial \in BOOLEAN
    BY <1>3, <1>5, <1>6
  <2>4. r.current.calls \in Nat /\ r.current.calls > 0 /\ r.current.calls <= (IF OneCall(r) THEN 1 ELSE MaxAttempts)
    BY <1>3, <1>4, <2>2, <2>3
  <2>5. r.pc = "calling" => (OneCall(r) => r.current.calls = 0) /\ r.current.calls < MaxAttempts
    BY <1>6, <2>2, <2>3
  <2>6. r.pc \in {"succeeded", "failed"} => r.current.last = (IF r.pc = "succeeded" THEN "ok" ELSE "error")
    BY <1>6, <2>3
  <2>7. CurrentInv(r) BY <1>3, <1>6, <2>3, <2>4, <2>5, <2>6 DEF CurrentInv, Trying
  <2>8. CallInv(r) /\ ReadInv(r, pin) BY <1>6, <2>1, <2>7 DEF CallInv, ModeInv, ReadInv, Trying
  <2> QED BY <1>1, <1>6, <2>8, CallStep
<1>7. CASE answer = Success
  <2> DEFINE r == [q EXCEPT !.pc = "succeeded", !.current = Called(c, "ok")]
  <2>1. /\ DOMAIN r = CallFields /\ r.log = q.log /\ r.mode = q.mode /\ r.current = Called(c, "ok")
        /\ r.pc = "succeeded"
    BY <1>2 DEF CallFields
  <2>2. call' = [call EXCEPT ![c] = r] BY <1>7 DEF ProviderAnswers
  <2> HIDE DEF r
  <2> QED BY <1>6, <2>1, <2>2 DEF Trying
<1>8. CASE answer # Success /\ MayRetry(c, answer.retryable)
  <2> DEFINE r == [q EXCEPT !.current = Called(c, "error")]
  <2>1. DOMAIN r = CallFields /\ r.log = q.log /\ r.mode = q.mode /\ r.current = Called(c, "error") /\ r.pc = q.pc
    BY <1>2 DEF CallFields
  <2>2. call' = [call EXCEPT ![c] = r] BY <1>8 DEF ProviderAnswers
  <2>3. ~OneCall(q) /\ q.current.calls + 1 < MaxAttempts BY <1>8 DEF MayRetry, OneCall
  <2> HIDE DEF r
  <2> QED BY <1>1, <1>6, <2>1, <2>2, <2>3 DEF Trying
<1>9. CASE answer # Success /\ ~MayRetry(c, answer.retryable)
  <2> DEFINE r == [q EXCEPT !.pc = "failed", !.current = Called(c, "error"), !.cause = FirstCause(c, answer.status)]
  <2>1. /\ DOMAIN r = CallFields /\ r.log = q.log /\ r.mode = q.mode /\ r.current = Called(c, "error")
        /\ r.pc = "failed"
    BY <1>2 DEF CallFields
  <2>2. call' = [call EXCEPT ![c] = r] BY <1>9 DEF ProviderAnswers
  <2> HIDE DEF r
  <2> QED BY <1>6, <2>1, <2>2 DEF Trying
<1> QED BY <1>7, <1>8, <1>9

(* A finished attempt goes into the log with what its last call was. *)
LEMMA SettledLog ==
  ASSUME NEW q, CallInv(q), q.pc \in {"succeeded", "failed"}, NEW told \in {"success", "failure"},
         told = (IF q.pc = "succeeded" THEN "success" ELSE "failure"),
         NEW r, r.log = Append(q.log, [provider |-> q.current.provider, last |-> q.current.last, told |-> told]),
         r.pc \in Answering <=> q.pc = "succeeded"
  PROVE  LogInv(r)
<1> DEFINE e == [provider |-> q.current.provider, last |-> q.current.last, told |-> told]
<1>1. /\ q.current.provider \in Providers
      /\ q.current.last = (IF q.pc = "succeeded" THEN "ok" ELSE "error") /\ LogInv(q)
  BY DEF CallInv, CurrentInv, Trying
<1>2. e \in Entry /\ e.told = told /\ e.last = q.current.last BY <1>1 DEF Entry
<1>3. r.log = Append(q.log, e) OBVIOUS
<1> HIDE DEF e
<1>4. q.log \in Seq(Entry) /\ Len(q.log) \in Nat BY <1>1 DEF LogInv
<1>5. r.log \in Seq(Entry) /\ Len(r.log) = Len(q.log) + 1 /\ r.log[Len(q.log) + 1] = e BY <1>2, <1>3, <1>4
<1>6. \A i \in 1..Len(q.log) : r.log[i] = q.log[i] BY <1>2, <1>3, <1>4
<1>7. ASSUME NEW i \in 1..Len(r.log)
      PROVE  /\ r.log[i].told = (IF r.log[i].last = "ok" THEN "success" ELSE "failure")
             /\ r.log[i].told = "success" <=> r.pc \in Answering /\ i = Len(r.log)
  <2>1. CASE i = Len(q.log) + 1 BY <1>1, <1>2, <1>5, <2>1
  <2>2. CASE i # Len(q.log) + 1
    <3>1. i \in 1..Len(q.log) /\ i # Len(r.log) BY <1>4, <1>5, <2>2
    <3>2. /\ q.log[i].told = (IF q.log[i].last = "ok" THEN "success" ELSE "failure")
          /\ q.log[i].told # "success"
      BY <1>1, <3>1 DEF LogInv, Answering
    <3> QED BY <1>6, <3>1, <3>2
  <2> QED BY <2>1, <2>2
<1> QED BY <1>4, <1>5, <1>7 DEF LogInv

(* The outcome that is told is that of the last call. *)
LEMMA RecordSteps == ASSUME EngineInv, NEW c \in Calls, RecordSuccess(c) \/ RecordFailure(c) PROVE EngineInv'
<1> DEFINE q == call[c]
<1>1. pin' = pin /\ registered' \subseteq Providers BY DEF RecordSuccess, RecordFailure, EngineInv
<1>2. DOMAIN q = CallFields /\ CallInv(q) BY DEF EngineInv, CallInv
<1>3. CASE RecordSuccess(c)
  <2> DEFINE r == [IdleCall EXCEPT !.pc = IF q.mode = "complete" THEN "response" ELSE "streaming",
                                   !.mode = q.mode, !.log = Settled(c, "success"), !.cause = q.cause]
  <2>1. q.pc = "succeeded" /\ call' = [call EXCEPT ![c] = r] BY <1>3 DEF RecordSuccess, At
  <2>2. /\ DOMAIN r = CallFields /\ r.pc \in Answering /\ r.log = Settled(c, "success") /\ r.current = NoAttempt
    BY DEF IdleCall, CallFields, Answering
  <2> HIDE DEF r
  <2>3. LogInv(r) BY <1>2, <2>1, <2>2, SettledLog DEF Settled
  <2>4. CurrentInv(r) /\ ModeInv(r) /\ ReadInv(r, pin)
    BY <2>2 DEF CurrentInv, ModeInv, ReadInv, Trying, Answering
  <2>5. CallInv(r) BY <2>2, <2>3, <2>4 DEF CallInv
  <2> QED BY <1>1, <2>1, <2>4, <2>5, CallStep
<1>4. CASE RecordFailure(c)
  <2> DEFINE r == [q EXCEPT !.pc = "next", !.log = Settled(c, "failure"), !.current = NoAttempt]
  <2>1. q.pc = "failed" BY <1>4 DEF RecordFailure, At
  <2>2. call' = [call EXCEPT ![c].pc = "next", ![c].log = Settled(c, "failure"), ![c].current = NoAttempt]
    BY <1>4 DEF RecordFailure
  <2>3. call' = [call EXCEPT ![c] = r] BY <1>2, <2>2 DEF EngineInv
  <2>4. /\ DOMAIN r = CallFields /\ r.pc = "next" /\ r.log = Settled(c, "failure") /\ r.current = NoAttempt
        /\ r.mode = q.mode
    BY <1>2 DEF CallFields
  <2> HIDE DEF r
  <2>5. LogInv(r) BY <1>2, <2>1, <2>4, SettledLog DEF Settled, Answering
  <2>6. q.mode \in {"complete", "stream"} BY <1>2, <2>1 DEF CallInv, CurrentInv, Trying
  <2>7. CurrentInv(r) /\ ModeInv(r) /\ ReadInv(r, pin) BY <2>4, <2>6 DEF CurrentInv, ModeInv, ReadInv, Trying
  <2>8. CallInv(r) BY <2>4, <2>5, <2>7 DEF CallInv
  <2> QED BY <1>1, <2>3, <2>7, <2>8, CallStep
<1> QED BY <1>3, <1>4

(* A caller of the engine takes the answer, and the call is over. *)
LEMMA TakeAnswerStep == ASSUME EngineInv, NEW c \in Calls, TakeAnswer(c) PROVE EngineInv'
<1> DEFINE r == [IdleCall EXCEPT !.pc = "done"]
<1>1. DOMAIN r = CallFields /\ r.pc = "done" /\ r.log = IdleCall.log /\ r.current = NoAttempt
  BY DEF IdleCall, CallFields
<1>2. call' = [call EXCEPT ![c] = r] /\ pin' = pin /\ registered' \subseteq Providers BY DEF TakeAnswer, EngineInv
<1> HIDE DEF r
<1>3. ModeInv(r) /\ ReadInv(r, pin) BY <1>1 DEF ModeInv, ReadInv
<1>4. CallInv(r) BY <1>1, <1>3, IdleInv, RestInv DEF Trying, Answering
<1> QED BY <1>2, <1>3, <1>4, CallStep

----------------------------------------------------------------------------
(* Both together *)

IInv == ChatInv /\ EngineInv

(* Handlers and client do not notice the engine's steps. *)
LEMMA ChatKept == ASSUME ChatInv, UNCHANGED <<chat, sdk, caller>> PROVE ChatInv'
<1>1. \A i \in DOMAIN Attempts : (Served(i)' <=> Served(i)) /\ (Silent(i)' <=> Silent(i)) BY DEF Served, Silent
<1>2. SdkInv' BY <1>1 DEF ChatInv, SdkInv
<1> QED BY <1>2 DEF ChatInv, Shaped

(* The engine does not notice the handlers' and the client's steps. *)
LEMMA EngineKept ==
  ASSUME EngineInv, UNCHANGED <<call, pin>>, registered' \subseteq Providers
  PROVE  EngineInv'
BY DEF EngineInv

(* Of a handler's steps only the start of a call moves the engine. *)
LEMMA HandlerEngine == ASSUME EngineInv, NEW c \in Calls, Handler(c) PROVE EngineInv'
<1>1. CASE Accept(c)
  <2>1. PICK mode \in {"complete", "stream"}, p \in Providers : Start(c, mode, ManualPolicy(p)) BY <1>1 DEF Accept
  <2> QED BY <2>1, StartStep
<1>2. CASE ~Accept(c)
  <2>1. UNCHANGED engineVars
    BY <1>2 DEF Handler, Refuse, AnswerJson, FailJson, FailFirstPull, OpenStream, Frame, EndStream, BreakStream, NoticeLeft
  <2> QED BY <2>1, EngineKept DEF engineVars, EngineInv
<1> QED BY <1>1, <1>2

(* Nothing is called or served to begin with. *)
LEMMA InitInv == Init => IInv
<1> SUFFICES ASSUME Init PROVE IInv OBVIOUS
<1>1. EngineInv
  <2>1. /\ call = [c \in Calls |-> IdleCall] /\ registered \subseteq Providers BY DEF Init, EngineInit
  <2>2. \A c \in Calls : call[c] = IdleCall BY <2>1
  <2>3. ReadInv(IdleCall, pin) BY IdleInv DEF ReadInv
  <2> QED BY <2>1, <2>2, <2>3, IdleInv DEF EngineInv
<1>2. chat = [c \in Calls |-> IdleChat] /\ sdk.pc = "ready" /\ sdk.attempt = 0 /\ DOMAIN sdk = {"pc", "kind", "attempt"}
  BY DEF Init
<1>3. Shaped(chat, ChatFields) BY <1>2, IdleShapes DEF Shaped
<1>4. IdleChat.pc = "idle" BY DEF IdleChat
<1>5. \A i \in DOMAIN Attempts : ~Served(i) /\ i > 0 BY <1>2, <1>4, AttemptsType DEF Served
<1>6. Len(Attempts) > 0 BY AttemptsAreCalls
<1>7. SdkInv BY <1>2, <1>5, <1>6, AttemptsType DEF SdkInv
<1> QED BY <1>1, <1>3, <1>7 DEF IInv, ChatInv

(* Every step keeps the invariant. *)
LEMMA StepInv == ASSUME IInv, [Next]_vars PROVE IInv'
<1>0. ChatInv /\ EngineInv BY DEF IInv
<1>1. ASSUME NEW c \in Calls, CallPort(c) PROVE IInv'
  <2>1. PICK mode \in {"complete", "stream"}, policy \in Policies : Start(c, mode, policy) BY <1>1 DEF CallPort
  <2>2. UNCHANGED <<chat, sdk, caller>> BY <1>1 DEF CallPort
  <2> QED BY <1>0, <2>1, <2>2, StartStep, ChatKept DEF IInv
<1>2. ASSUME NEW c \in Calls, TakeAnswer(c) PROVE IInv'
  <2>1. UNCHANGED <<chat, sdk, caller>> BY <1>2 DEF TakeAnswer
  <2> QED BY <1>0, <1>2, <2>1, TakeAnswerStep, ChatKept DEF IInv
<1>3. ASSUME NEW c \in Calls, Engine(c) PROVE IInv'
  <2>1. UNCHANGED <<chat, sdk, caller>> /\ EngineStep(c) BY <1>3 DEF Engine
  <2>2. CASE ShadowEnds(c)
    <3>1. UNCHANGED <<call, pin>> /\ registered' \subseteq Providers BY <1>0, <2>2 DEF ShadowEnds, EngineInv
    <3> QED BY <1>0, <2>1, <3>1, EngineKept, ChatKept DEF IInv
  <2>3. CASE ~ShadowEnds(c)
    <3>1. EngineInv' BY <1>0, <2>1, <2>3, SelectSteps, SkipSteps, ReserveStep, RecordSteps DEF EngineStep
    <3> QED BY <1>0, <2>1, <3>1, ChatKept DEF IInv
  <2> QED BY <2>2, <2>3
<1>4. ASSUME NEW c \in Calls, Upstream(c) PROVE IInv'
  <2>1. UNCHANGED <<chat, sdk, caller>> /\ \E answer : ProviderAnswers(c, answer) BY <1>4 DEF Upstream
  <2> QED BY <1>0, <2>1, AnswersStep, ChatKept DEF IInv
<1>5. ASSUME NEW c \in Calls, Handler(c) PROVE IInv'
  <2>1. HandlerMoves(c) BY <1>0, <1>5, HandlerStep DEF ChatInv
  <2>2. UNCHANGED <<sdk, caller>>
    BY <1>5 DEF Handler, Refuse, Accept, AnswerJson, FailJson, FailFirstPull, OpenStream, Frame, EndStream,
                BreakStream, NoticeLeft
  <2> QED BY <1>0, <1>5, <2>1, <2>2, HandlerSdk, HandlerEngine DEF IInv
<1>6. CASE Client
  <2>1. UNCHANGED engineVars BY <1>6 DEF Client, Send, HearNothing, HearAnswer, StopReading
  <2>2. EngineInv' BY <1>0, <2>1, EngineKept DEF engineVars, EngineInv
  <2> QED BY <1>0, <1>6, <2>2, ClientStep DEF IInv
<1>7. CASE Operate
  <2>1. UNCHANGED <<chat, sdk, caller, call, pin>> /\ registered' \subseteq Providers
    BY <1>0, <1>7 DEF Operate, Disable, EngineInv
  <2> QED BY <1>0, <2>1, EngineKept, ChatKept DEF IInv
<1>8. CASE UNCHANGED vars
  <2>1. UNCHANGED <<chat, sdk, caller, call, pin, registered>> BY <1>8 DEF vars
  <2> QED BY <1>0, <2>1, EngineKept, ChatKept DEF IInv, EngineInv
<1> QED BY <1>1, <1>2, <1>3, <1>4, <1>5, <1>6, <1>7, <1>8 DEF Next

(* Client, handlers and engine keep what the properties below follow from.   *)
THEOREM Invariance == Spec => []IInv
BY InitInv, StepInv, PTL DEF Spec

----------------------------------------------------------------------------
(* The candidates.  A call tries no more of them than its policy names:      *)
(* selecting and sorting them keep their number, and trying one takes it out *)
(* of the queue.                                                            *)

(* The first place of a candidate is one of its places. *)
LEMMA FirstAtIn ==
  ASSUME NEW S, NEW s \in Seq(S), NEW p \in ToSet(s)
  PROVE  FirstAt(s, p) \in 1..Len(s) /\ s[FirstAt(s, p)] = p
<1> DEFINE places == {i \in 1..Len(s) : s[i] = p}
<1>1. DOMAIN s = 1..Len(s) /\ Len(s) \in Nat OBVIOUS
<1>2. places \subseteq Nat BY <1>1
<1>3. places # {} BY <1>1 DEF ToSet
<1>4. IsWellFoundedOn(OpToRel(<, Nat), Nat) BY NatLessThanWellFounded
<1>5. PICK i \in places : \A j \in places : <<j, i>> \notin OpToRel(<, Nat)
  BY <1>2, <1>3, <1>4, WFMin
<1>6. \A j \in 1..(i - 1) : s[j] # p
  <2> SUFFICES ASSUME NEW j \in 1..(i - 1), s[j] = p PROVE FALSE OBVIOUS
  <2>1. i \in 1..Len(s) OBVIOUS
  <2>2. j \in Nat /\ i \in Nat /\ j < i /\ j \in 1..Len(s) BY <1>1, <2>1
  <2>3. j \in places BY <2>2
  <2>4. <<j, i>> \in OpToRel(<, Nat) BY <2>2 DEF OpToRel
  <2> QED BY <1>5, <2>3, <2>4
<1>7. i \in DOMAIN s /\ s[i] = p BY <1>1
<1>8. FirstAt(s, p) \in DOMAIN s /\ s[FirstAt(s, p)] = p BY <1>6, <1>7 DEF FirstAt
<1> QED BY <1>1, <1>8

Listed(s) == \E S : s \in Seq(S)


(* Sorting keeps the number of candidates. *)
LEMMA SortedLen ==
  ASSUME NEW S, NEW s \in Seq(S), NEW key
  PROVE  Listed(SortedDown(s, key)) /\ Len(SortedDown(s, key)) = Len(s)
<1> DEFINE order == SortSeq([i \in DOMAIN s |-> i],
                            LAMBDA i, j : key[i] > key[j] \/ (key[i] = key[j] /\ i < j))
<1>1. SortedDown(s, key) = [i \in DOMAIN s |-> s[order[i]]] BY DEF SortedDown
<1> HIDE DEF order
<1> DEFINE T == {s[order[i]] : i \in DOMAIN s}
           t == [i \in 1..Len(s) |-> s[order[i]]]
<1>2. DOMAIN s = 1..Len(s) /\ Len(s) \in Nat OBVIOUS
<1>3. t \in [1..Len(s) -> T] BY <1>2
<1>4. t \in Seq(T) /\ Len(t) = Len(s) BY <1>2, <1>3
<1> QED BY <1>1, <1>2, <1>4 DEF Listed

(* One sequence after the other, and a remainder. *)
LEMMA Joined ==
  ASSUME NEW S, NEW s \in Seq(S), NEW t \in Seq(S)
  PROVE  s \o t \in Seq(S) /\ Len(s \o t) = Len(s) + Len(t)
OBVIOUS

LEMMA Remainder == ASSUME NEW a \in Int, NEW n \in Nat, n > 0 PROVE a % n \in 0..(n - 1)
OBVIOUS

(* Taking one place out leaves one candidate less. *)
LEMMA RemovedLen ==
  ASSUME NEW S, NEW s \in Seq(S), NEW i \in 1..Len(s)
  PROVE  RemoveAt(s, i) \in Seq(S) /\ Len(RemoveAt(s, i)) = Len(s) - 1
<1>1. Len(s) \in Nat /\ i \in Nat /\ 1 <= i /\ i <= Len(s) OBVIOUS
<1>2. SubSeq(s, 1, i - 1) \in Seq(S) /\ Len(SubSeq(s, 1, i - 1)) = i - 1 BY <1>1
<1>3. SubSeq(s, i + 1, Len(s)) \in Seq(S) /\ Len(SubSeq(s, i + 1, Len(s))) = Len(s) - i BY <1>1
<1> DEFINE a == SubSeq(s, 1, i - 1)
           b == SubSeq(s, i + 1, Len(s))
<1>4. RemoveAt(s, i) = a \o b BY DEF RemoveAt
<1> HIDE DEF a, b
<1>5. a \o b \in Seq(S) /\ Len(a \o b) = Len(a) + Len(b) BY <1>2, <1>3, Joined DEF a, b
<1>6. Len(a) = i - 1 /\ Len(b) = Len(s) - i BY <1>2, <1>3 DEF a, b
<1> QED BY <1>1, <1>4, <1>5, <1>6

(* Moving a candidate to the front keeps their number, and puts it there. *)
LEMMA Rotated ==
  ASSUME NEW S, NEW s \in Seq(S), NEW i \in 1..Len(s)
  PROVE  /\ RotateToFront(s, i) \in Seq(S) /\ Len(RotateToFront(s, i)) = Len(s)
         /\ Head(RotateToFront(s, i)) = s[i]
<1>1. RemoveAt(s, i) \in Seq(S) /\ Len(RemoveAt(s, i)) = Len(s) - 1 /\ s[i] \in S BY RemovedLen
<1>2. <<s[i]>> \in Seq(S) /\ Len(<<s[i]>>) = 1 BY <1>1
<1>3. Len(s) \in Nat OBVIOUS
<1> QED BY <1>1, <1>2, <1>3 DEF RotateToFront

(* The fallbacks of a weighted policy are its other candidates. *)
LEMMA WeightedLen ==
  ASSUME NEW S, NEW policy, policy.candidates \in Seq(S), NEW q \in WeightedCandidates(policy)
  PROVE  Listed(q) /\ Len(q) = Len(policy.candidates)
<1> DEFINE s == policy.candidates
<1>1. PICK i \in DOMAIN s : q = <<s[i]>> \o SortedDown(RemoveAt(s, i), RemoveAt(policy.weight, i))
  BY DEF WeightedCandidates
<1>2. i \in 1..Len(s) /\ Len(s) \in Nat OBVIOUS
<1> DEFINE rest == SortedDown(RemoveAt(s, i), RemoveAt(policy.weight, i))
<1>3. RemoveAt(s, i) \in Seq(S) /\ Len(RemoveAt(s, i)) = Len(s) - 1 BY <1>2, RemovedLen
<1>4. Listed(rest) /\ Len(rest) = Len(s) - 1 BY <1>3, SortedLen
<1>5. q = <<s[i]>> \o rest BY <1>1
<1> HIDE DEF rest
<1>6. PICK T : rest \in Seq(T) BY <1>4 DEF Listed
<1> DEFINE U == T \cup {s[i]}
<1>7. rest \in Seq(U)
  <2>1. rest \in [1..Len(rest) -> T] /\ Len(rest) \in Nat BY <1>6
  <2>2. rest \in [1..Len(rest) -> U] BY <2>1
  <2> QED BY <2>1, <2>2
<1>8. <<s[i]>> \in Seq(U) /\ Len(<<s[i]>>) = 1 OBVIOUS
<1> HIDE DEF U
<1>9. q \in Seq(U) /\ Len(q) = 1 + Len(rest) BY <1>5, <1>7, <1>8
<1> QED BY <1>2, <1>4, <1>9 DEF Listed

(* A turn moves the candidates round. *)
LEMMA RoundRobinLen ==
  ASSUME NEW S, NEW policy, policy.candidates \in Seq(S), policy.candidates # <<>>, NEW turn \in Nat
  PROVE  /\ RoundRobinCandidates(policy, turn) \in Seq(S)
         /\ Len(RoundRobinCandidates(policy, turn)) = Len(policy.candidates)
<1> DEFINE s == policy.candidates
           k == (turn - 1) % Len(s)
<1>1. Len(s) \in Nat /\ Len(s) > 0 OBVIOUS
<1>a. turn - 1 \in Int OBVIOUS
<1>2. k \in 0..(Len(s) - 1) BY <1>1, <1>a, Remainder
<1> HIDE DEF k
<1>3. SubSeq(s, k + 1, Len(s)) \in Seq(S) /\ Len(SubSeq(s, k + 1, Len(s))) = Len(s) - k BY <1>1, <1>2
<1>4. SubSeq(s, 1, k) \in Seq(S) /\ Len(SubSeq(s, 1, k)) = k BY <1>1, <1>2
<1>5. RoundRobinCandidates(policy, turn) = SubSeq(s, k + 1, Len(s)) \o SubSeq(s, 1, k)
  BY DEF RoundRobinCandidates, k
<1> DEFINE a == SubSeq(s, k + 1, Len(s))
           b == SubSeq(s, 1, k)
<1>6. a \in Seq(S) /\ b \in Seq(S) /\ Len(a) = Len(s) - k /\ Len(b) = k BY <1>3, <1>4
<1>7. RoundRobinCandidates(policy, turn) = a \o b BY <1>5
<1> HIDE DEF a, b
<1>8. a \o b \in Seq(S) /\ Len(a \o b) = Len(a) + Len(b) BY <1>6, Joined
<1> QED BY <1>1, <1>2, <1>6, <1>7, <1>8

NoLonger(n) == n <= 1 \/ \E policy \in Policies : n <= Len(policy.candidates)

Stages ==
  {"idle", "select", "pinning", "next", "calling", "succeeded", "failed", "response", "streaming", "unavailable",
   "threw", "done"}

QueueInv(r) ==
  /\ r.pc \in Stages
  /\ Listed(r.queue) /\ NoLonger(Tries(r))
  /\ r.tries \in 0..MaxPinTries
  /\ r.pc = "idle" => r.tries = 0
  /\ r.pc = "select" => r.tries < MaxPinTries
  /\ r.pc \in {"idle", "select", "pinning"} => r.log = <<>> /\ r.queue = <<>>
  /\ r.pc \in {"select", "pinning"} =>
       r.policy.candidates \in Seq(Providers) /\ NoLonger(Len(r.policy.candidates))
  /\ r.pc = "pinning" => r.policy.candidates # <<>>

CandidateInv ==
  /\ cursor \in Nat /\ pin \in Providers \cup {None}
  /\ \A c \in Calls : QueueInv(call[c])

(* What is no longer than something a policy allows is allowed. *)
LEMMA NoLongerDown == ASSUME NEW n \in Int, NEW m \in Int, n <= m, NoLonger(m) PROVE NoLonger(n)
<1>1. CASE m <= 1 BY <1>1 DEF NoLonger
<1>2. CASE \E policy \in Policies : m <= Len(policy.candidates)
  <2>1. PICK policy \in Policies : m <= Len(policy.candidates) BY <1>2
  <2>2. Len(policy.candidates) \in Nat BY PoliciesAreTyped
  <2>3. n <= Len(policy.candidates) BY <2>1, <2>2
  <2> QED BY <2>3 DEF NoLonger
<1> QED BY <1>1, <1>2 DEF NoLonger

(* The length of what is listed is a number, and its tail is listed. *)
LEMMA ListedFacts ==
  ASSUME NEW s, Listed(s)
  PROVE  /\ Len(s) \in Nat
         /\ s # <<>> => Listed(Tail(s)) /\ Len(Tail(s)) = Len(s) - 1 /\ Len(s) > 0
<1>1. PICK S : s \in Seq(S) BY DEF Listed
<1>2. s # <<>> => Tail(s) \in Seq(S) /\ Len(Tail(s)) = Len(s) - 1 /\ Len(s) > 0 BY <1>1
<1> QED BY <1>1, <1>2 DEF Listed

(* Nothing is listed, and nothing was tried. *)
LEMMA NothingListed == Listed(<<>>) /\ Len(<<>>) = 0
<1>1. <<>> \in Seq({}) /\ Len(<<>>) = 0 OBVIOUS
<1> QED BY <1>1 DEF Listed

(* A call that tries no more than before is within its policy. *)
LEMMA FewerTries ==
  ASSUME NEW q, NEW r, QueueInv(q), q.log \in Seq(Entry), Listed(r.queue), r.log \in Seq(Entry),
         Len(r.log) + InHand(r) + Len(r.queue) <= Len(q.log) + InHand(q) + Len(q.queue)
  PROVE  NoLonger(Tries(r))
<1>1. Len(q.log) \in Nat /\ Len(r.log) \in Nat OBVIOUS
<1>2. Len(q.queue) \in Nat /\ Len(r.queue) \in Nat BY ListedFacts DEF QueueInv
<1>a. InHand(q) \in {0, 1} /\ InHand(r) \in {0, 1} BY DEF InHand
<1>3. Tries(q) \in Int /\ Tries(r) \in Int /\ Tries(r) <= Tries(q) BY <1>1, <1>2, <1>a DEF Tries
<1> QED BY <1>3, NoLongerDown DEF QueueInv

(* One call moves on. *)
LEMMA QueueStep ==
  ASSUME EngineInv, CandidateInv, NEW c \in Calls, NEW r, QueueInv(r), call' = [call EXCEPT ![c] = r],
         cursor' \in Nat, pin' \in Providers \cup {None}
  PROVE  CandidateInv'
<1>1. \A d \in Calls : call'[d] = (IF d = c THEN r ELSE call[d]) BY DEF EngineInv
<1>2. \A d \in Calls : QueueInv(call'[d]) BY <1>1 DEF CandidateInv
<1> QED BY <1>2 DEF CandidateInv

(* A call that ends has nothing more to try. *)
LEMMA EndsQueue ==
  ASSUME EngineInv, CandidateInv, NEW c \in Calls, NEW pc \in {"threw", "unavailable"}, Ends(c, pc),
         UNCHANGED <<cursor, pin>>
  PROVE  CandidateInv'
<1> DEFINE q == call[c]
           r == [IdleCall EXCEPT !.pc = pc, !.mode = q.mode, !.log = q.log, !.cause = q.cause]
<1>1. r.pc = pc /\ r.log = q.log /\ r.queue = <<>> /\ r.current = NoAttempt /\ r.tries = 0 BY DEF IdleCall
<1>2. call' = [call EXCEPT ![c] = r] BY DEF Ends
<1> HIDE DEF r
<1>3. QueueInv(q) /\ q.log \in Seq(Entry) BY DEF CandidateInv, EngineInv, CallInv, LogInv
<1>4. Listed(r.queue) /\ Len(r.queue) = 0 /\ Len(q.queue) \in Nat BY <1>1, <1>3, NothingListed, ListedFacts DEF QueueInv
<1>b. Len(r.log) + InHand(r) + Len(r.queue) <= Len(q.log) + InHand(q) + Len(q.queue)
  <2>1. Len(q.log) \in Nat /\ Len(r.log) = Len(q.log) BY <1>1, <1>3
  <2>2. InHand(r) = 0 /\ InHand(q) \in {0, 1} BY <1>1 DEF InHand
  <2> QED BY <1>4, <2>1, <2>2
<1>5. NoLonger(Tries(r)) BY <1>1, <1>3, <1>4, <1>b, FewerTries
<1>6. MaxPinTries \in Nat BY RoutingBounds
<1>7. QueueInv(r) BY <1>1, <1>4, <1>5, <1>6 DEF QueueInv, Stages
<1> QED BY <1>2, <1>7, QueueStep DEF CandidateInv

(* A call starts with what its policy names still to select. *)
LEMMA StartQueue ==
  ASSUME EngineInv, CandidateInv, NEW c \in Calls, NEW mode, NEW policy, Start(c, mode, policy),
         policy.candidates \in Seq(Providers), NoLonger(Len(policy.candidates))
  PROVE  CandidateInv'
<1> DEFINE q == call[c]
<1>1. q.pc = "idle" /\ UNCHANGED <<cursor, pin>> BY DEF Start, At
<1>2. CASE policy.type = "unknown"
  <2>1. Ends(c, "threw") BY <1>2 DEF Start
  <2> QED BY <1>1, <2>1, EndsQueue
<1>3. CASE policy.type # "unknown"
  <2> DEFINE r == [q EXCEPT !.pc = "select", !.mode = mode, !.policy = policy]
  <2>1. DOMAIN q = CallFields /\ QueueInv(q) /\ call = [d \in Calls |-> call[d]] BY DEF EngineInv, CallInv, CandidateInv
  <2>2. call' = [call EXCEPT ![c] = r] BY <1>3, <2>1 DEF Start
  <2>3. /\ r.pc = "select" /\ r.policy = policy /\ r.log = q.log /\ r.queue = q.queue /\ r.current = q.current
        /\ r.tries = q.tries
    BY <2>1 DEF CallFields
  <2> HIDE DEF r
  <2>4. Tries(r) = Tries(q) BY <2>3 DEF Tries, InHand
  <2>5. q.tries = 0 /\ MaxPinTries > 0 /\ MaxPinTries \in Nat BY <1>1, <2>1, RoutingBounds DEF QueueInv
  <2>6. QueueInv(r) BY <1>1, <2>1, <2>3, <2>4, <2>5 DEF QueueInv, Stages
  <2> QED BY <1>1, <2>2, <2>6, QueueStep DEF CandidateInv
<1> QED BY <1>2, <1>3

(* A call that has selected its candidates has them all in its queue. *)
LEMMA RankedQueue ==
  ASSUME EngineInv, CandidateInv, NEW c \in Calls, call[c].pc \in {"select", "pinning"},
         NEW candidates, Listed(candidates), Len(candidates) = Len(call[c].policy.candidates),
         NEW r \in Rankings(c, candidates)
  PROVE  QueueInv(r)
<1> DEFINE q == call[c]
<1>1. PICK score \in [DOMAIN candidates -> {0, 1}] :
        r = [q EXCEPT !.pc = "next", !.queue = SortedDown(candidates, score), !.front = Head(candidates),
                      !.policy = None, !.seen = None, !.moved = FALSE, !.tries = 0]
  BY DEF Rankings
<1>2. DOMAIN q = CallFields /\ QueueInv(q) BY DEF EngineInv, CallInv, CandidateInv
<1>3. r.pc = "next" /\ r.queue = SortedDown(candidates, score) /\ r.log = q.log /\ r.current = q.current /\ r.tries = 0
  BY <1>1, <1>2 DEF CallFields
<1>4. r.current = NoAttempt BY <1>3 DEF EngineInv, CallInv, CurrentInv, Trying
<1>5. Listed(r.queue) /\ Len(r.queue) = Len(candidates) BY <1>3, SortedLen DEF Listed
<1>6. Len(r.log) = 0 BY <1>2, <1>3, NothingListed DEF QueueInv
<1>7. Len(r.queue) \in Nat BY <1>5, ListedFacts
<1>8. Tries(r) = Len(q.policy.candidates) BY <1>4, <1>5, <1>6, <1>7 DEF Tries, InHand
<1>9. MaxPinTries \in Nat BY RoutingBounds
<1> QED BY <1>2, <1>3, <1>5, <1>8, <1>9 DEF QueueInv, Stages

(* A call ranks the candidates it selected. *)
LEMMA RankQueue ==
  ASSUME EngineInv, CandidateInv, NEW c \in Calls, call[c].pc \in {"select", "pinning"},
         NEW candidates, Listed(candidates), Len(candidates) = Len(call[c].policy.candidates),
         Rank(c, candidates), cursor' \in Nat, pin' = pin
  PROVE  CandidateInv'
<1>1. PICK r \in Rankings(c, candidates) : call' = [call EXCEPT ![c] = r] BY DEF Rank
<1>2. QueueInv(r) BY RankedQueue
<1> QED BY <1>1, <1>2, QueueStep DEF CandidateInv

(* Selecting hands on the candidates the policy names. *)
LEMMA SelectQueue ==
  ASSUME EngineInv, CandidateInv, NEW c \in Calls, SelectThrows(c) \/ SelectLocally(c) \/ TakeTurn(c) \/ ReadPin(c)
  PROVE  CandidateInv'
<1> DEFINE q == call[c]
<1>1. q.pc = "select" BY DEF SelectThrows, SelectLocally, TakeTurn, ReadPin, Selecting, At
<1>2. DOMAIN q = CallFields /\ QueueInv(q) /\ call = [d \in Calls |-> call[d]] BY DEF EngineInv, CallInv, CandidateInv
<1>3. q.policy.candidates \in Seq(Providers) /\ cursor \in Nat /\ pin \in Providers \cup {None}
  BY <1>1, <1>2 DEF QueueInv, CandidateInv
<1>4. CASE SelectThrows(c)
  <2>1. Ends(c, "threw") /\ UNCHANGED <<cursor, pin>> BY <1>4 DEF SelectThrows
  <2> QED BY <2>1, EndsQueue
<1>5. CASE SelectLocally(c)
  <2>1. PICK candidates : /\ candidates = q.policy.candidates \/ candidates \in WeightedCandidates(q.policy)
                          /\ Rank(c, candidates)
    BY <1>5 DEF SelectLocally, ManualCandidates, HealthAwareCandidates
  <2>2. Listed(candidates) /\ Len(candidates) = Len(q.policy.candidates)
    <3>1. CASE candidates = q.policy.candidates BY <1>3, <3>1 DEF Listed
    <3>2. CASE candidates \in WeightedCandidates(q.policy) BY <1>3, <3>2, WeightedLen
    <3> QED BY <2>1, <3>1, <3>2
  <2>3. UNCHANGED <<cursor, pin>> BY <1>5 DEF SelectLocally
  <2> QED BY <1>1, <1>3, <2>1, <2>2, <2>3, RankQueue
<1>6. CASE TakeTurn(c)
  <2>1. q.policy.candidates # <<>> BY <1>6 DEF TakeTurn, Selecting, StrategyRefuses
  <2>2. cursor' = cursor + 1 /\ pin' = pin /\ Rank(c, RoundRobinCandidates(q.policy, cursor + 1)) BY <1>6 DEF TakeTurn
  <2> DEFINE candidates == RoundRobinCandidates(q.policy, cursor + 1)
  <2>3. cursor + 1 \in Nat BY <1>3
  <2>4. Listed(candidates) /\ Len(candidates) = Len(q.policy.candidates)
    BY <1>3, <2>1, <2>3, RoundRobinLen DEF Listed
  <2>5. Rank(c, candidates) BY <2>2
  <2>6. cursor' \in Nat BY <2>2, <2>3
  <2> HIDE DEF candidates
  <2> QED BY <1>1, <2>2, <2>4, <2>5, <2>6, RankQueue
<1>7. CASE ReadPin(c)
  <2> DEFINE r == [q EXCEPT !.pc = "pinning", !.seen = pin, !.tries = @ + 1]
  <2>1. call' = [call EXCEPT ![c] = r] /\ UNCHANGED <<cursor, pin>> BY <1>2, <1>7 DEF ReadPin
  <2>2. q.policy.candidates # <<>> BY <1>7 DEF ReadPin, Selecting, StrategyRefuses
  <2>3. /\ r.pc = "pinning" /\ r.policy = q.policy /\ r.log = q.log /\ r.queue = q.queue /\ r.current = q.current
        /\ r.tries = q.tries + 1
    BY <1>2 DEF CallFields
  <2> HIDE DEF r
  <2>4. Tries(r) = Tries(q) BY <2>3 DEF Tries, InHand
  <2>5. MaxPinTries \in Nat /\ q.tries \in 0..MaxPinTries /\ q.tries < MaxPinTries BY <1>1, <1>2, RoutingBounds DEF QueueInv
  <2>6. r.tries \in 0..MaxPinTries BY <2>3, <2>5
  <2>7. QueueInv(r) BY <1>1, <1>2, <2>2, <2>3, <2>4, <2>6 DEF QueueInv, Stages
  <2> QED BY <1>3, <2>1, <2>7, QueueStep
<1> QED BY <1>4, <1>5, <1>6, <1>7

(* The place that a commit chooses. *)
Chosen(c) ==
  IF call[c].seen \in ToSet(call[c].policy.candidates) THEN FirstAt(call[c].policy.candidates, call[c].seen) ELSE 1

(* It is there, and it is the pinned one's if that is among the candidates. *)
LEMMA ChosenPlace ==
  ASSUME CandidateInv, NEW c \in Calls, call[c].pc = "pinning"
  PROVE  /\ call[c].policy.candidates \in Seq(Providers)
         /\ 1 \in 1..Len(call[c].policy.candidates) /\ Chosen(c) \in 1..Len(call[c].policy.candidates)
         /\ call[c].seen \in ToSet(call[c].policy.candidates) =>
              call[c].policy.candidates[Chosen(c)] = call[c].seen
<1> DEFINE s == call[c].policy.candidates
<1>1. s \in Seq(Providers) /\ s # <<>> BY DEF CandidateInv, QueueInv
<1>2. 1 \in 1..Len(s) BY <1>1
<1>3. CASE call[c].seen \in ToSet(s) BY <1>1, <1>2, <1>3, FirstAtIn DEF Chosen
<1>4. CASE call[c].seen \notin ToSet(s) BY <1>1, <1>2, <1>4 DEF Chosen
<1> QED BY <1>1, <1>2, <1>3, <1>4

(* A commit hands on the candidates with the chosen one in front. *)
LEMMA CommitQueue == ASSUME EngineInv, CandidateInv, NEW c \in Calls, CommitPin(c) PROVE CandidateInv'
<1> DEFINE q == call[c]
           s == q.policy.candidates
<1>1. q.pc = "pinning" /\ cursor' = cursor BY DEF CommitPin, At
<1>2. DOMAIN q = CallFields /\ QueueInv(q) /\ call = [d \in Calls |-> call[d]] BY DEF EngineInv, CallInv, CandidateInv
<1>3. s \in Seq(Providers) /\ 1 \in 1..Len(s) /\ Chosen(c) \in 1..Len(s) BY <1>1, ChosenPlace
<1>4. \A i \in 1..Len(s) : Listed(RotateToFront(s, i)) /\ Len(RotateToFront(s, i)) = Len(s)
  BY <1>3, Rotated DEF Listed
<1>5. cursor \in Nat /\ pin \in Providers \cup {None} BY DEF CandidateInv
<1>6. CASE q.moved /\ q.tries < MaxPinTries
  <2> DEFINE r == [q EXCEPT !.pc = "select", !.seen = None, !.moved = FALSE]
  <2>1. call' = [call EXCEPT ![c] = r] /\ pin' = pin BY <1>2, <1>6 DEF CommitPin
  <2>2. /\ r.pc = "select" /\ r.policy = q.policy /\ r.log = q.log /\ r.queue = q.queue /\ r.current = q.current
        /\ r.tries = q.tries
    BY <1>2 DEF CallFields
  <2> HIDE DEF r
  <2>3. Tries(r) = Tries(q) BY <2>2 DEF Tries, InHand
  <2>4. QueueInv(r) BY <1>1, <1>2, <1>6, <2>2, <2>3 DEF QueueInv, Stages
  <2> QED BY <1>1, <1>5, <2>1, <2>4, QueueStep
<1>7. CASE q.moved /\ ~(q.tries < MaxPinTries)
  <2>1. Rank(c, RotateToFront(s, 1)) /\ pin' = pin BY <1>7 DEF CommitPin
  <2> QED BY <1>1, <1>3, <1>4, <1>5, <2>1, RankQueue
<1>8. CASE ~q.moved
  <2>1. pin' = s[Chosen(c)] /\ RankAsWriter(c, RotateToFront(s, Chosen(c))) BY <1>8 DEF CommitPin, Chosen
  <2>2. PICK r \in Rankings(c, RotateToFront(s, Chosen(c))) :
          call' = [d \in Calls |-> IF d = c THEN r
                                   ELSE IF d \in Watchers(c) THEN [call[d] EXCEPT !.moved = TRUE] ELSE call[d]]
    BY <2>1 DEF RankAsWriter
  <2>3. QueueInv(r) BY <1>1, <1>3, <1>4, RankedQueue
  <2>4. ASSUME NEW d \in Calls PROVE QueueInv(call'[d])
    <3>1. CASE d = c BY <2>2, <2>3, <3>1
    <3>2. CASE d # c /\ d \in Watchers(c)
      <4> DEFINE t == [call[d] EXCEPT !.moved = TRUE]
      <4>1. DOMAIN call[d] = CallFields /\ QueueInv(call[d]) BY DEF EngineInv, CallInv, CandidateInv
      <4>2. /\ t.pc = call[d].pc /\ t.policy = call[d].policy /\ t.log = call[d].log /\ t.queue = call[d].queue
            /\ t.current = call[d].current /\ t.tries = call[d].tries
        BY <4>1 DEF CallFields
      <4>3. call'[d] = t BY <2>2, <3>2
      <4> HIDE DEF t
      <4>4. Tries(t) = Tries(call[d]) BY <4>2 DEF Tries, InHand
      <4>5. QueueInv(t) BY <4>1, <4>2, <4>4 DEF QueueInv
      <4> QED BY <4>3, <4>5
    <3>3. CASE d # c /\ d \notin Watchers(c)
      <4>1. call'[d] = call[d] BY <2>2, <3>3
      <4> QED BY <4>1 DEF CandidateInv
    <3> QED BY <3>1, <3>2, <3>3
  <2>5. pin' \in Providers BY <1>3, <2>1
  <2> QED BY <1>1, <1>5, <2>4, <2>5 DEF CandidateInv
<1> QED BY <1>6, <1>7, <1>8

(* Sums of what a call tried, is trying and has queued. *)
LEMMA Sums ==
  ASSUME NEW a \in Int, NEW b \in Int, NEW d \in Int, NEW k \in Int, NEW m \in Int, NEW n \in Int,
         \/ a + b <= k + m /\ d <= n
         \/ a <= k /\ b + d <= m + n
  PROVE  a + b + d <= k + m + n
OBVIOUS

(* Whoever skips or reserves a candidate takes it from the queue. *)
LEMMA TakeQueue ==
  ASSUME EngineInv, CandidateInv, NEW c \in Calls, NotRegistered(c) \/ BreakerOpen(c) \/ Reserve(c)
  PROVE  CandidateInv'
<1> DEFINE q == call[c]
<1>1. q.pc = "next" /\ q.queue # <<>> /\ UNCHANGED <<cursor, pin>>
  BY DEF NotRegistered, BreakerOpen, Reserve, Resolved, At
<1>2. DOMAIN q = CallFields /\ QueueInv(q) /\ call = [d \in Calls |-> call[d]] /\ q.log \in Seq(Entry)
  BY DEF EngineInv, CallInv, CandidateInv, LogInv
<1>3. cursor \in Nat /\ pin \in Providers \cup {None} BY DEF CandidateInv
<1>4. q.current = NoAttempt BY <1>1 DEF EngineInv, CallInv, CurrentInv, Trying
<1>5. Listed(Tail(q.queue)) /\ Len(Tail(q.queue)) = Len(q.queue) - 1 /\ Len(q.queue) \in Nat
  BY <1>1, <1>2, ListedFacts DEF QueueInv
<1>6. ASSUME NEW r, r.log = q.log, r.queue = Tail(q.queue), r.tries = q.tries, r.pc \in {"next", "calling"},
             call' = [call EXCEPT ![c] = r]
      PROVE  CandidateInv'
  <2>1. InHand(r) \in {0, 1} /\ InHand(q) = 0 BY <1>4 DEF InHand
  <2>2. Len(q.log) \in Nat /\ Len(r.log) = Len(q.log) BY <1>2, <1>6
  <2>a. InHand(r) \in Nat /\ InHand(r) <= 1 BY <2>1
  <2>b. Len(r.queue) = Len(q.queue) - 1 BY <1>5, <1>6
  <2>3. Len(r.log) + InHand(r) + Len(r.queue) <= Len(q.log) + InHand(q) + Len(q.queue)
    <3>1. InHand(r) + Len(r.queue) <= InHand(q) + Len(q.queue)
      <4> DEFINE i == InHand(r)
                 n == Len(q.queue)
      <4>1. i \in 0..1 /\ n \in Nat /\ InHand(q) = 0 /\ Len(r.queue) = n - 1 BY <1>5, <2>1, <2>b
      <4> HIDE DEF i, n
      <4>2. i + (n - 1) <= 0 + n BY <4>1
      <4> QED BY <4>1, <4>2 DEF i, n
    <3>2. Len(r.queue) \in Int /\ Len(q.queue) \in Int /\ InHand(r) \in Int /\ InHand(q) \in Int BY <1>5, <2>1, <2>a, <2>b
    <3>3. Len(r.log) \in Int /\ Len(q.log) \in Int /\ Len(r.log) <= Len(q.log) BY <2>2
    <3> HIDE DEF q
    <3> QED BY <3>1, <3>2, <3>3, Sums
  <2>4. NoLonger(Tries(r)) BY <1>2, <1>5, <1>6, <2>3, FewerTries
  <2>5. QueueInv(r) BY <1>2, <1>5, <1>6, <2>4 DEF QueueInv, Stages
  <2> QED BY <1>1, <1>3, <1>6, <2>5, QueueStep
<1>7. CASE NotRegistered(c) \/ BreakerOpen(c)
  <2>1. PICK cause : Skip(c, cause) BY <1>7 DEF NotRegistered, BreakerOpen
  <2> DEFINE r == [q EXCEPT !.queue = Tail(@), !.front = None, !.cause = FirstCause(c, cause)]
  <2>2. call' = [call EXCEPT ![c] = r] BY <1>2, <2>1 DEF Skip
  <2>3. r.log = q.log /\ r.queue = Tail(q.queue) /\ r.tries = q.tries /\ r.pc = q.pc BY <1>2 DEF CallFields
  <2> HIDE DEF r
  <2> QED BY <1>1, <1>6, <2>2, <2>3
<1>8. CASE Reserve(c)
  <2>1. PICK trial \in BOOLEAN :
          call' = [call EXCEPT ![c].pc = "calling", ![c].queue = Tail(@), ![c].front = None,
                               ![c].current = Attempt(Head(call[c].queue), trial)]
    BY <1>8 DEF Reserve
  <2> DEFINE a == Attempt(Head(q.queue), trial)
             r == [q EXCEPT !.pc = "calling", !.queue = Tail(@), !.front = None, !.current = a]
  <2>2. call' = [call EXCEPT ![c] = r] BY <1>2, <2>1
  <2> HIDE DEF a
  <2>3. r.log = q.log /\ r.queue = Tail(q.queue) /\ r.tries = q.tries /\ r.pc = "calling" BY <1>2 DEF CallFields
  <2> HIDE DEF r
  <2> QED BY <1>6, <2>2, <2>3
<1> QED BY <1>7, <1>8

(* A candidate that is tried moves from the call's hand into its log. *)
LEMMA TriedQueue ==
  ASSUME EngineInv, CandidateInv, NEW c \in Calls,
         RecordSuccess(c) \/ RecordFailure(c) \/ (\E answer : ProviderAnswers(c, answer))
  PROVE  CandidateInv'
<1> DEFINE q == call[c]
<1>1. q.pc \in Trying /\ UNCHANGED <<cursor, pin>> BY DEF RecordSuccess, RecordFailure, ProviderAnswers, At, Trying
<1>2. DOMAIN q = CallFields /\ QueueInv(q) /\ call = [d \in Calls |-> call[d]] /\ q.log \in Seq(Entry) /\ CurrentInv(q)
  BY DEF EngineInv, CallInv, CandidateInv, LogInv
<1>3. cursor \in Nat /\ pin \in Providers \cup {None} BY DEF CandidateInv
<1>4. NoAttempt.provider \notin Providers BY DEF NoAttempt, Attempt, None, Providers
<1>5. InHand(q) = 1 BY <1>1, <1>2, <1>4 DEF InHand, CurrentInv
<1>6. Len(q.queue) \in Nat /\ Listed(q.queue) /\ Len(q.log) \in Nat BY <1>2, ListedFacts DEF QueueInv
<1>7. MaxPinTries \in Nat BY RoutingBounds
<1>8. ASSUME NEW r, r.log \in Seq(Entry), r.queue = q.queue \/ r.queue = <<>>, r.tries = q.tries \/ r.tries = 0,
             r.pc \in Trying \cup Answering \cup {"next"}, call' = [call EXCEPT ![c] = r],
             \/ r.log = q.log
             \/ Len(r.log) = Len(q.log) + 1 /\ r.current = NoAttempt
      PROVE  CandidateInv'
  <2>1. Listed(r.queue) /\ Len(r.queue) \in Nat /\ Len(r.queue) <= Len(q.queue) BY <1>6, <1>8, NothingListed
  <2>2. InHand(r) \in {0, 1} /\ (r.current = NoAttempt => InHand(r) = 0) BY DEF InHand
  <2>3. Len(r.log) + InHand(r) <= Len(q.log) + InHand(q) BY <1>5, <1>6, <1>8, <2>2
  <2>4. Len(r.log) \in Nat BY <1>8
  <2>5. Len(r.log) + InHand(r) + Len(r.queue) <= Len(q.log) + InHand(q) + Len(q.queue)
    <3>1. InHand(r) \in Nat BY <2>2
    <3>2. Len(r.queue) \in Int /\ Len(q.queue) \in Int /\ InHand(r) \in Int /\ InHand(q) \in Int
      BY <1>5, <1>6, <2>1, <3>1
    <3>3. Len(r.log) \in Int /\ Len(q.log) \in Int BY <1>6, <2>4
    <3> HIDE DEF q
    <3> QED BY <2>1, <2>3, <3>2, <3>3, Sums
  <2>6. NoLonger(Tries(r)) BY <1>2, <1>8, <2>1, <2>5, FewerTries
  <2>7. r.tries \in 0..MaxPinTries BY <1>2, <1>7, <1>8 DEF QueueInv
  <2>8. QueueInv(r) BY <1>8, <2>1, <2>6, <2>7 DEF QueueInv, Stages, Trying, Answering
  <2> QED BY <1>1, <1>3, <1>8, <2>8, QueueStep
<1>9. CASE RecordSuccess(c) \/ RecordFailure(c)
  <2>1. q.pc \in {"succeeded", "failed"} BY <1>9 DEF RecordSuccess, RecordFailure, At
  <2>2. q.current.provider \in Providers /\ q.current.last \in {"ok", "error"} BY <1>2, <2>1 DEF CurrentInv, Trying
  <2>3. \A told \in {"success", "failure"} :
          Settled(c, told) \in Seq(Entry) /\ Len(Settled(c, told)) = Len(q.log) + 1
    <3> SUFFICES ASSUME NEW told \in {"success", "failure"}
                 PROVE  Settled(c, told) \in Seq(Entry) /\ Len(Settled(c, told)) = Len(q.log) + 1
      OBVIOUS
    <3> DEFINE e == [provider |-> q.current.provider, last |-> q.current.last, told |-> told]
    <3>1. e \in Entry BY <2>2 DEF Entry
    <3>2. Settled(c, told) = Append(q.log, e) BY DEF Settled
    <3> HIDE DEF e
    <3> QED BY <1>2, <3>1, <3>2
  <2>4. CASE RecordSuccess(c)
    <3> DEFINE r == [IdleCall EXCEPT !.pc = IF q.mode = "complete" THEN "response" ELSE "streaming",
                                     !.mode = q.mode, !.log = Settled(c, "success"), !.cause = q.cause]
    <3>1. call' = [call EXCEPT ![c] = r] BY <2>4 DEF RecordSuccess
    <3>2. r.log = Settled(c, "success") /\ r.queue = <<>> /\ r.tries = 0 /\ r.pc \in Answering /\ r.current = NoAttempt
      BY DEF IdleCall, Answering
    <3> HIDE DEF r
    <3> QED BY <1>8, <2>3, <3>1, <3>2
  <2>5. CASE RecordFailure(c)
    <3> DEFINE r == [q EXCEPT !.pc = "next", !.log = Settled(c, "failure"), !.current = NoAttempt]
    <3>1. call' = [call EXCEPT ![c] = r] BY <1>2, <2>5 DEF RecordFailure
    <3>2. r.log = Settled(c, "failure") /\ r.queue = q.queue /\ r.tries = q.tries /\ r.pc = "next" /\ r.current = NoAttempt
      BY <1>2 DEF CallFields
    <3> HIDE DEF r
    <3> QED BY <1>8, <2>3, <3>1, <3>2
  <2> QED BY <1>9, <2>4, <2>5
<1>10. CASE \E answer : ProviderAnswers(c, answer)
  <2>1. PICK answer : ProviderAnswers(c, answer) BY <1>10
  <2>2. q.pc = "calling" BY <2>1 DEF ProviderAnswers, At
  <2> DEFINE r1 == [q EXCEPT !.pc = "succeeded", !.current = Called(c, "ok")]
             r2 == [q EXCEPT !.current = Called(c, "error")]
             r3 == [q EXCEPT !.pc = "failed", !.current = Called(c, "error"), !.cause = FirstCause(c, answer.status)]
  <2>3. PICK r \in {r1, r2, r3} : call' = [call EXCEPT ![c] = r] BY <2>1 DEF ProviderAnswers
  <2>4. r.log = q.log /\ r.queue = q.queue /\ r.tries = q.tries /\ r.pc \in Trying BY <1>2, <2>2 DEF CallFields, Trying
  <2> HIDE DEF r1, r2, r3
  <2> QED BY <1>2, <1>8, <2>3, <2>4
<1> QED BY <1>9, <1>10

(* Every step keeps the candidates of the calls within their policies. *)
LEMMA StepCandidates == ASSUME IInv, CandidateInv, [Next]_vars PROVE CandidateInv'
<1>0. EngineInv BY DEF IInv
<1>1. ASSUME UNCHANGED <<call, cursor, pin>> PROVE CandidateInv' BY <1>1 DEF CandidateInv
<1>2. ASSUME NEW c \in Calls, CallPort(c) PROVE CandidateInv'
  <2>1. PICK mode \in {"complete", "stream"}, policy \in Policies : Start(c, mode, policy) BY <1>2 DEF CallPort
  <2>2. policy.candidates \in Seq(Providers) /\ Len(policy.candidates) \in Nat BY PoliciesAreTyped
  <2>3. NoLonger(Len(policy.candidates)) BY <2>2 DEF NoLonger
  <2> QED BY <1>0, <2>1, <2>2, <2>3, StartQueue
<1>3. ASSUME NEW c \in Calls, TakeAnswer(c) PROVE CandidateInv'
  <2> DEFINE r == [IdleCall EXCEPT !.pc = "done"]
  <2>1. call' = [call EXCEPT ![c] = r] /\ UNCHANGED <<cursor, pin>> BY <1>3 DEF TakeAnswer
  <2>2. r.pc = "done" /\ r.queue = <<>> /\ r.log = <<>> /\ r.current = NoAttempt /\ r.tries = 0 BY DEF IdleCall
  <2> HIDE DEF r
  <2>3. Tries(r) = 0 BY <2>2, NothingListed DEF Tries, InHand
  <2>4. NoLonger(Tries(r)) BY <2>3 DEF NoLonger
  <2>5. QueueInv(r) BY <2>2, <2>4, NothingListed, RoutingBounds DEF QueueInv, Stages
  <2> QED BY <1>0, <2>1, <2>5, QueueStep DEF CandidateInv
<1>4. ASSUME NEW c \in Calls, Engine(c) \/ Upstream(c) PROVE CandidateInv'
  <2>1. CASE ShadowEnds(c) BY <1>1, <2>1 DEF ShadowEnds
  <2>2. CASE BreakerThrows(c) \/ Exhausted(c)
    <3>1. UNCHANGED <<cursor, pin>> /\ (Ends(c, "threw") \/ Ends(c, "unavailable")) BY <2>2 DEF BreakerThrows, Exhausted
    <3> QED BY <1>0, <3>1, EndsQueue
  <2>3. Engine(c) => EngineStep(c) BY DEF Engine
  <2>4. Upstream(c) => \E answer : ProviderAnswers(c, answer) BY DEF Upstream
  <2> QED BY <1>0, <1>4, <2>1, <2>2, <2>3, <2>4, SelectQueue, CommitQueue, TakeQueue, TriedQueue DEF EngineStep
<1>5. ASSUME NEW c \in Calls, Handler(c) PROVE CandidateInv'
  <2>1. CASE Accept(c)
    <3>1. PICK mode \in {"complete", "stream"}, p \in Providers : Start(c, mode, ManualPolicy(p)) BY <2>1 DEF Accept
    <3>2. ManualPolicy(p).candidates = <<p>> BY DEF ManualPolicy
    <3>3. <<p>> \in Seq(Providers) /\ Len(<<p>>) = 1 OBVIOUS
    <3>4. NoLonger(Len(ManualPolicy(p).candidates)) BY <3>2, <3>3 DEF NoLonger
    <3> QED BY <1>0, <3>1, <3>2, <3>3, <3>4, StartQueue
  <2>2. CASE ~Accept(c)
    <3>1. UNCHANGED engineVars
      BY <1>5, <2>2 DEF Handler, Refuse, AnswerJson, FailJson, FailFirstPull, OpenStream, Frame, EndStream,
                        BreakStream, NoticeLeft
    <3> QED BY <1>1, <3>1 DEF engineVars
  <2> QED BY <2>1, <2>2
<1>6. CASE Client BY <1>1, <1>6 DEF Client, Send, HearNothing, HearAnswer, StopReading, engineVars
<1>7. CASE Operate BY <1>1, <1>7 DEF Operate, Disable
<1>8. CASE UNCHANGED vars BY <1>1, <1>8 DEF vars
<1> QED BY <1>2, <1>3, <1>4, <1>5, <1>6, <1>7, <1>8 DEF Next

(* Nothing is tried to begin with. *)
LEMMA InitCandidates == Init => CandidateInv
<1> SUFFICES ASSUME Init PROVE CandidateInv OBVIOUS
<1>1. cursor = 0 /\ pin = None /\ \A c \in Calls : call[c] = IdleCall BY DEF Init, EngineInit
<1>2. /\ IdleCall.pc = "idle" /\ IdleCall.queue = <<>> /\ IdleCall.log = <<>> /\ IdleCall.current = NoAttempt
      /\ IdleCall.tries = 0
  BY DEF IdleCall
<1>3. Tries(IdleCall) = 0 BY <1>2, NothingListed DEF Tries, InHand
<1>4. NoLonger(Tries(IdleCall)) BY <1>3 DEF NoLonger
<1>5. QueueInv(IdleCall) BY <1>2, <1>4, NothingListed, RoutingBounds DEF QueueInv, Stages
<1> QED BY <1>1, <1>5 DEF CandidateInv

(* No call tries more candidates than a policy names. *)
THEOREM Candidates == Spec => []CandidateInv
BY InitCandidates, StepCandidates, Invariance, PTL DEF Spec

----------------------------------------------------------------------------
(* The bill.  What a handler recorded follows from how far it got: nothing   *)
(* before it answers, a Gemini stream from its first final frame on, a Groq  *)
(* stream and a JSON answer when they end.                                   *)

Events == {"start", "done", "error"}
ErrorReplies == {500} \cup SafeStatuses

Unanswered(r) == r.reply = 0 /\ r.recorded = 0 /\ r.sent = <<>> /\ r.reason = None /\ r.finished = FreshStream

Flowing(r, p) ==
  /\ r.kind = "sse" /\ r.reply = 200 /\ r.reason = None
  /\ r.sent \in Seq(Events) /\ r.sent # <<>> /\ r.recorded \in Nat /\ r.finished \in BOOLEAN
  /\ p = "gemini" /\ r.finished => Last(r.sent) = "done" /\ r.recorded > 0
  /\ p # "gemini" => r.recorded = 0

Ended(r) ==
  /\ r.recorded \in Nat
  /\ r.kind = "json" => r.recorded = (IF r.reply = 200 THEN 1 ELSE 0)
  /\ r.recorded > 0 => r.reply = 200
  /\ r.sent # <<>> /\ r.reason # "client_disconnect" =>
       Last(r.sent) = (IF r.reason = "completed" THEN "done" ELSE "error")
  /\ r.reason = "completed" => r.recorded > 0
  /\ r.reply \in {200} \cup ErrorReplies \cup {0}
  /\ r.sent = <<>> <=> r.kind = "json" \/ r.reply # 200

Backed(r, k) ==
  /\ r.reply = 200 => k.pc = (IF r.kind = "json" THEN "response" ELSE "streaming")
  /\ r.recorded > 1 => Last(k.log).provider = "gemini"

HandlerInv(r, k) ==
  /\ r.pc \in {"idle", "received", "routing", "open", "closed"} /\ r.kind \in {"json", "sse"}
  /\ r.pc \in {"idle", "received", "routing"} => Unanswered(r)
  /\ r.pc = "open" => Flowing(r, Last(k.log).provider)
  /\ r.pc = "closed" => Ended(r)
  /\ Backed(r, k)

BillInv ==
  /\ caller \in {"sdk", "port"}
  /\ sdk.kind \in {"json", "sse"}
  /\ \A c \in Calls : HandlerInv(chat[c], call[c]) /\ (chat[c].pc # "idle" => caller = "sdk")

(* A handler that is left alone stays right as long as the answer it passes *)
(* on stays.                                                                *)
LEMMA AnswerKept ==
  ASSUME NEW r, NEW k, NEW l, HandlerInv(r, k),
         r.pc # "idle" /\ k.pc \in Answering => l = k
  PROVE  HandlerInv(r, l)
<1>1. r.reply = 200 => k.pc \in Answering BY DEF HandlerInv, Backed, Answering
<1>2. r.pc = "idle" => r.reply = 0 BY DEF HandlerInv, Unanswered
<1>3. CASE r.reply = 200 BY <1>1, <1>2, <1>3
<1>4. CASE r.reply # 200
  <2>1. r.pc # "open" BY <1>4 DEF HandlerInv, Flowing
  <2>2. r.recorded = 0 BY <1>4, <2>1 DEF HandlerInv, Unanswered, Ended
  <2>3. Backed(r, l) BY <1>4, <2>2 DEF Backed
  <2> QED BY <2>1, <2>3 DEF HandlerInv
<1> QED BY <1>3, <1>4

(* One handler moves, and the others pass on what they did. *)
LEMMA BillStep ==
  ASSUME BillInv, caller' = caller, sdk'.kind = sdk.kind,
         \A d \in Calls :
           \/ HandlerInv(chat'[d], call'[d]) /\ caller = "sdk"
           \/ chat'[d] = chat[d] /\ (caller = "sdk" /\ call[d].pc \in Answering => call'[d] = call[d])
  PROVE  BillInv'
<1>1. ASSUME NEW d \in Calls PROVE HandlerInv(chat'[d], call'[d]) /\ (chat'[d].pc # "idle" => caller = "sdk")
  <2>1. CASE HandlerInv(chat'[d], call'[d]) /\ caller = "sdk" BY <2>1
  <2>2. CASE chat'[d] = chat[d] /\ (caller = "sdk" /\ call[d].pc \in Answering => call'[d] = call[d])
    <3>1. HandlerInv(chat[d], call[d]) /\ (chat[d].pc # "idle" => caller = "sdk") BY DEF BillInv
    <3>2. HandlerInv(chat[d], call'[d]) BY <2>2, <3>1, AnswerKept
    <3> QED BY <2>2, <3>1, <3>2
  <2> QED BY <2>1, <2>2
<1> QED BY <1>1 DEF BillInv

(* The handler of one call moves, and the engine does not. *)
LEMMA HandlerMoved ==
  ASSUME BillInv, Shaped(chat, ChatFields), NEW c \in Calls, NEW s, chat' = [chat EXCEPT ![c] = s],
         caller = "sdk", HandlerInv(s, call[c]), UNCHANGED <<call, caller>>, sdk'.kind = sdk.kind
  PROVE  BillInv'
<1>1. chat'[c] = s /\ \A d \in Calls \ {c} : chat'[d] = chat[d] BY DEF Shaped
<1>2. \A d \in Calls : \/ HandlerInv(chat'[d], call'[d]) /\ caller = "sdk"
                       \/ chat'[d] = chat[d] /\ (caller = "sdk" /\ call[d].pc \in Answering => call'[d] = call[d])
  BY <1>1
<1> QED BY <1>2, BillStep

(* A handler that closes agrees with what it answered. *)
LEMMA HandlerClosed ==
  ASSUME BillInv, Shaped(chat, ChatFields), NEW c \in Calls, NEW r, Close(c, r), DOMAIN r = ChatFields,
         caller = "sdk", r.kind \in {"json", "sse"}, Ended(r), Backed(r, call[c]),
         UNCHANGED <<call, caller>>, sdk'.kind = sdk.kind
  PROVE  BillInv'
<1> DEFINE s == [r EXCEPT !.pc = "closed", !.frames = 0, !.finished = FreshStream]
<1>1. /\ s.pc = "closed" /\ s.kind = r.kind /\ s.reply = r.reply /\ s.recorded = r.recorded
      /\ s.sent = r.sent /\ s.reason = r.reason
  BY DEF ChatFields
<1>2. chat' = [chat EXCEPT ![c] = s] BY DEF Close, Put
<1> HIDE DEF s
<1>3. Ended(s) BY <1>1 DEF Ended
<1>4. Backed(s, call[c]) BY <1>1 DEF Backed
<1>5. HandlerInv(s, call[c]) BY <1>1, <1>3, <1>4 DEF HandlerInv
<1> QED BY <1>2, <1>5, HandlerMoved

(* No error is answered with the status of a success. *)
LEMMA ErrorReply == ASSUME NEW c PROVE ErrorStatus(c) \in ErrorReplies /\ 200 \notin ErrorReplies /\ 0 \notin ErrorReplies
<1>1. 502 \in SafeStatuses /\ 200 \notin SafeStatuses /\ 0 \notin SafeStatuses BY DEF SafeStatuses
<1>2. ToSafeUpstreamStatus(call[c].cause) \in SafeStatuses BY <1>1 DEF ToSafeUpstreamStatus
<1> QED BY <1>1, <1>2 DEF ErrorStatus, ErrorReplies

(* Events are billed at each "done", and at nothing else. *)
LEMMA SentBilled ==
  ASSUME NEW r, DOMAIN r = ChatFields, r.sent \in Seq(Events), r.recorded \in Nat,
         NEW events \in {<<>>, <<"done">>}
  PROVE  LET s == Sent(r, events)
         IN /\ s.kind = r.kind /\ s.reply = r.reply /\ s.reason = r.reason /\ s.finished = r.finished
            /\ s.sent = (IF events = <<>> THEN r.sent ELSE Append(r.sent, "done"))
            /\ s.recorded = (IF events = <<>> THEN r.recorded ELSE r.recorded + 1)
<1> DEFINE n == Cardinality({i \in DOMAIN events : events[i] = "done"})
           t == [r EXCEPT !.sent = @ \o events]
<1>1. n = (IF events = <<>> THEN 0 ELSE 1)
  <2>1. CASE events = <<>>
    <3>1. {i \in DOMAIN events : events[i] = "done"} = {} BY <2>1
    <3> QED BY <2>1, <3>1, FS_EmptySet
  <2>2. CASE events = <<"done">>
    <3>1. {i \in DOMAIN events : events[i] = "done"} = {1} BY <2>2
    <3>2. events # <<>> BY <2>2
    <3> QED BY <3>1, <3>2, FS_Singleton
  <2> QED BY <2>1, <2>2
<1>2. r.sent \o events = (IF events = <<>> THEN r.sent ELSE Append(r.sent, "done"))
  <2>1. CASE events = <<>> BY <2>1
  <2>2. CASE events = <<"done">>
    <3>1. events # <<>> BY <2>2
    <3>2. r.sent \o <<"done">> = Append(r.sent, "done") BY DEF Events
    <3> QED BY <2>2, <3>1, <3>2
  <2> QED BY <2>1, <2>2
<1> HIDE DEF n
<1>3. /\ DOMAIN t = ChatFields /\ t.sent = r.sent \o events /\ t.recorded = r.recorded /\ t.kind = r.kind
      /\ t.reply = r.reply /\ t.reason = r.reason /\ t.finished = r.finished
  BY DEF ChatFields
<1>4. Sent(r, events) = Bill(t, n) BY DEF Sent, n
<1> HIDE DEF t
<1>5. /\ Bill(t, n).sent = t.sent /\ Bill(t, n).recorded = t.recorded + n /\ Bill(t, n).kind = t.kind
      /\ Bill(t, n).reply = t.reply /\ Bill(t, n).reason = t.reason /\ Bill(t, n).finished = t.finished
  BY <1>3 DEF Bill, ChatFields
<1>6. r.recorded + n = (IF events = <<>> THEN r.recorded ELSE r.recorded + 1) BY <1>1
<1> QED BY <1>2, <1>3, <1>4, <1>5, <1>6

(* Every step of a handler leaves the bill in agreement with the answer. *)
LEMMA HandlerBill ==
  ASSUME IInv, BillInv, NEW c \in Calls, Handler(c)
  PROVE  BillInv'
<1> DEFINE q == chat[c]
           k == call[c]
           p == Streaming(c)
<1>0. UNCHANGED <<sdk, caller>> /\ caller \in {"sdk", "port"}
  BY DEF Handler, Refuse, Accept, AnswerJson, FailJson, FailFirstPull, OpenStream, Frame, EndStream, BreakStream,
         NoticeLeft, BillInv
<1>1. Shaped(chat, ChatFields) /\ DOMAIN q = ChatFields BY DEF IInv, ChatInv, Shaped
<1>2. HandlerInv(q, k) /\ (q.pc # "idle" => caller = "sdk") /\ q.kind \in {"json", "sse"} BY DEF BillInv, HandlerInv
<1>3. q.pc # "idle"
  BY DEF Handler, Refuse, Accept, AnswerJson, FailJson, FailFirstPull, OpenStream, Frame, EndStream, BreakStream,
         NoticeLeft, Routing, Open
<1>4. caller = "sdk" BY <1>2, <1>3
<1>5. ErrorStatus(c) \in ErrorReplies /\ 200 \notin ErrorReplies /\ 0 \notin ErrorReplies BY ErrorReply
<1>6. q.pc = "open" =>
        /\ q.kind = "sse" /\ q.reply = 200 /\ q.reason = None
        /\ q.sent \in Seq(Events) /\ q.sent # <<>> /\ q.recorded \in Nat /\ q.finished \in BOOLEAN
        /\ p = "gemini" /\ q.finished => Last(q.sent) = "done" /\ q.recorded > 0
        /\ p # "gemini" => q.recorded = 0
        /\ k.pc = "streaming"
  BY <1>2 DEF HandlerInv, Flowing, Backed, Streaming
<1>7. q.pc \in {"received", "routing"} => q.reply = 0 /\ q.recorded = 0 /\ q.sent = <<>> /\ q.reason = None
                                      /\ q.finished = FreshStream
  BY <1>2 DEF HandlerInv, Unanswered
<1>8. CASE Refuse(c)
  <2>1. PICK status \in {400, 500} : Close(c, [q EXCEPT !.reply = status]) BY <1>8 DEF Refuse
  <2> DEFINE r == [q EXCEPT !.reply = status]
  <2>2. /\ DOMAIN r = ChatFields /\ r.kind = q.kind /\ r.reply = status /\ r.recorded = q.recorded
        /\ r.sent = q.sent /\ r.reason = q.reason
    BY <1>1 DEF ChatFields
  <2>3. q.recorded = 0 /\ q.sent = <<>> /\ q.reason = None BY <1>7, <1>8 DEF Refuse
  <2>4. status \in ErrorReplies BY DEF ErrorReplies, SafeStatuses
  <2>5. UNCHANGED call /\ Close(c, r) BY <1>8, <2>1 DEF Refuse, engineVars
  <2> HIDE DEF r
  <2>6. Ended(r) BY <1>5, <2>2, <2>3, <2>4 DEF Ended, None
  <2>7. Backed(r, k) BY <1>5, <2>2, <2>3, <2>4 DEF Backed
  <2> QED BY <1>0, <1>1, <1>2, <1>4, <2>2, <2>5, <2>6, <2>7, HandlerClosed
<1>9. CASE Accept(c)
  <2> DEFINE s == [q EXCEPT !.pc = "routing"]
  <2>1. s.pc = "routing" /\ s.kind = q.kind /\ s.reply = q.reply /\ s.recorded = q.recorded
        /\ s.sent = q.sent /\ s.reason = q.reason /\ s.finished = q.finished
    BY <1>1 DEF ChatFields
  <2>2. chat' = [chat EXCEPT ![c] = s] /\ q.pc = "received" BY <1>9 DEF Accept, Put
  <2> HIDE DEF s
  <2>3. HandlerInv(s, call'[c]) BY <1>2, <1>7, <2>1, <2>2 DEF HandlerInv, Unanswered, Backed
  <2>4. ASSUME NEW d \in Calls \ {c} PROVE call'[d] = call[d]
    <3>1. call = [e \in Calls |-> call[e]] BY DEF IInv, EngineInv
    <3>2. PICK mode, policy : Start(c, mode, policy) BY <1>9 DEF Accept
    <3> QED BY <3>1, <3>2 DEF Start, Ends
  <2>5. chat'[c] = s /\ \A d \in Calls \ {c} : chat'[d] = chat[d] BY <1>1, <2>2 DEF Shaped
  <2>6. \A d \in Calls : \/ HandlerInv(chat'[d], call'[d]) /\ caller = "sdk"
                         \/ chat'[d] = chat[d] /\ (caller = "sdk" /\ call[d].pc \in Answering => call'[d] = call[d])
    BY <1>4, <2>3, <2>4, <2>5
  <2> QED BY <1>0, <2>6, BillStep
<1>10. CASE AnswerJson(c)
  <2> DEFINE t == [q EXCEPT !.reply = 200]
             r == Bill(t, 1)
  <2>1. DOMAIN t = ChatFields /\ t.kind = q.kind /\ t.reply = 200 /\ t.recorded = q.recorded /\ t.sent = q.sent
        /\ t.reason = q.reason
    BY <1>1 DEF ChatFields
  <2>2. q.pc = "routing" /\ q.kind = "json" /\ k.pc = "response" BY <1>10 DEF AnswerJson, Routing, At
  <2>3. UNCHANGED call /\ Close(c, r) BY <1>10 DEF AnswerJson, engineVars
  <2> HIDE DEF t
  <2>4. DOMAIN r = ChatFields /\ r.kind = t.kind /\ r.reply = 200 /\ r.recorded = t.recorded + 1 /\ r.sent = t.sent
        /\ r.reason = t.reason
    BY <2>1 DEF ChatFields, Bill
  <2> HIDE DEF r
  <2>5. r.recorded = 1 /\ r.sent = <<>> /\ r.reason = None /\ r.kind = "json" BY <1>7, <2>1, <2>2, <2>4
  <2>6. Ended(r) BY <2>4, <2>5 DEF Ended, None
  <2>7. Backed(r, k) BY <2>2, <2>4, <2>5 DEF Backed
  <2> QED BY <1>0, <1>1, <1>4, <2>3, <2>4, <2>5, <2>6, <2>7, HandlerClosed
<1>11. CASE FailJson(c)
  <2> DEFINE r == [q EXCEPT !.reply = ErrorStatus(c)]
  <2>1. /\ DOMAIN r = ChatFields /\ r.kind = q.kind /\ r.reply = ErrorStatus(c) /\ r.recorded = q.recorded
        /\ r.sent = q.sent /\ r.reason = q.reason
    BY <1>1 DEF ChatFields
  <2>2. q.pc = "routing" BY <1>11 DEF FailJson, Routing
  <2>3. UNCHANGED call /\ Close(c, r) BY <1>11 DEF FailJson, engineVars
  <2> HIDE DEF r
  <2>4. r.recorded = 0 /\ r.sent = <<>> /\ r.reason = None BY <1>7, <2>1, <2>2
  <2>5. Ended(r) BY <1>5, <2>1, <2>4 DEF Ended, None
  <2>6. Backed(r, k) BY <1>5, <2>1, <2>4 DEF Backed
  <2> QED BY <1>0, <1>1, <1>2, <1>4, <2>1, <2>3, <2>5, <2>6, HandlerClosed
<1>12. CASE FailFirstPull(c)
  <2> DEFINE r == IF q.told THEN [q EXCEPT !.reason = "client_disconnect"]
                  ELSE [q EXCEPT !.reason = "error", !.reply = ErrorStatus(c)]
  <2>1. /\ DOMAIN r = ChatFields /\ r.kind = q.kind /\ r.reply \in {q.reply, ErrorStatus(c)} /\ r.recorded = q.recorded
        /\ r.sent = q.sent /\ r.reason \in {"client_disconnect", "error"}
    BY <1>1 DEF ChatFields
  <2>2. q.pc = "routing" BY <1>12 DEF FailFirstPull, Routing
  <2>3. UNCHANGED call /\ Close(c, r) BY <1>12 DEF FailFirstPull, engineVars
  <2> HIDE DEF r
  <2>4. r.recorded = 0 /\ r.sent = <<>> /\ r.reply # 200 /\ r.reply \in {0} \cup ErrorReplies BY <1>5, <1>7, <2>1, <2>2
  <2>5. Ended(r) BY <2>1, <2>4 DEF Ended
  <2>6. Backed(r, k) BY <2>4 DEF Backed
  <2> QED BY <1>0, <1>1, <1>2, <1>4, <2>1, <2>3, <2>5, <2>6, HandlerClosed
<1>13. CASE OpenStream(c)
  <2>1. q.pc = "routing" /\ q.kind = "sse" /\ k.pc = "streaming" /\ UNCHANGED call
    BY <1>13 DEF OpenStream, Routing, At, engineVars
  <2>2. CASE q.told
    <3> DEFINE r == [q EXCEPT !.reason = "client_disconnect"]
    <3>1. /\ DOMAIN r = ChatFields /\ r.kind = q.kind /\ r.reply = q.reply /\ r.recorded = q.recorded
          /\ r.sent = q.sent /\ r.reason = "client_disconnect"
      BY <1>1 DEF ChatFields
    <3>2. Close(c, r) BY <1>13, <2>2 DEF OpenStream
    <3> HIDE DEF r
    <3>3. r.recorded = 0 /\ r.sent = <<>> /\ r.reply = 0 BY <1>7, <2>1, <3>1
    <3>4. Ended(r) BY <3>1, <3>3 DEF Ended
    <3>5. Backed(r, k) BY <3>3 DEF Backed
    <3> QED BY <1>0, <1>1, <1>2, <1>4, <2>1, <3>1, <3>2, <3>4, <3>5, HandlerClosed
  <2>3. CASE ~q.told
    <3> DEFINE s == [q EXCEPT !.pc = "open", !.reply = 200, !.sent = <<"start">>]
    <3>1. /\ s.pc = "open" /\ s.kind = q.kind /\ s.reply = 200 /\ s.recorded = q.recorded
          /\ s.sent = <<"start">> /\ s.reason = q.reason /\ s.finished = q.finished
      BY <1>1 DEF ChatFields
    <3>2. chat' = [chat EXCEPT ![c] = s] BY <1>13, <2>3 DEF OpenStream, Put
    <3> HIDE DEF s
    <3>3. s.sent \in Seq(Events) /\ s.sent # <<>> BY <3>1 DEF Events
    <3>4. s.recorded = 0 /\ s.reason = None BY <1>7, <2>1, <3>1
    <3>5. s.finished = FALSE BY <1>7, <2>1, <3>1 DEF FreshStream
    <3>f. s.finished \in BOOLEAN /\ ~s.finished BY <3>5, Zenon
    <3>6. Flowing(s, p) BY <2>1, <3>1, <3>3, <3>4, <3>f DEF Flowing
    <3>7. HandlerInv(s, k) BY <2>1, <3>1, <3>4, <3>6 DEF HandlerInv, Backed, Streaming
    <3> QED BY <1>0, <1>1, <1>4, <2>1, <3>2, <3>7, HandlerMoved
  <2> QED BY <2>2, <2>3
<1>14. CASE EndStream(c)
  <2>1. q.pc = "open" /\ UNCHANGED call BY <1>14 DEF EndStream, Open, engineVars
  <2> DEFINE events == EndEvents(p, q.finished)
             t == Sent(q, events)
             r == IF Finished(p, q.finished) THEN [t EXCEPT !.reason = "completed"]
                  ELSE [t EXCEPT !.reason = "error", !.sent = Append(@, "error")]
  <2>2. Close(c, r) BY <1>14 DEF EndStream
  <2>3. events = (IF p = "groq" /\ q.finished THEN <<"done">> ELSE <<>>) BY DEF EndEvents
  <2>4. events \in {<<>>, <<"done">>} BY <2>3
  <2> HIDE DEF events
  <2>5. /\ t.kind = q.kind /\ t.reply = q.reply /\ t.reason = q.reason
        /\ t.sent = (IF events = <<>> THEN q.sent ELSE Append(q.sent, "done"))
        /\ t.recorded = (IF events = <<>> THEN q.recorded ELSE q.recorded + 1)
    BY <1>1, <1>6, <2>1, <2>4, SentBilled
  <2>6. DOMAIN t = ChatFields BY <1>1, SentShape
  <2> HIDE DEF t
  <2>7. t.sent \in Seq(Events) /\ t.recorded \in Nat /\ t.sent # <<>>
    <3>1. Append(q.sent, "done") \in Seq(Events) /\ Append(q.sent, "done") # <<>> BY <1>6, <2>1 DEF Events
    <3> QED BY <1>6, <2>1, <2>5, <3>1
  <2>8. CASE q.finished
    <3>1. /\ DOMAIN r = ChatFields /\ r.kind = t.kind /\ r.reply = t.reply /\ r.recorded = t.recorded
          /\ r.sent = t.sent /\ r.reason = "completed"
      BY <2>6, <2>8 DEF ChatFields, Finished
    <3>2. p \in Providers
      <4>1. k.log \in Seq(Entry) /\ Len(k.log) > 0 BY <1>6, <2>1 DEF IInv, EngineInv, CallInv, LogInv, Answering
      <4>2. Len(k.log) \in 1..Len(k.log) /\ k.log[Len(k.log)] \in Entry BY <4>1
      <4> QED BY <4>2 DEF Streaming, Last, Entry
    <3>3. Last(t.sent) = "done" /\ t.recorded > 0
      <4>1. CASE p = "gemini"
        <5>1. events = <<>> BY <2>3, <4>1
        <5> QED BY <1>6, <2>1, <2>5, <2>8, <4>1, <5>1
      <4>2. CASE p = "groq"
        <5>1. events # <<>> BY <2>3, <2>8, <4>2
        <5>2. Last(Append(q.sent, "done")) = "done" BY <1>6, <2>1 DEF Last, Events
        <5> QED BY <1>6, <2>1, <2>5, <5>1, <5>2
      <4> QED BY <3>2, <4>1, <4>2 DEF Providers
    <3> HIDE DEF r
    <3>4. Ended(r) BY <1>6, <2>1, <2>5, <2>7, <3>1, <3>3 DEF Ended
    <3>5. Backed(r, k) BY <1>6, <2>1, <2>3, <2>5, <3>1 DEF Backed, Streaming
    <3> QED BY <1>0, <1>1, <1>2, <1>4, <2>1, <2>2, <2>5, <3>1, <3>4, <3>5, HandlerClosed
  <2>9. CASE ~q.finished
    <3>1. /\ DOMAIN r = ChatFields /\ r.kind = t.kind /\ r.reply = t.reply /\ r.recorded = t.recorded
          /\ r.sent = Append(t.sent, "error") /\ r.reason = "error"
      BY <2>6, <2>9 DEF ChatFields, Finished
    <3>2. r.sent # <<>> /\ Last(r.sent) = "error" BY <2>7, <3>1 DEF Last, Events
    <3> HIDE DEF r
    <3>3. Ended(r) BY <1>6, <2>1, <2>5, <2>7, <3>1, <3>2 DEF Ended
    <3>4. Backed(r, k) BY <1>6, <2>1, <2>3, <2>5, <3>1 DEF Backed, Streaming
    <3> QED BY <1>0, <1>1, <1>2, <1>4, <2>1, <2>2, <2>5, <3>1, <3>3, <3>4, HandlerClosed
  <2> QED BY <1>6, <2>1, <2>8, <2>9
<1>15. CASE BreakStream(c)
  <2>1. q.pc = "open" /\ UNCHANGED call BY <1>15 DEF BreakStream, Open, engineVars
  <2> DEFINE r == [q EXCEPT !.reason = "error", !.sent = Append(@, "error")]
  <2>2. /\ DOMAIN r = ChatFields /\ r.kind = q.kind /\ r.reply = q.reply /\ r.recorded = q.recorded
        /\ r.sent = Append(q.sent, "error") /\ r.reason = "error"
    BY <1>1 DEF ChatFields
  <2>3. Close(c, r) BY <1>15 DEF BreakStream
  <2> HIDE DEF r
  <2>4. r.sent # <<>> /\ Last(r.sent) = "error" BY <1>6, <2>1, <2>2 DEF Last, Events
  <2>5. Ended(r) BY <1>6, <2>1, <2>2, <2>4 DEF Ended
  <2>6. Backed(r, k) BY <1>6, <2>1, <2>2 DEF Backed, Streaming
  <2> QED BY <1>0, <1>1, <1>2, <1>4, <2>1, <2>2, <2>3, <2>5, <2>6, HandlerClosed
<1>16. CASE NoticeLeft(c)
  <2>1. q.pc = "open" /\ UNCHANGED call BY <1>16 DEF NoticeLeft, engineVars
  <2> DEFINE r == [q EXCEPT !.reason = "client_disconnect"]
  <2>2. /\ DOMAIN r = ChatFields /\ r.kind = q.kind /\ r.reply = q.reply /\ r.recorded = q.recorded
        /\ r.sent = q.sent /\ r.reason = "client_disconnect"
    BY <1>1 DEF ChatFields
  <2>3. Close(c, r) BY <1>16 DEF NoticeLeft
  <2> HIDE DEF r
  <2>4. Ended(r) BY <1>6, <2>1, <2>2 DEF Ended
  <2>5. Backed(r, k) BY <1>6, <2>1, <2>2 DEF Backed, Streaming
  <2> QED BY <1>0, <1>1, <1>2, <1>4, <2>1, <2>2, <2>3, <2>4, <2>5, HandlerClosed
<1>17. CASE Frame(c)
  <2>1. q.pc = "open" /\ UNCHANGED call BY <1>17 DEF Frame, Open, engineVars
  <2>2. PICK f \in StreamFrames(p) :
          Put(c, Sent([q EXCEPT !.frames = @ + 1, !.finished = AfterFrame(p, @, f)], FrameEvents(p, f)))
    BY <1>17 DEF Frame
  <2> DEFINE events == FrameEvents(p, f)
             t == [q EXCEPT !.frames = @ + 1, !.finished = AfterFrame(p, @, f)]
             s == Sent(t, events)
  <2>3. events = (IF p = "gemini" /\ GeminiFinal(f) THEN <<"done">> ELSE <<>>) BY DEF FrameEvents
  <2>4. events \in {<<>>, <<"done">>} BY <2>3
  <2>5. DOMAIN t = ChatFields /\ t.kind = q.kind /\ t.reply = q.reply /\ t.reason = q.reason
        /\ t.sent = q.sent /\ t.recorded = q.recorded /\ t.pc = q.pc
    BY <1>1 DEF ChatFields
  <2>6. t.finished = AfterFrame(p, q.finished, f) BY <1>1 DEF ChatFields
  <2>7. chat' = [chat EXCEPT ![c] = s] BY <2>2 DEF Put
  <2> HIDE DEF events, t
  <2>a. t.sent \in Seq(Events) /\ t.recorded \in Nat BY <1>6, <2>1, <2>5
  <2>b. /\ s.kind = t.kind /\ s.reply = t.reply /\ s.reason = t.reason /\ s.finished = t.finished
        /\ s.sent = (IF events = <<>> THEN t.sent ELSE Append(t.sent, "done"))
        /\ s.recorded = (IF events = <<>> THEN t.recorded ELSE t.recorded + 1)
    BY <2>4, <2>5, <2>a, SentBilled
  <2>8. /\ s.kind = q.kind /\ s.reply = q.reply /\ s.reason = q.reason /\ s.finished = t.finished
        /\ s.sent = (IF events = <<>> THEN q.sent ELSE Append(q.sent, "done"))
        /\ s.recorded = (IF events = <<>> THEN q.recorded ELSE q.recorded + 1)
    BY <2>5, <2>b
  <2>9. s.pc = "open" BY <2>1, <2>5, SentShape
  <2> HIDE DEF s
  <2>10. /\ Append(q.sent, "done") \in Seq(Events) /\ Append(q.sent, "done") # <<>>
         /\ Last(Append(q.sent, "done")) = "done"
    BY <1>6, <2>1 DEF Events, Last
  <2>11. AfterFrame(p, q.finished, f) \in BOOLEAN
         /\ (p = "gemini" /\ AfterFrame(p, q.finished, f) => q.finished \/ GeminiFinal(f))
    BY DEF AfterFrame
  <2>12. s.finished \in BOOLEAN BY <2>6, <2>8, <2>11
  <2>13. p = "gemini" /\ s.finished => Last(s.sent) = "done" /\ s.recorded > 0
    <3>1. CASE events = <<>>
      <4>1. p = "gemini" /\ s.finished => q.finished BY <2>3, <2>6, <2>8, <2>11, <3>1
      <4> QED BY <1>6, <2>1, <2>8, <3>1, <4>1
    <3>2. CASE events # <<>> BY <1>6, <2>1, <2>8, <2>10, <3>2
    <3> QED BY <3>1, <3>2
  <2>14. s.sent \in Seq(Events) /\ s.sent # <<>> /\ s.recorded \in Nat BY <1>6, <2>1, <2>8, <2>10
  <2>c. p # "gemini" => s.recorded = 0 BY <1>6, <2>1, <2>3, <2>8
  <2>15. Flowing(s, p) BY <1>6, <2>1, <2>8, <2>c, <2>12, <2>13, <2>14 DEF Flowing
  <2>16. HandlerInv(s, k) BY <1>6, <2>1, <2>8, <2>9, <2>c, <2>15 DEF HandlerInv, Backed, Streaming
  <2> QED BY <1>0, <1>1, <1>4, <2>1, <2>7, <2>16, HandlerMoved
<1> QED BY <1>8, <1>9, <1>10, <1>11, <1>12, <1>13, <1>14, <1>15, <1>16, <1>17 DEF Handler

(* A client that goes, or stops reading, changes nothing that is billed. *)
LEMMA LeaveBill ==
  ASSUME IInv, BillInv, NEW c \in Calls, Leave(c), caller = "sdk", UNCHANGED <<call, caller>>, sdk'.kind = sdk.kind
  PROVE  BillInv'
<1> DEFINE q == chat[c]
<1>1. PICK told : chat' = [chat EXCEPT ![c] = [q EXCEPT !.left = TRUE, !.told = told]] BY DEF Leave, Put
<1>2. Shaped(chat, ChatFields) /\ DOMAIN q = ChatFields BY DEF IInv, ChatInv, Shaped
<1> DEFINE s == [q EXCEPT !.left = TRUE, !.told = told]
<1>3. /\ s.pc = q.pc /\ s.kind = q.kind /\ s.reply = q.reply /\ s.recorded = q.recorded
      /\ s.sent = q.sent /\ s.reason = q.reason /\ s.finished = q.finished
  BY <1>2 DEF ChatFields
<1>4. chat' = [chat EXCEPT ![c] = s] BY <1>1
<1> HIDE DEF s
<1>5. HandlerInv(q, call[c]) BY DEF BillInv
<1>6. HandlerInv(s, call[c])
  <2>1. Unanswered(q) => Unanswered(s) BY <1>3 DEF Unanswered
  <2>2. Flowing(q, Streaming(c)) => Flowing(s, Streaming(c)) BY <1>3 DEF Flowing
  <2>3. Ended(q) => Ended(s) BY <1>3 DEF Ended
  <2> QED BY <1>3, <1>5, <2>1, <2>2, <2>3 DEF HandlerInv, Backed, Streaming
<1> QED BY <1>2, <1>4, <1>6, HandlerMoved

(* Every step of the client leaves the bill in agreement with the answer. *)
LEMMA ClientBill == ASSUME IInv, BillInv, Client PROVE BillInv'
<1>1. SdkInv /\ Shaped(chat, ChatFields) BY DEF IInv, ChatInv
<1>2. UNCHANGED <<call, caller>> BY DEF Client, Send, HearNothing, HearAnswer, StopReading, engineVars
<1>3. caller = "sdk" /\ DOMAIN sdk = {"pc", "kind", "attempt"} /\ sdk.attempt \in 0..Len(Attempts)
  BY <1>1 DEF SdkInv, Client, Send, HearNothing, HearAnswer, StopReading
<1>4. sdk'.kind = sdk.kind BY <1>3 DEF Client, Send, HearNothing, HearAnswer, StopReading
<1>5. CASE Send
  <2>1. sdk.attempt < Len(Attempts) BY <1>1, <1>3, <1>5 DEF SdkInv, Send
  <2>2. sdk'.attempt = sdk.attempt + 1 BY <1>3, <1>5 DEF Send
  <2>3. PICK n \in 1..Len(Attempts) : n = sdk.attempt + 1 BY <1>3, <2>1, AttemptsType
  <2> DEFINE c == Attempts[n]
             s == [IdleChat EXCEPT !.pc = "received", !.kind = sdk.kind]
  <2>4. c \in Calls BY AttemptsType
  <2>5. chat' = [chat EXCEPT ![c] = s] BY <1>5, <2>2, <2>3 DEF Send, Put
  <2>6. /\ s.pc = "received" /\ s.kind = sdk.kind /\ s.reply = 0 /\ s.recorded = 0 /\ s.sent = <<>> /\ s.reason = None
        /\ s.finished = FreshStream
    BY DEF IdleChat
  <2> HIDE DEF c, s
  <2>7. HandlerInv(s, call[c]) BY <2>6 DEF HandlerInv, Unanswered, Backed, BillInv
  <2> QED BY <1>1, <1>2, <1>3, <1>4, <2>4, <2>5, <2>7, HandlerMoved
<1>6. CASE HearNothing \/ StopReading
  <2>1. Leave(Serving) /\ sdk.pc \in {"waiting", "answered"} BY <1>6 DEF HearNothing, StopReading
  <2>2. Serving \in Calls BY <1>1, <1>3, <2>1, AttemptsType DEF SdkInv, Serving
  <2> QED BY <1>2, <1>3, <1>4, <2>1, <2>2, LeaveBill
<1>7. CASE HearAnswer
  <2>1. chat' = chat BY <1>7 DEF HearAnswer
  <2> QED BY <1>2, <1>4, <2>1, BillStep
<1> QED BY <1>5, <1>6, <1>7 DEF Client

(* The engine lets go of no call that answers. *)
LEMMA EngineHolds ==
  ASSUME EngineInv, NEW c \in Calls, EngineStep(c) \/ (\E answer : ProviderAnswers(c, answer)),
         NEW d \in Calls, call[d].pc \in Answering
  PROVE  call'[d] = call[d]
<1>1. call = [e \in Calls |-> call[e]] BY DEF EngineInv
<1>2. CASE ShadowEnds(c) BY <1>2 DEF ShadowEnds
<1>3. CASE CommitPin(c)
  <2>1. d # c BY <1>3 DEF CommitPin, At, Answering
  <2>2. d \notin Watchers(c) BY DEF Watchers, At, Answering
  <2> QED BY <1>1, <1>3, <2>1, <2>2 DEF CommitPin, Rank, RankAsWriter
<1>4. CASE SelectThrows(c) \/ SelectLocally(c) \/ TakeTurn(c) \/ ReadPin(c)
  <2>1. d # c BY <1>4 DEF SelectThrows, SelectLocally, TakeTurn, ReadPin, Selecting, At, Answering
  <2> QED BY <1>1, <1>4, <2>1 DEF SelectThrows, SelectLocally, TakeTurn, ReadPin, Rank, Ends
<1>5. CASE NotRegistered(c) \/ BreakerOpen(c) \/ BreakerThrows(c) \/ Reserve(c) \/ Exhausted(c)
  <2>1. d # c BY <1>5 DEF NotRegistered, BreakerOpen, BreakerThrows, Reserve, Exhausted, Resolved, At, Answering
  <2> QED BY <1>1, <1>5, <2>1 DEF NotRegistered, BreakerOpen, BreakerThrows, Reserve, Exhausted, Skip, Ends
<1>6. CASE RecordSuccess(c) \/ RecordFailure(c) \/ (\E answer : ProviderAnswers(c, answer))
  <2>1. d # c BY <1>6 DEF RecordSuccess, RecordFailure, ProviderAnswers, At, Answering
  <2> QED BY <1>1, <1>6, <2>1 DEF RecordSuccess, RecordFailure, ProviderAnswers
<1> QED BY <1>2, <1>3, <1>4, <1>5, <1>6 DEF EngineStep

(* Handlers, client and engine keep the bill in agreement with the answer. *)
LEMMA StepBill == ASSUME IInv, BillInv, [Next]_vars PROVE BillInv'
<1>0. EngineInv /\ call = [c \in Calls |-> call[c]] BY DEF IInv, EngineInv
<1>1. ASSUME UNCHANGED <<chat, sdk, caller>>,
             caller = "sdk" => \A d \in Calls : call[d].pc \in Answering => call'[d] = call[d]
      PROVE  BillInv'
  BY <1>1, BillStep
<1>2. ASSUME NEW c \in Calls, CallPort(c) \/ TakeAnswer(c) PROVE BillInv'
  <2>1. UNCHANGED <<chat, sdk, caller>> /\ caller = "port" BY <1>2 DEF CallPort, TakeAnswer
  <2> QED BY <1>1, <2>1
<1>3. ASSUME NEW c \in Calls, Engine(c) \/ Upstream(c) PROVE BillInv'
  <2>1. UNCHANGED <<chat, sdk, caller>> /\ (EngineStep(c) \/ (\E answer : ProviderAnswers(c, answer)))
    BY <1>3 DEF Engine, Upstream
  <2>2. \A d \in Calls : call[d].pc \in Answering => call'[d] = call[d] BY <1>0, <2>1, EngineHolds
  <2> QED BY <1>1, <2>1, <2>2
<1>4. CASE Operate \/ UNCHANGED vars
  <2>1. UNCHANGED <<chat, sdk, caller, call>> BY <1>4 DEF Operate, Disable, vars
  <2> QED BY <1>1, <2>1
<1> QED BY <1>2, <1>3, <1>4, HandlerBill, ClientBill DEF Next

(* Nothing is billed to begin with. *)
LEMMA InitBill == Init => BillInv
<1> SUFFICES ASSUME Init PROVE BillInv OBVIOUS
<1>1. caller \in {"sdk", "port"} /\ sdk.kind \in {"json", "sse"} BY DEF Init
<1>2. \A c \in Calls : chat[c] = IdleChat BY DEF Init
<1>3. ASSUME NEW k PROVE HandlerInv(IdleChat, k) BY DEF HandlerInv, Unanswered, Backed, IdleChat
<1>4. IdleChat.pc = "idle" BY DEF IdleChat
<1> QED BY <1>1, <1>2, <1>3, <1>4 DEF BillInv

(* What was billed agrees with how far the answer got. *)
THEOREM Billing == Spec => []BillInv
BY InitBill, StepBill, Invariance, PTL DEF Spec

----------------------------------------------------------------------------
(* The properties *)

(* The three invariants bound everything a call, a handler and a client     *)
(* attempt can be in.                                                       *)
LEMMA AllTyped == IInv /\ CandidateInv /\ BillInv => TypeOK
<1> SUFFICES ASSUME IInv, CandidateInv, BillInv PROVE TypeOK OBVIOUS
<1>1. ASSUME NEW c \in Calls
      PROVE  /\ call[c].pc \in {"idle", "select", "pinning", "next", "calling", "succeeded",
                                "failed", "response", "streaming", "unavailable", "threw", "done"}
             /\ Tries(call[c]) <= 1 \/ \E policy \in Policies : Tries(call[c]) <= Len(policy.candidates)
             /\ call[c].tries <= MaxPinTries
  BY RoutingBounds DEF CandidateInv, QueueInv, Stages, NoLonger
<1>2. ASSUME NEW c \in Calls
      PROVE  /\ chat[c].pc \in {"idle", "received", "routing", "open", "closed"}
             /\ chat[c].reply \in {0, 200, 500} \cup SafeStatuses
             /\ chat[c].sent = <<>> <=> chat[c].kind = "json" \/ chat[c].reply # 200
  <2> DEFINE r == chat[c]
  <2>1. HandlerInv(r, call[c]) BY DEF BillInv
  <2>2. CASE r.pc \in {"idle", "received", "routing"} BY <2>1, <2>2 DEF HandlerInv, Unanswered
  <2>3. CASE r.pc = "open" BY <2>1, <2>3 DEF HandlerInv, Flowing
  <2>4. CASE r.pc = "closed" BY <2>1, <2>4 DEF HandlerInv, Ended, ErrorReplies
  <2> QED BY <2>1, <2>2, <2>3, <2>4 DEF HandlerInv
<1>3. registered \subseteq Providers /\ pin \in Providers \cup {None} BY DEF IInv, EngineInv, CandidateInv
<1>4. sdk.attempt \in 0..Len(Attempts) /\ (sdk.attempt > 0 => sdk.pc # "ready" \/ sdk.attempt < Len(Attempts))
  BY AttemptsType DEF IInv, ChatInv, SdkInv
<1> QED BY <1>1, <1>2, <1>3, <1>4 DEF TypeOK

(* Calls, handlers and client are in states the code can be in; no call     *)
(* tries more candidates than a policy names, and no sticky selection more  *)
(* often than MAX_OPTIMISTIC_RETRIES (default-routing-engine.ts,            *)
(* redis-sticky-routing-strategy.ts, chat-completions.routes.ts).           *)
THEOREM TypeCorrect == Spec => []TypeOK
BY AllTyped, Invariance, Candidates, Billing, PTL

(* What the breaker and the health tracker were told of a candidate is what *)
(* its last provider call was, and a trial or a stream is one call.         *)
LEMMA Outcomes == EngineInv => OutcomesMatchCalls
<1> SUFFICES ASSUME EngineInv, NEW c \in Calls
             PROVE  LET r == call[c]
                        answered == {i \in DOMAIN r.log : r.log[i].told = "success"}
                    IN /\ \A i \in DOMAIN r.log :
                            r.log[i].told = (IF r.log[i].last = "ok" THEN "success" ELSE "failure")
                       /\ answered = (IF r.pc \in {"response", "streaming"} THEN {Len(r.log)} ELSE {})
                       /\ r.current # NoAttempt <=> r.pc \in {"calling", "succeeded", "failed"}
                       /\ r.current.calls <= (IF r.current.trial \/ r.mode = "stream" THEN 1 ELSE MaxAttempts)
                       /\ r.pc \in {"succeeded", "failed"} => r.current.calls > 0
  BY DEF OutcomesMatchCalls
<1> DEFINE r == call[c]
           answered == {i \in DOMAIN r.log : r.log[i].told = "success"}
<1>1. LogInv(r) /\ CurrentInv(r) BY DEF EngineInv, CallInv
<1>2. DOMAIN r.log = 1..Len(r.log) /\ Len(r.log) \in Nat BY <1>1 DEF LogInv
<1>3. \A i \in DOMAIN r.log : r.log[i].told = (IF r.log[i].last = "ok" THEN "success" ELSE "failure")
  BY <1>1, <1>2 DEF LogInv
<1>4. answered = (IF r.pc \in Answering THEN {Len(r.log)} ELSE {}) BY <1>1, <1>2 DEF LogInv
<1>5. MaxAttempts \in Nat /\ MaxAttempts > 0 BY RoutingBounds
<1>6. NoAttempt.calls = 0 /\ NoAttempt.provider \notin Providers BY DEF NoAttempt, Attempt, None, Providers
<1>7. r.current # NoAttempt <=> r.pc \in Trying BY <1>1, <1>6 DEF CurrentInv, Trying
<1>8. r.current.calls <= (IF OneCall(r) THEN 1 ELSE MaxAttempts)
  <2>1. CASE r.pc \notin Trying BY <1>1, <1>5, <1>6, <2>1 DEF CurrentInv
  <2>2. CASE r.pc = "calling" BY <1>1, <1>5, <2>2 DEF CurrentInv, Trying
  <2>3. CASE r.pc \in {"succeeded", "failed"} BY <1>1, <2>3 DEF CurrentInv
  <2> QED BY <2>1, <2>2, <2>3 DEF Trying
<1>9. r.pc \in {"succeeded", "failed"} => r.current.calls > 0 BY <1>1 DEF CurrentInv
<1> QED BY <1>3, <1>4, <1>7, <1>8, <1>9 DEF OneCall, Trying, Answering

(* The breaker and the health tracker are told of every candidate that was  *)
(* tried, once and truly, whatever calls interleave                         *)
(* (default-routing-engine.ts, recordOutcome).                              *)
THEOREM ToldWhatHappened == Spec => []OutcomesMatchCalls
<1>1. IInv => OutcomesMatchCalls BY Outcomes DEF IInv
<1> QED BY <1>1, Invariance, PTL

(* A billed attempt is silent, unless it is the last one. *)
LEMMA BilledAreSilent == SdkInv => DuplicateOnlyAfterSilence
<1> DEFINE served == {i \in DOMAIN Attempts : chat[Attempts[i]].pc # "idle"}
           silent == {i \in served : chat[Attempts[i]].left}
           billed == {i \in served : chat[Attempts[i]].recorded > 0}
<1> SUFFICES ASSUME SdkInv, caller = "sdk"
             PROVE  /\ Cardinality(billed) <= Cardinality(silent) + 1
                    /\ \A i \in served : i # sdk.attempt => i \in silent
                    /\ sdk.pc = "failed" => silent = DOMAIN Attempts
  BY DEF DuplicateOnlyAfterSilence
<1>1. /\ sdk.attempt \in Nat
      /\ sdk.pc = "failed" => sdk.attempt = Len(Attempts)
      /\ \A i \in DOMAIN Attempts :
           /\ i \in served <=> i <= sdk.attempt
           /\ i < sdk.attempt => chat[Attempts[i]].left
           /\ i = sdk.attempt /\ sdk.pc \in {"ready", "failed"} => chat[Attempts[i]].left
  BY AttemptsType DEF SdkInv, Served, Silent
<1>2. \A i \in DOMAIN Attempts : i \in Nat /\ i <= Len(Attempts) BY AttemptsType
<1>3. \A i \in served : i # sdk.attempt => i \in silent BY <1>1, <1>2
<1>4. sdk.pc = "failed" => silent = DOMAIN Attempts BY <1>1, <1>2, AttemptsType
<1>5. Cardinality(billed) <= Cardinality(silent) + 1
  <2>1. IsFiniteSet(DOMAIN Attempts) BY AttemptsType, FS_Interval
  <2>2. IsFiniteSet(silent) BY <2>1, FS_Subset
  <2> DEFINE most == silent \cup {sdk.attempt}
  <2>3. billed \subseteq most BY <1>3
  <2>4. IsFiniteSet(most) /\ Cardinality(most) \in {Cardinality(silent), Cardinality(silent) + 1}
    BY <2>2, FS_AddElement
  <2>5. Cardinality(billed) <= Cardinality(most) BY <2>3, <2>4, FS_Subset
  <2>6. Cardinality(silent) \in Nat /\ Cardinality(billed) \in Nat
    BY <2>2, <2>3, <2>4, FS_Subset, FS_CardinalityType
  <2> HIDE DEF most, silent, billed
  <2> QED BY <2>4, <2>5, <2>6
<1> QED BY <1>3, <1>4, <1>5

(* A client call is executed and billed again only after the client heard   *)
(* nothing of an earlier attempt (sdk-node/transport.ts, the retry loop).   *)
THEOREM DuplicatesFollowSilence == Spec => []DuplicateOnlyAfterSilence
<1>1. IInv => DuplicateOnlyAfterSilence BY BilledAreSilent DEF IInv, ChatInv
<1> QED BY <1>1, Invariance, PTL

(* The invariant says all that the client can see of a bill. *)
LEMMA BillAgrees == BillInv => AnswerMatchesBill
<1> SUFFICES ASSUME BillInv, NEW c \in Calls
             PROVE  LET r == chat[c]
                    IN /\ r.kind = "json" => r.recorded = (IF r.reply = 200 THEN 1 ELSE 0)
                       /\ r.reply = 200 => call[c].pc = (IF r.kind = "json" THEN "response" ELSE "streaming")
                       /\ r.recorded > 0 => r.reply = 200
                       /\ r.pc = "closed" /\ r.sent # <<>> /\ r.reason # "client_disconnect" =>
                            Last(r.sent) = (IF r.reason = "completed" THEN "done" ELSE "error")
                       /\ r.reason = "completed" => r.recorded > 0
  BY DEF AnswerMatchesBill
<1> DEFINE r == chat[c]
<1>1. HandlerInv(r, call[c]) BY DEF BillInv
<1>2. CASE r.pc \in {"idle", "received", "routing"} BY <1>1, <1>2 DEF HandlerInv, Unanswered, None
<1>3. CASE r.pc = "open" BY <1>1, <1>3 DEF HandlerInv, Flowing, Backed, None
<1>4. CASE r.pc = "closed" BY <1>1, <1>4 DEF HandlerInv, Ended, Backed
<1> QED BY <1>1, <1>2, <1>3, <1>4 DEF HandlerInv

(* What a client got, what the provider did and what was billed agree,      *)
(* wherever the stream breaks off (chat-completions.routes.ts).             *)
THEOREM BillMatchesAnswer == Spec => []AnswerMatchesBill
BY BillAgrees, Billing, PTL

(* A stream that was billed more than once came from Gemini, the adapter    *)
(* that yields a "done" for every frame with usage or a finish reason; a    *)
(* JSON answer and a Groq stream are billed at most once                    *)
(* (gemini-provider.adapter.ts and chat-completions.routes.ts).             *)
BilledTwiceByGemini == \A c \in Calls : chat[c].recorded > 1 => Streaming(c) = "gemini"

THEOREM OnlyGeminiBillsTwice == Spec => []BilledTwiceByGemini
<1>1. BillInv => BilledTwiceByGemini BY DEF BillInv, HandlerInv, Backed, Streaming, BilledTwiceByGemini
<1> QED BY <1>1, Billing, PTL

(* Only a commit writes the pin, and it writes what its call put first. *)
LEMMA PinWriters ==
  ASSUME EngineInv, CandidateInv, [Next]_vars, NEW c \in Calls, pin' # pin, call[c].pc = "pinning", call'[c].pc = "next"
  PROVE  /\ call'[c].front = pin'
         /\ pin \in ToSet(call[c].policy.candidates) => pin' = pin
<1>1. PICK d \in Calls : CommitPin(d)
  <2>1. ASSUME NEW d \in Calls, ~CommitPin(d) PROVE ~Engine(d)
    BY <2>1 DEF Engine, EngineStep, ShadowEnds, SelectThrows, SelectLocally, TakeTurn, ReadPin, NotRegistered,
                BreakerOpen, BreakerThrows, Reserve, RecordSuccess, RecordFailure, Exhausted
  <2>2. ASSUME NEW d \in Calls PROVE ~CallPort(d) /\ ~TakeAnswer(d) /\ ~Upstream(d)
    BY DEF CallPort, Start, TakeAnswer, Upstream, ProviderAnswers
  <2>3. ASSUME NEW d \in Calls PROVE ~Handler(d)
    BY DEF Handler, Refuse, Accept, Start, AnswerJson, FailJson, FailFirstPull, OpenStream, Frame, EndStream,
           BreakStream, NoticeLeft, engineVars
  <2>4. ~Client /\ ~Operate
    BY DEF Client, Send, HearNothing, HearAnswer, StopReading, Operate, Disable, engineVars
  <2>5. Next BY DEF vars
  <2> QED BY <2>1, <2>2, <2>3, <2>4, <2>5 DEF Next
<1> DEFINE candidates == call[d].policy.candidates
<1>2. call[d].pc = "pinning" /\ registered' \subseteq Providers BY <1>1 DEF CommitPin, At, EngineInv
<1>3. ~call[d].moved /\ pin' = candidates[Chosen(d)] /\ RankAsWriter(d, RotateToFront(candidates, Chosen(d)))
  BY <1>1 DEF CommitPin, Chosen
<1>4. /\ call'[d].front = Head(RotateToFront(candidates, Chosen(d)))
      /\ \A e \in Calls \ {d} : call'[e].pc = call[e].pc
  BY <1>2, <1>3, WriterStep
<1>5. d = c BY <1>4
<1>a. /\ candidates \in Seq(Providers) /\ Chosen(d) \in 1..Len(candidates)
      /\ call[d].seen \in ToSet(candidates) => candidates[Chosen(d)] = call[d].seen
  BY <1>2, ChosenPlace
<1>6. call'[c].front = pin' BY <1>3, <1>4, <1>5, <1>a, Rotated
<1>7. call[c].seen = pin BY <1>2, <1>3, <1>5 DEF EngineInv, ReadInv
<1>8. pin \in ToSet(candidates) => pin' = pin BY <1>3, <1>5, <1>7, <1>a
<1> QED BY <1>5, <1>6, <1>8

(* Of two calls of one sticky session that race for the pin, the one that   *)
(* writes it serves what it wrote, and never over a pin still in its        *)
(* candidates (redis-sticky-routing-strategy.ts, WATCH/MULTI/EXEC).         *)
THEOREM PinAgreed == Spec => PinIsShared
<1>1. ASSUME EngineInv, CandidateInv, [Next]_vars
      PROVE  \A c \in Calls :
               pin' # pin /\ call[c].pc = "pinning" /\ call'[c].pc = "next" =>
                 /\ call'[c].front = pin'
                 /\ pin \in ToSet(call[c].policy.candidates) => pin' = pin
  BY <1>1, PinWriters
<1>2. IInv => EngineInv BY DEF IInv
<1> QED BY <1>1, <1>2, Invariance, Candidates, PTL DEF Spec, PinIsShared
=============================================================================
