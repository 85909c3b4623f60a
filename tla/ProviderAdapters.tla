-------------------------- MODULE ProviderAdapters --------------------------
(***************************************************************************)
(* The Groq and Gemini adapters: how what an upstream answers becomes a    *)
(* canonical response, a stream event or a GatewayError.  A payload is     *)
(* reduced to the facts the adapters branch on.                            *)
(***************************************************************************)
EXTENDS Integers, Sequences

Providers == {"groq", "gemini"}

(* One answer of an upstream to a request: no answer at all, a non-2xx      *)
(* status, a 2xx body of the wrong shape (or a stream without a body), or a *)
(* good one.  "hint" is Groq's Retry-After header or Gemini's RetryInfo     *)
(* detail, "error" classifies the error body, and status 0 stands for one   *)
(* outside 100..599.                                                        *)
Unreachable == [kind |-> "unreachable"]
Garbled     == [kind |-> "garbled"]
Answered    == [kind |-> "body"]
ErrorBodies == {"rate", "transient", "other"}
HttpFailures == [kind : {"http"}, status : {0, 400, 429, 503}, hint : BOOLEAN, error : ErrorBodies]
Replies == {Unreachable, Garbled, Answered} \cup HttpFailures

(* A GatewayError is the status it carries and whether it may be retried;   *)
(* status 0 is no error.                                                    *)
NoFailure == 0
Failure(status, retryable) == [status |-> status, retryable |-> retryable]
Success == Failure(NoFailure, FALSE)
InvalidResponse == Failure(502, FALSE)

NormalizeHttpStatus(status) == IF status \in 100..599 THEN status ELSE 502
ClientStatus(status) == IF status >= 500 THEN 502 ELSE 400

GroqIsRetryable(status, r) ==
  \/ status >= 500
  \/ (status = 429 \/ r.error = "rate") /\ r.hint

GroqTranslateError(r) ==
  LET status == NormalizeHttpStatus(r.status)
  IN IF r.kind = "http" THEN Failure(ClientStatus(status), GroqIsRetryable(status, r))
                        ELSE Failure(502, TRUE)

GeminiIsRetryable(status, r) ==
  \/ status >= 500
  \/ (status = 429 \/ r.error = "rate") /\ r.hint
  \/ status # 429 /\ r.error = "transient"

GeminiTranslateError(r) ==
  LET status == NormalizeHttpStatus(r.status)
  IN IF r.kind = "http" THEN Failure(ClientStatus(status), GeminiIsRetryable(status, r))
                        ELSE Failure(502, TRUE)

(* What complete(), or the first event of stream(), makes of an answer. *)
GroqComplete(r) ==
  CASE r.kind = "body" -> Success
    [] r.kind = "garbled" -> InvalidResponse
    [] OTHER -> GroqTranslateError(r)

GeminiComplete(r) ==
  CASE r.kind = "body" -> Success
    [] r.kind = "garbled" -> InvalidResponse
    [] OTHER -> GeminiTranslateError(r)

Completion(p, r) == IF p = "groq" THEN GroqComplete(r) ELSE GeminiComplete(r)

----------------------------------------------------------------------------
(* Streams.  A frame may have another shape than the documented one, carry a *)
(* finish reason, and carry usage figures; the text of a delta is left out.  *)
GroqFrames   == [valid : BOOLEAN, finish : BOOLEAN, usage : {FALSE}]
GeminiFrames == [valid : BOOLEAN, finish : BOOLEAN, usage : BOOLEAN]
StreamFrames(p) == IF p = "groq" THEN GroqFrames ELSE GeminiFrames

(* An adapter remembers whether it saw the signal that ends a stream. *)
FreshStream == FALSE

(* Groq remembers a finish reason and yields "done" after the last frame;    *)
(* Gemini yields "done" for every frame with a finish reason or usage.       *)
GeminiFinal(f) == f.valid /\ (f.finish \/ f.usage)
AfterFrame(p, finished, f) ==
  \/ finished
  \/ IF p = "groq" THEN f.valid /\ f.finish ELSE GeminiFinal(f)
FrameEvents(p, f) == IF p = "gemini" /\ GeminiFinal(f) THEN <<"done">> ELSE <<>>

(* Mutant: a Groq stream without a finish reason counts as complete. *)
FinishedUnchecked(p, finished) == p = "groq" \/ finished

(* The upstream closed the stream: without a final signal it was cut off. *)
Finished(p, finished) == finished
EndEvents(p, finished) == IF p = "groq" /\ finished THEN <<"done">> ELSE <<>>
=============================================================================
