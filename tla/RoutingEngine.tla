--------------------------- MODULE RoutingEngine ----------------------------
(***************************************************************************)
(* DefaultRoutingEngine with its strategies, retry policy and shadow       *)
(* dispatcher.  A call selects candidates, ranks them by health, and tries *)
(* them one after the other.  The circuit breaker and the health tracker   *)
(* have modules of their own: here they answer anything they may answer.   *)
(***************************************************************************)
EXTENDS ProviderAdapters, FiniteSets, SequencesExt

CONSTANTS
  Calls,          \* calls of route() and routeStream()
  Policies,       \* routing policies the calls may carry
  MaxAttempts,    \* maxAttempts of the retry policy
  MaxPinTries     \* MAX_OPTIMISTIC_RETRIES of the sticky strategy

ASSUME RoutingBounds == MaxAttempts \in Nat \ {0} /\ MaxPinTries \in Nat \ {0}
ASSUME PoliciesAreTyped == \A policy \in Policies : policy.candidates \in Seq(Providers)

VARIABLES
  call,           \* state of each call
  registered,     \* providers the registry resolves
  cursor,         \* rr:{cursorKey}
  pin,            \* sticky:{sessionKey}: the pinned provider
  shadow          \* the shadow call of each call

engineVars == <<call, registered, cursor, pin, shadow>>

None == "none"

(* The candidate being tried: whether it holds a half-open trial, how often  *)
(* its provider was called and how the last call ended.  A finished one is   *)
(* in the log with what the breaker and the health tracker were told of it.  *)
Attempt(p, trial) == [provider |-> p, trial |-> trial, calls |-> 0, last |-> None]
NoAttempt == Attempt(None, FALSE)

IdleCall ==
  [pc |-> "idle", mode |-> "complete", policy |-> None, seen |-> None, moved |-> FALSE,
   tries |-> 0, queue |-> <<>>, front |-> None, current |-> NoAttempt, log |-> <<>>,
   cause |-> NoFailure]

EngineInit ==
  /\ call = [c \in Calls |-> IdleCall]
  /\ registered = Providers
  /\ cursor = 0
  /\ pin = None
  /\ shadow = [c \in Calls |-> None]

----------------------------------------------------------------------------
(* Strategies *)

(* find() takes the first match, filter() drops the object it is given and   *)
(* no other, and sort() keeps the order of equals: candidates go by their    *)
(* places, as a policy may name one twice.                                   *)
FirstAt(candidates, p) ==
  CHOOSE i \in DOMAIN candidates : candidates[i] = p /\ \A j \in 1..(i - 1) : candidates[j] # p
SortedDown(candidates, key) ==
  LET order == SortSeq([i \in DOMAIN candidates |-> i],
                       LAMBDA i, j : key[i] > key[j] \/ (key[i] = key[j] /\ i < j))
  IN [i \in DOMAIN candidates |-> candidates[order[i]]]

RotateToFront(candidates, i) == <<candidates[i]>> \o RemoveAt(candidates, i)

(* The chosen candidate first, the rest in order of weight. *)
ManualCandidates(policy) == {policy.candidates}
HealthAwareCandidates(policy) == {policy.candidates}
WeightedCandidates(policy) ==
  {<<policy.candidates[i]>> \o SortedDown(RemoveAt(policy.candidates, i), RemoveAt(policy.weight, i))
     : i \in DOMAIN policy.candidates}

(* Mutant: the second slice ends one too late. *)
RoundRobinOverlapping(policy, turn) ==
  LET offset == (turn - 1) % Len(policy.candidates)
  IN SubSeq(policy.candidates, offset + 1, Len(policy.candidates))
       \o SubSeq(policy.candidates, 1, offset + 1)

RoundRobinCandidates(policy, turn) ==
  LET offset == (turn - 1) % Len(policy.candidates)
  IN SubSeq(policy.candidates, offset + 1, Len(policy.candidates))
       \o SubSeq(policy.candidates, 1, offset)

(* What the admin endpoint's shape guard lets through, and what the strategy *)
(* itself still refuses when the call selects its candidates.                *)
ValidShape(policy) ==
  \/ policy.type = "manual"
  \/ policy.type \in {"weighted", "health_aware", "round_robin", "sticky"} /\ policy.candidates # <<>>
StrategyRefuses(policy) ==
  \/ policy.candidates = <<>>
  \/ policy.type = "weighted" /\ \E i \in DOMAIN policy.weight : policy.weight[i] <= 0

----------------------------------------------------------------------------
(* Calls *)

At(c, pc) == call[c].pc = pc

(* What outlives the call: how it ended, its log and the first cause. *)
Ends(c, pc) ==
  call' = [call EXCEPT ![c] = [IdleCall EXCEPT !.pc = pc, !.mode = call[c].mode,
                                               !.log = call[c].log, !.cause = call[c].cause]]

(* route() and routeStream() look the strategy up; route() also mirrors the  *)
(* request when the policy has a shadow and the sample says so.              *)
Start(c, mode, policy) ==
  /\ At(c, "idle")
  /\ IF policy.type = "unknown"
     THEN Ends(c, "threw")
     ELSE call' = [call EXCEPT ![c].pc = "select", ![c].mode = mode, ![c].policy = policy]
  /\ \/ UNCHANGED shadow
     \/ /\ mode = "complete" /\ policy.type # "unknown" /\ policy.shadow
        /\ shadow' = [shadow EXCEPT ![c] = "running"]
  /\ UNCHANGED <<registered, cursor, pin>>

(* The shadow call tells the health tracker its own outcome and nobody else. *)
ShadowEnds(c) ==
  /\ shadow[c] = "running"
  /\ shadow' = [shadow EXCEPT ![c] = "recorded"]
  /\ UNCHANGED <<call, registered, cursor, pin>>

(* call[c] with its candidates in the order the engine will try them: the    *)
(* scorer reads the health of every candidate and the engine sorts by it,    *)
(* keeping the strategy's order between equals.                              *)
Rankings(c, candidates) ==
  {[call[c] EXCEPT !.pc = "next", !.queue = SortedDown(candidates, score), !.front = Head(candidates),
                   !.policy = None, !.seen = None, !.moved = FALSE, !.tries = 0]
     : score \in [DOMAIN candidates -> {0, 1}]}
Rank(c, candidates) == \E r \in Rankings(c, candidates) : call' = [call EXCEPT ![c] = r]

Selecting(c, type) ==
  At(c, "select") /\ call[c].policy.type = type /\ ~StrategyRefuses(call[c].policy)

(* The strategy refuses the policy, or Redis fails under the strategy or the *)
(* scorer: the error leaves route() as it is.                                *)
SelectThrows(c) ==
  /\ At(c, "select")
  /\ Ends(c, "threw")
  /\ UNCHANGED <<registered, cursor, pin, shadow>>

SelectLocally(c) ==
  /\ \/ /\ Selecting(c, "manual")
        /\ \E q \in ManualCandidates(call[c].policy) : Rank(c, q)
     \/ /\ Selecting(c, "weighted")
        /\ \E q \in WeightedCandidates(call[c].policy) : Rank(c, q)
     \/ /\ Selecting(c, "health_aware")
        /\ \E q \in HealthAwareCandidates(call[c].policy) : Rank(c, q)
  /\ UNCHANGED <<registered, cursor, pin, shadow>>

TakeTurn(c) ==
  /\ Selecting(c, "round_robin")
  /\ cursor' = cursor + 1
  /\ Rank(c, RoundRobinCandidates(call[c].policy, cursor'))
  /\ UNCHANGED <<registered, pin, shadow>>

(* The sticky strategy: WATCH and GET. *)
ReadPin(c) ==
  /\ Selecting(c, "sticky")
  /\ call' = [call EXCEPT ![c].pc = "pinning", ![c].seen = pin, ![c].tries = @ + 1]
  /\ UNCHANGED <<registered, cursor, pin, shadow>>

(* A write of the pin moves it under every call that watches it. *)
Watchers(c) == {d \in Calls \ {c} : At(d, "pinning")}
RankAsWriter(c, candidates) ==
  \E r \in Rankings(c, candidates) :
    call' = [d \in Calls |-> IF d = c THEN r
                             ELSE IF d \in Watchers(c) THEN [call[d] EXCEPT !.moved = TRUE] ELSE call[d]]

(* Mutant: the pin is not watched. *)
CommitPinUnwatched(c) ==
  /\ At(c, "pinning")
  /\ LET candidates == call[c].policy.candidates
         chosen == IF call[c].seen \in ToSet(candidates) THEN FirstAt(candidates, call[c].seen) ELSE 1
     IN pin' = candidates[chosen] /\ RankAsWriter(c, RotateToFront(candidates, chosen))
  /\ UNCHANGED <<registered, cursor, shadow>>

(* MULTI/EXEC: a valid pin is refreshed, an absent or stale one is claimed   *)
(* for the first candidate, and a pin written since WATCH aborts.            *)
CommitPin(c) ==
  /\ At(c, "pinning")
  /\ LET candidates == call[c].policy.candidates
         chosen == IF call[c].seen \in ToSet(candidates) THEN FirstAt(candidates, call[c].seen) ELSE 1
     IN IF call[c].moved
        THEN /\ UNCHANGED pin
             /\ IF call[c].tries < MaxPinTries
                THEN call' = [call EXCEPT ![c].pc = "select", ![c].seen = None, ![c].moved = FALSE]
                ELSE Rank(c, RotateToFront(candidates, 1))
        ELSE /\ pin' = candidates[chosen]
             /\ RankAsWriter(c, RotateToFront(candidates, chosen))
  /\ UNCHANGED <<registered, cursor, shadow>>

(* An operator disables a provider under running calls (bound: one). *)
Disable(p) ==
  /\ registered = Providers
  /\ registered' = registered \ {p}
  /\ UNCHANGED <<call, cursor, pin, shadow>>

(* Statuses of the errors a skipped candidate leaves. *)
NotRegisteredCause == 502
CircuitOpen == 503

FirstCause(c, cause) == IF call[c].cause = NoFailure THEN cause ELSE call[c].cause

Skip(c, cause) ==
  call' = [call EXCEPT ![c].queue = Tail(@), ![c].front = None, ![c].cause = FirstCause(c, cause)]

(* The next candidate: the registry first, then the breaker. *)
NotRegistered(c) ==
  /\ At(c, "next") /\ call[c].queue # <<>> /\ Head(call[c].queue) \notin registered
  /\ Skip(c, NotRegisteredCause)
  /\ UNCHANGED <<registered, cursor, pin, shadow>>

Resolved(c) == At(c, "next") /\ call[c].queue # <<>> /\ Head(call[c].queue) \in registered

BreakerOpen(c) ==
  /\ Resolved(c)
  /\ Skip(c, CircuitOpen)
  /\ UNCHANGED <<registered, cursor, pin, shadow>>

BreakerThrows(c) ==
  /\ Resolved(c)
  /\ Ends(c, "threw")
  /\ UNCHANGED <<registered, cursor, pin, shadow>>

Reserve(c) ==
  /\ Resolved(c)
  /\ \E trial \in BOOLEAN :
       call' = [call EXCEPT ![c].pc = "calling", ![c].queue = Tail(@), ![c].front = None,
                            ![c].current = Attempt(Head(call[c].queue), trial)]
  /\ UNCHANGED <<registered, cursor, pin, shadow>>

Called(c, last) == [call[c].current EXCEPT !.calls = @ + 1, !.last = last]

(* Mutant: a half-open trial is retried like any call. *)
MayRetryTrial(c, retryable) ==
  call[c].mode = "complete" /\ retryable /\ call[c].current.calls + 1 < MaxAttempts

(* The retry policy runs only for a non-stream call outside a trial. *)
MayRetry(c, retryable) ==
  /\ call[c].mode = "complete" /\ ~call[c].current.trial
  /\ retryable /\ call[c].current.calls + 1 < MaxAttempts

(* The provider answered: a response, or an error that is retried or final. *)
ProviderAnswers(c, answer) ==
  /\ At(c, "calling")
  /\ call' = [call EXCEPT ![c] =
       IF answer = Success
       THEN [@ EXCEPT !.pc = "succeeded", !.current = Called(c, "ok")]
       ELSE IF MayRetry(c, answer.retryable)
       THEN [@ EXCEPT !.current = Called(c, "error")]
       ELSE [@ EXCEPT !.pc = "failed", !.current = Called(c, "error"),
                      !.cause = FirstCause(c, answer.status)]]
  /\ UNCHANGED <<registered, cursor, pin, shadow>>

(* recordOutcome(): breaker, then health tracker, each guarded. *)
Settled(c, outcome) ==
  Append(call[c].log, [provider |-> call[c].current.provider, last |-> call[c].current.last,
                       told |-> outcome])

RecordSuccess(c) ==
  /\ At(c, "succeeded")
  /\ call' = [call EXCEPT ![c] =
       [IdleCall EXCEPT !.pc = IF call[c].mode = "complete" THEN "response" ELSE "streaming",
                        !.mode = call[c].mode, !.log = Settled(c, "success"), !.cause = call[c].cause]]
  /\ UNCHANGED <<registered, cursor, pin, shadow>>

RecordFailure(c) ==
  /\ At(c, "failed")
  /\ call' = [call EXCEPT ![c].pc = "next", ![c].log = Settled(c, "failure"), ![c].current = NoAttempt]
  /\ UNCHANGED <<registered, cursor, pin, shadow>>

Exhausted(c) ==
  /\ At(c, "next") /\ call[c].queue = <<>>
  /\ Ends(c, "unavailable")
  /\ UNCHANGED <<registered, cursor, pin, shadow>>

EngineStep(c) ==
  \/ ShadowEnds(c) \/ SelectThrows(c) \/ SelectLocally(c) \/ TakeTurn(c) \/ ReadPin(c) \/ CommitPin(c)
  \/ NotRegistered(c) \/ BreakerOpen(c) \/ BreakerThrows(c) \/ Reserve(c)
  \/ RecordSuccess(c) \/ RecordFailure(c) \/ Exhausted(c)
=============================================================================
