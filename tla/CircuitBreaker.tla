--------------------------- MODULE CircuitBreaker ---------------------------
(***************************************************************************)
(* RedisCircuitBreaker for one (provider, model) pair: callers of several  *)
(* gateway processes share four Redis keys and change them with optimistic *)
(* WATCH / MULTI / EXEC transactions, each on a connection of its own.     *)
(* Every transaction watches all four keys, so a write to any of them      *)
(* between its reads and its EXEC makes it abort and start over.           *)
(*                                                                         *)
(* WATCH and the reads after it are one step: a write between them only    *)
(* makes the transaction abort, as a write right after the reads does.     *)
(* Time is abstracted: a cooldown is over, and a key with a TTL expires,   *)
(* at any moment.  An expired watched key aborts the EXEC.                 *)
(***************************************************************************)
EXTENDS Integers

CONSTANTS
  Callers,      \* concurrent calls to the provider, over all processes
  Tokens,       \* trial tokens (randomUUID)
  NoToken,      \* no token, or an absent trial lock
  Threshold,    \* failureThreshold
  MaxRetries,   \* MAX_OPTIMISTIC_RETRIES
  MaxFailures   \* bound on the failure counter

ASSUME CircuitBreakerAssumption ==
  /\ NoToken \notin Tokens
  /\ Threshold \in Nat \ {0}
  /\ MaxRetries \in Nat \ {0}
  /\ MaxFailures \in Nat

VARIABLES
  state,        \* the state key
  failures,     \* the failures key, 0 when absent
  windowed,     \* whether the failures key has its TTL
  openedAt,     \* the opened_at key, seen through the cooldown
  trialLock,    \* the trial_lock key
  pc,           \* where each caller is
  op,           \* the transaction it runs
  token,        \* the trial token it holds
  tries,        \* attempts of the transaction so far
  dirty         \* callers whose watched keys were written since their WATCH

keyVars == <<state, failures, windowed, openedAt, trialLock>>
vars == <<keyVars, pc, op, token, tries, dirty>>

Ops == {"none", "claim", "close", "reopen", "reset", "trip"}

TypeOK ==
  /\ state \in {"absent", "closed", "open"}
  /\ failures \in Nat
  /\ windowed \in BOOLEAN
  /\ openedAt \in {"absent", "recent", "elapsed"}
  /\ trialLock \in Tokens \cup {NoToken}
  /\ pc \in [Callers -> {"idle", "cooldown", "watch", "exec", "calling", "expire"}]
  /\ op \in [Callers -> Ops]
  /\ token \in [Callers -> Tokens \cup {NoToken}]
  /\ tries \in [Callers -> 0..(MaxRetries - 1)]
  /\ dirty \subseteq Callers

Init ==
  /\ state = "absent"
  /\ failures = 0
  /\ windowed = FALSE
  /\ openedAt = "absent"
  /\ trialLock = NoToken
  /\ pc = [c \in Callers |-> "idle"]
  /\ op = [c \in Callers |-> "none"]
  /\ token = [c \in Callers |-> NoToken]
  /\ tries = [c \in Callers |-> 0]
  /\ dirty = {}

-----------------------------------------------------------------------------
GoTo(c, p) == pc' = [pc EXCEPT ![c] = p]

(* Some watched key was written: every transaction under way will abort. *)
Touch == dirty' = {c \in Callers : pc[c] = "exec"}

(* The caller is done with the breaker for this call. *)
Leave(c) ==
  /\ GoTo(c, "idle")
  /\ op' = [op EXCEPT ![c] = "none"]
  /\ token' = [token EXCEPT ![c] = NoToken]
  /\ tries' = [tries EXCEPT ![c] = 0]

Transact(c, o) ==
  /\ GoTo(c, "watch")
  /\ op' = [op EXCEPT ![c] = o]
  /\ tries' = [tries EXCEPT ![c] = 0]
  /\ UNCHANGED token

(* The call goes to the provider, as a trial if it has a token. *)
Call(c, t) ==
  /\ GoTo(c, "calling")
  /\ op' = [op EXCEPT ![c] = "none"]
  /\ token' = [token EXCEPT ![c] = t]
  /\ tries' = [tries EXCEPT ![c] = 0]

-----------------------------------------------------------------------------
(* checkAndReserve: two plain reads, then the transaction of tryClaimTrial. *)

Check(c) ==
  /\ pc[c] = "idle"
  /\ IF state = "open" THEN GoTo(c, "cooldown") /\ UNCHANGED <<op, token, tries>>
                       ELSE Call(c, NoToken)
  /\ UNCHANGED <<keyVars, dirty>>

CheckCooldown(c) ==
  /\ pc[c] = "cooldown"
  /\ IF openedAt = "recent" THEN Leave(c) ELSE Transact(c, "claim")
  /\ UNCHANGED <<keyVars, dirty>>

(* recordSuccess *)
Succeed(c) ==
  /\ pc[c] = "calling"
  /\ Transact(c, IF token[c] # NoToken THEN "close" ELSE "reset")
  /\ UNCHANGED <<keyVars, dirty>>

(* recordFailure of a trial *)
FailTrial(c) ==
  /\ pc[c] = "calling"
  /\ token[c] # NoToken
  /\ Transact(c, "reopen")
  /\ UNCHANGED <<keyVars, dirty>>

(* recordFailure of a normal call: INCR, PEXPIRE, and open at the threshold. *)
Fail(c) ==
  /\ pc[c] = "calling"
  /\ token[c] = NoToken
  /\ failures < MaxFailures
  /\ failures' = failures + 1
  /\ GoTo(c, "expire")
  /\ op' = [op EXCEPT ![c] = IF failures' >= Threshold THEN "trip" ELSE "none"]
  /\ Touch
  /\ UNCHANGED <<state, windowed, openedAt, trialLock, token, tries>>

SetWindow(c) ==
  /\ pc[c] = "expire"
  /\ windowed' = (failures > 0)
  /\ IF failures > 0 THEN Touch ELSE UNCHANGED dirty
  /\ IF op[c] = "trip" THEN Transact(c, "trip") ELSE Leave(c)
  /\ UNCHANGED <<state, failures, openedAt, trialLock>>

-----------------------------------------------------------------------------
(* The five transactions. *)

(* Mutant: the trial's transaction does not compare the lock's value. *)
ProceedsAnyTrial(c) ==
  \/ op[c] = "claim" /\ state = "open" /\ openedAt # "recent"
  \/ op[c] \in {"close", "reopen"}
  \/ op[c] = "reset" /\ state # "open"
  \/ op[c] = "trip" /\ state # "open" /\ failures >= Threshold

(* Whether the reads let the transaction go on to its EXEC. *)
Proceeds(c) ==
  \/ op[c] = "claim" /\ state = "open" /\ openedAt # "recent"
  \/ op[c] \in {"close", "reopen"} /\ trialLock = token[c]
  \/ op[c] = "reset" /\ state # "open"
  \/ op[c] = "trip" /\ state # "open" /\ failures >= Threshold

Watch(c) ==
  /\ pc[c] = "watch"
  /\ \/ Proceeds(c) /\ GoTo(c, "exec") /\ UNCHANGED <<op, token, tries>>
     \/ ~Proceeds(c) /\ op[c] = "claim" /\ state # "open" /\ Call(c, NoToken)
     \/ ~Proceeds(c) /\ ~(op[c] = "claim" /\ state # "open") /\ Leave(c)
  /\ UNCHANGED <<keyVars, dirty>>

(* EXEC of a transaction whose keys are as it read them. *)
Commits(c, o) == pc[c] = "exec" /\ op[c] = o /\ c \notin dirty

Committed(c) == dirty' = {d \in Callers : pc[d] = "exec"} \ {c}

(* Mutant: SET without NX. *)
ExecClaimOverwrites(c) ==
  /\ Commits(c, "claim")
  /\ \E t \in Tokens :
       /\ \A d \in Callers : token[d] # t
       /\ trialLock' = t
       /\ Call(c, t)
  /\ Committed(c)
  /\ UNCHANGED <<state, failures, windowed, openedAt>>

(* SET trial_lock NX: the claim is denied if another trial is in force. *)
ExecClaim(c) ==
  /\ Commits(c, "claim")
  /\ trialLock = NoToken
  /\ \E t \in Tokens :
       /\ \A d \in Callers : token[d] # t
       /\ trialLock' = t
       /\ Call(c, t)
  /\ Committed(c)
  /\ UNCHANGED <<state, failures, windowed, openedAt>>

ExecClaimTaken(c) ==
  /\ Commits(c, "claim")
  /\ trialLock # NoToken
  /\ Leave(c)
  /\ UNCHANGED <<keyVars, dirty>>

SetClosed ==
  state' = "closed" /\ failures' = 0 /\ windowed' = FALSE /\ openedAt' = "absent"

SetOpen == state' = "open" /\ openedAt' = "recent" /\ UNCHANGED <<failures, windowed>>

ExecClose(c) ==
  /\ Commits(c, "close")
  /\ SetClosed
  /\ trialLock' = NoToken
  /\ Leave(c)
  /\ Committed(c)

ExecReopen(c) ==
  /\ Commits(c, "reopen")
  /\ SetOpen
  /\ trialLock' = NoToken
  /\ Leave(c)
  /\ Committed(c)

ExecReset(c) ==
  /\ Commits(c, "reset")
  /\ SetClosed
  /\ Leave(c)
  /\ Committed(c)
  /\ UNCHANGED trialLock

ExecTrip(c) ==
  /\ Commits(c, "trip")
  /\ SetOpen
  /\ Leave(c)
  /\ Committed(c)
  /\ UNCHANGED trialLock

(* Mutant: one attempt more than MAX_OPTIMISTIC_RETRIES. *)
ExecAbortsOnceMore(c) ==
  /\ pc[c] = "exec"
  /\ c \in dirty
  /\ IF tries[c] < MaxRetries
       THEN GoTo(c, "watch") /\ tries' = [tries EXCEPT ![c] = @ + 1] /\ UNCHANGED <<op, token>>
       ELSE Leave(c)
  /\ dirty' = dirty \ {c}
  /\ UNCHANGED keyVars

(* The EXEC aborts: fresh reads, or nothing more once the retries are used up. *)
ExecAborts(c) ==
  /\ pc[c] = "exec"
  /\ c \in dirty
  /\ IF tries[c] + 1 < MaxRetries
       THEN GoTo(c, "watch") /\ tries' = [tries EXCEPT ![c] = @ + 1] /\ UNCHANGED <<op, token>>
       ELSE Leave(c)
  /\ dirty' = dirty \ {c}
  /\ UNCHANGED keyVars

(* A Redis command throws, or the process dies: the caller is gone. *)
GiveUp(c) ==
  /\ pc[c] # "idle"
  /\ Leave(c)
  /\ dirty' = dirty \ {c}
  /\ UNCHANGED keyVars

-----------------------------------------------------------------------------
(* Time. *)

callerVars == <<pc, op, token, tries>>

CooldownElapses ==
  /\ openedAt = "recent"
  /\ openedAt' = "elapsed"
  /\ UNCHANGED <<state, failures, windowed, trialLock, callerVars, dirty>>

(* Mutant: the trial lock has no TTL. *)
TrialLockStays == FALSE /\ UNCHANGED vars

TrialLockExpires ==
  /\ trialLock # NoToken
  /\ trialLock' = NoToken
  /\ Touch
  /\ UNCHANGED <<state, failures, windowed, openedAt, callerVars>>

FailuresExpire ==
  /\ failures > 0 /\ windowed
  /\ failures' = 0 /\ windowed' = FALSE
  /\ Touch
  /\ UNCHANGED <<state, openedAt, trialLock, callerVars>>

(* stateTtlMs: the state key goes, and opened_at, set with it, does too. *)
StateExpires ==
  /\ state # "absent"
  /\ openedAt # "recent"
  /\ state' = "absent" /\ openedAt' = "absent"
  /\ Touch
  /\ UNCHANGED <<failures, windowed, trialLock, callerVars>>

-----------------------------------------------------------------------------
Admission(c) == Check(c) \/ CheckCooldown(c)

Report(c) == Succeed(c) \/ FailTrial(c) \/ Fail(c) \/ SetWindow(c)

Exec(c) ==
  \/ ExecClaim(c) \/ ExecClaimTaken(c) \/ ExecClose(c) \/ ExecReopen(c)
  \/ ExecReset(c) \/ ExecTrip(c) \/ ExecAborts(c)

Time == CooldownElapses \/ TrialLockExpires \/ FailuresExpire \/ StateExpires

Next ==
  \/ \E c \in Callers : Admission(c) \/ Report(c) \/ Watch(c) \/ Exec(c) \/ GiveUp(c)
  \/ Time

Spec == Init /\ [][Next]_vars

(***************************************************************************)
(* Calls keep arriving and proceed, the cooldown runs and trial locks      *)
(* expire.  Strong fairness on the steps of a check and its claim: Redis   *)
(* may fail, and processes may die, again and again but not at every try.  *)
(***************************************************************************)
Fairness ==
  /\ \A c \in Callers : WF_vars(Check(c)) /\ WF_vars(Report(c))
  /\ SF_vars(\E c \in Callers : CheckCooldown(c))
  /\ SF_vars(\E c \in Callers : Watch(c))
  /\ SF_vars(\E c \in Callers : Exec(c))
  /\ WF_vars(CooldownElapses)
  /\ WF_vars(TrialLockExpires)

FairSpec == Spec /\ Fairness

-----------------------------------------------------------------------------
(* Properties. *)

(* What a transaction read still holds whenever its EXEC would commit: no   *)
(* write to any of the four keys, by a transaction, a plain INCR or an      *)
(* expiry, slips in unnoticed (the WATCH of all four keys).                 *)
WatchSound == \A c \in Callers : pc[c] = "exec" /\ c \notin dirty => Proceeds(c)

(* An open breaker is closed only by the success of the trial in force: not *)
(* by late successes of calls admitted before it opened, nor by a trial     *)
(* whose lock expired and was claimed again (resolveTrial, closeIfNotOpen). *)
ClosedOnlyByLiveTrial ==
  [][state = "open" /\ state' = "closed" =>
       \E c \in Callers : op[c] = "close" /\ token[c] = trialLock /\ trialLock # NoToken]_vars

(* A breaker opens only at the threshold, judged on the failure counter at  *)
(* that moment and not on what INCR returned earlier, or because the trial  *)
(* in force failed (openIfThresholdStillCrossed, resolveTrial).             *)
OpenedForCause ==
  [][state # "open" /\ state' = "open" =>
       failures >= Threshold \/ (trialLock # NoToken /\ trialLock' = NoToken)]_vars

(* An open breaker does not stay open unprobed: as long as calls arrive, a  *)
(* call goes out as the trial in force or the breaker closes, although      *)
(* trial holders may die (trialLockTtlMs) and claims abort under contention.*)
Probed == \E c \in Callers : pc[c] = "calling" /\ token[c] # NoToken /\ token[c] = trialLock

OpenIsProbed == state = "open" ~> state # "open" \/ Probed

(* Each operation takes effect as one atomic step of Breaker.               *)
Atomic == INSTANCE Breaker WITH
  open <- state = "open", cooled <- state = "open" /\ openedAt = "elapsed",
  trial <- trialLock, NoTrial <- NoToken

ImplementsBreaker == Atomic!Spec
=============================================================================
