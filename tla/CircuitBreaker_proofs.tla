----------------------- MODULE CircuitBreaker_proofs -----------------------
(***************************************************************************)
(* Proofs about CircuitBreaker for any number of callers and trial tokens, *)
(* any threshold and any number of retries.  The inductive invariant says  *)
(* that what a transaction read still holds whenever its EXEC would commit.*)
(***************************************************************************)
EXTENDS CircuitBreaker, TLAPS

-----------------------------------------------------------------------------
(* The inductive invariant. *)

(* opened_at is set and dropped together with the state "open". *)
KeysInv == state = "open" <=> openedAt # "absent"

(* Only a caller that holds a trial's token closes or reopens the breaker. *)
TrialInv == \A c \in Callers : op[c] \in {"close", "reopen"} => token[c] # NoToken

IInv == TypeOK /\ KeysInv /\ TrialInv /\ WatchSound

-----------------------------------------------------------------------------
(* Steps by what they do to a caller and to the keys. *)

(* What every step of a caller leaves of the others. *)
OthersStay(c) == \A d \in Callers \ {c} : pc'[d] = pc[d] /\ op'[d] = op[d] /\ token'[d] = token[d]

CallerTypes ==
  /\ pc \in [Callers -> {"idle", "cooldown", "watch", "exec", "calling", "expire"}]
  /\ op \in [Callers -> Ops]
  /\ token \in [Callers -> Tokens \cup {NoToken}]
  /\ tries \in [Callers -> 0..(MaxRetries - 1)]

(* A caller that leaves holds nothing. *)
LEMMA Leaving ==
  ASSUME CallerTypes, NEW c \in Callers, Leave(c)
  PROVE  CallerTypes' /\ OthersStay(c) /\ pc'[c] = "idle" /\ op'[c] = "none"
<1>1. 0 \in 0..(MaxRetries - 1) BY CircuitBreakerAssumption
<1> QED BY <1>1 DEF Leave, GoTo, CallerTypes, Ops, OthersStay

(* A caller that starts a transaction keeps its token. *)
LEMMA Transacting ==
  ASSUME CallerTypes, NEW c \in Callers, NEW o \in Ops, Transact(c, o)
  PROVE  CallerTypes' /\ OthersStay(c) /\ pc'[c] = "watch" /\ op'[c] = o /\ token' = token
<1>1. 0 \in 0..(MaxRetries - 1) BY CircuitBreakerAssumption
<1> QED BY <1>1 DEF Transact, GoTo, CallerTypes, OthersStay

(* A caller that calls the provider is in no transaction. *)
LEMMA Calling ==
  ASSUME CallerTypes, NEW c \in Callers, NEW t \in Tokens \cup {NoToken}, Call(c, t)
  PROVE  CallerTypes' /\ OthersStay(c) /\ pc'[c] = "calling" /\ op'[c] = "none"
<1>1. 0 \in 0..(MaxRetries - 1) BY CircuitBreakerAssumption
<1> QED BY <1>1 DEF Call, GoTo, CallerTypes, Ops, OthersStay

(* A caller's step that leaves what transactions read as it is, and makes   *)
(* no transaction look clean that was not, keeps the invariant.             *)
LEMMA QuietStep ==
  ASSUME IInv, NEW c \in Callers, TypeOK', OthersStay(c),
         UNCHANGED <<state, failures, openedAt, trialLock>>,
         pc'[c] # "exec", op'[c] \in {"close", "reopen"} => token'[c] # NoToken,
         dirty \ {c} \subseteq dirty' 
  PROVE  IInv'
<1>1. KeysInv' BY DEF IInv, KeysInv
<1>2. TrialInv' BY DEF IInv, TrialInv, OthersStay
<1>3. WatchSound' 
  <2> SUFFICES ASSUME NEW d \in Callers, pc'[d] = "exec", d \notin dirty' PROVE Proceeds(d)'
    BY DEF WatchSound
  <2>1. d # c /\ pc[d] = "exec" /\ d \notin dirty BY DEF OthersStay
  <2>2. Proceeds(d) BY <2>1 DEF IInv, WatchSound
  <2> QED BY <2>1, <2>2 DEF Proceeds, OthersStay
<1> QED BY <1>1, <1>2, <1>3 DEF IInv

(* A caller's step that writes keys spoils every other transaction.         *)
LEMMA WritingStep ==
  ASSUME IInv, NEW c \in Callers, TypeOK', OthersStay(c), KeysInv',
         pc'[c] # "exec", op'[c] \in {"close", "reopen"} => token'[c] # NoToken,
         \A d \in Callers \ {c} : pc[d] = "exec" => d \in dirty'
  PROVE  IInv'
<1>1. TrialInv' BY DEF IInv, TrialInv, OthersStay
<1>2. WatchSound' BY DEF WatchSound, OthersStay
<1> QED BY <1>1, <1>2 DEF IInv

-----------------------------------------------------------------------------
(* The invariant holds. *)

(* The invariant holds on an empty Redis. *)
LEMMA InitInv == Init => IInv
<1> SUFFICES ASSUME Init PROVE IInv OBVIOUS
<1>1. 0 \in 0..(MaxRetries - 1) BY CircuitBreakerAssumption
<1>2. TypeOK BY <1>1 DEF Init, TypeOK, Ops
<1> QED BY <1>2 DEF Init, IInv, KeysInv, TrialInv, WatchSound

(* Admission reads plainly; nothing is written. *)
LEMMA AdmissionInv == ASSUME IInv, NEW c \in Callers, Admission(c) PROVE IInv'
<1>1. CallerTypes /\ UNCHANGED <<keyVars, dirty>>
  BY DEF IInv, TypeOK, CallerTypes, Admission, Check, CheckCooldown
<1>2. /\ CallerTypes' /\ OthersStay(c) /\ pc'[c] # "exec"
      /\ op'[c] \in {"close", "reopen"} => token'[c] # NoToken
  <2>1. CASE Check(c) /\ state = "open"
    <3>1. op[c] \in {"close", "reopen"} => token[c] # NoToken BY DEF IInv, TrialInv
    <3>2. pc' = [pc EXCEPT ![c] = "cooldown"] /\ UNCHANGED <<op, token, tries>>
      BY <2>1 DEF Check, GoTo
    <3> QED BY <1>1, <3>1, <3>2 DEF CallerTypes, OthersStay
  <2>2. CASE Check(c) /\ state # "open" BY <1>1, <2>2, Calling DEF Check
  <2>3. CASE CheckCooldown(c) /\ openedAt = "recent" BY <1>1, <2>3, Leaving DEF CheckCooldown
  <2>4. CASE CheckCooldown(c) /\ openedAt # "recent"
    <3>1. "claim" \in Ops BY DEF Ops
    <3> QED BY <1>1, <2>4, <3>1, Transacting DEF CheckCooldown
  <2> QED BY <2>1, <2>2, <2>3, <2>4 DEF Admission
<1>3. TypeOK' BY <1>1, <1>2 DEF IInv, TypeOK, CallerTypes, keyVars
<1> QED BY <1>1, <1>2, <1>3, QuietStep DEF keyVars

(* The outcome of a call: a transaction, or INCR and PEXPIRE.               *)
LEMMA ReportInv == ASSUME IInv, NEW c \in Callers, Report(c) PROVE IInv'
<1>1. CallerTypes BY DEF IInv, TypeOK, CallerTypes
<1>2. CASE Succeed(c) \/ FailTrial(c)
  <2>1. PICK o \in Ops : /\ Transact(c, o) /\ UNCHANGED <<keyVars, dirty>>
                         /\ o \in {"close", "reopen"} => token[c] # NoToken
    BY <1>2 DEF Succeed, FailTrial, Ops
  <2>2. CallerTypes' /\ OthersStay(c) /\ pc'[c] = "watch" /\ op'[c] = o /\ token' = token
    BY <1>1, <2>1, Transacting
  <2>3. TypeOK' BY <2>1, <2>2 DEF IInv, TypeOK, CallerTypes, keyVars
  <2> QED BY <2>1, <2>2, <2>3, QuietStep DEF keyVars
<1>3. CASE Fail(c)
  <2>1. failures + 1 \in Nat BY DEF IInv, TypeOK
  <2>2. /\ op'[c] \in {"trip", "none"} /\ pc'[c] = "expire" /\ OthersStay(c)
        /\ op' \in [Callers -> Ops]
        /\ pc' \in [Callers -> {"idle", "cooldown", "watch", "exec", "calling", "expire"}]
    BY <1>1, <1>3 DEF Fail, GoTo, CallerTypes, OthersStay, Ops
  <2>3. TypeOK' BY <1>1, <1>3, <2>1, <2>2 DEF Fail, IInv, TypeOK, CallerTypes, Touch
  <2>4. KeysInv' BY <1>3 DEF Fail, IInv, KeysInv
  <2> QED BY <1>3, <2>2, <2>3, <2>4, WritingStep DEF Fail, Touch
<1>4. CASE SetWindow(c)
  <2>1. UNCHANGED <<state, failures, openedAt, trialLock>> /\ windowed' \in BOOLEAN
    BY <1>4 DEF SetWindow
  <2>2. dirty' \subseteq Callers /\ (dirty' = dirty \/ dirty' = {d \in Callers : pc[d] = "exec"})
    BY <1>4 DEF SetWindow, Touch, IInv, TypeOK
  <2>3. /\ CallerTypes' /\ OthersStay(c) /\ pc'[c] # "exec"
        /\ op'[c] \notin {"close", "reopen"}
    <3>1. CASE op[c] = "trip"
      <4>1. "trip" \in Ops BY DEF Ops
      <4> QED BY <1>1, <1>4, <3>1, <4>1, Transacting DEF SetWindow
    <3>2. CASE op[c] # "trip" BY <1>1, <1>4, <3>2, Leaving DEF SetWindow
    <3> QED BY <3>1, <3>2
  <2>4. TypeOK' BY <2>1, <2>2, <2>3 DEF IInv, TypeOK, CallerTypes
  <2>5. KeysInv' BY <2>1 DEF IInv, KeysInv
  <2>6. CASE dirty' = dirty BY <2>1, <2>3, <2>4, <2>6, QuietStep
  <2>7. CASE dirty' = {d \in Callers : pc[d] = "exec"}
    BY <2>3, <2>4, <2>5, <2>7, WritingStep
  <2> QED BY <2>2, <2>6, <2>7
<1> QED BY <1>2, <1>3, <1>4 DEF Report

(* WATCH and the reads: the transaction goes on with what it has just read. *)
LEMMA WatchInv == ASSUME IInv, NEW c \in Callers, Watch(c) PROVE IInv'
<1>1. CallerTypes BY DEF IInv, TypeOK, CallerTypes
<1>2. UNCHANGED <<keyVars, dirty>> BY DEF Watch
<1>3. CASE Proceeds(c) /\ GoTo(c, "exec") /\ UNCHANGED <<op, token, tries>>
  <2>1. CallerTypes' /\ \A d \in Callers \ {c} : pc'[d] = pc[d]
    BY <1>1, <1>3 DEF CallerTypes, GoTo
  <2>2. TypeOK' BY <1>2, <2>1 DEF IInv, TypeOK, CallerTypes, keyVars
  <2>3. WatchSound'
    <3> SUFFICES ASSUME NEW d \in Callers, pc'[d] = "exec", d \notin dirty' PROVE Proceeds(d)'
      BY DEF WatchSound
    <3>1. Proceeds(d) BY <1>2, <1>3, <2>1 DEF IInv, WatchSound
    <3> QED BY <1>2, <1>3, <3>1 DEF Proceeds, keyVars
  <2> QED BY <1>2, <1>3, <2>2, <2>3 DEF IInv, KeysInv, TrialInv, keyVars
<1>4. CASE Call(c, NoToken) \/ Leave(c)
  <2>1. /\ CallerTypes' /\ OthersStay(c) /\ pc'[c] # "exec" /\ op'[c] \notin {"close", "reopen"}
    BY <1>1, <1>4, Calling, Leaving
  <2>2. TypeOK' BY <1>2, <2>1 DEF IInv, TypeOK, CallerTypes, keyVars
  <2> QED BY <1>2, <2>1, <2>2, QuietStep DEF keyVars
<1> QED BY <1>3, <1>4 DEF Watch

(* EXEC: only a transaction that committed writes keys.                     *)
LEMMA ExecInv == ASSUME IInv, NEW c \in Callers, Exec(c) PROVE IInv'
<1>1. CallerTypes BY DEF IInv, TypeOK, CallerTypes
<1>2. CASE ExecClaim(c)
  <2>1. PICK t \in Tokens : trialLock' = t /\ Call(c, t) BY <1>2 DEF ExecClaim
  <2>2. CallerTypes' /\ OthersStay(c) /\ pc'[c] = "calling" /\ op'[c] = "none"
    BY <1>1, <2>1, Calling
  <2>3. TypeOK' BY <1>2, <2>1, <2>2 DEF ExecClaim, Committed, IInv, TypeOK, CallerTypes
  <2>4. KeysInv' BY <1>2 DEF ExecClaim, IInv, KeysInv
  <2> QED BY <1>2, <2>2, <2>3, <2>4, WritingStep DEF ExecClaim, Committed
<1>3. CASE ExecClose(c) \/ ExecReopen(c) \/ ExecReset(c) \/ ExecTrip(c)
  <2>1. CallerTypes' /\ OthersStay(c) /\ pc'[c] = "idle" /\ op'[c] = "none"
    BY <1>1, <1>3, Leaving DEF ExecClose, ExecReopen, ExecReset, ExecTrip
  <2>2. Committed(c) BY <1>3 DEF ExecClose, ExecReopen, ExecReset, ExecTrip
  <2>3. SetClosed \/ SetOpen BY <1>3 DEF ExecClose, ExecReopen, ExecReset, ExecTrip
  <2>4. trialLock' \in {trialLock, NoToken} BY <1>3 DEF ExecClose, ExecReopen, ExecReset, ExecTrip
  <2>5. KeysInv' BY <2>3 DEF SetClosed, SetOpen, KeysInv
  <2>6. TypeOK'
    <3>1. failures' \in Nat /\ windowed' \in BOOLEAN
      <4>1. failures' \in Nat BY <2>3 DEF SetClosed, SetOpen, IInv, TypeOK
      <4>2. windowed' = FALSE \/ windowed' = windowed BY <2>3 DEF SetClosed, SetOpen
      <4>3. windowed \in BOOLEAN BY DEF IInv, TypeOK
      <4> QED BY <4>1, <4>2, <4>3
    <3>2. state' \in {"absent", "closed", "open"} /\ openedAt' \in {"absent", "recent", "elapsed"}
      BY <2>3 DEF SetClosed, SetOpen
    <3>3. trialLock' \in Tokens \cup {NoToken} BY <2>4 DEF IInv, TypeOK
    <3>4. dirty' \subseteq Callers BY <2>2 DEF Committed
    <3> QED BY <2>1, <3>1, <3>2, <3>3, <3>4 DEF TypeOK, CallerTypes
  <2> QED BY <2>1, <2>2, <2>5, <2>6, WritingStep DEF Committed
<1>4. CASE ExecClaimTaken(c) \/ ExecAborts(c)
  <2>1. UNCHANGED keyVars /\ dirty \ {c} \subseteq dirty' /\ dirty' \subseteq dirty
    BY <1>4 DEF ExecClaimTaken, ExecAborts
  <2>2. /\ CallerTypes' /\ OthersStay(c) /\ pc'[c] # "exec"
        /\ op'[c] \in {"close", "reopen"} => token'[c] # NoToken
    <3>1. CASE Leave(c) BY <1>1, <3>1, Leaving
    <3>2. CASE /\ ExecAborts(c) /\ GoTo(c, "watch") /\ UNCHANGED <<op, token>>
               /\ tries[c] + 1 < MaxRetries /\ tries' = [tries EXCEPT ![c] = @ + 1]
      <4>1. tries[c] + 1 \in 0..(MaxRetries - 1) BY <1>1, <3>2, CircuitBreakerAssumption DEF CallerTypes
      <4> QED BY <1>1, <3>2, <4>1 DEF CallerTypes, GoTo, OthersStay, IInv, TrialInv
    <3> QED BY <1>4, <3>1, <3>2 DEF ExecClaimTaken, ExecAborts
  <2>3. TypeOK' BY <2>1, <2>2 DEF IInv, TypeOK, CallerTypes, keyVars
  <2> QED BY <2>1, <2>2, <2>3, QuietStep DEF keyVars
<1> QED BY <1>2, <1>3, <1>4 DEF Exec

(* A caller that gives up changes no key. *)
LEMMA GiveUpInv == ASSUME IInv, NEW c \in Callers, GiveUp(c) PROVE IInv'
<1>1. CallerTypes BY DEF IInv, TypeOK, CallerTypes
<1>2. CallerTypes' /\ OthersStay(c) /\ pc'[c] = "idle" /\ op'[c] = "none"
  BY <1>1, Leaving DEF GiveUp
<1>3. TypeOK' BY <1>2 DEF GiveUp, IInv, TypeOK, CallerTypes, keyVars
<1> QED BY <1>2, <1>3, QuietStep DEF GiveUp, keyVars

(* Expiries abort the transactions under way, and the end of the cooldown   *)
(* only makes more of them proceed.                                         *)
LEMMA TimeInv == ASSUME IInv, Time PROVE IInv'
<1>1. UNCHANGED callerVars /\ dirty' \subseteq Callers
  BY DEF Time, CooldownElapses, TrialLockExpires, FailuresExpire, StateExpires, Touch, IInv, TypeOK
<1>2. TypeOK' /\ KeysInv'
  <2>1. CASE CooldownElapses BY <1>1, <2>1 DEF CooldownElapses, IInv, TypeOK, KeysInv, callerVars
  <2>2. CASE TrialLockExpires BY <1>1, <2>2 DEF TrialLockExpires, IInv, TypeOK, KeysInv, callerVars
  <2>3. CASE FailuresExpire BY <1>1, <2>3 DEF FailuresExpire, IInv, TypeOK, KeysInv, callerVars
  <2>4. CASE StateExpires BY <1>1, <2>4 DEF StateExpires, IInv, TypeOK, KeysInv, callerVars
  <2> QED BY <2>1, <2>2, <2>3, <2>4 DEF Time
<1>3. TrialInv' BY <1>1 DEF IInv, TrialInv, callerVars
<1>4. WatchSound'
  <2>1. CASE CooldownElapses
    BY <1>1, <2>1 DEF CooldownElapses, IInv, WatchSound, Proceeds, callerVars
  <2>2. CASE dirty' = {c \in Callers : pc[c] = "exec"} BY <1>1, <2>2 DEF WatchSound, callerVars
  <2> QED BY <2>1, <2>2 DEF Time, TrialLockExpires, FailuresExpire, StateExpires, Touch
<1> QED BY <1>2, <1>3, <1>4 DEF IInv

(* Nothing changes when nothing moves. *)
LEMMA StutterInv == ASSUME IInv, UNCHANGED vars PROVE IInv'
BY DEF IInv, TypeOK, KeysInv, TrialInv, WatchSound, Proceeds, vars, keyVars

(* Every step keeps the invariant. *)
LEMMA NextInv == IInv /\ [Next]_vars => IInv'
<1> SUFFICES ASSUME IInv, [Next]_vars PROVE IInv' OBVIOUS
<1>1. ASSUME NEW c \in Callers, Admission(c) \/ Report(c) \/ Watch(c) \/ Exec(c) \/ GiveUp(c)
      PROVE  IInv'
  BY <1>1, AdmissionInv, ReportInv, WatchInv, ExecInv, GiveUpInv
<1> QED BY <1>1, TimeInv, StutterInv DEF Next

(* What every caller read still holds where it may commit.                   *)
THEOREM Invariance == Spec => []IInv
BY InitInv, NextInv, PTL DEF Spec

-----------------------------------------------------------------------------
(* What follows. *)

(* Every key and every caller keeps its type. *)
THEOREM TypeCorrect == Spec => []TypeOK
<1>1. IInv => TypeOK BY DEF IInv
<1> QED BY <1>1, Invariance, PTL

(* No transaction commits on reads that no longer hold: WATCH of all four   *)
(* keys misses no write, whether of a transaction, an INCR or an expiry.    *)
THEOREM ReadsHoldAtCommit == Spec => []WatchSound
<1>1. IInv => WatchSound BY DEF IInv
<1> QED BY <1>1, Invariance, PTL

(* Who writes the state key. *)
LEMMA StateWriters ==
  ASSUME IInv, [Next]_vars, state' # state
  PROVE  \/ \E c \in Callers : ExecClose(c) \/ ExecReopen(c) \/ ExecReset(c) \/ ExecTrip(c)
         \/ state' = "absent"
<1>1. Next BY DEF vars, keyVars
<1>2. ASSUME NEW c \in Callers, Admission(c) \/ Report(c) \/ Watch(c) \/ GiveUp(c)
      PROVE  FALSE
  BY <1>2 DEF Admission, Check, CheckCooldown, Report, Succeed, FailTrial, Fail, SetWindow,
              Watch, GiveUp, keyVars
<1>3. ASSUME NEW c \in Callers, Exec(c)
      PROVE  ExecClose(c) \/ ExecReopen(c) \/ ExecReset(c) \/ ExecTrip(c)
  BY <1>3 DEF Exec, ExecClaim, ExecClaimTaken, ExecAborts, keyVars
<1>4. ASSUME Time PROVE state' = "absent"
  BY <1>4 DEF Time, CooldownElapses, TrialLockExpires, FailuresExpire, StateExpires
<1> QED BY <1>1, <1>2, <1>3, <1>4 DEF Next

(* An open breaker is closed only by the success of the trial in force.     *)
THEOREM ClosedByTrial == Spec => ClosedOnlyByLiveTrial
<1> DEFINE Live == \E c \in Callers : op[c] = "close" /\ token[c] = trialLock /\ trialLock # NoToken
<1>1. ASSUME IInv, [Next]_vars, state = "open", state' = "closed" PROVE Live
  <2>1. PICK c \in Callers : ExecClose(c) \/ ExecReopen(c) \/ ExecReset(c) \/ ExecTrip(c)
    BY <1>1, StateWriters
  <2>2. ~ExecReopen(c) /\ ~ExecTrip(c) BY <1>1 DEF ExecReopen, ExecTrip, SetOpen
  <2>3. ~ExecReset(c) BY <1>1 DEF ExecReset, Commits, IInv, WatchSound, Proceeds
  <2>4. op[c] = "close" /\ Proceeds(c)
    BY <1>1, <2>1, <2>2, <2>3 DEF ExecClose, Commits, IInv, WatchSound
  <2> QED BY <1>1, <2>4 DEF Proceeds, IInv, TrialInv
<1>2. IInv /\ [Next]_vars => [state = "open" /\ state' = "closed" => Live]_vars BY <1>1
<1> QED BY <1>2, Invariance, PTL DEF Spec, ClosedOnlyByLiveTrial

(* A breaker opens only at the threshold, judged on the counter of that     *)
(* moment, or because the trial in force failed.                            *)
THEOREM OpenedWithCause == Spec => OpenedForCause
<1> DEFINE Cause == failures >= Threshold \/ (trialLock # NoToken /\ trialLock' = NoToken)
<1>1. ASSUME IInv, [Next]_vars, state # "open", state' = "open" PROVE Cause
  <2>1. PICK c \in Callers : ExecClose(c) \/ ExecReopen(c) \/ ExecReset(c) \/ ExecTrip(c)
    BY <1>1, StateWriters
  <2>2. ~ExecClose(c) /\ ~ExecReset(c) BY <1>1 DEF ExecClose, ExecReset, SetClosed
  <2>3. CASE ExecReopen(c)
    <3>1. op[c] = "reopen" /\ Proceeds(c) /\ trialLock' = NoToken
      BY <1>1, <2>3 DEF ExecReopen, Commits, IInv, WatchSound
    <3> QED BY <1>1, <3>1 DEF Proceeds, IInv, TrialInv
  <2>4. CASE ExecTrip(c) BY <1>1, <2>4 DEF ExecTrip, Commits, IInv, WatchSound, Proceeds
  <2> QED BY <2>1, <2>2, <2>3, <2>4
<1>2. IInv /\ [Next]_vars => [state # "open" /\ state' = "open" => Cause]_vars BY <1>1
<1> QED BY <1>2, Invariance, PTL DEF Spec, OpenedForCause

-----------------------------------------------------------------------------
(* The shared keys follow Breaker, in which every operation is atomic.      *)

(* An empty Redis is a closed breaker. *)
LEMMA InitRefines == Init => Atomic!Init
BY DEF Init, Atomic!Init

(* Steps that leave the breaker as Breaker sees it. *)
LEMMA QuietRefines ==
  ASSUME UNCHANGED <<state, failures, openedAt, trialLock>>
  PROVE  UNCHANGED Atomic!vars
BY DEF Atomic!vars

(* What a caller does before it commits is a stutter, or counts a failure. *)
LEMMA CallerRefines ==
  ASSUME IInv, NEW c \in Callers, Admission(c) \/ Report(c) \/ Watch(c) \/ GiveUp(c)
  PROVE  [Atomic!Next]_(Atomic!vars)
<1>1. CASE Fail(c)
  <2>1. Atomic!Count BY <1>1 DEF Fail, Atomic!Count
  <2> QED BY <2>1 DEF Atomic!Next
<1>2. CASE ~Fail(c)
  <2>1. UNCHANGED <<state, failures, openedAt, trialLock>>
    BY <1>2 DEF Admission, Check, CheckCooldown, Report, Succeed, FailTrial, SetWindow,
                Watch, GiveUp, keyVars
  <2> QED BY <2>1, QuietRefines
<1> QED BY <1>1, <1>2

(* A transaction that commits is one step of Breaker, because what it read  *)
(* holds at that moment.                                                    *)
LEMMA ExecRefines ==
  ASSUME IInv, NEW c \in Callers, Exec(c)
  PROVE  [Atomic!Next]_(Atomic!vars)
<1>1. CASE ExecClaim(c)
  <2>1. state = "open" /\ openedAt = "elapsed"
    BY <1>1 DEF ExecClaim, Commits, IInv, WatchSound, Proceeds, KeysInv, TypeOK
  <2>2. Atomic!ClaimTrial BY <1>1, <2>1 DEF ExecClaim, Atomic!ClaimTrial
  <2> QED BY <2>2 DEF Atomic!Next
<1>2. CASE ExecClose(c)
  <2>1. trialLock # NoToken
    BY <1>2 DEF ExecClose, Commits, IInv, WatchSound, Proceeds, TrialInv
  <2>2. Atomic!TrialSucceeds BY <1>2, <2>1 DEF ExecClose, SetClosed, Atomic!TrialSucceeds
  <2> QED BY <2>2 DEF Atomic!Next
<1>3. CASE ExecReopen(c)
  <2>1. trialLock # NoToken
    BY <1>3 DEF ExecReopen, Commits, IInv, WatchSound, Proceeds, TrialInv
  <2>2. Atomic!TrialFails BY <1>3, <2>1 DEF ExecReopen, SetOpen, Atomic!TrialFails
  <2> QED BY <2>2 DEF Atomic!Next
<1>4. CASE ExecReset(c)
  <2>1. state # "open" BY <1>4 DEF ExecReset, Commits, IInv, WatchSound, Proceeds
  <2>2. Atomic!Reset BY <1>4, <2>1 DEF ExecReset, SetClosed, Atomic!Reset
  <2> QED BY <2>2 DEF Atomic!Next
<1>5. CASE ExecTrip(c)
  <2>1. state # "open" /\ failures >= Threshold
    BY <1>5 DEF ExecTrip, Commits, IInv, WatchSound, Proceeds
  <2>2. Atomic!Trip BY <1>5, <2>1 DEF ExecTrip, SetOpen, Atomic!Trip
  <2> QED BY <2>2 DEF Atomic!Next
<1>6. CASE ExecClaimTaken(c) \/ ExecAborts(c)
  BY <1>6, QuietRefines DEF ExecClaimTaken, ExecAborts, keyVars
<1> QED BY <1>1, <1>2, <1>3, <1>4, <1>5, <1>6 DEF Exec

(* An expiry is one of the atomic breaker's, or a stutter. *)
LEMMA TimeRefines ==
  ASSUME IInv, Time
  PROVE  [Atomic!Next]_(Atomic!vars)
<1>1. CASE CooldownElapses
  <2>1. state = "open" BY <1>1 DEF CooldownElapses, IInv, KeysInv
  <2>2. Atomic!Cool BY <1>1, <2>1 DEF CooldownElapses, Atomic!Cool
  <2> QED BY <2>2 DEF Atomic!Next
<1>2. CASE TrialLockExpires
  <2>1. Atomic!TrialExpires BY <1>2 DEF TrialLockExpires, Atomic!TrialExpires
  <2> QED BY <2>1 DEF Atomic!Next
<1>3. CASE FailuresExpire
  <2>1. Atomic!Reset BY <1>3 DEF FailuresExpire, Atomic!Reset
  <2> QED BY <2>1 DEF Atomic!Next
<1>4. CASE StateExpires /\ state = "open"
  <2>1. Atomic!Forget BY <1>4 DEF StateExpires, Atomic!Forget
  <2> QED BY <2>1 DEF Atomic!Next
<1>5. CASE StateExpires /\ state # "open"
  BY <1>5 DEF StateExpires, Atomic!vars
<1> QED BY <1>1, <1>2, <1>3, <1>4, <1>5 DEF Time

(* Every step is one of the atomic breaker's, or a stutter. *)
LEMMA NextRefines == IInv /\ [Next]_vars => [Atomic!Next]_(Atomic!vars)
<1> SUFFICES ASSUME IInv, [Next]_vars PROVE [Atomic!Next]_(Atomic!vars) OBVIOUS
<1>1. CASE UNCHANGED vars BY <1>1, QuietRefines DEF vars, keyVars
<1>2. ASSUME NEW c \in Callers, Admission(c) \/ Report(c) \/ Watch(c) \/ Exec(c) \/ GiveUp(c)
      PROVE  [Atomic!Next]_(Atomic!vars)
  BY <1>2, CallerRefines, ExecRefines
<1> QED BY <1>1, <1>2, TimeRefines DEF Next

(* Whatever the interleaving of the WATCH transactions, plain reads and     *)
(* expiries, the keys behave as if every operation were atomic.             *)
THEOREM BreakerIsAtomic == Spec => ImplementsBreaker
BY InitRefines, NextRefines, Invariance, PTL DEF Spec, ImplementsBreaker, Atomic!Spec
=============================================================================
