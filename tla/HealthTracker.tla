--------------------------- MODULE HealthTracker ----------------------------
(***************************************************************************)
(* RedisHealthTracker for one provider: its rolling window of outcomes and *)
(* the alert-state key by which concurrent callers of record() claim the   *)
(* alert for a threshold crossing.                                         *)
(***************************************************************************)
EXTENDS Integers, SequencesExt

CONSTANTS
  Recorders,       \* calls of record() that may be in progress at once
  WindowSize, MinSamples,
  MaxClaimTries,   \* MAX_OPTIMISTIC_RETRIES
  MaxAlerts,       \* bound on the alerts of a behaviour
  MaxFaults        \* bound on failing calls, dying processes and idle expiries

ASSUME HealthBounds ==
  /\ IsFiniteSet(Recorders)
  /\ WindowSize \in Nat \ {0} /\ MinSamples \in 1..WindowSize
  /\ MaxClaimTries \in Nat \ {0} /\ MaxAlerts \in Nat \ {0} /\ MaxFaults \in Nat

VARIABLES
  outcomes,        \* health:{provider}, newest first
  alertState,      \* health:alert-state:{provider}
  recorder,        \* each call of record()
  alerts,          \* history: the alerts claimed, in order
  lapsed,          \* history: whether alertState expired since the last claim
  gap,             \* history: whether the alert-state may be off, see LastAlertIsRight
  faults

healthVars == <<outcomes, alertState, recorder, alerts, lapsed, gap, faults>>

IdleRecorder == [pc |-> "idle", outcome |-> 0, was |-> "healthy", is |-> "healthy",
                 tries |-> 0, moved |-> FALSE, alone |-> TRUE]

HealthInit ==
  /\ outcomes = <<>> /\ alertState = "none"
  /\ recorder = [c \in Recorders |-> IdleRecorder]
  /\ alerts = <<>> /\ lapsed = FALSE /\ gap = FALSE /\ faults = 0

Successes(s) == Len(SelectSeq(s, LAMBDA o : o = 1))

(* getScore() against unhealthyScoreThreshold = 0.5; no data is healthy. *)
Health(s) == IF s = <<>> \/ 2 * Successes(s) >= Len(s) THEN "healthy" ELSE "unhealthy"

(* Mutant: the window is never cut. *)
Untrimmed(s) == s

Newest(s) == IF Len(s) > WindowSize THEN SubSeq(s, 1, WindowSize) ELSE s

Recording(c) == recorder[c].pc # "idle"
Quiet == \A c \in Recorders : ~Recording(c)

(* record() up to the first score.  Calls that overlap may both, or neither, *)
(* see a crossing, and may claim in another order than they crossed.         *)
Begin(c) ==
  /\ ~Recording(c) /\ Len(alerts) < MaxAlerts
  /\ \E o \in {0, 1} :
       recorder' = [d \in Recorders |->
         IF d = c THEN [pc |-> "push", outcome |-> o, was |-> Health(outcomes), is |-> "healthy",
                        tries |-> 0, moved |-> FALSE, alone |-> Quiet]
         ELSE [recorder[d] EXCEPT !.alone = @ /\ ~Recording(d)]]
  /\ gap' = (gap \/ ~Quiet)
  /\ UNCHANGED <<outcomes, alertState, alerts, lapsed, faults>>

Push(c) ==
  /\ recorder[c].pc = "push"
  /\ outcomes' = <<recorder[c].outcome>> \o outcomes
  /\ recorder' = [recorder EXCEPT ![c].pc = "trim"]
  /\ UNCHANGED <<alertState, alerts, lapsed, gap, faults>>

(* The second score; most calls end here. *)
Scored(x) ==
  IF Health(outcomes) = x.was THEN IdleRecorder
  ELSE [pc |-> "count", outcome |-> x.outcome, was |-> x.was, is |-> Health(outcomes),
        tries |-> 0, moved |-> FALSE, alone |-> x.alone]

(* Mutant: the second score is read before the window is trimmed. *)
TrimAfterScore(c) ==
  /\ recorder[c].pc = "trim"
  /\ outcomes' = Newest(outcomes)
  /\ recorder' = [recorder EXCEPT ![c] = Scored(@)]
  /\ UNCHANGED <<alertState, alerts, lapsed, gap, faults>>

(* LTRIM and PEXPIRE. *)
Trim(c) ==
  /\ recorder[c].pc = "trim"
  /\ outcomes' = Newest(outcomes)
  /\ recorder' = [recorder EXCEPT ![c].pc = "score"]
  /\ UNCHANGED <<alertState, alerts, lapsed, gap, faults>>

Score(c) ==
  /\ recorder[c].pc = "score"
  /\ recorder' = [recorder EXCEPT ![c] = Scored(@)]
  /\ UNCHANGED <<outcomes, alertState, alerts, lapsed, gap, faults>>

End(c) == recorder' = [recorder EXCEPT ![c] = IdleRecorder]

(* A crossing within the first samples is not alerted, nor is it later. *)
Count(c) ==
  /\ recorder[c].pc = "count"
  /\ \/ /\ Len(outcomes) < MinSamples
        /\ End(c) /\ gap' = TRUE
     \/ /\ Len(outcomes) >= MinSamples
        /\ recorder' = [recorder EXCEPT ![c].pc = "watch"] /\ UNCHANGED gap
  /\ UNCHANGED <<outcomes, alertState, alerts, lapsed, faults>>

(* The claim of a call that overlapped no other makes the state right again. *)
Settles(c) == gap' = (gap /\ ~recorder[c].alone)

Watching(x) ==
  [pc |-> "exec", outcome |-> x.outcome, was |-> x.was, is |-> x.is,
   tries |-> x.tries + 1, moved |-> FALSE, alone |-> x.alone]

(* WATCH and GET; UNWATCH if the state is already the new one. *)
WatchState(c) ==
  /\ recorder[c].pc = "watch"
  /\ IF alertState = recorder[c].is
     THEN End(c) /\ Settles(c)
     ELSE /\ recorder' = [recorder EXCEPT ![c] = Watching(@)]
          /\ UNCHANGED gap
  /\ UNCHANGED <<outcomes, alertState, alerts, lapsed, faults>>

(* Every transaction that watches alertState when it changes will abort. *)
Moved(f) == [c \in Recorders |-> IF f[c].pc = "exec" THEN [f[c] EXCEPT !.moved = TRUE] ELSE f[c]]

(* Mutant: the key is read without WATCH, so no EXEC aborts. *)
ClaimUnwatched(c) ==
  /\ recorder[c].pc = "exec"
  /\ alertState' = recorder[c].is /\ lapsed' = FALSE
  /\ alerts' = Append(alerts, [state |-> recorder[c].is, lapsed |-> lapsed])
  /\ End(c) /\ Settles(c)
  /\ UNCHANGED <<outcomes, faults>>

(* MULTI, SET, EXEC: the caller publishes the alert. *)
Claim(c) ==
  /\ recorder[c].pc = "exec" /\ ~recorder[c].moved
  /\ alertState' = recorder[c].is /\ lapsed' = FALSE
  /\ alerts' = Append(alerts, [state |-> recorder[c].is, lapsed |-> lapsed])
  /\ recorder' = Moved([recorder EXCEPT ![c] = IdleRecorder]) /\ Settles(c)
  /\ UNCHANGED <<outcomes, faults>>

(* EXEC returned null: again, or no alert after the last try. *)
Aborted(c) ==
  /\ recorder[c].pc = "exec" /\ recorder[c].moved
  /\ \/ /\ recorder[c].tries < MaxClaimTries
        /\ recorder' = [recorder EXCEPT ![c].pc = "watch"] /\ UNCHANGED gap
     \/ /\ recorder[c].tries = MaxClaimTries
        /\ End(c) /\ gap' = TRUE
  /\ UNCHANGED <<outcomes, alertState, alerts, lapsed, faults>>

Faulty == faults < MaxFaults /\ faults' = faults + 1 /\ gap' = TRUE

(* A Redis call fails, or the process dies: what was written stays. *)
RecordFails(c) ==
  /\ Recording(c) /\ End(c) /\ Faulty
  /\ UNCHANGED <<outcomes, alertState, alerts, lapsed>>

(* Both keys live ttlMs: the window from the last outcome, the alert-state   *)
(* from the last claim.                                                      *)
WindowExpires ==
  /\ Quiet /\ outcomes # <<>> /\ outcomes' = <<>> /\ Faulty
  /\ UNCHANGED <<alertState, recorder, alerts, lapsed>>

StateExpires ==
  /\ alertState # "none" /\ alertState' = "none" /\ lapsed' = TRUE /\ Faulty
  /\ recorder' = Moved(recorder)
  /\ UNCHANGED <<outcomes, alerts>>

RecordStep(c) ==
  \/ Begin(c) \/ Push(c) \/ Trim(c) \/ Score(c) \/ Count(c) \/ WatchState(c)
  \/ Claim(c) \/ Aborted(c) \/ RecordFails(c)

----------------------------------------------------------------------------
(* Properties *)

(* Two alerts in a row never say the same, however the calls interleave,     *)
(* unless the alert-state expired between them: a crossing seen by several   *)
(* callers is published once.  (tryClaimAlertTransition)                     *)
AlertsAlternate ==
  \A i \in 1..Len(alerts) - 1 : alerts[i].state # alerts[i + 1].state \/ alerts[i + 1].lapsed

(* The alert-state says "unhealthy" just when the window does.  The known    *)
(* gaps, until the next claim by a call that met no other: a crossing within *)
(* the first samples, overlapping calls, a lost claim, and either key's      *)
(* expiry.  (record, maybeAlertOnThresholdCrossing)                          *)
LastAlertIsRight ==
  Quiet /\ ~gap => (alertState = "unhealthy" <=> Health(outcomes) = "unhealthy")
=============================================================================
