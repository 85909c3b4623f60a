------------------------------ MODULE Breaker -------------------------------
(***************************************************************************)
(* What the circuit breaker of one (provider, model) pair promises when    *)
(* every operation is atomic: it trips only at the failure threshold, it   *)
(* admits one trial at a time and only after the cooldown, and only the    *)
(* trial in force closes or reopens it.                                    *)
(***************************************************************************)
EXTENDS Integers

CONSTANTS
  Threshold,    \* failureThreshold
  Tokens,       \* trial tokens
  NoTrial       \* no trial is in force

VARIABLES
  open,         \* whether the breaker is open
  cooled,       \* whether an open breaker's cooldown is over
  failures,     \* failures counted since the last reset
  trial         \* token of the trial in force

vars == <<open, cooled, failures, trial>>

Init == open = FALSE /\ cooled = FALSE /\ failures = 0 /\ trial = NoTrial

Count == failures' = failures + 1 /\ UNCHANGED <<open, cooled, trial>>

Trip ==
  /\ ~open /\ failures >= Threshold
  /\ open' = TRUE /\ cooled' = FALSE
  /\ UNCHANGED <<failures, trial>>

Cool == open /\ ~cooled /\ cooled' = TRUE /\ UNCHANGED <<open, failures, trial>>

ClaimTrial ==
  /\ open /\ cooled /\ trial = NoTrial
  /\ trial' \in Tokens
  /\ UNCHANGED <<open, cooled, failures>>

TrialSucceeds ==
  /\ trial # NoTrial
  /\ open' = FALSE /\ cooled' = FALSE /\ failures' = 0 /\ trial' = NoTrial

TrialFails ==
  /\ trial # NoTrial
  /\ open' = TRUE /\ cooled' = FALSE /\ trial' = NoTrial
  /\ UNCHANGED failures

TrialExpires == trial # NoTrial /\ trial' = NoTrial /\ UNCHANGED <<open, cooled, failures>>

(* A success outside a trial, or the window of the failure counter. *)
Reset == failures' = 0 /\ UNCHANGED <<open, cooled, trial>>

(* An open breaker that nobody touches for long is forgotten. *)
Forget == open /\ open' = FALSE /\ cooled' = FALSE /\ UNCHANGED <<failures, trial>>

Next ==
  \/ Count \/ Trip \/ Cool \/ ClaimTrial \/ TrialSucceeds \/ TrialFails
  \/ TrialExpires \/ Reset \/ Forget

Spec == Init /\ [][Next]_vars
=============================================================================
