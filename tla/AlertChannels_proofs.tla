------------------------ MODULE AlertChannels_proofs ------------------------
(***************************************************************************)
(* Proofs about HealthTracker and AlertChannels for any number of callers, *)
(* admin requests, rows and retries, any window and any bounds.            *)
(***************************************************************************)
EXTENDS AlertChannels, SequenceTheorems, FiniteSetTheorems, TLAPS

-----------------------------------------------------------------------------
(* The claims of alerts. *)

States == {"healthy", "unhealthy"}

Recorder ==
  [pc : {"idle", "push", "trim", "score", "count", "watch", "exec"}, outcome : {0, 1},
   was : States, is : States, tries : Nat, moved : BOOLEAN, alone : BOOLEAN]

HealthTypes ==
  /\ recorder \in [Recorders -> Recorder]
  /\ alerts \in Seq([state : States, lapsed : BOOLEAN])
  /\ alertState \in States \cup {"none"}
  /\ lapsed \in BOOLEAN

(* A transaction that will commit changes the state. *)
ClaimsChange ==
  \A c \in Recorders : recorder[c].pc = "exec" /\ ~recorder[c].moved => alertState # recorder[c].is

(* Unless it expired, the state is what the last alert said. *)
LastAlertStands == Len(alerts) > 0 /\ ~lapsed => alertState = alerts[Len(alerts)].state

ClaimInv == HealthTypes /\ ClaimsChange /\ LastAlertStands /\ AlertsAlternate

(* A caller's step that claims nothing. *)
LEMMA NoClaim ==
  ASSUME ClaimInv, NEW c \in Recorders, NEW x \in Recorder, recorder' = [recorder EXCEPT ![c] = x],
         UNCHANGED <<alertState, alerts, lapsed>>,
         x.pc = "exec" /\ ~x.moved => alertState # x.is
  PROVE  ClaimInv'
<1>1. HealthTypes' BY DEF ClaimInv, HealthTypes
<1>2. ClaimsChange' BY DEF ClaimInv, HealthTypes, ClaimsChange
<1> QED BY <1>1, <1>2 DEF ClaimInv, LastAlertStands, AlertsAlternate

(* A recorder at rest has nothing claimed. *)
LEMMA IdleType == IdleRecorder \in Recorder /\ IdleRecorder.pc = "idle"
BY DEF IdleRecorder, Recorder, States

(* The start of a record() call claims nothing. *)
LEMMA BeginClaims == ASSUME ClaimInv, NEW c \in Recorders, Begin(c) PROVE ClaimInv'
<1>1. PICK o \in {0, 1} :
        recorder' = [d \in Recorders |->
          IF d = c THEN [pc |-> "push", outcome |-> o, was |-> Health(outcomes), is |-> "healthy",
                         tries |-> 0, moved |-> FALSE, alone |-> Quiet]
          ELSE [recorder[d] EXCEPT !.alone = @ /\ ~Recording(d)]]
  BY DEF Begin
<1>2. UNCHANGED <<alertState, alerts, lapsed>> BY DEF Begin
<1>3. Health(outcomes) \in States /\ Quiet \in BOOLEAN BY DEF Health, States, Quiet
<1>4. ASSUME NEW d \in Recorders
      PROVE  /\ recorder'[d] \in Recorder
             /\ recorder'[d].pc = "exec" => 
                  /\ recorder[d].pc = "exec" /\ recorder'[d].moved = recorder[d].moved
                  /\ recorder'[d].is = recorder[d].is
  <2>1. CASE d = c BY <1>1, <1>3, <2>1 DEF Recorder, States
  <2>2. CASE d # c
    <3>1. recorder[d] \in Recorder BY DEF ClaimInv, HealthTypes
    <3>2. PICK b \in BOOLEAN : recorder'[d] = [recorder[d] EXCEPT !.alone = b]
      BY <1>1, <2>2, <3>1 DEF Recorder
    <3> QED BY <3>1, <3>2 DEF Recorder
  <2> QED BY <2>1, <2>2
<1>5. HealthTypes' BY <1>1, <1>2, <1>4 DEF ClaimInv, HealthTypes
<1>6. ClaimsChange' BY <1>2, <1>4 DEF ClaimInv, ClaimsChange
<1> QED BY <1>2, <1>5, <1>6 DEF ClaimInv, LastAlertStands, AlertsAlternate

(* The steps before the claim publish no alert. *)
LEMMA SilentClaims ==
  ASSUME ClaimInv, NEW c \in Recorders,
         Push(c) \/ Trim(c) \/ Score(c) \/ Count(c) \/ WatchState(c) \/ Aborted(c) \/ RecordFails(c)
  PROVE  ClaimInv'
<1>1. recorder[c] \in Recorder BY DEF ClaimInv, HealthTypes
<1>2. UNCHANGED <<alertState, alerts, lapsed>>
  BY DEF Push, Trim, Score, Count, WatchState, Aborted, RecordFails
<1>3. PICK x : recorder' = [recorder EXCEPT ![c] = x] /\ x \in Recorder
                /\ (x.pc = "exec" /\ ~x.moved => alertState # x.is)
  <2>1. CASE recorder' = [recorder EXCEPT ![c] = IdleRecorder] BY <2>1, IdleType
  <2>2. CASE \E pc \in {"trim", "score", "watch"} : recorder' = [recorder EXCEPT ![c].pc = pc]
    <3>1. PICK pc \in {"trim", "score", "watch"} : recorder' = [recorder EXCEPT ![c].pc = pc]
      BY <2>2
    <3> DEFINE y == [recorder[c] EXCEPT !.pc = pc]
    <3>2. y \in Recorder /\ y.pc = pc BY <1>1 DEF Recorder
    <3>3. recorder' = [recorder EXCEPT ![c] = y] BY <3>1
    <3> HIDE DEF y
    <3> QED BY <3>2, <3>3
  <2>3. CASE recorder' = [recorder EXCEPT ![c] = Scored(recorder[c])]
    <3>1. Health(outcomes) \in States BY DEF Health, States
    <3>2. Scored(recorder[c]) \in Recorder /\ Scored(recorder[c]).pc # "exec"
      BY <1>1, <3>1, IdleType DEF Scored, Recorder
    <3> QED BY <2>3, <3>2
  <2>4. CASE WatchState(c) /\ alertState # recorder[c].is
    <3>1. recorder[c].tries + 1 \in Nat BY <1>1 DEF Recorder
    <3>2. Watching(recorder[c]) \in Recorder /\ Watching(recorder[c]).is = recorder[c].is
      BY <1>1, <3>1 DEF Watching, Recorder
    <3>3. recorder' = [recorder EXCEPT ![c] = Watching(recorder[c])] BY <2>4 DEF WatchState
    <3> QED BY <2>4, <3>2, <3>3
  <2> QED BY <2>1, <2>2, <2>3, <2>4
      DEF Push, Trim, Score, Count, WatchState, Aborted, RecordFails, End
<1> QED BY <1>2, <1>3, NoClaim

(* What a write to the key leaves of the callers: none in EXEC stays clean. *)
LEMMA MovedOf ==
  ASSUME NEW f \in [Recorders -> Recorder]
  PROVE  /\ Moved(f) \in [Recorders -> Recorder]
         /\ \A c \in Recorders : Moved(f)[c].pc = "exec" => Moved(f)[c].moved
<1> SUFFICES ASSUME NEW c \in Recorders
             PROVE  Moved(f)[c] \in Recorder /\ (Moved(f)[c].pc = "exec" => Moved(f)[c].moved)
  BY DEF Moved
<1>1. CASE f[c].pc = "exec"
  <2>1. Moved(f)[c] = [f[c] EXCEPT !.moved = TRUE] /\ f[c] \in Recorder BY <1>1 DEF Moved
  <2> QED BY <2>1 DEF Recorder
<1>2. CASE f[c].pc # "exec" BY <1>2 DEF Moved
<1> QED BY <1>1, <1>2

(* A claim that commits publishes the state it claims, a change each time. *)
LEMMA ClaimClaims == ASSUME ClaimInv, NEW c \in Recorders, Claim(c) PROVE ClaimInv'
<1> DEFINE alert == [state |-> recorder[c].is, lapsed |-> lapsed]
<1>1. alert \in [state : States, lapsed : BOOLEAN] /\ recorder[c].is \in States
  <2>1. recorder[c] \in Recorder /\ lapsed \in BOOLEAN BY DEF ClaimInv, HealthTypes
  <2> QED BY <2>1 DEF Recorder
<1>2. alerts' = Append(alerts, alert) /\ alertState' = recorder[c].is /\ lapsed' = FALSE
  BY DEF Claim
<1>3. alerts \in Seq([state : States, lapsed : BOOLEAN]) /\ Len(alerts) \in Nat
  BY DEF ClaimInv, HealthTypes
<1>4. /\ Len(alerts') = Len(alerts) + 1 /\ alerts'[Len(alerts) + 1] = alert
      /\ \A i \in 1..Len(alerts) : alerts'[i] = alerts[i]
      /\ alerts' \in Seq([state : States, lapsed : BOOLEAN])
  BY <1>1, <1>2, <1>3
<1>5. HealthTypes' /\ ClaimsChange'
  <2>1. [recorder EXCEPT ![c] = IdleRecorder] \in [Recorders -> Recorder]
    BY IdleType DEF ClaimInv, HealthTypes
  <2>2. recorder' = Moved([recorder EXCEPT ![c] = IdleRecorder]) BY DEF Claim
  <2> QED BY <1>1, <1>2, <1>4, <2>1, <2>2, MovedOf DEF HealthTypes, ClaimsChange
<1>6. LastAlertStands' BY <1>2, <1>3, <1>4 DEF LastAlertStands
<1>7. AlertsAlternate'
  <2> SUFFICES ASSUME NEW i \in 1..Len(alerts)
               PROVE  alerts'[i].state # alerts'[i + 1].state \/ alerts'[i + 1].lapsed
    BY <1>3, <1>4 DEF AlertsAlternate
  <2>1. CASE i < Len(alerts)
    <3>1. i \in 1..Len(alerts) - 1 /\ i + 1 \in 1..Len(alerts) BY <1>3, <2>1
    <3>2. alerts[i].state # alerts[i + 1].state \/ alerts[i + 1].lapsed
      BY <3>1 DEF ClaimInv, AlertsAlternate
    <3>3. alerts'[i] = alerts[i] /\ alerts'[i + 1] = alerts[i + 1] BY <1>4, <3>1
    <3> QED BY <3>2, <3>3
  <2>2. CASE i = Len(alerts)
    <3>1. alertState # recorder[c].is BY DEF Claim, ClaimInv, ClaimsChange
    <3>2. lapsed \/ alertState = alerts[i].state BY <1>3, <2>2 DEF ClaimInv, LastAlertStands
    <3>3. alerts'[i] = alerts[i] /\ alerts'[i + 1] = alert BY <1>4, <2>2
    <3> QED BY <3>1, <3>2, <3>3
  <2> QED BY <1>3, <2>1, <2>2
<1> QED BY <1>5, <1>6, <1>7 DEF ClaimInv

(* An expired key leaves the alerts that were published as they are. *)
LEMMA ExpiryClaims == ASSUME ClaimInv, WindowExpires \/ StateExpires PROVE ClaimInv'
<1>1. CASE WindowExpires
  BY <1>1 DEF WindowExpires, ClaimInv, HealthTypes, ClaimsChange, LastAlertStands, AlertsAlternate
<1>2. CASE StateExpires
  <2>1. recorder' = Moved(recorder) /\ alertState' = "none" /\ lapsed' = TRUE /\ alerts' = alerts
    BY <1>2 DEF StateExpires
  <2>2. HealthTypes' /\ ClaimsChange' BY <2>1, MovedOf DEF ClaimInv, HealthTypes, ClaimsChange
  <2> QED BY <2>1, <2>2 DEF ClaimInv, LastAlertStands, AlertsAlternate
<1> QED BY <1>1, <1>2

-----------------------------------------------------------------------------
(* When the alert-state is right. *)

Claiming == {"count", "watch", "exec"}

Agrees(h) == alertState = "unhealthy" <=> h = "unhealthy"

(* A call that met no other is the only one. *)
Solo == \A c, d \in Recorders : recorder[c].alone /\ Recording(c) /\ Recording(d) => d = c

(* Such a call claims what the window says. *)
ClaimIsCurrent ==
  \A c \in Recorders : recorder[c].alone /\ recorder[c].pc \in Claiming =>
                         recorder[c].is = Health(outcomes)

(* Without a gap calls meet no other, and the alert-state was right when the *)
(* call under way began.                                                     *)
NoGap ==
  /\ \A c \in Recorders : Recording(c) => recorder[c].alone
  /\ \A c \in Recorders : recorder[c].pc \in {"push", "trim", "score"} => Agrees(recorder[c].was)
  /\ Quiet => Agrees(Health(outcomes))

GapInv == Solo /\ ClaimIsCurrent /\ (~gap => NoGap)

(* A step that makes a gap: calls may end, and the others stay what they are. *)
LEMMA MakesGap ==
  ASSUME GapInv, gap' = TRUE, UNCHANGED outcomes,
         \A d \in Recorders : \/ recorder'[d].pc = "idle"
                              \/ /\ recorder'[d].pc = recorder[d].pc
                                 /\ recorder'[d].alone = recorder[d].alone
                                 /\ recorder'[d].is = recorder[d].is
  PROVE  GapInv'
<1>1. Solo' BY DEF GapInv, Solo, Recording
<1>2. ClaimIsCurrent' BY DEF GapInv, ClaimIsCurrent, Claiming
<1> QED BY <1>1, <1>2 DEF GapInv

(* A call goes on, and there is no more of a gap than before. *)
LEMMA GoesOn ==
  ASSUME GapInv, NEW c \in Recorders, Recording(c), recorder \in [Recorders -> Recorder],
         NEW x \in Recorder, recorder' = [recorder EXCEPT ![c] = x],
         x.pc # "idle", x.alone = recorder[c].alone, UNCHANGED <<alertState, gap>>,
         x.pc \in Claiming => /\ outcomes' = outcomes
                              /\ x.alone => x.is = Health(outcomes),
         x.pc \in {"push", "trim", "score"} =>
           recorder[c].pc \in {"push", "trim", "score"} /\ x.was = recorder[c].was
  PROVE  GapInv'
<1>1. \A d \in Recorders : recorder'[d] = IF d = c THEN x ELSE recorder[d] OBVIOUS
<1>2. Solo' BY <1>1 DEF GapInv, Solo, Recording
<1>3. ClaimIsCurrent'
  <2> SUFFICES ASSUME NEW d \in Recorders, recorder'[d].alone, recorder'[d].pc \in Claiming
               PROVE  recorder'[d].is = Health(outcomes)'
    BY DEF ClaimIsCurrent
  <2>1. d = c
    BY <1>1 DEF GapInv, Solo, Recording, Claiming
  <2>2. recorder'[d] = x /\ outcomes' = outcomes BY <1>1, <2>1
  <2>3. x.alone /\ x.pc \in Claiming
    <3>1. x.pc \in Claiming BY <2>2
    <3>2. x.alone BY <2>2, Zenon
    <3> QED BY <3>1, <3>2
  <2>4. x.is = Health(outcomes) BY <2>3
  <2> QED BY <2>2, <2>4
<1>4. ASSUME ~gap' PROVE NoGap'
  <2>1. NoGap BY <1>4 DEF GapInv
  <2>2. \A d \in Recorders : Recording(d)' => recorder'[d].alone
    BY <1>1, <2>1 DEF NoGap, Recording
  <2>3. \A d \in Recorders : recorder'[d].pc \in {"push", "trim", "score"} => Agrees(recorder[d].was)'
    BY <1>1, <2>1 DEF NoGap, Agrees
  <2>4. ~Quiet' BY <1>1 DEF Quiet, Recording
  <2> QED BY <2>2, <2>3, <2>4 DEF NoGap
<1> QED BY <1>2, <1>3, <1>4 DEF GapInv

(* A call ends with the alert-state right, if it met no other. *)
LEMMA EndsRight ==
  ASSUME GapInv, NEW c \in Recorders, Recording(c), recorder \in [Recorders -> Recorder],
         UNCHANGED outcomes, recorder'[c].pc = "idle",
         \A d \in Recorders \ {c} : /\ recorder'[d].pc = recorder[d].pc
                                    /\ recorder'[d].alone = recorder[d].alone
                                    /\ recorder'[d].is = recorder[d].is,
         ~gap' => recorder[c].alone,
         recorder[c].alone => (alertState' = "unhealthy" <=> Health(outcomes) = "unhealthy")
  PROVE  GapInv'
<1>1. Solo' BY DEF GapInv, Solo, Recording
<1>2. ClaimIsCurrent' BY DEF GapInv, ClaimIsCurrent, Claiming
<1>3. ASSUME ~gap' PROVE NoGap'
  <2>1. \A d \in Recorders : recorder'[d].pc = "idle"
    BY <1>3 DEF GapInv, Solo, Recording
  <2>2. Agrees(Health(outcomes))' BY <1>3 DEF Agrees
  <2> QED BY <2>1, <2>2 DEF NoGap, Recording
<1> QED BY <1>1, <1>2, <1>3 DEF GapInv

(* A call begins: from here on the two that overlap count as a gap. *)
LEMMA BeginGap == ASSUME GapInv, HealthTypes, NEW c \in Recorders, Begin(c) PROVE GapInv'
<1>1. PICK o \in {0, 1} :
        recorder' = [d \in Recorders |->
          IF d = c THEN [pc |-> "push", outcome |-> o, was |-> Health(outcomes), is |-> "healthy",
                         tries |-> 0, moved |-> FALSE, alone |-> Quiet]
          ELSE [recorder[d] EXCEPT !.alone = @ /\ ~Recording(d)]]
  BY DEF Begin
<1>2. /\ ~Recording(c) /\ gap' = (gap \/ ~Quiet) /\ UNCHANGED <<outcomes, alertState>>
  BY DEF Begin
<1>3. /\ recorder'[c].pc = "push" /\ recorder'[c].alone = Quiet
      /\ recorder'[c].was = Health(outcomes)
  BY <1>1
<1>4. ASSUME NEW d \in Recorders \ {c}
      PROVE  /\ recorder'[d].pc = recorder[d].pc
             /\ Recording(d) => ~recorder'[d].alone
  <2>1. recorder[d] \in Recorder BY DEF HealthTypes
  <2>2. recorder'[d] = [recorder[d] EXCEPT !.alone = @ /\ ~Recording(d)] BY <1>1
  <2> QED BY <2>1, <2>2 DEF Recorder
<1>5. Solo' BY <1>2, <1>3, <1>4 DEF Solo, Recording, Quiet
<1>6. ClaimIsCurrent' BY <1>3, <1>4 DEF ClaimIsCurrent, Claiming, Recording
<1>7. ASSUME ~gap' PROVE NoGap'
  <2>1. Quiet /\ ~gap BY <1>2, <1>7
  <2>2. Agrees(Health(outcomes)) BY <2>1 DEF GapInv, NoGap
  <2>3. \A d \in Recorders \ {c} : recorder'[d].pc = "idle"
    BY <1>4, <2>1 DEF Quiet, Recording
  <2> QED BY <1>2, <1>3, <2>1, <2>2, <2>3 DEF NoGap, Recording, Agrees, Quiet
<1> QED BY <1>5, <1>6, <1>7 DEF GapInv

(* The steps of a call after its beginning. *)
LEMMA CallGap ==
  ASSUME GapInv, HealthTypes, NEW c \in Recorders,
         \/ Push(c) \/ Trim(c) \/ Score(c) \/ Count(c) \/ WatchState(c)
         \/ Claim(c) \/ Aborted(c) \/ RecordFails(c)
  PROVE  GapInv'
<1>1. recorder \in [Recorders -> Recorder] /\ recorder[c] \in Recorder BY DEF HealthTypes
<1>2. Recording(c)
  BY DEF Push, Trim, Score, Count, WatchState, Claim, Aborted, RecordFails, Recording
<1>3. ~gap => recorder[c].alone BY <1>2 DEF GapInv, NoGap
<1>4. recorder[c].alone /\ recorder[c].pc \in Claiming => recorder[c].is = Health(outcomes)
  BY DEF GapInv, ClaimIsCurrent
<1>5. ASSUME NEW pc \in {"trim", "score"}, recorder' = [recorder EXCEPT ![c].pc = pc],
             recorder[c].pc \in {"push", "trim"}, UNCHANGED <<alertState, gap>>
      PROVE  GapInv'
  <2> DEFINE x == [recorder[c] EXCEPT !.pc = pc]
  <2>1. x \in Recorder /\ x.pc = pc /\ x.alone = recorder[c].alone /\ x.was = recorder[c].was
    BY <1>1 DEF Recorder
  <2>2. recorder' = [recorder EXCEPT ![c] = x] BY <1>5
  <2> HIDE DEF x
  <2>3. x.pc \notin Claiming BY <2>1 DEF Claiming
  <2> QED BY <1>1, <1>2, <1>5, <2>1, <2>2, <2>3, GoesOn
<1>6. CASE Push(c) BY <1>5, <1>6 DEF Push
<1>7. CASE Trim(c) BY <1>5, <1>7 DEF Trim
<1>8. CASE Score(c)
  <2>1. /\ recorder' = [recorder EXCEPT ![c] = Scored(recorder[c])] /\ recorder[c].pc = "score"
        /\ UNCHANGED <<outcomes, alertState, gap>>
    BY <1>8 DEF Score
  <2>2. CASE Health(outcomes) = recorder[c].was
    <3>1. recorder' = [recorder EXCEPT ![c] = IdleRecorder] BY <2>1, <2>2 DEF Scored
    <3>2. recorder'[c].pc = "idle" BY <1>1, <3>1, IdleType
    <3>3. \A d \in Recorders \ {c} : recorder'[d] = recorder[d] BY <1>1, <3>1
    <3>4. ~gap => (alertState = "unhealthy" <=> Health(outcomes) = "unhealthy")
      BY <2>1, <2>2 DEF GapInv, NoGap, Agrees
    <3>5. CASE gap BY <2>1, <3>2, <3>3, <3>5, MakesGap
    <3>6. CASE ~gap BY <1>1, <1>2, <1>3, <2>1, <3>2, <3>3, <3>4, <3>6, EndsRight
    <3> QED BY <3>5, <3>6
  <2>3. CASE Health(outcomes) # recorder[c].was
    <3> DEFINE x == Scored(recorder[c])
    <3>1. Health(outcomes) \in States BY DEF Health, States
    <3>2. x = [pc |-> "count", outcome |-> recorder[c].outcome, was |-> recorder[c].was,
               is |-> Health(outcomes), tries |-> 0, moved |-> FALSE, alone |-> recorder[c].alone]
      BY <2>3 DEF Scored
    <3>3. /\ x \in Recorder /\ x.pc = "count" /\ x.alone = recorder[c].alone
          /\ x.is = Health(outcomes)
      BY <1>1, <3>1, <3>2 DEF Recorder
    <3> HIDE DEF x
    <3>4. recorder' = [recorder EXCEPT ![c] = x] BY <2>1 DEF x
    <3> QED BY <1>1, <1>2, <2>1, <3>3, <3>4, GoesOn
  <2> QED BY <2>2, <2>3
<1>9. ASSUME recorder' = [recorder EXCEPT ![c] = IdleRecorder], gap' = TRUE, UNCHANGED outcomes
      PROVE  GapInv'
  <2>1. recorder'[c].pc = "idle" BY <1>1, <1>9, IdleType
  <2>2. \A d \in Recorders \ {c} : recorder'[d] = recorder[d] BY <1>1, <1>9
  <2> QED BY <1>9, <2>1, <2>2, MakesGap
<1>10. ASSUME recorder' = [recorder EXCEPT ![c].pc = "watch"], recorder[c].pc \in Claiming,
              UNCHANGED <<outcomes, alertState, gap>>
       PROVE  GapInv'
  <2> DEFINE x == [recorder[c] EXCEPT !.pc = "watch"]
  <2>1. x \in Recorder /\ x.pc = "watch" /\ x.alone = recorder[c].alone /\ x.is = recorder[c].is
    BY <1>1 DEF Recorder
  <2>2. recorder' = [recorder EXCEPT ![c] = x] BY <1>10
  <2> HIDE DEF x
  <2> QED BY <1>1, <1>2, <1>4, <1>10, <2>1, <2>2, GoesOn
<1>11. CASE Count(c) BY <1>9, <1>10, <1>11 DEF Count, End, Claiming
<1>12. CASE WatchState(c)
  <2>1. recorder[c].pc \in Claiming /\ UNCHANGED <<outcomes, alertState>>
    BY <1>12 DEF WatchState, Claiming
  <2>2. CASE alertState = recorder[c].is
    <3>1. recorder' = [recorder EXCEPT ![c] = IdleRecorder] /\ gap' = (gap /\ ~recorder[c].alone)
      BY <1>12, <2>2 DEF WatchState, End, Settles
    <3>2. recorder'[c].pc = "idle" BY <1>1, <3>1, IdleType
    <3>3. \A d \in Recorders \ {c} : recorder'[d] = recorder[d] BY <1>1, <3>1
    <3> QED BY <1>1, <1>2, <1>3, <1>4, <2>1, <2>2, <3>1, <3>2, <3>3, EndsRight
  <2>3. CASE alertState # recorder[c].is
    <3> DEFINE x == Watching(recorder[c])
    <3>1. recorder[c].tries + 1 \in Nat BY <1>1 DEF Recorder
    <3>2. x \in Recorder /\ x.pc = "exec" /\ x.alone = recorder[c].alone /\ x.is = recorder[c].is
      BY <1>1, <3>1 DEF Watching, Recorder
    <3>3. recorder' = [recorder EXCEPT ![c] = x] /\ gap' = gap BY <1>12, <2>3 DEF WatchState
    <3> HIDE DEF x
    <3> QED BY <1>1, <1>2, <1>4, <2>1, <3>2, <3>3, GoesOn
  <2> QED BY <2>2, <2>3
<1>13. CASE Claim(c)
  <2> DEFINE f == [recorder EXCEPT ![c] = IdleRecorder]
  <2>1. /\ recorder[c].pc \in Claiming /\ outcomes' = outcomes /\ alertState' = recorder[c].is
        /\ recorder' = Moved(f) /\ gap' = (gap /\ ~recorder[c].alone)
    BY <1>13 DEF Claim, Settles, Claiming
  <2>2. recorder'[c].pc = "idle" BY <1>1, <2>1, IdleType DEF Moved
  <2>3. ASSUME NEW d \in Recorders \ {c}
        PROVE  /\ recorder'[d].pc = recorder[d].pc /\ recorder'[d].alone = recorder[d].alone
               /\ recorder'[d].is = recorder[d].is
    <3>1. recorder[d] \in Recorder /\ f[d] = recorder[d] BY <1>1
    <3>2. recorder'[d] = recorder[d] \/ recorder'[d] = [recorder[d] EXCEPT !.moved = TRUE]
      BY <2>1, <3>1 DEF Moved
    <3> QED BY <3>1, <3>2 DEF Recorder
  <2> QED BY <1>1, <1>2, <1>3, <1>4, <2>1, <2>2, <2>3, EndsRight
<1>14. CASE Aborted(c) BY <1>9, <1>10, <1>14 DEF Aborted, End, Claiming
<1>15. CASE RecordFails(c) BY <1>9, <1>15 DEF RecordFails, End, Faulty
<1> QED BY <1>6, <1>7, <1>8, <1>11, <1>12, <1>13, <1>14, <1>15

(* An expiry makes a gap. *)
LEMMA ExpiryGap == ASSUME GapInv, HealthTypes, WindowExpires \/ StateExpires PROVE GapInv'
<1>1. CASE WindowExpires
  <2>1. Quiet /\ gap' = TRUE /\ recorder' = recorder BY <1>1 DEF WindowExpires, Faulty
  <2> QED BY <2>1 DEF GapInv, Solo, ClaimIsCurrent, Recording, Quiet, Claiming
<1>2. CASE StateExpires
  <2>1. recorder' = Moved(recorder) /\ gap' = TRUE /\ outcomes' = outcomes
    BY <1>2 DEF StateExpires, Faulty
  <2>2. ASSUME NEW d \in Recorders
        PROVE  /\ recorder'[d].pc = recorder[d].pc /\ recorder'[d].alone = recorder[d].alone
               /\ recorder'[d].is = recorder[d].is
    <3>1. recorder[d] \in Recorder BY DEF HealthTypes
    <3>2. recorder'[d] = recorder[d] \/ recorder'[d] = [recorder[d] EXCEPT !.moved = TRUE]
      BY <2>1 DEF Moved
    <3> QED BY <3>1, <3>2 DEF Recorder
  <2> QED BY <2>1, <2>2, MakesGap
<1> QED BY <1>1, <1>2

-----------------------------------------------------------------------------
(* The bounds of a call and of the window. *)

(* Only a crossing is claimed, and no more often than allowed. *)
InBounds(x) ==
  /\ x.pc \in Claiming => x.is # x.was
  /\ x.tries <= MaxClaimTries
  /\ x.pc \notin {"idle", "exec"} => x.tries < MaxClaimTries

CallInv == \A c \in Recorders : InBounds(recorder[c])

(* The window is longer than its size by what is not trimmed yet, and by    *)
(* what callers left that failed before they trimmed it.                    *)
Trimming == {c \in Recorders : recorder[c].pc = "trim"}

WindowInv ==
  /\ outcomes \in Seq({0, 1}) /\ faults \in 0..MaxFaults
  /\ Len(outcomes) <= WindowSize + Cardinality(Trimming) + faults

(* There are never more calls to trim the window than calls. *)
LEMMA SomeTrim ==
  /\ IsFiniteSet(Trimming) /\ Cardinality(Trimming) \in Nat
  /\ Cardinality(Recorders) \in Nat /\ Cardinality(Trimming) <= Cardinality(Recorders)
<1>1. IsFiniteSet(Recorders) BY HealthBounds
<1>2. Trimming \subseteq Recorders BY DEF Trimming
<1>3. IsFiniteSet(Trimming) /\ Cardinality(Trimming) <= Cardinality(Recorders)
  BY <1>1, <1>2, FS_Subset
<1> QED BY <1>1, <1>3, FS_CardinalityType

(* A window that is cut. *)
LEMMA Cut ==
  ASSUME NEW s \in Seq({0, 1})
  PROVE  Newest(s) \in Seq({0, 1}) /\ Len(Newest(s)) <= WindowSize
<1>1. WindowSize \in Nat \ {0} /\ Len(s) \in Nat BY HealthBounds
<1>2. CASE Len(s) > WindowSize
  <2>1. \A i \in 1..WindowSize : s[i] \in {0, 1} BY <1>1, <1>2
  <2>2. /\ SubSeq(s, 1, WindowSize) \in Seq({0, 1})
        /\ Len(SubSeq(s, 1, WindowSize)) = WindowSize - 1 + 1
    BY <1>1, <2>1, SubSeqProperties
  <2> QED BY <1>1, <1>2, <2>2 DEF Newest
<1>3. CASE ~(Len(s) > WindowSize) BY <1>1, <1>3 DEF Newest
<1> QED BY <1>2, <1>3

(* A new call, and the steps of a call. *)
LEMMA CallBounds ==
  ASSUME CallInv, HealthTypes, NEW c \in Recorders, RecordStep(c)
  PROVE  CallInv'
<1>1. recorder \in [Recorders -> Recorder] /\ recorder[c] \in Recorder BY DEF HealthTypes
<1>2. recorder[c].tries \in Nat /\ MaxClaimTries \in Nat \ {0} /\ InBounds(recorder[c])
  BY <1>1, HealthBounds DEF Recorder, CallInv
<1>3. InBounds(IdleRecorder) BY <1>2 DEF InBounds, IdleRecorder, Claiming
<1>4. ASSUME NEW x, InBounds(x), recorder' = [recorder EXCEPT ![c] = x] PROVE CallInv'
  BY <1>1, <1>4 DEF CallInv
<1>5. ASSUME NEW pc \in {"trim", "score", "watch"}, recorder' = [recorder EXCEPT ![c].pc = pc],
             pc = "watch" => recorder[c].pc \in Claiming /\ recorder[c].tries < MaxClaimTries,
             pc # "watch" => recorder[c].pc \in {"push", "trim"}
      PROVE  CallInv'
  <2> DEFINE x == [recorder[c] EXCEPT !.pc = pc]
  <2>1. x.pc = pc /\ x.tries = recorder[c].tries /\ x.is = recorder[c].is /\ x.was = recorder[c].was
    BY <1>1 DEF Recorder
  <2>2. recorder' = [recorder EXCEPT ![c] = x] BY <1>5
  <2> HIDE DEF x
  <2>3. InBounds(x) BY <1>2, <1>5, <2>1 DEF InBounds, Claiming
  <2> QED BY <1>4, <2>2, <2>3
<1>6. CASE Begin(c)
  <2>1. PICK o \in {0, 1} :
          recorder' = [d \in Recorders |->
            IF d = c THEN [pc |-> "push", outcome |-> o, was |-> Health(outcomes), is |-> "healthy",
                           tries |-> 0, moved |-> FALSE, alone |-> Quiet]
            ELSE [recorder[d] EXCEPT !.alone = @ /\ ~Recording(d)]]
    BY <1>6 DEF Begin
  <2>2. InBounds(recorder'[c])
    <3>1. recorder'[c].pc = "push" /\ recorder'[c].tries = 0 BY <2>1
    <3> QED BY <1>2, <3>1 DEF InBounds, Claiming
  <2>3. ASSUME NEW d \in Recorders \ {c} PROVE InBounds(recorder'[d])
    <3>1. recorder[d] \in Recorder /\ InBounds(recorder[d]) BY DEF HealthTypes, CallInv
    <3>2. recorder'[d] = [recorder[d] EXCEPT !.alone = @ /\ ~Recording(d)] BY <2>1
    <3>3. /\ recorder'[d].pc = recorder[d].pc /\ recorder'[d].tries = recorder[d].tries
          /\ recorder'[d].is = recorder[d].is /\ recorder'[d].was = recorder[d].was
      BY <3>1, <3>2 DEF Recorder
    <3> QED BY <3>1, <3>3 DEF InBounds
  <2> QED BY <2>2, <2>3 DEF CallInv
<1>7. CASE Push(c) BY <1>5, <1>7 DEF Push
<1>8. CASE Trim(c) BY <1>5, <1>8 DEF Trim
<1>9. CASE Score(c)
  <2>1. InBounds(Scored(recorder[c]))
    BY <1>2, <1>3 DEF Scored, InBounds, Claiming
  <2>2. recorder' = [recorder EXCEPT ![c] = Scored(recorder[c])] BY <1>9 DEF Score
  <2> QED BY <1>4, <2>1, <2>2
<1>10. CASE Count(c)
  <2>1. recorder[c].pc = "count" /\ recorder[c].tries < MaxClaimTries
    BY <1>2, <1>10 DEF Count, InBounds
  <2> QED BY <1>3, <1>4, <1>5, <1>10, <2>1 DEF Count, End, Claiming
<1>11. CASE WatchState(c)
  <2>1. InBounds(Watching(recorder[c]))
    BY <1>2, <1>11 DEF WatchState, Watching, InBounds, Claiming
  <2> QED BY <1>3, <1>4, <1>11, <2>1 DEF WatchState, End
<1>12. CASE Aborted(c)
  <2>1. CASE recorder[c].tries < MaxClaimTries /\ recorder' = [recorder EXCEPT ![c].pc = "watch"]
    BY <1>5, <1>12, <2>1 DEF Aborted, Claiming
  <2>2. CASE End(c) BY <1>3, <1>4, <2>2 DEF End
  <2> QED BY <1>12, <2>1, <2>2 DEF Aborted
<1>13. CASE RecordFails(c) BY <1>3, <1>4, <1>13 DEF RecordFails, End
<1>14. CASE Claim(c)
  <2> DEFINE f == [recorder EXCEPT ![c] = IdleRecorder]
  <2>1. recorder' = Moved(f) BY <1>14 DEF Claim
  <2>2. ASSUME NEW d \in Recorders PROVE f[d] \in Recorder /\ InBounds(f[d])
    BY <1>1, <1>3, IdleType DEF CallInv
  <2>3. ASSUME NEW d \in Recorders PROVE InBounds(recorder'[d])
    <3>1. f[d] \in Recorder /\ InBounds(f[d]) BY <2>2
    <3>2. recorder'[d] = f[d] \/ recorder'[d] = [f[d] EXCEPT !.moved = TRUE] BY <2>1 DEF Moved
    <3> HIDE DEF f
    <3>3. /\ recorder'[d].pc = f[d].pc /\ recorder'[d].tries = f[d].tries
          /\ recorder'[d].is = f[d].is /\ recorder'[d].was = f[d].was
      BY <3>1, <3>2 DEF Recorder
    <3> QED BY <3>1, <3>3 DEF InBounds
  <2> QED BY <2>3 DEF CallInv
<1> QED BY <1>6, <1>7, <1>8, <1>9, <1>10, <1>11, <1>12, <1>13, <1>14 DEF RecordStep

(* The window grows by calls that are going to trim it, or that fail. *)
LEMMA WindowBounds ==
  ASSUME WindowInv, HealthTypes, NEW c \in Recorders, RecordStep(c)
  PROVE  WindowInv'
<1> DEFINE T == Trimming
<1>1. recorder \in [Recorders -> Recorder] /\ recorder[c] \in Recorder BY DEF HealthTypes
<1>2. /\ outcomes \in Seq({0, 1}) /\ faults \in 0..MaxFaults /\ Len(outcomes) \in Nat
      /\ Len(outcomes) <= WindowSize + Cardinality(T) + faults
      /\ WindowSize \in Nat /\ MaxFaults \in Nat
  BY HealthBounds DEF WindowInv
<1>3. IsFiniteSet(T) /\ Cardinality(T) \in Nat BY SomeTrim
<1>4. CASE Push(c)
  <2>1. /\ recorder' = [recorder EXCEPT ![c].pc = "trim"] /\ faults' = faults
        /\ outcomes' = <<recorder[c].outcome>> \o outcomes /\ recorder[c].pc = "push"
    BY <1>4 DEF Push
  <2>2. recorder[c].outcome \in {0, 1} BY <1>1 DEF Recorder
  <2>3. <<recorder[c].outcome>> \in Seq({0, 1}) /\ Len(<<recorder[c].outcome>>) = 1 BY <2>2
  <2>4. outcomes' \in Seq({0, 1}) /\ Len(outcomes') = 1 + Len(outcomes)
    BY <1>2, <2>1, <2>3, ConcatProperties
  <2>5. c \notin T BY <2>1 DEF Trimming
  <2>6. recorder'[c].pc = "trim" /\ \A d \in Recorders \ {c} : recorder'[d] = recorder[d]
    <3>1. [recorder[c] EXCEPT !.pc = "trim"].pc = "trim" BY <1>1 DEF Recorder
    <3> QED BY <1>1, <2>1, <3>1
  <2>7. Trimming' = T \cup {c} BY <2>6 DEF Trimming
  <2> HIDE DEF T
  <2>8. Cardinality(T \cup {c}) = Cardinality(T) + 1 BY <1>3, <2>5, FS_AddElement
  <2> QED BY <1>2, <1>3, <2>1, <2>4, <2>7, <2>8 DEF WindowInv
<1>5. CASE Trim(c)
  <2>1. outcomes' \in Seq({0, 1}) /\ Len(outcomes') <= WindowSize /\ faults' = faults
    BY <1>2, <1>5, Cut DEF Trim
  <2>2. Cardinality(Trimming') \in Nat
    <3>1. IsFiniteSet(Recorders) /\ Trimming' \subseteq Recorders BY HealthBounds DEF Trimming
    <3>2. IsFiniteSet(Trimming') BY <3>1, FS_Subset
    <3> QED BY <3>2, FS_CardinalityType
  <2>3. Len(outcomes') \in Nat BY <2>1
  <2> QED BY <1>2, <2>1, <2>2, <2>3 DEF WindowInv
<1>6. CASE RecordFails(c)
  <2>1. /\ recorder' = [recorder EXCEPT ![c] = IdleRecorder] /\ outcomes' = outcomes
        /\ faults' = faults + 1 /\ faults < MaxFaults
    BY <1>6 DEF RecordFails, End, Faulty
  <2>2. Trimming' = T \ {c}
    <3>1. recorder'[c].pc = "idle" /\ \A d \in Recorders \ {c} : recorder'[d] = recorder[d]
      BY <1>1, <2>1, IdleType
    <3> QED BY <3>1 DEF Trimming
  <2> HIDE DEF T
  <2>3. Cardinality(T \ {c}) \in Nat /\ Cardinality(T \ {c}) >= Cardinality(T) - 1
    <3>1. IsFiniteSet(T \ {c}) BY <1>3, FS_RemoveElement
    <3>2. Cardinality(T \ {c}) \in Nat BY <3>1, FS_CardinalityType
    <3>3. Cardinality(T \ {c}) = IF c \in T THEN Cardinality(T) - 1 ELSE Cardinality(T)
      BY <1>3, FS_RemoveElement
    <3> QED BY <1>3, <3>2, <3>3
  <2> QED BY <1>2, <1>3, <2>1, <2>2, <2>3 DEF WindowInv
<1>7. CASE Begin(c) \/ Score(c) \/ Count(c) \/ WatchState(c) \/ Claim(c) \/ Aborted(c)
  <2>1. UNCHANGED <<outcomes, faults>>
    BY <1>7 DEF Begin, Score, Count, WatchState, Claim, Aborted
  <2>2. recorder[c].pc # "trim"
    BY <1>7 DEF Begin, Score, Count, WatchState, Claim, Aborted, Recording
  <2>3. recorder'[c].pc # "trim" /\ \A d \in Recorders \ {c} : recorder'[d].pc = recorder[d].pc
    <3>1. CASE Begin(c)
      <4>1. PICK o \in {0, 1} :
              recorder' = [d \in Recorders |->
                IF d = c THEN [pc |-> "push", outcome |-> o, was |-> Health(outcomes),
                               is |-> "healthy", tries |-> 0, moved |-> FALSE, alone |-> Quiet]
                ELSE [recorder[d] EXCEPT !.alone = @ /\ ~Recording(d)]]
        BY <3>1 DEF Begin
      <4>2. recorder'[c].pc = "push" BY <4>1
      <4>3. ASSUME NEW d \in Recorders \ {c} PROVE recorder'[d].pc = recorder[d].pc
        <5>1. recorder[d] \in Recorder BY DEF HealthTypes
        <5> QED BY <4>1, <5>1 DEF Recorder
      <4> QED BY <4>2, <4>3
    <3>2. CASE Score(c)
      <4>1. Scored(recorder[c]).pc # "trim" BY IdleType DEF Scored
      <4>2. recorder' = [recorder EXCEPT ![c] = Scored(recorder[c])] BY <3>2 DEF Score
      <4> QED BY <1>1, <4>1, <4>2
    <3>3. CASE \/ recorder' = [recorder EXCEPT ![c] = IdleRecorder]
               \/ recorder' = [recorder EXCEPT ![c].pc = "watch"]
               \/ recorder' = [recorder EXCEPT ![c] = Watching(recorder[c])]
      BY <1>1, <3>3, IdleType DEF Watching, Recorder
    <3>4. CASE Claim(c)
      <4>1. recorder' = Moved([recorder EXCEPT ![c] = IdleRecorder]) BY <3>4 DEF Claim
      <4>2. recorder'[c].pc = "idle" BY <1>1, <4>1, IdleType DEF Moved
      <4>3. ASSUME NEW d \in Recorders \ {c} PROVE recorder'[d].pc = recorder[d].pc
        <5>1. recorder[d] \in Recorder BY DEF HealthTypes
        <5>2. recorder'[d] = recorder[d] \/ recorder'[d] = [recorder[d] EXCEPT !.moved = TRUE]
          BY <1>1, <4>1 DEF Moved
        <5> QED BY <5>1, <5>2 DEF Recorder
      <4> QED BY <4>2, <4>3
    <3> QED BY <1>7, <3>1, <3>2, <3>3, <3>4 DEF Count, WatchState, Aborted, End
  <2>4. Trimming' = Trimming BY <2>2, <2>3 DEF Trimming
  <2> QED BY <2>1, <2>4 DEF WindowInv
<1> QED BY <1>4, <1>5, <1>6, <1>7 DEF RecordStep

(* An expiry leaves the calls and the window within their bounds. *)
LEMMA ExpiryBounds ==
  ASSUME WindowInv, CallInv, HealthTypes, WindowExpires \/ StateExpires
  PROVE  WindowInv' /\ CallInv'
<1>1. /\ outcomes \in Seq({0, 1}) /\ faults \in 0..MaxFaults /\ Len(outcomes) \in Nat
      /\ Len(outcomes) <= WindowSize + Cardinality(Trimming) + faults
      /\ WindowSize \in Nat /\ MaxFaults \in Nat /\ Cardinality(Trimming) \in Nat
  BY HealthBounds, SomeTrim DEF WindowInv
<1>2. faults' \in 0..MaxFaults /\ faults' = faults + 1
  BY <1>1 DEF WindowExpires, StateExpires, Faulty
<1>3. (outcomes' = <<>> \/ outcomes' = outcomes) /\ (recorder' = recorder \/ recorder' = Moved(recorder))
  BY DEF WindowExpires, StateExpires
<1>4. ASSUME NEW d \in Recorders
      PROVE  recorder'[d].pc = recorder[d].pc /\ InBounds(recorder'[d])
  <2>1. recorder[d] \in Recorder /\ InBounds(recorder[d]) BY DEF HealthTypes, CallInv
  <2>2. recorder'[d] = recorder[d] \/ recorder'[d] = [recorder[d] EXCEPT !.moved = TRUE]
    BY <1>3 DEF Moved
  <2>3. /\ recorder'[d].pc = recorder[d].pc /\ recorder'[d].tries = recorder[d].tries
        /\ recorder'[d].is = recorder[d].is /\ recorder'[d].was = recorder[d].was
    BY <2>1, <2>2 DEF Recorder
  <2> QED BY <2>1, <2>3 DEF InBounds
<1>5. Trimming' = Trimming BY <1>4 DEF Trimming
<1>6. outcomes' \in Seq({0, 1}) /\ (Len(outcomes') = 0 \/ Len(outcomes') = Len(outcomes))
  <2>1. <<>> \in Seq({0, 1}) /\ Len(<<>>) = 0 OBVIOUS
  <2> QED BY <1>1, <1>3, <2>1
<1>7. WindowInv' BY <1>1, <1>2, <1>5, <1>6 DEF WindowInv
<1> QED BY <1>4, <1>7 DEF CallInv

-----------------------------------------------------------------------------
(* The rows, and what is on its way to their endpoints. *)

AdminTypes ==
  admin \in [Admins -> [pc : {"idle", "find", "save", "remove"},
                        channel : Channels \cup {NoChannel}, op : Operations]]

(* Whatever a request or a row is about was drawn before. *)
RowsInv ==
  /\ AdminTypes
  /\ DOMAIN rows \subseteq drawn /\ drawn \subseteq Channels
  /\ \A a \in Admins : admin[a].pc # "idle" => admin[a].channel \in drawn

(* Only what was listed is on its way. *)
MailInv ==
  /\ Len(alerts) \in Nat
  /\ publishing \subseteq 1..Len(alerts)
  /\ \A x \in jobs \cup heard : x.alert \in SentOut

(* No request under way can bring back a row that is gone. *)
GoneInv ==
  \A ch \in DOMAIN gone :
    /\ ch \in drawn /\ ~Exists(ch) /\ ~AboutToSave(ch)
    /\ \A x \in jobs \cup heard : x.channel = ch => x.alert \in gone[ch]

IInv == ClaimInv /\ RowsInv /\ MailInv /\ GoneInv

(* Steps of the Admin API other than a deletion. *)
LEMMA AdminRequest ==
  ASSUME IInv, NEW a \in Admins,
         AskCreate(a) \/ Ask(a) \/ Find(a) \/ Save(a) \/ AdminFails(a)
  PROVE  /\ RowsInv' /\ UNCHANGED <<publishing, jobs, heard, gone>> /\ drawn \subseteq drawn'
         /\ \A ch \in DOMAIN gone : ~Exists(ch)' /\ ~AboutToSave(ch)'
<1>1. IdleAdmin \in [pc : {"idle", "find", "save", "remove"},
                     channel : Channels \cup {NoChannel}, op : Operations]
  BY DEF IdleAdmin, Operations
<1>2. RowsInv BY DEF IInv
<1>3. \A ch \in DOMAIN gone : ch \in drawn /\ ~Exists(ch) /\ ~AboutToSave(ch) BY DEF IInv, GoneInv
<1>4. admin[a] \in [pc : {"idle", "find", "save", "remove"},
                    channel : Channels \cup {NoChannel}, op : Operations]
  BY <1>2 DEF RowsInv, AdminTypes
<1>5. CASE Save(a)
  <2>1. PICK enabled \in BOOLEAN : rows' = With(rows, admin[a].channel, enabled) BY <1>5 DEF Save
  <2>2. DOMAIN rows' = DOMAIN rows \cup {admin[a].channel} BY <2>1 DEF With
  <2>3. admin' = [admin EXCEPT ![a] = IdleAdmin] /\ UNCHANGED <<drawn, publishing, jobs, heard, gone>>
    BY <1>5 DEF Save, Finish
  <2>4. RowsInv' BY <1>1, <1>2, <1>5, <2>2, <2>3 DEF Save, RowsInv, AdminTypes, IdleAdmin
  <2>5. \A ch \in DOMAIN gone : ch # admin[a].channel BY <1>3, <1>5 DEF Save, AboutToSave
  <2>6. ASSUME NEW ch \in DOMAIN gone PROVE ~AboutToSave(ch)'
    BY <1>2, <1>3, <2>3 DEF RowsInv, AdminTypes, AboutToSave, IdleAdmin
  <2> QED BY <1>3, <2>2, <2>3, <2>4, <2>5, <2>6 DEF Exists
<1>6. ASSUME NEW x \in [pc : {"idle", "find", "save", "remove"},
                        channel : Channels \cup {NoChannel}, op : Operations],
             admin' = [admin EXCEPT ![a] = x], UNCHANGED <<rows, publishing, jobs, heard, gone>>,
             drawn \subseteq drawn', drawn' \subseteq Channels,
             x.pc # "idle" => x.channel \in drawn',
             x.pc = "save" => x.channel \notin DOMAIN gone
      PROVE  /\ RowsInv' /\ UNCHANGED <<publishing, jobs, heard, gone>> /\ drawn \subseteq drawn'
             /\ \A ch \in DOMAIN gone : ~Exists(ch)' /\ ~AboutToSave(ch)'
  <2>1. RowsInv' BY <1>2, <1>6 DEF RowsInv, AdminTypes
  <2>2. ASSUME NEW ch \in DOMAIN gone PROVE ~Exists(ch)' /\ ~AboutToSave(ch)'
    BY <1>2, <1>3, <1>6 DEF RowsInv, AdminTypes, Exists, AboutToSave
  <2> QED BY <1>6, <2>1, <2>2
<1>7. CASE AskCreate(a)
  <2>1. PICK ch \in Channels \ drawn :
          /\ admin' = [admin EXCEPT ![a] = [pc |-> "save", channel |-> ch, op |-> "created"]]
          /\ drawn' = drawn \cup {ch}
    BY <1>7 DEF AskCreate
  <2> DEFINE x == [pc |-> "save", channel |-> ch, op |-> "created"]
  <2>2. x \in [pc : {"idle", "find", "save", "remove"},
               channel : Channels \cup {NoChannel}, op : Operations]
        /\ x.channel = ch
    BY DEF Operations
  <2>3. ch \notin DOMAIN gone BY <1>3, <2>1
  <2>4. drawn' \subseteq Channels BY <1>2, <2>1 DEF RowsInv
  <2> HIDE DEF x
  <2>5. admin' = [admin EXCEPT ![a] = x] BY <2>1 DEF x
  <2> QED BY <1>6, <1>7, <2>1, <2>2, <2>3, <2>4, <2>5 DEF AskCreate
<1>8. CASE Ask(a)
  <2>1. PICK ch \in drawn, op \in {"updated", "deleted"} :
          admin' = [admin EXCEPT ![a] = [pc |-> "find", channel |-> ch, op |-> op]]
    BY <1>8 DEF Ask
  <2> DEFINE x == [pc |-> "find", channel |-> ch, op |-> op]
  <2>2. x \in [pc : {"idle", "find", "save", "remove"},
               channel : Channels \cup {NoChannel}, op : Operations]
        /\ x.channel = ch /\ x.pc = "find"
    BY <1>2 DEF Operations, RowsInv
  <2> HIDE DEF x
  <2>3. admin' = [admin EXCEPT ![a] = x] BY <2>1 DEF x
  <2> QED BY <1>2, <1>6, <1>8, <2>1, <2>2, <2>3 DEF Ask, RowsInv
<1>9. CASE AdminFails(a) \/ (Find(a) /\ ~Exists(admin[a].channel))
  <2>1. admin' = [admin EXCEPT ![a] = IdleAdmin] /\ UNCHANGED <<rows, drawn, publishing, jobs, heard, gone>>
    BY <1>9 DEF AdminFails, Find, Finish
  <2> QED BY <1>1, <1>2, <1>6, <2>1 DEF RowsInv, IdleAdmin
<1>10. CASE Find(a) /\ Exists(admin[a].channel)
  <2>1. PICK pc \in {"save", "remove"} : admin' = [admin EXCEPT ![a].pc = pc]
    BY <1>10 DEF Find
  <2> DEFINE x == [admin[a] EXCEPT !.pc = pc]
  <2>2. x \in [pc : {"idle", "find", "save", "remove"},
               channel : Channels \cup {NoChannel}, op : Operations]
        /\ x.channel = admin[a].channel
    BY <1>4
  <2>3. admin[a].channel \in drawn /\ admin[a].channel \notin DOMAIN gone
    BY <1>2, <1>3, <1>10 DEF Find, RowsInv
  <2>4. admin' = [admin EXCEPT ![a] = x] BY <2>1
  <2>5. UNCHANGED <<rows, drawn, publishing, jobs, heard, gone>> BY <1>10 DEF Find
  <2> HIDE DEF x
  <2> QED BY <1>2, <1>6, <2>2, <2>3, <2>4, <2>5 DEF RowsInv
<1> QED BY <1>5, <1>7, <1>8, <1>9, <1>10

(* Every request of the Admin API keeps the rows and what hangs on them. *)
LEMMA AdminInv ==
  ASSUME IInv, NEW a \in Admins, AdminStep(a), UNCHANGED healthVars
  PROVE  IInv'
<1>1. ClaimInv' 
  BY DEF IInv, ClaimInv, HealthTypes, ClaimsChange, LastAlertStands, AlertsAlternate, healthVars
<1>2. UNCHANGED alerts BY DEF healthVars
<1>3. CASE ~Delete(a)
  <2>1. /\ RowsInv' /\ UNCHANGED <<publishing, jobs, heard, gone>> /\ drawn \subseteq drawn'
        /\ \A ch \in DOMAIN gone : ~Exists(ch)' /\ ~AboutToSave(ch)'
    BY <1>3, AdminRequest DEF AdminStep
  <2>2. MailInv' BY <1>2, <2>1 DEF IInv, MailInv, SentOut
  <2>3. GoneInv' BY <2>1 DEF IInv, GoneInv
  <2> QED BY <1>1, <2>1, <2>2, <2>3 DEF IInv
<1>4. CASE Delete(a)
  <2> DEFINE ch == admin[a].channel
  <2>1. admin' = [admin EXCEPT ![a] = IdleAdmin] /\ UNCHANGED <<drawn, publishing, jobs, heard>>
    BY <1>4 DEF Delete, Finish
  <2>2. MailInv' BY <1>2, <2>1 DEF IInv, MailInv, SentOut
  <2>3. DOMAIN rows' \subseteq DOMAIN rows BY <1>4 DEF Delete, Without
  <2>4. IdleAdmin \in [pc : {"idle", "find", "save", "remove"},
                       channel : Channels \cup {NoChannel}, op : Operations]
        /\ IdleAdmin.pc = "idle"
    BY DEF IdleAdmin, Operations
  <2>5. RowsInv' BY <2>1, <2>3, <2>4 DEF IInv, RowsInv, AdminTypes
  <2>6. ASSUME NEW k, ~AboutToSave(k) PROVE ~AboutToSave(k)'
    BY <2>1, <2>4, <2>6 DEF IInv, RowsInv, AdminTypes, AboutToSave
  <2>7. GoneInv'
    <3>1. CASE UNCHANGED gone
      BY <2>1, <2>3, <2>6, <3>1 DEF IInv, GoneInv, Exists
    <3>2. CASE Exists(ch) /\ ~AboutToSave(ch) /\ gone' = With(gone, ch, SentOut)
      <4>1. rows' = Without(rows, ch) BY <1>4, <3>2 DEF Delete
      <4>2. ch \notin DOMAIN rows' /\ ch \in drawn BY <3>2, <4>1 DEF Without, IInv, RowsInv, Exists
      <4>3. DOMAIN gone' = DOMAIN gone \cup {ch} /\ gone'[ch] = SentOut
            /\ \A k \in DOMAIN gone \ {ch} : gone'[k] = gone[k]
        BY <3>2 DEF With
      <4> SUFFICES ASSUME NEW k \in DOMAIN gone'
                   PROVE  /\ k \in drawn' /\ ~Exists(k)' /\ ~AboutToSave(k)'
                          /\ \A x \in jobs' \cup heard' : x.channel = k => x.alert \in gone'[k]
        BY DEF GoneInv
      <4>4. CASE k = ch
        <5>1. \A x \in jobs' \cup heard' : x.alert \in gone'[k]
          BY <2>1, <4>3, <4>4 DEF IInv, MailInv
        <5> QED BY <2>1, <2>6, <3>2, <4>2, <4>4, <5>1 DEF Exists
      <4>5. CASE k # ch
        BY <2>1, <2>3, <2>6, <4>3, <4>5 DEF IInv, GoneInv, Exists
      <4> QED BY <4>4, <4>5
    <3> QED BY <1>4, <3>1, <3>2 DEF Delete
  <2> QED BY <1>1, <2>2, <2>5, <2>7 DEF IInv
<1> QED BY <1>3, <1>4

(* Raising an alert adds it to those that are not listed yet. *)
LEMMA RaiseInv ==
  ASSUME IInv, Raise, cast.recorders \subseteq Recorders
  PROVE  IInv'
<1>1. ClaimInv'
  <2>1. ASSUME NEW c \in Recorders, RecordStep(c) PROVE ClaimInv'
    BY <2>1, BeginClaims, SilentClaims, ClaimClaims DEF RecordStep, IInv
  <2> QED BY <2>1, ExpiryClaims DEF Raise, IInv
<1>2. alerts' = alerts \/ \E x : alerts' = Append(alerts, x)
  BY DEF Raise, WindowExpires, StateExpires, RecordStep, Begin, Push, Trim, Score, Count,
         WatchState, Claim, Aborted, RecordFails
<1>3. Len(alerts) \in Nat /\ Len(alerts') \in Nat /\ Len(alerts) <= Len(alerts')
  <2>1. alerts \in Seq([state : States, lapsed : BOOLEAN]) BY DEF IInv, ClaimInv, HealthTypes
  <2>2. alerts' \in Seq([state : States, lapsed : BOOLEAN]) BY <1>1 DEF ClaimInv, HealthTypes
  <2>3. CASE alerts' = alerts BY <2>1, <2>3
  <2>4. ASSUME NEW x, alerts' = Append(alerts, x) PROVE Len(alerts') = Len(alerts) + 1
    BY <2>1, <2>4 
  <2> QED BY <1>2, <2>1, <2>2, <2>3, <2>4
<1>4. publishing' = publishing \cup (Len(alerts) + 1)..Len(alerts')
      /\ UNCHANGED <<rows, drawn, admin, jobs, heard, gone>>
  BY DEF Raise
<1>5. SentOut' = SentOut
  <2>1. publishing \subseteq 1..Len(alerts) BY DEF IInv, MailInv
  <2>2. SentOut' = (1..Len(alerts')) \ (publishing \cup (Len(alerts) + 1)..Len(alerts'))
    BY <1>4 DEF SentOut
  <2>3. ASSUME NEW i \in Int
        PROVE  i \in 1..Len(alerts') /\ i \notin (Len(alerts) + 1)..Len(alerts') <=> i \in 1..Len(alerts)
    BY <1>3
  <2>4. SentOut = (1..Len(alerts)) \ publishing BY DEF SentOut
  <2>5. ASSUME NEW i \in Int PROVE i \in SentOut' <=> i \in SentOut
    <3>1. i \in SentOut' <=> /\ i \in 1..Len(alerts') /\ i \notin (Len(alerts) + 1)..Len(alerts')
                             /\ i \notin publishing
      BY <2>2
    <3>2. i \in SentOut <=> i \in 1..Len(alerts) /\ i \notin publishing BY <2>4
    <3> QED BY <2>3, <3>1, <3>2
  <2>6. SentOut \subseteq Int /\ SentOut' \subseteq Int
    <3>1. SentOut \subseteq 1..Len(alerts) /\ SentOut' \subseteq 1..Len(alerts') BY <2>2, <2>4
    <3>2. 1..Len(alerts) \subseteq Int /\ 1..Len(alerts') \subseteq Int BY <1>3
    <3> QED BY <3>1, <3>2
  <2> QED BY <2>5, <2>6
<1>6. MailInv'
  <2>1. (1..Len(alerts)) \subseteq 1..Len(alerts') /\ ((Len(alerts) + 1)..Len(alerts')) \subseteq 1..Len(alerts')
    BY <1>3
  <2>2. publishing' \subseteq 1..Len(alerts') BY <1>4, <2>1 DEF IInv, MailInv
  <2>3. \A x \in jobs' \cup heard' : x.alert \in SentOut' BY <1>4, <1>5 DEF IInv, MailInv
  <2> QED BY <1>3, <2>2, <2>3 DEF MailInv
<1>7. RowsInv' /\ GoneInv'
  BY <1>4 DEF IInv, RowsInv, AdminTypes, GoneInv, Exists, AboutToSave
<1> QED BY <1>1, <1>6, <1>7 DEF IInv

(* Jobs are made for rows there are, and an endpoint hears what its job is  *)
(* about.                                                                   *)
LEMMA OutgoingInv ==
  ASSUME IInv, Outgoing, UNCHANGED healthVars
  PROVE  IInv'
<1>1. ClaimInv' 
  BY DEF IInv, ClaimInv, HealthTypes, ClaimsChange, LastAlertStands, AlertsAlternate, healthVars
<1>2. UNCHANGED <<alerts, rows, drawn, admin, gone>>
  BY DEF Outgoing, FanOut, FanOutFails, Deliver, healthVars
<1>3. publishing' \subseteq publishing BY DEF Outgoing, FanOut, FanOutFails, Deliver
<1>4. ASSUME NEW x \in jobs' \cup heard'
      PROVE  \/ \E y \in jobs \cup heard : y.alert = x.alert /\ y.channel = x.channel
             \/ x.alert \in 1..Len(alerts) /\ x.alert \notin publishing' /\ Exists(x.channel)
  <2>1. ASSUME NEW i \in publishing, FanOut(i)
        PROVE  \/ \E y \in jobs \cup heard : y.alert = x.alert /\ y.channel = x.channel
               \/ x.alert \in 1..Len(alerts) /\ x.alert \notin publishing' /\ Exists(x.channel)
    <3>1. PICK lost \in SUBSET EnabledRows :
            jobs' = jobs \cup {[alert |-> i, channel |-> ch, tries |-> 0] : ch \in EnabledRows \ lost}
      BY <2>1 DEF FanOut
    <3>2. CASE x \in jobs \cup heard BY <3>2
    <3>3. CASE x \notin jobs \cup heard
      <4>1. PICK ch \in EnabledRows \ lost : x = [alert |-> i, channel |-> ch, tries |-> 0]
        BY <2>1, <3>1, <3>3 DEF FanOut
      <4>2. x.alert = i /\ x.channel = ch /\ Exists(ch) BY <4>1 DEF EnabledRows, Exists
      <4>3. i \in 1..Len(alerts) /\ i \notin publishing' BY <2>1 DEF FanOut, IInv, MailInv
      <4> QED BY <4>2, <4>3
    <3> QED BY <3>2, <3>3
  <2>2. ASSUME NEW i \in publishing, FanOutFails(i) PROVE x \in jobs \cup heard
    BY <2>2 DEF FanOutFails
  <2>3. ASSUME NEW j \in jobs, Deliver(j)
        PROVE  \E y \in jobs \cup heard : y.alert = x.alert /\ y.channel = x.channel
    <3> DEFINE again == [j EXCEPT !.tries = @ + 1]
    <3>1. x \in jobs \cup heard \cup {again, [alert |-> j.alert, channel |-> j.channel]}
      BY <2>3 DEF Deliver
    <3>2. again.alert = j.alert /\ again.channel = j.channel OBVIOUS
    <3> HIDE DEF again
    <3>3. CASE x = again BY <2>3, <3>2, <3>3
    <3>4. CASE x = [alert |-> j.alert, channel |-> j.channel] BY <2>3, <3>4
    <3> QED BY <3>1, <3>3, <3>4
  <2> QED BY <2>1, <2>2, <2>3 DEF Outgoing
<1>5. MailInv'
  <2>1. SentOut \subseteq SentOut' BY <1>2, <1>3 DEF SentOut
  <2>2. \A x \in jobs' \cup heard' : x.alert \in SentOut'
    BY <1>2, <1>4, <2>1 DEF IInv, MailInv, SentOut
  <2> QED BY <1>2, <1>3, <2>2 DEF IInv, MailInv
<1>6. RowsInv' BY <1>2 DEF IInv, RowsInv, AdminTypes
<1>7. GoneInv' 
  <2> SUFFICES ASSUME NEW ch \in DOMAIN gone
               PROVE  /\ ch \in drawn /\ ~Exists(ch) /\ ~AboutToSave(ch)
                      /\ \A x \in jobs' \cup heard' : x.channel = ch => x.alert \in gone[ch]
    BY <1>2 DEF GoneInv, Exists, AboutToSave
  <2>1. ch \in drawn /\ ~Exists(ch) /\ ~AboutToSave(ch) BY DEF IInv, GoneInv
  <2>2. ASSUME NEW x \in jobs' \cup heard', x.channel = ch PROVE x.alert \in gone[ch]
    BY <1>4, <2>1, <2>2 DEF IInv, GoneInv
  <2> QED BY <2>1, <2>2
<1> QED BY <1>1, <1>5, <1>6, <1>7 DEF IInv

CastInv == cast.recorders \subseteq Recorders /\ cast.admins \subseteq Admins

(* No alert, no channel and no job to begin with. *)
LEMMA InitInv == Init => IInv /\ CastInv
<1> SUFFICES ASSUME Init PROVE IInv /\ CastInv OBVIOUS
<1>0. HealthInit BY DEF Init
<1>1. ClaimInv
  <2>1. alerts = <<>> /\ alertState = "none" /\ lapsed = FALSE
        /\ recorder = [c \in Recorders |-> IdleRecorder]
    BY <1>0 DEF HealthInit
  <2>2. Len(alerts) = 0 /\ alerts \in Seq([state : States, lapsed : BOOLEAN]) BY <2>1
  <2>3. HealthTypes /\ ClaimsChange BY <2>1, <2>2, IdleType DEF HealthTypes, ClaimsChange
  <2> QED BY <2>2, <2>3 DEF ClaimInv, LastAlertStands, AlertsAlternate
<1>2. AdminTypes BY DEF Init, AdminTypes, IdleAdmin, Operations
<1>3. RowsInv BY <1>2 DEF Init, RowsInv, IdleAdmin
<1>4. MailInv /\ GoneInv BY DEF Init, HealthInit, MailInv, GoneInv
<1>5. CastInv BY ChannelBounds DEF Init, CastInv
<1> QED BY <1>1, <1>3, <1>4, <1>5 DEF IInv

(* Every step of recorders, admins, publisher and worker keeps the invariant. *)
LEMMA NextInv == IInv /\ CastInv /\ [Next]_vars => IInv' /\ CastInv'
<1> SUFFICES ASSUME IInv, CastInv, [Next]_vars PROVE IInv' /\ CastInv' OBVIOUS
<1>1. CastInv'
  <2>1. CASE Next BY <2>1 DEF Next, CastInv
  <2>2. CASE UNCHANGED vars BY <2>2 DEF vars, CastInv
  <2> QED BY <2>1, <2>2
<1>2. CASE Raise BY <1>1, <1>2, RaiseInv DEF CastInv
<1>3. CASE Outgoing /\ UNCHANGED healthVars BY <1>1, <1>3, OutgoingInv
<1>4. CASE UNCHANGED healthVars /\ \E a \in cast.admins : AdminStep(a)
  BY <1>1, <1>4, AdminInv DEF CastInv
<1>5. CASE UNCHANGED vars
  BY <1>1, <1>5 DEF vars, healthVars, channelVars, IInv, ClaimInv, HealthTypes, ClaimsChange,
              LastAlertStands, AlertsAlternate, RowsInv, AdminTypes, MailInv, SentOut, GoneInv,
              Exists, AboutToSave
<1> QED BY <1>1, <1>2, <1>3, <1>4, <1>5 DEF Next

-----------------------------------------------------------------------------
(* The tracker and the types of the rest. *)

HealthInv == GapInv /\ CallInv /\ WindowInv

(* Rows, requests, audit entries and jobs are what the Admin API and the    *)
(* publisher make of them.                                                  *)
RestInv ==
  /\ \A ch \in DOMAIN rows : rows[ch] \in BOOLEAN
  /\ \A a \in Admins :
       /\ admin[a].pc = "find" => admin[a].op # "created"
       /\ admin[a].pc \in {"save", "remove"} => (admin[a].op = "deleted" <=> admin[a].pc = "remove")
  /\ audited \subseteq Operations \X drawn
  /\ jobs \subseteq [alert : Nat, channel : drawn, tries : 0..(MaxDeliveries - 1)]

(* The tracker's part of the invariant does not depend on the rows. *)
LEMMA HealthKept == ASSUME HealthInv, UNCHANGED healthVars PROVE HealthInv'
<1>1. UNCHANGED <<outcomes, alertState, recorder, gap, faults>> BY DEF healthVars
<1>2. Solo' /\ ClaimIsCurrent' BY <1>1 DEF HealthInv, GapInv, Solo, ClaimIsCurrent, Recording
<1>3. NoGap => NoGap' BY <1>1 DEF NoGap, Agrees, Quiet, Recording
<1>4. CallInv' BY <1>1 DEF HealthInv, CallInv
<1>5. Trimming' = Trimming BY <1>1 DEF Trimming
<1>6. WindowInv' BY <1>1, <1>5 DEF HealthInv, WindowInv
<1> QED BY <1>1, <1>2, <1>3, <1>4, <1>6 DEF HealthInv, GapInv

(* The tracker's own steps keep it. *)
LEMMA HealthStep ==
  ASSUME IInv, HealthInv, CastInv, Raise
  PROVE  HealthInv'
<1>1. HealthTypes BY DEF IInv, ClaimInv
<1>2. CASE WindowExpires \/ StateExpires
  BY <1>1, <1>2, ExpiryGap, ExpiryBounds DEF HealthInv
<1>3. ASSUME NEW c \in Recorders, RecordStep(c) PROVE HealthInv'
  <2>1. GapInv' BY <1>1, <1>3, BeginGap, CallGap DEF HealthInv, RecordStep
  <2> QED BY <1>1, <1>3, <2>1, CallBounds, WindowBounds DEF HealthInv
<1> QED BY <1>2, <1>3 DEF Raise, CastInv

(* An admin request keeps the rest. *)
LEMMA AdminRest == ASSUME IInv, RestInv, NEW a \in Admins, AdminStep(a) PROVE RestInv'
<1>1. /\ AdminTypes /\ DOMAIN rows \subseteq drawn
      /\ admin[a].pc # "idle" => admin[a].channel \in drawn
  BY DEF IInv, RowsInv
<1>2. jobs' = jobs /\ drawn \subseteq drawn'
  BY DEF AdminStep, AskCreate, Ask, Find, Save, Delete, AdminFails
<1>3. jobs' \subseteq [alert : Nat, channel : drawn', tries : 0..(MaxDeliveries - 1)]
  BY <1>2 DEF RestInv
<1>4. audited' \subseteq Operations \X drawn'
  <2>1. audited' = audited \/ (audited' = audited \cup {<<admin[a].op, admin[a].channel>>}
                               /\ admin[a].pc # "idle")
    BY DEF AdminStep, AskCreate, Ask, Find, Save, Delete, AdminFails, MayAudit
  <2>2. admin[a].op \in Operations BY <1>1 DEF AdminTypes
  <2> QED BY <1>1, <1>2, <2>1, <2>2 DEF RestInv
<1>5. \A ch \in DOMAIN rows' : rows'[ch] \in BOOLEAN
  <2>1. CASE UNCHANGED rows BY <2>1 DEF RestInv
  <2>2. CASE rows' = Without(rows, admin[a].channel) BY <2>2 DEF RestInv, Without
  <2>3. ASSUME NEW enabled \in BOOLEAN, rows' = With(rows, admin[a].channel, enabled)
        PROVE  \A ch \in DOMAIN rows' : rows'[ch] \in BOOLEAN
    BY <2>3 DEF RestInv, With
  <2> QED BY <2>1, <2>2, <2>3 DEF AdminStep, AskCreate, Ask, Find, Save, Delete, AdminFails
<1>6. PICK x : /\ admin' = [admin EXCEPT ![a] = x]
               /\ x.pc = "find" => x.op # "created"
               /\ x.pc \in {"save", "remove"} => (x.op = "deleted" <=> x.pc = "remove")
  <2>1. CASE Finish(a)
    <3>1. IdleAdmin.pc = "idle" BY DEF IdleAdmin
    <3>2. admin' = [admin EXCEPT ![a] = IdleAdmin] BY <2>1 DEF Finish
    <3> QED BY <3>1, <3>2
  <2>2. CASE AskCreate(a) BY <2>2 DEF AskCreate
  <2>3. CASE Ask(a)
    <3>1. PICK ch \in drawn, op \in {"updated", "deleted"} :
            admin' = [admin EXCEPT ![a] = [pc |-> "find", channel |-> ch, op |-> op]]
      BY <2>3 DEF Ask
    <3> DEFINE x == [pc |-> "find", channel |-> ch, op |-> op]
    <3>2. admin' = [admin EXCEPT ![a] = x] /\ x.pc = "find" /\ x.op # "created" BY <3>1
    <3> HIDE DEF x
    <3> QED BY <3>2
  <2>4. CASE Find(a) /\ ~Finish(a)
    <3> DEFINE pc == IF admin[a].op = "updated" THEN "save" ELSE "remove"
               x == [admin[a] EXCEPT !.pc = pc]
    <3>1. admin[a].pc = "find" /\ admin' = [admin EXCEPT ![a] = x] BY <2>4 DEF Find
    <3>2. admin[a] \in [pc : {"idle", "find", "save", "remove"},
                        channel : Channels \cup {NoChannel}, op : Operations]
      BY <1>1 DEF AdminTypes
    <3>3. admin[a].op \in {"updated", "deleted"} BY <3>1, <3>2 DEF RestInv, Operations
    <3>4. x.pc = pc /\ x.op = admin[a].op BY <3>2
    <3> HIDE DEF x
    <3> QED BY <3>1, <3>3, <3>4
  <2> QED BY <2>1, <2>2, <2>3, <2>4 DEF AdminStep, Save, Delete, AdminFails
<1>7. \A b \in Admins :
        /\ admin'[b].pc = "find" => admin'[b].op # "created"
        /\ admin'[b].pc \in {"save", "remove"} => (admin'[b].op = "deleted" <=> admin'[b].pc = "remove")
  BY <1>1, <1>6 DEF RestInv, AdminTypes
<1> QED BY <1>3, <1>4, <1>5, <1>7 DEF RestInv

(* The publisher and the worker keep the rest. *)
LEMMA OutgoingRest == ASSUME IInv, RestInv, Outgoing PROVE RestInv'
<1>1. UNCHANGED <<rows, drawn, admin, audited>> BY DEF Outgoing, FanOut, FanOutFails, Deliver
<1>2. MaxDeliveries \in Nat \ {0} BY ChannelBounds
<1>3. jobs' \subseteq [alert : Nat, channel : drawn, tries : 0..(MaxDeliveries - 1)]
  <2>1. ASSUME NEW i \in publishing, FanOut(i), NEW j \in jobs'
        PROVE  j \in [alert : Nat, channel : drawn, tries : 0..(MaxDeliveries - 1)]
    <3>1. i \in Nat BY DEF IInv, MailInv
    <3>2. j \in jobs \/ \E ch \in EnabledRows : j = [alert |-> i, channel |-> ch, tries |-> 0]
      BY <2>1 DEF FanOut
    <3>3. EnabledRows \subseteq drawn BY DEF EnabledRows, IInv, RowsInv
    <3>4. 0 \in 0..(MaxDeliveries - 1) BY <1>2
    <3> QED BY <3>1, <3>2, <3>3, <3>4 DEF RestInv
  <2>2. ASSUME NEW j \in jobs, Deliver(j), NEW k \in jobs'
        PROVE  k \in [alert : Nat, channel : drawn, tries : 0..(MaxDeliveries - 1)]
    <3> DEFINE again == [j EXCEPT !.tries = @ + 1]
    <3>1. k \in jobs \/ (k = again /\ again.tries # MaxDeliveries) BY <2>2 DEF Deliver
    <3>2. j \in [alert : Nat, channel : drawn, tries : 0..(MaxDeliveries - 1)] BY DEF RestInv
    <3>3. again.tries = j.tries + 1 /\ j.tries \in 0..(MaxDeliveries - 1) BY <3>2
    <3>4. again.tries # MaxDeliveries => again.tries \in 0..(MaxDeliveries - 1)
      BY <1>2, <3>3
    <3>5. again.tries \in 0..(MaxDeliveries - 1) =>
            again \in [alert : Nat, channel : drawn, tries : 0..(MaxDeliveries - 1)]
      BY <3>2
    <3> HIDE DEF again
    <3> QED BY <3>1, <3>4, <3>5 DEF RestInv
  <2>3. ASSUME NEW i \in publishing, FanOutFails(i) PROVE jobs' = jobs BY <2>3 DEF FanOutFails
  <2> QED BY <2>1, <2>2, <2>3 DEF Outgoing, RestInv
<1> QED BY <1>1, <1>3 DEF RestInv

(* All of it to begin with. *)
LEMMA InitRest == Init => HealthInv /\ RestInv
<1> SUFFICES ASSUME Init PROVE HealthInv /\ RestInv OBVIOUS
<1>1. /\ outcomes = <<>> /\ alertState = "none" /\ recorder = [c \in Recorders |-> IdleRecorder]
      /\ faults = 0
  BY DEF Init, HealthInit
<1>2. \A c \in Recorders : recorder[c].pc = "idle" /\ recorder[c].tries = 0 BY <1>1 DEF IdleRecorder
<1>3. GapInv
  <2>1. Health(outcomes) = "healthy" BY <1>1 DEF Health
  <2> QED BY <1>1, <1>2, <2>1
      DEF GapInv, Solo, ClaimIsCurrent, NoGap, Recording, Claiming, Agrees
<1>4. CallInv BY <1>2, HealthBounds DEF CallInv, InBounds, Claiming
<1>5. WindowInv
  <2>1. Cardinality(Trimming) \in Nat /\ WindowSize \in Nat /\ MaxFaults \in Nat
    BY SomeTrim, HealthBounds
  <2>2. <<>> \in Seq({0, 1}) /\ Len(<<>>) = 0 OBVIOUS
  <2> QED BY <1>1, <2>1, <2>2 DEF WindowInv
<1>6. RestInv BY DEF Init, RestInv, IdleAdmin
<1> QED BY <1>3, <1>4, <1>5, <1>6 DEF HealthInv

(* What the proofs rest on holds in every reachable state: the tracker's and *)
(* the channels' invariant, and what becomes of a row that is gone.          *)
THEOREM Invariance == Spec => [](IInv /\ CastInv /\ HealthInv /\ RestInv)
<1>1. Init => IInv /\ CastInv /\ HealthInv /\ RestInv BY InitInv, InitRest
<1>2. ASSUME IInv, CastInv, HealthInv, RestInv, [Next]_vars
      PROVE  HealthInv' /\ RestInv'
  <2>1. CASE Raise
    <3>1. RestInv' BY <1>2, <2>1 DEF Raise, RestInv
    <3> QED BY <1>2, <2>1, <3>1, HealthStep
  <2>2. CASE Outgoing /\ UNCHANGED healthVars
    BY <1>2, <2>2, OutgoingRest, HealthKept
  <2>3. CASE UNCHANGED healthVars /\ \E a \in cast.admins : AdminStep(a)
    BY <1>2, <2>3, AdminRest, HealthKept DEF CastInv
  <2>4. CASE UNCHANGED vars
    <3>1. RestInv' BY <1>2, <2>4 DEF vars, channelVars, RestInv
    <3> QED BY <1>2, <2>4, <3>1, HealthKept DEF vars
  <2> QED BY <1>2, <2>1, <2>2, <2>3, <2>4 DEF Next
<1> QED BY <1>1, <1>2, NextInv, PTL DEF Spec

(* Calls, rows, requests, audit entries and jobs are in states the code can *)
(* reach: the window outgrows its size only by what callers have yet to     *)
(* trim or failed to, a claim is about a crossing and is tried no more than *)
(* MAX_OPTIMISTIC_RETRIES times, and a job has attempts left.               *)
THEOREM TypeCorrect == Spec => []TypeOK
<1>1. ASSUME IInv, HealthInv, RestInv PROVE TypeOK
  <2>1. Len(outcomes) <= WindowSize + Cardinality(Recorders) + MaxFaults
    <3>1. /\ Len(outcomes) \in Nat /\ faults \in 0..MaxFaults
          /\ Len(outcomes) <= WindowSize + Cardinality(Trimming) + faults
      BY <1>1 DEF HealthInv, WindowInv
    <3> QED BY <3>1, SomeTrim, HealthBounds
  <2>2. ASSUME NEW c \in Recorders
        PROVE  /\ recorder[c].pc \in {"idle", "push", "trim", "score", "count", "watch", "exec"}
               /\ recorder[c].pc \in {"count", "watch", "exec"} => recorder[c].is # recorder[c].was
               /\ recorder[c].tries \in 0..MaxClaimTries
    <3>1. recorder[c] \in Recorder /\ InBounds(recorder[c])
      BY <1>1 DEF IInv, ClaimInv, HealthTypes, HealthInv, CallInv
    <3> QED BY <3>1, HealthBounds DEF Recorder, InBounds, Claiming
  <2>3. \A j \in jobs : j.alert \in SentOut /\ j.channel \in drawn /\ j.tries < MaxDeliveries
    BY <1>1, ChannelBounds DEF IInv, MailInv, RestInv
  <2>4. publishing \subseteq 1..Len(alerts) BY <1>1 DEF IInv, MailInv
  <2>5. \A ch \in DOMAIN rows : ch \in drawn /\ rows[ch] \in BOOLEAN
    BY <1>1 DEF IInv, RowsInv, RestInv
  <2> QED BY <1>1, <2>1, <2>2, <2>3, <2>4, <2>5 DEF RestInv, TypeOK
<1> QED BY <1>1, Invariance, PTL

(* The alert-state is right whenever no call is under way and none of the    *)
(* known gaps opened since a call that met no other claimed it: no other     *)
(* order of pushes, trims, scores and claims leaves a crossing unalerted.    *)
THEOREM AlertStateRight == Spec => []LastAlertIsRight
<1>1. HealthInv => LastAlertIsRight
  BY DEF HealthInv, GapInv, NoGap, Agrees, LastAlertIsRight
<1> QED BY <1>1, Invariance, PTL

(* A crossing is published once: two alerts in a row never say the same.    *)
THEOREM CrossingsAlertedOnce == Spec => []AlertsAlternate
<1>1. IInv => AlertsAlternate BY DEF IInv, ClaimInv
<1> QED BY <1>1, Invariance, PTL

(* The endpoint of a row that was deleted hears of no later alert.          *)
THEOREM RemovedIsSilent == Spec => []RemovedHearsNothing
<1>1. IInv => RemovedHearsNothing BY DEF IInv, GoneInv, RemovedHearsNothing
<1> QED BY <1>1, Invariance, PTL
=============================================================================
