--------------------------- MODULE Budget_proofs ----------------------------
(***************************************************************************)
(* Proofs about Budget for any requests, periods, costs, policies, numbers *)
(* of done events, retries and changes, and any beginning.                 *)
(***************************************************************************)
EXTENDS Budget, FiniteSetTheorems, TLAPS

-----------------------------------------------------------------------------
(* The inductive invariant. *)

(* Where a call is says whether it has a period, whether its reservation is *)
(* in the counter, and that a true-up comes last.                           *)
Unreserved == {"new", "none", "denied"}
Reserving == {"reserve", "reserveExec"}
Settling == {"debit", "adjust", "adjustExec", "warn"}
Answered == {"admitted", "done"}
Placed(c, q, holders, finished) ==
  /\ q.at \in Unreserved => q.period = 0
  /\ q.at \in Reserving \cup Settling => q.period # 0
  /\ c \notin Bills => /\ q.at \notin {"none"} \cup Settling
                       /\ c[1] \in holders <=> q.period # 0 /\ q.at \notin Reserving
  /\ c \in Bills => /\ q.at \in {"none", "done"} \cup Settling
                    /\ c \in finished => q.at \in {"warn", "done"}

(* What a transaction that can commit has read still holds, and covers the  *)
(* reservation it is about to make.                                         *)
Remains(q, left) == IF left[q.period] = Absent THEN q.using.hard ELSE left[q.period]
Watched(q, left) ==
  q.at \in Executing /\ q.seen # Absent =>
    /\ q.at = "reserveExec" => q.seen = Remains(q, left) /\ q.seen >= q.using.hold
    /\ q.at = "adjustExec" => q.seen = left[q.period]

(* A policy other than the first disturbs every period. *)
UnderFirst(q, touched) == touched # Periods => q.using = First

(* A bill counts against the period of its request, which was admitted. *)
Follows(q, first) == q.at # "none" => first.at \in Answered /\ first.period = q.period

RequestInv ==
  /\ call \in [Calls -> Call]
  /\ \A c \in Calls : /\ Placed(c, call[c], held, settled)
                      /\ Watched(call[c], counter) /\ UnderFirst(call[c], disturbed)
  /\ \A b \in Bills : Follows(call[b], call[<<b[1], 0>>])

PolicyInv == disturbed # Periods => policy \in {First, NoPolicy}

CounterInv ==
  /\ counter \in [Periods -> Int \cup {Absent}]
  /\ held \subseteq Requests /\ settled \subseteq Bills /\ repeated \subseteq settled
  /\ disturbed \subseteq Periods
  /\ \A p \in Periods : /\ IsFiniteSet(Units(p)) /\ IsFiniteSet(Unsettled(p))
                        /\ IsFiniteSet(Repeated(p))
  /\ CounterIsExact

RestTypes ==
  /\ now \in Periods /\ changes \in 0..MaxChanges /\ streams \subseteq Requests
  /\ policy \in Policies \cup {NoPolicy}
  /\ spent \in [Periods -> Nat]
  /\ appending \subseteq Bills
  /\ armed \subseteq Periods
  /\ job \in [Periods -> [step : {"none", "waiting", "summed"}, target : Int]]

(* The key that stops a second alert, while its period lasts. *)
AlertInv ==
  /\ warned \subseteq Periods
  /\ alerts \in [Periods -> Nat]
  /\ \A p \in Periods : now <= p => alerts[p] = IF p \in warned THEN 1 ELSE 0

Core == RequestInv /\ PolicyInv /\ CounterInv
IInv == RestTypes /\ AlertInv /\ Core

-----------------------------------------------------------------------------
(* Calls and units. *)

(* A request has one reservation, and its bills. *)
LEMMA Kinds ==
  /\ Bills \subseteq Calls
  /\ \A r \in Requests : <<r, 0>> \in Calls /\ <<r, 0>> \notin Bills
  /\ \A c \in Calls : c \notin Bills => c[1] \in Requests /\ c = <<c[1], 0>>
  /\ \A b \in Bills : b[1] \in Requests
<1>1. MaxBills \in Nat BY BudgetAssumption
<1> QED BY <1>1 DEF Bills, Calls

(* A bill takes as many units as it costs. *)
LEMMA Counting ==
  ASSUME NEW r, NEW n \in Nat
  PROVE  IsFiniteSet({r} \X (1..n)) /\ Cardinality({r} \X (1..n)) = n
<1>1. IsFiniteSet({r}) /\ Cardinality({r}) = 1 BY FS_Singleton
<1>2. IsFiniteSet(1..n) /\ Cardinality(1..n) = n BY FS_Interval
<1>3. /\ IsFiniteSet({r} \X (1..n))
      /\ Cardinality({r} \X (1..n)) = Cardinality({r}) * Cardinality(1..n)
  BY <1>1, <1>2, FS_Product
<1>4. Cardinality({r}) * Cardinality(1..n) = 1 * n BY <1>1, <1>2
<1> QED BY <1>3, <1>4

(* The units of one bill and those of all others. *)
LEMMA Splitting ==
  ASSUME NEW S, IsFiniteSet(S), NEW r, NEW n \in Nat, \A u \in S : u[1] # r
  PROVE  /\ IsFiniteSet(S \cup {r} \X (1..n))
         /\ Cardinality(S \cup {r} \X (1..n)) = Cardinality(S) + n
<1> DEFINE T == {r} \X (1..n)
<1>1. IsFiniteSet(T) /\ Cardinality(T) = n BY Counting
<1>2. S \cap T = {} OBVIOUS
<1> HIDE DEF T
<1>3. Cardinality(S) \in Nat BY FS_CardinalityType
<1>4. Cardinality(S \cap T) = 0 BY <1>2, FS_EmptySet
<1>5. /\ IsFiniteSet(S \cup T)
      /\ Cardinality(S \cup T) = Cardinality(S) + Cardinality(T) - Cardinality(S \cap T)
  BY <1>1, FS_Union
<1>6. IsFiniteSet(S \cup T) /\ Cardinality(S \cup T) = Cardinality(S) + n
  BY <1>1, <1>3, <1>4, <1>5
<1> QED BY <1>6 DEF T

(* What counts for a period stays while what was committed does, and the     *)
(* periods and the costs of its calls.                                       *)
LEMMA SameUnits ==
  ASSUME UNCHANGED <<held, settled, repeated>>, repeated \subseteq settled,
         \A r \in held : Period(<<r, 0>>)' = Period(<<r, 0>>),
         \A b \in settled : Period(b)' = Period(b) /\ call'[b].cost = call[b].cost,
         NEW p
  PROVE  /\ Units(p)' = Units(p) /\ Unsettled(p)' = Unsettled(p) /\ Repeated(p)' = Repeated(p)
         /\ Committed(p)' = Committed(p) /\ Excess(p)' = Excess(p)
<1>1. {x \in settled' : Period(x)' = p} = {x \in settled : Period(x) = p} OBVIOUS
<1>2. \A b \in settled : {b} \X (1..call'[b].cost) = {b} \X (1..call[b].cost) OBVIOUS
<1>3. Units(p)' = Units(p) BY <1>1, <1>2 DEF Units
<1>4. Unsettled(p)' = Unsettled(p) BY DEF Unsettled
<1>5. Repeated(p)' = Repeated(p) BY DEF Repeated
<1> QED BY <1>3, <1>4, <1>5 DEF Committed, Excess

-----------------------------------------------------------------------------
(* Steps that leave the counter alone. *)

(* What the counter has to do with is kept by a step that changes only       *)
(* fields of calls which have no bearing on it.                              *)
LEMMA SameCounter ==
  ASSUME CounterInv, UNCHANGED <<counter, held, settled, repeated, disturbed>>,
         \A r \in held : Period(<<r, 0>>)' = Period(<<r, 0>>),
         \A b \in settled : Period(b)' = Period(b) /\ call'[b].cost = call[b].cost
  PROVE  CounterInv'
<1>1. \A p : /\ Units(p)' = Units(p) /\ Unsettled(p)' = Unsettled(p) /\ Repeated(p)' = Repeated(p)
             /\ Committed(p)' = Committed(p) /\ Excess(p)' = Excess(p)
  BY SameUnits DEF CounterInv
<1>2. CounterIsExact' BY <1>1 DEF CounterInv, CounterIsExact
<1> QED BY <1>1, <1>2 DEF CounterInv

(* A call keeps its period once it matters: a bill that was made, and a      *)
(* request that was admitted.                                                *)
Steady(c, q) ==
  /\ c \in Bills => call[c].at # "none" /\ q.period = call[c].period
  /\ c \notin Bills /\ call[c].at \in Answered => q.at \in Answered /\ q.period = call[c].period

(* A call moves on to a legal place. *)
LEMMA Touch ==
  ASSUME Core, NEW c \in Calls, NEW q \in Call, call' = [call EXCEPT ![c] = q],
         UNCHANGED <<policy, counter, held, settled, repeated, disturbed>>,
         Placed(c, q, held, settled), Watched(q, counter), UnderFirst(q, disturbed),
         Steady(c, q), c \in settled => q.cost = call[c].cost
  PROVE  Core'
<1>1. \A x \in Calls : call'[x] = IF x = c THEN q ELSE call[x] BY DEF Core, RequestInv
<1>2. ASSUME NEW b \in Bills PROVE Follows(call'[b], call'[<<b[1], 0>>])
  <2>1. b \in Calls /\ <<b[1], 0>> \in Calls /\ <<b[1], 0>> \notin Bills BY Kinds
  <2>2. Follows(call[b], call[<<b[1], 0>>]) BY DEF Core, RequestInv
  <2>3. CASE c = b BY <1>1, <2>1, <2>2, <2>3 DEF Follows, Steady
  <2>4. CASE c = <<b[1], 0>> BY <1>1, <2>1, <2>2, <2>4 DEF Follows, Steady
  <2>5. CASE c # b /\ c # <<b[1], 0>> BY <1>1, <2>1, <2>2, <2>5
  <2> QED BY <2>3, <2>4, <2>5
<1>3. RequestInv' BY <1>1, <1>2 DEF Core, RequestInv
<1>4. ASSUME NEW r \in held PROVE Period(<<r, 0>>)' = Period(<<r, 0>>)
  <2>1. r \in Requests /\ <<r, 0>> \in Calls /\ <<r, 0>> \notin Bills BY Kinds DEF Core, CounterInv
  <2>2. call[<<r, 0>>].at \in Answered
    <3>1. call[<<r, 0>>] \in Call /\ Placed(<<r, 0>>, call[<<r, 0>>], held, settled)
      BY <2>1 DEF Core, RequestInv
    <3> QED BY <2>1, <3>1 DEF Placed, Call, Stages, Executing, Answered, Unreserved, Reserving, Settling
  <2> QED BY <1>1, <2>1, <2>2 DEF Steady, Period
<1>5. ASSUME NEW b \in settled PROVE Period(b)' = Period(b) /\ call'[b].cost = call[b].cost
  <2>1. b \in Bills /\ b \in Calls BY Kinds DEF Core, CounterInv
  <2> QED BY <1>1, <2>1 DEF Steady, Period
<1>6. CounterInv' BY <1>4, <1>5, SameCounter DEF Core
<1> QED BY <1>3, <1>6 DEF Core, PolicyInv

(* What the invariant says of one call. *)
LEMMA OfCall ==
  ASSUME Core, NEW c \in Calls
  PROVE  /\ call \in [Calls -> Call] /\ call[c] \in Call
         /\ Placed(c, call[c], held, settled) /\ Watched(call[c], counter)
         /\ UnderFirst(call[c], disturbed)
         /\ held \subseteq Requests /\ settled \subseteq Bills /\ repeated \subseteq settled
         /\ counter \in [Periods -> Int \cup {Absent}]
BY DEF Core, RequestInv, CounterInv

(* Where a call is left: its transaction, if any, is forgotten. *)
LEMMA LeftCall ==
  ASSUME NEW c \in Calls, call[c] \in Call, NEW stage \in Stages \ Executing
  PROVE  /\ Left(c, stage) \in Call
         /\ Left(c, stage).at = stage /\ Left(c, stage).using = First
         /\ Left(c, stage).cost = call[c].cost
         /\ Left(c, stage).period = IF stage = "denied" THEN 0 ELSE call[c].period
<1>1. 0 \in 0..(MaxRetries - 1) /\ First \in Policies BY BudgetAssumption
<1>2. /\ call[c].cost \in Costs \cup {0} /\ call[c].period \in Periods \cup {0}
  BY DEF Call
<1> QED BY <1>1, <1>2 DEF Left, Fresh, Call, Period

(* A request is denied before it holds anything, or done after. *)
LEMMA Leaving ==
  ASSUME Core, NEW c \in Calls, NEW stage, Leave(c, stage),
         UNCHANGED <<policy, counter, held, settled, repeated, disturbed>>,
         \/ stage = "denied" /\ call[c].at \in Reserving
         \/ stage = "done" /\ call[c].at \in {"admitted"} \cup Settling
  PROVE  Core'
<1> DEFINE q == Left(c, stage)
<1>1. call[c] \in Call /\ Placed(c, call[c], held, settled) /\ settled \subseteq Bills
  BY OfCall
<1>2. stage \in Stages \ Executing BY DEF Stages, Executing
<1>3. /\ q \in Call /\ q.at = stage /\ q.using = First /\ q.cost = call[c].cost
      /\ q.period = IF stage = "denied" THEN 0 ELSE call[c].period
  BY <1>1, <1>2, LeftCall
<1>4. call' = [call EXCEPT ![c] = q] BY DEF Leave
<1> HIDE DEF q
<1>5. Placed(c, q, held, settled) BY <1>1, <1>3 DEF Placed, Reserving, Settling, Unreserved
<1>6. Watched(q, counter) /\ UnderFirst(q, disturbed)
  BY <1>2, <1>3 DEF Watched, UnderFirst
<1>7. Steady(c, q) BY <1>1, <1>3 DEF Steady, Placed, Reserving, Settling, Answered
<1> QED BY <1>3, <1>4, <1>5, <1>6, <1>7, Touch

(* A transaction that aborted starts over, or its call is left. *)
LEMMA Retrying ==
  ASSUME Core, NEW c \in Calls, NEW stage, NEW otherwise, Retry(c, stage, otherwise),
         \/ call[c].at = "reserveExec" /\ stage = "reserve" /\ otherwise = "denied"
         \/ call[c].at = "adjustExec" /\ stage = "adjust" /\ otherwise = "done"
  PROVE  Core'
<1>1. UNCHANGED <<policy, counter, held, settled, repeated, disturbed>> BY DEF Retry, world, history
<1>2. CASE Leave(c, otherwise) BY <1>1, <1>2, Leaving DEF Reserving, Settling
<1>3. CASE /\ call[c].tries + 1 < MaxRetries
           /\ call' = [call EXCEPT ![c].at = stage, ![c].tries = @ + 1]
  <2> DEFINE q == [call[c] EXCEPT !.at = stage, !.tries = @ + 1]
  <2>1. call[c] \in Call /\ Placed(c, call[c], held, settled) /\ UnderFirst(call[c], disturbed)
    BY OfCall
  <2>2. call[c].tries + 1 \in 0..(MaxRetries - 1)
    BY <1>3, <2>1, BudgetAssumption DEF Call
  <2>3. /\ q \in Call /\ q.at = stage /\ q.period = call[c].period
        /\ q.using = call[c].using /\ q.cost = call[c].cost
    BY <2>1, <2>2 DEF Call, Stages
  <2>4. call' = [call EXCEPT ![c] = q] BY <1>3
  <2> HIDE DEF q
  <2>5. Placed(c, q, held, settled) BY <2>1, <2>3 DEF Placed, Reserving, Settling, Unreserved
  <2>6. Watched(q, counter) /\ UnderFirst(q, disturbed)
    BY <2>1, <2>3 DEF Watched, UnderFirst, Executing
  <2>7. Steady(c, q) BY <2>1, <2>3 DEF Steady, Placed, Settling, Answered
  <2> QED BY <1>1, <2>3, <2>4, <2>5, <2>6, <2>7, Touch
<1> QED BY <1>2, <1>3 DEF Retry

-----------------------------------------------------------------------------
(* Writes to the counter. *)

(* A write to a counter disturbs no call but the transactions on it, which  *)
(* can no longer commit: what the others have read still holds.             *)
LEMMA Invalidating ==
  ASSUME Core, NEW p \in Periods, NEW v, counter' = [counter EXCEPT ![p] = v],
         NEW x \in Calls
  PROVE  /\ Invalidated(p)[x] \in Call
         /\ Invalidated(p)[x].at = call[x].at /\ Invalidated(p)[x].period = call[x].period
         /\ Invalidated(p)[x].using = call[x].using /\ Invalidated(p)[x].cost = call[x].cost
         /\ Watched(Invalidated(p)[x], counter')
<1> DEFINE y == Invalidated(p)[x]
<1>1. /\ call[x] \in Call /\ Placed(x, call[x], held, settled)
      /\ Watched(call[x], counter) /\ counter \in [Periods -> Int \cup {Absent}]
  BY OfCall
<1>2. y = IF call[x].at \in Executing /\ call[x].period = p
            THEN [call[x] EXCEPT !.seen = Absent] ELSE call[x]
  BY DEF Invalidated, Period
<1> HIDE DEF y
<1>3. CASE call[x].at \in Executing /\ call[x].period = p
  <2>1. /\ y \in Call /\ y.at = call[x].at /\ y.period = call[x].period
        /\ y.using = call[x].using /\ y.cost = call[x].cost /\ y.seen = Absent
    BY <1>1, <1>2, <1>3 DEF Call
  <2> QED BY <2>1 DEF Watched, y
<1>4. CASE ~(call[x].at \in Executing /\ call[x].period = p)
  <2>1. y = call[x] BY <1>2, <1>4
  <2>2. y.at \in Executing => /\ y.period \in Periods
                             /\ counter'[y.period] = counter[y.period]
    BY <1>1, <1>4, <2>1 DEF Placed, Reserving, Settling, Executing, Call
  <2>3. Watched(y, counter') BY <1>1, <2>1, <2>2 DEF Watched, Remains
  <2> QED BY <1>1, <2>1, <2>3 DEF y
<1> QED BY <1>3, <1>4

(* Where all calls stay, and with the same periods, bills still follow. *)
LEMMA StillFollowing ==
  ASSUME Core,
         \A x \in Calls : /\ call'[x].period = call[x].period
                          /\ \/ call'[x].at = call[x].at
                             \/ x \in Bills /\ call[x].at # "none"
                             \/ x \notin Bills /\ call'[x].at \in Answered,
         NEW b \in Bills
  PROVE  Follows(call'[b], call'[<<b[1], 0>>])
<1>1. b \in Calls /\ <<b[1], 0>> \in Calls /\ <<b[1], 0>> \notin Bills BY Kinds
<1>2. Follows(call[b], call[<<b[1], 0>>]) BY DEF Core, RequestInv
<1>3. /\ call'[b].period = call[b].period
      /\ call'[b].at = call[b].at \/ call[b].at # "none"
  BY <1>1
<1>4. /\ call'[<<b[1], 0>>].period = call[<<b[1], 0>>].period
      /\ \/ call'[<<b[1], 0>>].at = call[<<b[1], 0>>].at
         \/ call'[<<b[1], 0>>].at \in Answered
  BY <1>1
<1> QED BY <1>2, <1>3, <1>4 DEF Follows

(* A reconciliation or an expiry writes what it will, and the period is no  *)
(* longer one whose counter is exact.                                       *)
LEMMA Overwriting ==
  ASSUME Core, NEW p \in Periods, NEW v \in Int \cup {Absent}, SetCounter(p, v),
         disturbed' = disturbed \cup {p}, UNCHANGED <<policy, held, settled, repeated>>
  PROVE  Core'
<1>1. counter' = [counter EXCEPT ![p] = v] /\ call' = Invalidated(p) BY DEF SetCounter
<1>2. /\ counter \in [Periods -> Int \cup {Absent}] /\ disturbed \subseteq Periods
      /\ held \subseteq Requests /\ settled \subseteq Bills /\ repeated \subseteq settled
      /\ CounterIsExact
      /\ \A x \in Periods : /\ IsFiniteSet(Units(x)) /\ IsFiniteSet(Unsettled(x))
                            /\ IsFiniteSet(Repeated(x))
  BY DEF Core, CounterInv
<1>3. \A x \in Calls : /\ call'[x] \in Call /\ Watched(call'[x], counter')
                      /\ call'[x].at = call[x].at /\ call'[x].period = call[x].period
                      /\ call'[x].using = call[x].using /\ call'[x].cost = call[x].cost
  BY <1>1, Invalidating
<1>4. call' \in [Calls -> Call] BY <1>1, <1>3 DEF Invalidated
<1>5. disturbed' # Periods => disturbed # Periods BY <1>2
<1>6. ASSUME NEW x \in Calls
      PROVE  /\ Placed(x, call'[x], held', settled') /\ Watched(call'[x], counter')
             /\ UnderFirst(call'[x], disturbed')
  <2>1. Placed(x, call[x], held, settled) /\ UnderFirst(call[x], disturbed) BY OfCall
  <2>2. Placed(x, call'[x], held', settled') BY <1>3, <2>1 DEF Placed
  <2> QED BY <1>3, <1>5, <2>1, <2>2 DEF UnderFirst
<1>7. \A b \in Bills : Follows(call'[b], call'[<<b[1], 0>>]) BY <1>3, StillFollowing
<1>8. RequestInv' BY <1>4, <1>6, <1>7 DEF RequestInv
<1>9. /\ \A r \in held : Period(<<r, 0>>)' = Period(<<r, 0>>)
      /\ \A b \in settled : Period(b)' = Period(b) /\ call'[b].cost = call[b].cost
  BY <1>2, <1>3, Kinds DEF Period
<1>10. \A x : /\ Units(x)' = Units(x) /\ Unsettled(x)' = Unsettled(x) /\ Repeated(x)' = Repeated(x)
              /\ Committed(x)' = Committed(x) /\ Excess(x)' = Excess(x)
  BY <1>2, <1>9, SameUnits
<1>11. CounterIsExact'
  <2> SUFFICES ASSUME NEW x \in Periods \ disturbed'
               PROVE  IF counter'[x] = Absent THEN \A r \in held : Period(<<r, 0>>)' # x
                        ELSE counter'[x] = First.hard - Committed(x)' + Excess(x)'
    BY DEF CounterIsExact
  <2>1. x \in Periods \ disturbed /\ counter'[x] = counter[x] BY <1>1, <1>2
  <2> QED BY <1>2, <1>9, <1>10, <2>1 DEF CounterIsExact
<1>12. CounterInv' BY <1>1, <1>2, <1>10, <1>11 DEF CounterInv
<1> QED BY <1>5, <1>8, <1>12 DEF Core, PolicyInv

(* What both transactions do when they commit: only their own call moves on, *)
(* and all others keep what they hold.                                       *)
LEMMA Committing ==
  ASSUME Core, NEW c \in Calls, NEW v \in Int, NEW stage \in {"admitted", "warn", "done"},
         call[c].at \in Executing, Commit(c, v, stage), UNCHANGED <<policy, disturbed>>,
         \/ c \notin Bills /\ held' = held \cup {c[1]} /\ UNCHANGED settled /\ stage # "warn"
         \/ c \in Bills /\ settled' = settled \cup {c} /\ UNCHANGED held,
         Placed(c, Left(c, stage), held', settled')
  PROVE  /\ RequestInv' /\ PolicyInv' /\ Period(c) \in Periods
         /\ counter' = [counter EXCEPT ![Period(c)] = v]
         /\ \A x \in Calls : Period(x)' = Period(x) /\ call'[x].cost = call[x].cost
<1> DEFINE p == call[c].period
           q == Left(c, stage)
<1>1. /\ call \in [Calls -> Call] /\ call[c] \in Call /\ Placed(c, call[c], held, settled)
      /\ UnderFirst(call[c], disturbed) /\ counter \in [Periods -> Int \cup {Absent}]
  BY OfCall
<1>2. p \in Periods BY <1>1 DEF Placed, Reserving, Settling, Executing, Call
<1>3. /\ counter' = [counter EXCEPT ![p] = v]
      /\ call' = [Invalidated(p) EXCEPT ![c] = q]
  BY DEF Commit, Period
<1>4. /\ q \in Call /\ q.at = stage /\ q.period = p
      /\ q.using = First /\ q.cost = call[c].cost
  <2>1. stage \in Stages \ Executing /\ stage # "denied" BY DEF Stages, Executing
  <2> QED BY <1>1, <2>1, LeftCall
<1> HIDE DEF p, q
<1>5. ASSUME NEW x \in Calls
      PROVE  /\ call'[x] \in Call /\ Watched(call'[x], counter')
             /\ Placed(x, call'[x], held', settled') /\ UnderFirst(call'[x], disturbed')
             /\ call'[x].period = call[x].period /\ call'[x].cost = call[x].cost
             /\ call'[x].at = IF x = c THEN stage ELSE call[x].at
  <2>1. CASE x = c
    <3>1. call'[x] = q BY <1>3, <2>1 DEF Invalidated
    <3>2. Placed(c, q, held', settled') BY DEF q
    <3>3. Watched(q, counter') BY <1>4 DEF Watched, Executing
    <3>4. UnderFirst(q, disturbed') BY <1>4 DEF UnderFirst
    <3> QED BY <1>4, <2>1, <3>1, <3>2, <3>3, <3>4 DEF p
  <2>2. CASE x # c
    <3> DEFINE y == Invalidated(p)[x]
    <3>1. call'[x] = y BY <1>3, <2>2 DEF Invalidated
    <3>2. /\ y \in Call /\ y.at = call[x].at /\ y.period = call[x].period
          /\ y.using = call[x].using /\ y.cost = call[x].cost /\ Watched(y, counter')
      BY <1>2, <1>3, Invalidating
    <3> HIDE DEF y
    <3>3. x \notin Bills => (x[1] \in held' <=> x[1] \in held) BY <2>2, Kinds
    <3>4. x \in settled' <=> x \in settled BY <2>2
    <3>5. Placed(x, call[x], held, settled) /\ UnderFirst(call[x], disturbed) BY OfCall
    <3>6. Placed(x, y, held', settled') BY <3>2, <3>3, <3>4, <3>5 DEF Placed
    <3>7. UnderFirst(y, disturbed') BY <3>2, <3>5 DEF UnderFirst
    <3> QED BY <2>2, <3>1, <3>2, <3>6, <3>7
  <2> QED BY <2>1, <2>2
<1>6. call' \in [Calls -> Call] BY <1>3, <1>5 DEF Invalidated
<1>7. \A b \in Bills : Follows(call'[b], call'[<<b[1], 0>>])
  <2>1. c \in Bills => call[c].at # "none" BY <1>1 DEF Executing
  <2>2. c \notin Bills => stage \in Answered BY DEF Answered
  <2>3. \A x \in Calls : /\ call'[x].period = call[x].period
                        /\ \/ call'[x].at = call[x].at
                           \/ x \in Bills /\ call[x].at # "none"
                           \/ x \notin Bills /\ call'[x].at \in Answered
    BY <1>5, <2>1, <2>2
  <2> QED BY <2>3, StillFollowing
<1>8. RequestInv' BY <1>5, <1>6, <1>7 DEF RequestInv
<1> QED BY <1>2, <1>3, <1>5, <1>8 DEF Core, PolicyInv, Period, p

(* The amounts are whole numbers. *)
LEMMA Amounts ==
  ASSUME RequestInv, NEW c \in Calls
  PROVE  /\ call[c].using.hard \in Nat /\ call[c].using.hold \in Nat
         /\ call[c].cost \in Nat /\ First.hard \in Nat /\ First.hold \in Nat
<1>1. call[c] \in Call BY DEF RequestInv
<1>2. call[c].using \in Policy /\ First \in Policy
  BY <1>1, BudgetAssumption DEF Call
<1>3. call[c].cost \in Costs \cup {0} BY <1>1 DEF Call
<1>4. Costs \cup {0} \subseteq Nat
  <2>1. Costs \subseteq Nat BY BudgetAssumption
  <2>2. 0 \in Nat OBVIOUS
  <2> QED BY <2>1, <2>2
<1>5. call[c].cost \in Nat BY <1>3, <1>4
<1>6. \A q \in Policy : q.hard \in Nat /\ q.hold \in Nat BY DEF Policy
<1> QED BY <1>2, <1>5, <1>6

(* What is counted of a period is finite, and a whole number. *)
LEMMA Counts ==
  ASSUME Core, NEW p \in Periods
  PROVE  /\ IsFiniteSet(Units(p)) /\ Cardinality(Units(p)) \in Nat
         /\ IsFiniteSet(Unsettled(p)) /\ Cardinality(Unsettled(p)) \in Nat
         /\ IsFiniteSet(Repeated(p)) /\ Cardinality(Repeated(p)) \in Nat
<1>1. IsFiniteSet(Units(p)) /\ IsFiniteSet(Unsettled(p)) /\ IsFiniteSet(Repeated(p))
  BY DEF Core, CounterInv
<1> QED BY <1>1, FS_CardinalityType

(* One reservation more or less. *)
LEMMA OneMore ==
  ASSUME NEW h \in Nat, NEW n \in Int
  PROVE  h * (n + 1) = h * n + h /\ h * (n - 1) = h * n - h /\ h * n \in Int
OBVIOUS

(* The counter stays exact when that of a committed transaction's period     *)
(* does.                                                                     *)
LEMMA ExactAgain ==
  ASSUME Core, NEW p \in Periods, NEW v \in Int,
         counter' = [counter EXCEPT ![p] = v], UNCHANGED disturbed,
         held' \subseteq Requests, settled' \subseteq Bills, repeated' \subseteq settled',
         \A x \in Periods \ {p} :
           /\ Units(x)' = Units(x) /\ Unsettled(x)' = Unsettled(x) /\ Repeated(x)' = Repeated(x)
           /\ (\A r \in held' : Period(<<r, 0>>)' # x) <=> (\A r \in held : Period(<<r, 0>>) # x),
         IsFiniteSet(Units(p)'), IsFiniteSet(Unsettled(p)'), IsFiniteSet(Repeated(p)'),
         p \notin disturbed => v = First.hard - Committed(p)' + Excess(p)'
  PROVE  CounterInv'
<1>1. /\ counter \in [Periods -> Int \cup {Absent}] /\ disturbed \subseteq Periods
      /\ CounterIsExact
  BY DEF Core, CounterInv
<1>2. \A x \in Periods \ {p} : Committed(x)' = Committed(x) /\ Excess(x)' = Excess(x)
  BY DEF Committed, Excess
<1>3. CounterIsExact'
  <2> SUFFICES ASSUME NEW x \in Periods \ disturbed
               PROVE  IF counter'[x] = Absent THEN \A r \in held' : Period(<<r, 0>>)' # x
                        ELSE counter'[x] = First.hard - Committed(x)' + Excess(x)'
    BY DEF CounterIsExact
  <2>1. CASE x = p
    <3>1. counter'[p] = v /\ v # Absent BY <1>1, BudgetAssumption
    <3> QED BY <2>1, <3>1
  <2>2. CASE x # p
    <3>1. counter'[x] = counter[x] BY <1>1, <2>2
    <3> QED BY <1>1, <1>2, <2>2, <3>1 DEF CounterIsExact
  <2> QED BY <2>1, <2>2
<1>4. \A x \in Periods : IsFiniteSet(Units(x)') /\ IsFiniteSet(Unsettled(x)') /\ IsFiniteSet(Repeated(x)')
  BY Counts
<1>5. counter' \in [Periods -> Int \cup {Absent}] BY <1>1
<1> QED BY <1>1, <1>3, <1>4, <1>5 DEF CounterInv

(* A reservation that commits keeps the counter exact, and was covered by    *)
(* what was left.                                                            *)
LEMMA Taking ==
  ASSUME Core, NEW c \in Calls, NEW stage \in {"admitted", "done"}, Take(c, stage),
         UNCHANGED <<policy, settled, repeated, disturbed>>
  PROVE  /\ Core' /\ held' = held \cup {c[1]} /\ c = <<c[1], 0>>
         /\ Period(c) \notin disturbed =>
              Committed(Period(c)) + First.hold <= First.hard + Excess(Period(c))
<1> DEFINE r == c[1]
           v == call[c].seen - call[c].using.hold
<1>0. PICK p : p = Period(c) OBVIOUS
<1>1. /\ call[c].at = "reserveExec" /\ Commit(c, v, stage) /\ held' = held \cup {r}
      /\ call[c].seen # Absent
  BY DEF Take, At, Commit
<1>2. /\ RequestInv /\ call[c] \in Call /\ Placed(c, call[c], held, settled)
      /\ Watched(call[c], counter) /\ UnderFirst(call[c], disturbed)
      /\ settled \subseteq Bills /\ held \subseteq Requests /\ repeated \subseteq settled
      /\ CounterIsExact
      /\ counter \in [Periods -> Int \cup {Absent}] /\ disturbed \subseteq Periods
  BY OfCall DEF Core, CounterInv
<1>3. c \notin Bills /\ r \notin held /\ r \in Requests /\ c = <<r, 0>>
  BY <1>1, <1>2, Kinds DEF Placed, Reserving, Settling
<1>4. Left(c, stage).at = stage /\ Left(c, stage).period = call[c].period
  <2>1. stage \in Stages \ Executing /\ stage # "denied" BY DEF Stages, Executing
  <2> QED BY <1>2, <2>1, LeftCall
<1>5. Placed(c, Left(c, stage), held', settled')
  BY <1>1, <1>2, <1>3, <1>4 DEF Placed, Reserving, Settling, Unreserved
<1>6. call[c].seen \in Int /\ v \in Int BY <1>1, <1>2, Amounts DEF Call
<1>7. /\ RequestInv' /\ PolicyInv' /\ p \in Periods
      /\ counter' = [counter EXCEPT ![p] = v]
      /\ \A x \in Calls : Period(x)' = Period(x) /\ call'[x].cost = call[x].cost
  <2>1. call[c].at \in Executing BY <1>1 DEF Executing
  <2> HIDE DEF v
  <2> QED BY <1>0, <1>1, <1>3, <1>5, <1>6, <2>1, Committing
<1>8. \A b \in settled : b[1] # r
  <2> SUFFICES ASSUME NEW b \in settled, b[1] = r PROVE FALSE OBVIOUS
  <2>1. b \in Bills /\ b \in Calls BY <1>2, Kinds
  <2>2. call[b].at # "none" BY <1>2, <2>1, OfCall DEF Placed
  <2>3. Follows(call[b], call[<<b[1], 0>>]) BY <1>2, <2>1 DEF RequestInv
  <2> QED BY <1>1, <1>3, <2>2, <2>3 DEF Follows, Answered
<1> HIDE DEF r
<1>9. \A x : Units(x)' = Units(x) /\ Repeated(x)' = Repeated(x)
  <2>1. \A b \in settled : b \in Calls BY <1>2, Kinds
  <2>2. \A b \in settled : Period(b)' = Period(b) /\ call'[b].cost = call[b].cost BY <1>7, <2>1
  <2>3. \A x : {b \in settled : Period(b)' = x} = {b \in settled : Period(b) = x} BY <2>2
  <2>4. \A b \in settled : {b} \X (1..call'[b].cost) = {b} \X (1..call[b].cost) BY <2>2
  <2>5. \A x : Units(x)' = Units(x) BY <2>3, <2>4 DEF Units
  <2>6. \A x : Repeated(x)' = Repeated(x) BY <1>2, <2>2 DEF Repeated
  <2> QED BY <2>5, <2>6
<1>10. \A y \in held \cup {r} : Period(<<y, 0>>)' = Period(<<y, 0>>) BY <1>2, <1>3, <1>7, Kinds
<1>11. Period(<<r, 0>>) = p BY <1>0, <1>3
<1>12. Unsettled(p)' = Unsettled(p) \cup {r} /\ r \notin Unsettled(p)
  BY <1>1, <1>3, <1>8, <1>10, <1>11 DEF Unsettled
<1>13. \A x \in Periods \ {p} :
         /\ Unsettled(x)' = Unsettled(x)
         /\ (\A y \in held' : Period(<<y, 0>>)' # x) <=> (\A y \in held : Period(<<y, 0>>) # x)
  BY <1>1, <1>10, <1>11 DEF Unsettled
<1>14. /\ IsFiniteSet(Units(p)) /\ Cardinality(Units(p)) \in Nat
       /\ IsFiniteSet(Unsettled(p)) /\ Cardinality(Unsettled(p)) \in Nat
       /\ IsFiniteSet(Repeated(p)) /\ Cardinality(Repeated(p)) \in Nat
  BY <1>7, Counts
<1>15. /\ IsFiniteSet(Unsettled(p)') /\ Cardinality(Unsettled(p)') = Cardinality(Unsettled(p)) + 1
  BY <1>12, <1>14, FS_AddElement
<1>16. First.hold \in Nat /\ First.hard \in Nat BY <1>2, Amounts
<1>17. /\ Committed(p)' = Committed(p) + First.hold /\ Excess(p)' = Excess(p)
       /\ Committed(p) \in Int /\ Excess(p) \in Int
  <2>1. First.hold * Cardinality(Unsettled(p)') = First.hold * Cardinality(Unsettled(p)) + First.hold
    BY <1>14, <1>15, <1>16, OneMore
  <2>2. First.hold * Cardinality(Unsettled(p)) \in Int /\ First.hold * Cardinality(Repeated(p)) \in Int
    BY <1>14, <1>16, OneMore
  <2> QED BY <1>9, <1>14, <1>16, <2>1, <2>2 DEF Committed, Excess
<1>18. ASSUME p \notin disturbed
       PROVE  call[c].seen = First.hard - Committed(p) + Excess(p) /\ call[c].using = First
  <2>1. call[c].using = First BY <1>2, <1>7, <1>18 DEF UnderFirst
  <2>2. call[c].seen = IF counter[p] = Absent THEN First.hard ELSE counter[p]
    BY <1>0, <1>1, <1>2, <2>1 DEF Watched, Executing, Remains, Period
  <2>3. CASE counter[p] = Absent
    <3>1. \A y \in held : Period(<<y, 0>>) # p BY <1>2, <1>7, <1>18, <2>3 DEF CounterIsExact
    <3>2. \A b \in settled : Period(b) # p
      <4> SUFFICES ASSUME NEW b \in settled, Period(b) = p PROVE FALSE OBVIOUS
      <4>1. b \in Bills /\ b \in Calls /\ b[1] \in Requests
            /\ <<b[1], 0>> \in Calls /\ <<b[1], 0>> \notin Bills
        BY <1>2, Kinds
      <4>2. call[b].at # "none" BY <1>2, <4>1, OfCall DEF Placed
      <4>3. Follows(call[b], call[<<b[1], 0>>]) BY <1>2, <4>1 DEF RequestInv
      <4>4. call[<<b[1], 0>>].period = p /\ call[<<b[1], 0>>].at \in Answered
        BY <4>2, <4>3 DEF Follows, Period
      <4>5. p # 0 BY <1>7 DEF Periods
      <4>6. b[1] \in held
        BY <4>1, <4>4, <4>5, OfCall DEF Placed, Answered, Reserving
      <4> QED BY <3>1, <4>4, <4>6 DEF Period
    <3>3. Units(p) = {} /\ Unsettled(p) = {} /\ Repeated(p) = {}
      BY <1>2, <3>1, <3>2 DEF Units, Unsettled, Repeated
    <3>4. Cardinality({}) = 0 BY FS_EmptySet
    <3>5. Committed(p) = 0 /\ Excess(p) = 0 BY <1>16, <3>3, <3>4 DEF Committed, Excess
    <3> QED BY <1>16, <2>1, <2>2, <2>3, <3>5
  <2>4. CASE counter[p] # Absent
    BY <1>2, <1>7, <1>18, <2>1, <2>2, <2>4 DEF CounterIsExact
  <2> QED BY <2>3, <2>4
<1>19. p \notin disturbed => v = First.hard - Committed(p)' + Excess(p)'
  BY <1>16, <1>17, <1>18
<1>20. CounterInv'
  <2>1. held' \subseteq Requests BY <1>1, <1>2, <1>3 DEF r
  <2> HIDE DEF v
  <2> QED BY <1>2, <1>6, <1>7, <1>9, <1>13, <1>14, <1>15, <1>19, <2>1, ExactAgain
<1>21. call[c].seen >= call[c].using.hold BY <1>1, <1>2 DEF Watched, Executing
<1>22. p \notin disturbed => Committed(p) + First.hold <= First.hard + Excess(p)
  BY <1>16, <1>17, <1>18, <1>21
<1> QED BY <1>0, <1>1, <1>3, <1>7, <1>20, <1>22 DEF Core, r

(* What a true-up that commits changes of its period: its cost comes in, and *)
(* its request is settled, or was and is repeated.                           *)
LEMMA Settled ==
  ASSUME Core, NEW c \in Bills, NEW p \in Periods, Period(c) = p,
         c \notin settled, c[1] \in held, Period(<<c[1], 0>>) = p,
         UNCHANGED held, settled' = settled \cup {c},
         repeated' = IF \E b \in settled : b[1] = c[1] THEN repeated \cup {c} ELSE repeated,
         \A x \in Calls : Period(x)' = Period(x) /\ call'[x].cost = call[x].cost
  PROVE  /\ IsFiniteSet(Units(p)') /\ IsFiniteSet(Unsettled(p)') /\ IsFiniteSet(Repeated(p)')
         /\ Cardinality(Units(p)') = Cardinality(Units(p)) + call[c].cost
         /\ Cardinality(Repeated(p)') - Cardinality(Unsettled(p)')
              = Cardinality(Repeated(p)) - Cardinality(Unsettled(p)) + 1
         /\ \A x \in Periods \ {p} :
              /\ Units(x)' = Units(x) /\ Unsettled(x)' = Unsettled(x) /\ Repeated(x)' = Repeated(x)
              /\ (\A r \in held' : Period(<<r, 0>>)' # x) <=> (\A r \in held : Period(<<r, 0>>) # x)
<1>1. /\ held \subseteq Requests /\ settled \subseteq Bills /\ repeated \subseteq settled
      /\ c \in Calls /\ call[c].cost \in Nat
  BY Kinds, OfCall, Amounts DEF Core
<1>2. /\ IsFiniteSet(Units(p)) /\ Cardinality(Units(p)) \in Nat
      /\ IsFiniteSet(Unsettled(p)) /\ Cardinality(Unsettled(p)) \in Nat
      /\ IsFiniteSet(Repeated(p)) /\ Cardinality(Repeated(p)) \in Nat
  BY Counts
<1>3. \A b \in settled \cup {c} : Period(b)' = Period(b) /\ call'[b].cost = call[b].cost
  BY <1>1, Kinds
<1>4. \A r \in held : Period(<<r, 0>>)' = Period(<<r, 0>>) BY <1>1, Kinds
<1>5. /\ {b \in settled' : Period(b)' = p} = {b \in settled : Period(b) = p} \cup {c}
      /\ \A x \in Periods \ {p} : {b \in settled' : Period(b)' = x} = {b \in settled : Period(b) = x}
  BY <1>3
<1>6. \A b \in settled \cup {c} : {b} \X (1..call'[b].cost) = {b} \X (1..call[b].cost) BY <1>3
<1>7. /\ Units(p)' = Units(p) \cup {c} \X (1..call[c].cost)
      /\ \A x \in Periods \ {p} : Units(x)' = Units(x)
  BY <1>5, <1>6 DEF Units
<1>8. /\ IsFiniteSet(Units(p)') /\ Cardinality(Units(p)') = Cardinality(Units(p)) + call[c].cost
  <2> DEFINE S == Units(p)
             n == call[c].cost
  <2>1. \A u \in S : u[1] # c BY DEF Units
  <2> HIDE DEF S, n
  <2>2. IsFiniteSet(S) /\ n \in Nat BY <1>1, <1>2 DEF S, n
  <2>3. IsFiniteSet(S \cup {c} \X (1..n)) /\ Cardinality(S \cup {c} \X (1..n)) = Cardinality(S) + n
    BY <2>1, <2>2, Splitting
  <2> QED BY <1>7, <2>3 DEF S, n
<1>9. \A x \in Periods \ {p} :
        /\ Unsettled(x)' = Unsettled(x) /\ Repeated(x)' = Repeated(x)
        /\ (\A r \in held' : Period(<<r, 0>>)' # x) <=> (\A r \in held : Period(<<r, 0>>) # x)
  BY <1>1, <1>3, <1>4 DEF Unsettled, Repeated
<1>10. CASE \E b \in settled : b[1] = c[1]
  <2>1. Unsettled(p)' = Unsettled(p) BY <1>4, <1>10 DEF Unsettled
  <2>2. Repeated(p)' = Repeated(p) \cup {c} /\ c \notin Repeated(p) BY <1>1, <1>3, <1>10 DEF Repeated
  <2>3. IsFiniteSet(Repeated(p)') /\ Cardinality(Repeated(p)') = Cardinality(Repeated(p)) + 1
    BY <1>2, <2>2, FS_AddElement
  <2> QED BY <1>2, <1>7, <1>8, <1>9, <2>1, <2>3
<1>11. CASE ~\E b \in settled : b[1] = c[1]
  <2>1. Unsettled(p)' = Unsettled(p) \ {c[1]} /\ c[1] \in Unsettled(p)
    BY <1>4, <1>11 DEF Unsettled
  <2>2. Repeated(p)' = Repeated(p) BY <1>1, <1>3, <1>11 DEF Repeated
  <2>3. IsFiniteSet(Unsettled(p)') /\ Cardinality(Unsettled(p)') = Cardinality(Unsettled(p)) - 1
    <3> DEFINE S == Unsettled(p)
    <3> HIDE DEF S
    <3>1. IsFiniteSet(S) /\ c[1] \in S BY <1>2, <2>1 DEF S
    <3>2. IsFiniteSet(S \ {c[1]}) /\ Cardinality(S \ {c[1]}) = Cardinality(S) - 1
      BY <3>1, FS_RemoveElement
    <3> QED BY <2>1, <3>2 DEF S
  <2> QED BY <1>2, <1>7, <1>8, <1>9, <2>2, <2>3
<1> QED BY <1>10, <1>11

(* A true-up that commits replaces the reservation by the cost, and gives    *)
(* back one too much when its request had it back before.                    *)
LEMMA Adjusting ==
  ASSUME Core, NEW c \in Calls, AdjustExec(c)
  PROVE  Core'
<1> DEFINE stage == IF call[c].using.hard - Remaining(c) < call[c].using.soft THEN "done" ELSE "warn"
           v == Remaining(c)
<1>0. PICK p : p = Period(c) OBVIOUS
<1>1. /\ call[c].at = "adjustExec" /\ Commit(c, v, stage) /\ settled' = settled \cup {c}
      /\ repeated' = IF \E b \in settled : b[1] = c[1] THEN repeated \cup {c} ELSE repeated
      /\ call[c].seen # Absent /\ UNCHANGED <<policy, held, disturbed>>
  BY DEF AdjustExec, At, Commit, world
<1>2. /\ RequestInv /\ call[c] \in Call /\ Placed(c, call[c], held, settled)
      /\ Watched(call[c], counter) /\ UnderFirst(call[c], disturbed)
      /\ settled \subseteq Bills /\ held \subseteq Requests /\ repeated \subseteq settled
      /\ CounterIsExact
      /\ counter \in [Periods -> Int \cup {Absent}] /\ disturbed \subseteq Periods
  BY OfCall DEF Core, CounterInv
<1>3. c \in Bills /\ c \notin settled BY <1>1, <1>2 DEF Placed, Settling
<1>4. stage \in {"done", "warn"} OBVIOUS
<1>5. v \in Int BY <1>1, <1>2, Amounts DEF Call, Remaining
<1> HIDE DEF stage
<1>6. Left(c, stage).at = stage /\ Left(c, stage).period = call[c].period
  <2>1. stage \in Stages \ Executing /\ stage # "denied" BY <1>4 DEF Stages, Executing
  <2> QED BY <1>2, <2>1, LeftCall
<1>7. Placed(c, Left(c, stage), held', settled')
  BY <1>1, <1>2, <1>3, <1>4, <1>6 DEF Placed, Reserving, Settling, Unreserved
<1>8. /\ RequestInv' /\ PolicyInv' /\ p \in Periods
      /\ counter' = [counter EXCEPT ![p] = v]
      /\ \A x \in Calls : Period(x)' = Period(x) /\ call'[x].cost = call[x].cost
  <2>1. call[c].at \in Executing /\ stage \in {"admitted", "warn", "done"} BY <1>1, <1>4 DEF Executing
  <2> HIDE DEF v
  <2> QED BY <1>0, <1>1, <1>3, <1>5, <1>7, <2>1, Committing
<1>9. c[1] \in held /\ Period(<<c[1], 0>>) = p
  <2>1. /\ c[1] \in Requests /\ <<c[1], 0>> \in Calls /\ <<c[1], 0>> \notin Bills
    BY <1>3, Kinds
  <2>2. Follows(call[c], call[<<c[1], 0>>]) BY <1>2, <1>3 DEF RequestInv
  <2>3. call[<<c[1], 0>>].period = p /\ call[<<c[1], 0>>].at \in Answered
    BY <1>0, <1>1, <2>2 DEF Follows, Period
  <2>4. p # 0 BY <1>8 DEF Periods
  <2>5. Placed(<<c[1], 0>>, call[<<c[1], 0>>], held, settled) BY <2>1, OfCall
  <2> QED BY <2>1, <2>3, <2>4, <2>5 DEF Placed, Answered, Reserving, Period
<1>10. /\ IsFiniteSet(Units(p)') /\ IsFiniteSet(Unsettled(p)') /\ IsFiniteSet(Repeated(p)')
       /\ Cardinality(Units(p)') = Cardinality(Units(p)) + call[c].cost
       /\ Cardinality(Repeated(p)') - Cardinality(Unsettled(p)')
            = Cardinality(Repeated(p)) - Cardinality(Unsettled(p)) + 1
       /\ \A x \in Periods \ {p} :
            /\ Units(x)' = Units(x) /\ Unsettled(x)' = Unsettled(x) /\ Repeated(x)' = Repeated(x)
            /\ (\A r \in held' : Period(<<r, 0>>)' # x) <=> (\A r \in held : Period(<<r, 0>>) # x)
  BY <1>0, <1>1, <1>3, <1>8, <1>9, Settled
<1>11. /\ call[c].cost \in Nat /\ call[c].using.hold \in Nat
       /\ First.hold \in Nat /\ First.hard \in Nat
  BY <1>2, Amounts
<1>12. ASSUME p \notin disturbed
       PROVE  v = First.hard - Committed(p)' + Excess(p)'
  <2>1. call[c].using = First BY <1>2, <1>8, <1>12 DEF UnderFirst
  <2>2. call[c].seen = counter[p] BY <1>0, <1>1, <1>2 DEF Watched, Executing, Period
  <2>3. counter[p] = First.hard - Committed(p) + Excess(p)
    BY <1>1, <1>2, <1>8, <1>12, <2>2 DEF CounterIsExact
  <2>4. v = counter[p] - (call[c].cost - First.hold) BY <2>1, <2>2 DEF Remaining
  <2> HIDE DEF v
  <2>5. /\ Cardinality(Units(p)) \in Nat /\ Cardinality(Unsettled(p)) \in Nat
        /\ Cardinality(Repeated(p)) \in Nat
    BY <1>8, Counts
  <2>6. Cardinality(Unsettled(p)') \in Nat /\ Cardinality(Repeated(p)') \in Nat
    BY <1>10, FS_CardinalityType
  <2>7. Excess(p)' - First.hold * Cardinality(Unsettled(p)')
          = Excess(p) - First.hold * Cardinality(Unsettled(p)) + First.hold
    <3> DEFINE a == Cardinality(Repeated(p))
               b == Cardinality(Unsettled(p))
               d == Cardinality(Repeated(p)')
               e == Cardinality(Unsettled(p)')
               h == First.hold
    <3>1. a \in Nat /\ b \in Nat /\ d \in Nat /\ e \in Nat /\ h \in Nat /\ d - e = a - b + 1
      BY <1>10, <1>11, <2>5, <2>6
    <3> HIDE DEF a, b, d, e, h
    <3>2. h * d - h * e = h * a - h * b + h
      <4>1. d = e + (a - b + 1) BY <3>1
      <4>2. h * (e + (a - b + 1)) = h * e + (h * a - h * b + h) BY <3>1
      <4> QED BY <3>1, <4>1, <4>2
    <3> QED BY <3>2 DEF Excess, a, b, d, e, h
  <2>8. /\ First.hold * Cardinality(Unsettled(p)) \in Int /\ First.hold * Cardinality(Unsettled(p)') \in Int
        /\ Excess(p) \in Int /\ Excess(p)' \in Int
    BY <1>11, <2>5, <2>6, OneMore DEF Excess
  <2>9. /\ Committed(p) = Cardinality(Units(p)) + First.hold * Cardinality(Unsettled(p))
        /\ Committed(p)' = Cardinality(Units(p)) + call[c].cost + First.hold * Cardinality(Unsettled(p)')
    BY <1>10 DEF Committed
  <2> DEFINE a == First.hold * Cardinality(Unsettled(p))
             b == First.hold * Cardinality(Unsettled(p)')
             d == Excess(p)
             e == Excess(p)'
             n == Cardinality(Units(p))
  <2>10. /\ a \in Int /\ b \in Int /\ d \in Int /\ e \in Int /\ n \in Nat
         /\ e - b = d - a + First.hold
         /\ Committed(p) = n + a /\ Committed(p)' = n + call[c].cost + b
    BY <2>5, <2>7, <2>8, <2>9
  <2>11. counter[p] = First.hard - Committed(p) + d BY <2>3
  <2> HIDE DEF a, b, d, e, n
  <2>12. v = First.hard - Committed(p)' + e BY <1>11, <2>4, <2>10, <2>11
  <2> QED BY <2>12 DEF e
<1>13. CounterInv'
  <2>1. held' \subseteq Requests /\ settled' \subseteq Bills /\ repeated' \subseteq settled'
    BY <1>1, <1>2, <1>3
  <2> HIDE DEF v
  <2> QED BY <1>1, <1>5, <1>8, <1>10, <1>12, <2>1, ExactAgain
<1> QED BY <1>8, <1>13 DEF Core

-----------------------------------------------------------------------------
(* Every action keeps what the counter depends on. *)

(* A request resolves the policy and its period. *)
LEMMA Resolving == ASSUME IInv, NEW c \in Calls, Resolve(c) PROVE Core'
<1> DEFINE q == IF policy = NoPolicy
                  THEN [call[c] EXCEPT !.at = "admitted"]
                  ELSE [call[c] EXCEPT !.at = "reserve", !.period = now, !.using = policy]
<1>1. Core /\ now \in Periods /\ policy \in Policies \cup {NoPolicy} BY DEF IInv, RestTypes
<1>2. /\ call[c] \in Call /\ Placed(c, call[c], held, settled)
      /\ UnderFirst(call[c], disturbed) /\ settled \subseteq Bills
  BY <1>1, OfCall
<1>3. /\ call[c].at = "new" /\ call' = [call EXCEPT ![c] = q]
      /\ UNCHANGED <<policy, counter, held, settled, repeated, disturbed>>
  BY DEF Resolve, At, world, history
<1>4. now # 0 BY <1>1 DEF Periods
<1>5. /\ q \in Call /\ q.cost = call[c].cost
      /\ q.at \notin Executing
      /\ \/ q.at = "admitted" /\ q.period = call[c].period /\ q.using = call[c].using
         \/ q.at = "reserve" /\ q.period = now /\ q.using = policy /\ policy # NoPolicy
  <2>1. CASE policy = NoPolicy BY <1>2, <2>1 DEF Call, Stages, Executing
  <2>2. CASE policy # NoPolicy BY <1>1, <1>2, <2>2 DEF Call, Stages, Executing
  <2> QED BY <2>1, <2>2
<1> HIDE DEF q
<1>6. Placed(c, q, held, settled)
  BY <1>2, <1>3, <1>4, <1>5 DEF Placed, Reserving, Settling, Unreserved
<1>7. Watched(q, counter) BY <1>5 DEF Watched
<1>8. UnderFirst(q, disturbed) BY <1>1, <1>2, <1>5 DEF UnderFirst, Core, PolicyInv
<1>9. Steady(c, q) /\ c \notin settled BY <1>2, <1>3 DEF Steady, Placed, Settling, Answered
<1> QED BY <1>1, <1>3, <1>5, <1>6, <1>7, <1>8, <1>9, Touch

(* A request reads its counter, and is denied when too little is left. *)
LEMMA ReadingReserve == ASSUME Core, NEW c \in Calls, ReserveRead(c) PROVE Core'
<1> DEFINE q == [call[c] EXCEPT !.at = "reserveExec", !.seen = Available(c)]
<1>1. /\ call[c] \in Call /\ Placed(c, call[c], held, settled)
      /\ UnderFirst(call[c], disturbed) /\ settled \subseteq Bills
      /\ counter \in [Periods -> Int \cup {Absent}]
  BY OfCall
<1>2. /\ call[c].at = "reserve"
      /\ UNCHANGED <<policy, counter, held, settled, repeated, disturbed>>
  BY DEF ReserveRead, At, world, history
<1>3. CASE Leave(c, "denied") BY <1>2, <1>3, Leaving DEF Reserving
<1>4. CASE Read(c, Available(c), "reserveExec") /\ ~(Available(c) < call[c].using.hold)
  <2>1. call[c].period \in Periods
    BY <1>1, <1>2 DEF Placed, Reserving, Call
  <2>2. call[c].using.hard \in Nat /\ call[c].using.hold \in Nat
    BY Amounts DEF Core
  <2>3. Available(c) \in Int /\ Available(c) >= call[c].using.hold
    BY <1>1, <1>4, <2>1, <2>2 DEF Available, Period
  <2>4. Available(c) = Remains(call[c], counter) BY DEF Available, Remains, Period
  <2>5. /\ q \in Call /\ q.at = "reserveExec" /\ q.seen = Available(c)
        /\ q.period = call[c].period /\ q.using = call[c].using /\ q.cost = call[c].cost
    BY <1>1, <2>3 DEF Call, Stages, Executing
  <2>6. call' = [call EXCEPT ![c] = q] BY <1>4 DEF Read
  <2> HIDE DEF q
  <2>7. Placed(c, q, held, settled)
    BY <1>1, <1>2, <2>5 DEF Placed, Reserving, Settling, Unreserved
  <2>8. Watched(q, counter) BY <2>3, <2>4, <2>5 DEF Watched, Remains
  <2>9. UnderFirst(q, disturbed) BY <1>1, <2>5 DEF UnderFirst
  <2>10. Steady(c, q) BY <1>1, <1>2, <2>5 DEF Steady, Placed, Settling, Answered
  <2> QED BY <1>2, <2>5, <2>6, <2>7, <2>8, <2>9, <2>10, Touch
<1> QED BY <1>3, <1>4 DEF ReserveRead

(* A request reads the counter it is going to true up. *)
LEMMA ReadingAdjust == ASSUME Core, NEW c \in Calls, AdjustRead(c) PROVE Core'
<1> DEFINE q == [call[c] EXCEPT !.at = "adjustExec", !.seen = counter[Period(c)]]
<1>1. /\ call[c] \in Call /\ Placed(c, call[c], held, settled)
      /\ UnderFirst(call[c], disturbed) /\ settled \subseteq Bills
      /\ counter \in [Periods -> Int \cup {Absent}]
  BY OfCall
<1>2. /\ call[c].at = "adjust"
      /\ UNCHANGED <<policy, counter, held, settled, repeated, disturbed>>
  BY DEF AdjustRead, At, world, history
<1>3. CASE Leave(c, "done") BY <1>2, <1>3, Leaving DEF Settling
<1>4. CASE Read(c, counter[Period(c)], "adjustExec")
  <2>1. call[c].period \in Periods
    BY <1>1, <1>2 DEF Placed, Settling, Call
  <2>2. counter[Period(c)] \in Int \cup {Absent} BY <1>1, <2>1 DEF Period
  <2>3. /\ q \in Call /\ q.at = "adjustExec" /\ q.seen = counter[call[c].period]
        /\ q.period = call[c].period /\ q.using = call[c].using /\ q.cost = call[c].cost
    BY <1>1, <2>2 DEF Call, Stages, Executing, Period
  <2>4. call' = [call EXCEPT ![c] = q] BY <1>4 DEF Read
  <2> HIDE DEF q
  <2>5. Placed(c, q, held, settled)
    BY <1>1, <1>2, <2>3 DEF Placed, Reserving, Settling, Unreserved
  <2>6. Watched(q, counter) BY <2>3 DEF Watched
  <2>7. UnderFirst(q, disturbed) BY <1>1, <2>3 DEF UnderFirst
  <2>8. Steady(c, q) BY <1>1, <1>2, <2>3 DEF Steady, Answered
  <2> QED BY <1>2, <2>3, <2>4, <2>5, <2>6, <2>7, <2>8, Touch
<1> QED BY <1>3, <1>4 DEF AdjustRead

(* A bill moves on, outside of a transaction. *)
LEMMA MovingOn ==
  ASSUME Core, NEW c \in Calls, NEW q \in Call, call' = [call EXCEPT ![c] = q],
         UNCHANGED <<policy, counter, held, settled, repeated, disturbed>>,
         call[c].at \in {"debit", "warn"}, q.period = call[c].period, q.cost = call[c].cost,
         q.at = "done" \/ (q.at = "adjust" /\ call[c].at # "warn"),
         disturbed # Periods => q.using = First
  PROVE  Core'
<1>1. call[c] \in Call /\ Placed(c, call[c], held, settled) /\ settled \subseteq Bills
  BY OfCall
<1>2. Placed(c, q, held, settled) BY <1>1 DEF Placed, Reserving, Settling, Unreserved
<1>3. Watched(q, counter) BY DEF Watched, Executing
<1>4. UnderFirst(q, disturbed) BY DEF UnderFirst
<1>5. Steady(c, q) BY <1>1 DEF Steady, Placed, Settling
<1> QED BY <1>2, <1>3, <1>4, <1>5, Touch

(* A done event: a bill is made, against the period of its request. *)
LEMMA Completing == ASSUME Core, NEW r \in Requests, NEW k \in 1..MaxBills, Complete(r, k) PROVE Core'
<1> DEFINE a == <<r, 0>>
           b == <<r, k>>
<1>1. PICK n \in Costs, more \in BOOLEAN :
        call' = [call EXCEPT
          ![a].at = IF more THEN "admitted" ELSE "done",
          ![b] = [Fresh EXCEPT !.at = IF call[a].period = 0 THEN "done" ELSE "debit",
                               !.period = call[a].period, !.cost = n]]
  BY DEF Complete
<1>2. /\ call[a].at = "admitted" /\ call[b].at = "none"
      /\ UNCHANGED <<policy, counter, held, settled, repeated, disturbed>>
  BY DEF Complete, At, world, history
<1>3. a \in Calls /\ a \notin Bills /\ b \in Calls /\ b \in Bills /\ a # b /\ a[1] = r /\ b[1] = r
  BY BudgetAssumption DEF Calls, Bills
<1> HIDE DEF a, b
<1>4. /\ call[a] \in Call /\ Placed(a, call[a], held, settled) /\ UnderFirst(call[a], disturbed)
      /\ Placed(b, call[b], held, settled) /\ call \in [Calls -> Call]
      /\ held \subseteq Requests /\ settled \subseteq Bills
  BY <1>3, OfCall
<1> DEFINE stage == IF more THEN "admitted" ELSE "done"
           place == IF call[a].period = 0 THEN "done" ELSE "debit"
           q == [call[a] EXCEPT !.at = stage]
           y == [Fresh EXCEPT !.at = place, !.period = call[a].period, !.cost = n]
<1>5. call'[a] = q /\ call'[b] = y /\ \A x \in Calls \ {a, b} : call'[x] = call[x]
  BY <1>1, <1>3, <1>4
<1>6. /\ stage \in Answered /\ q.at = stage /\ q \in Call
      /\ q.period = call[a].period /\ q.using = call[a].using
  BY <1>4 DEF Call, Stages, Answered
<1>7. /\ y \in Call /\ y.at = place /\ y.period = call[a].period /\ y.using = First
      /\ place = "done" \/ (place = "debit" /\ call[a].period # 0)
  <2>1. Fresh \in Call BY BudgetAssumption DEF Fresh, Call, Stages
  <2>2. call[a].period \in Periods \cup {0} /\ place \in Stages BY <1>4 DEF Call, Stages
  <2> QED BY <2>1, <2>2 DEF Fresh, Call
<1> HIDE DEF stage, place, q, y
<1>8. b \notin settled BY <1>2, <1>3, <1>4 DEF Placed
<1>9. ASSUME NEW x \in Calls
      PROVE  /\ call'[x] \in Call /\ Placed(x, call'[x], held, settled)
             /\ Watched(call'[x], counter) /\ UnderFirst(call'[x], disturbed)
  <2>1. CASE x = a
    <3>1. Placed(a, q, held, settled)
      BY <1>2, <1>3, <1>4, <1>6 DEF Placed, Answered, Unreserved, Reserving, Settling
    <3>2. Watched(q, counter) BY <1>6 DEF Watched, Executing, Answered
    <3>3. UnderFirst(q, disturbed) BY <1>4, <1>6 DEF UnderFirst
    <3> QED BY <1>5, <1>6, <2>1, <3>1, <3>2, <3>3
  <2>2. CASE x = b
    <3>1. Placed(b, y, held, settled)
      BY <1>3, <1>7, <1>8 DEF Placed, Unreserved, Reserving, Settling
    <3>2. Watched(y, counter) BY <1>7 DEF Watched, Executing
    <3>3. UnderFirst(y, disturbed) BY <1>7 DEF UnderFirst
    <3> QED BY <1>5, <1>7, <2>2, <3>1, <3>2, <3>3
  <2>3. CASE x \notin {a, b} BY <1>5, <2>3, OfCall
  <2> QED BY <2>1, <2>2, <2>3
<1>10. ASSUME NEW x \in Bills PROVE Follows(call'[x], call'[<<x[1], 0>>])
  <2>1. x \in Calls /\ <<x[1], 0>> \in Calls /\ <<x[1], 0>> \notin Bills BY Kinds
  <2>2. Follows(call[x], call[<<x[1], 0>>]) BY DEF Core, RequestInv
  <2>3. CASE x = b
    <3>1. <<x[1], 0>> = a BY <1>3, <2>3 DEF a
    <3> QED BY <1>5, <1>6, <1>7, <2>3, <3>1 DEF Follows
  <2>4. CASE x # b /\ <<x[1], 0>> = a
    <3>1. call'[x] = call[x] BY <1>3, <1>5, <2>1, <2>4
    <3> QED BY <1>5, <1>6, <2>2, <2>4, <3>1 DEF Follows
  <2>5. CASE x # b /\ <<x[1], 0>> # a
    <3>1. call'[x] = call[x] /\ call'[<<x[1], 0>>] = call[<<x[1], 0>>]
      BY <1>3, <1>5, <2>1, <2>5
    <3> QED BY <2>2, <3>1
  <2> QED BY <2>3, <2>4, <2>5
<1>11. call' \in [Calls -> Call] BY <1>1, <1>4, <1>9
<1>12. RequestInv' BY <1>2, <1>9, <1>10, <1>11 DEF RequestInv
<1>13. \A x \in Calls : x # b => Period(x)' = Period(x) BY <1>5, <1>6 DEF Period
<1>14. \A x \in held : Period(<<x, 0>>)' = Period(<<x, 0>>) BY <1>3, <1>4, <1>13, Kinds
<1>15. \A x \in settled : Period(x)' = Period(x) /\ call'[x].cost = call[x].cost
  BY <1>3, <1>4, <1>5, <1>8, <1>13, Kinds
<1>16. CounterInv' BY <1>2, <1>14, <1>15, SameCounter DEF Core
<1> QED BY <1>2, <1>12, <1>16 DEF Core, PolicyInv

(* debit() resolves the policy anew. *)
LEMMA Debiting == ASSUME IInv, NEW c \in Calls, Debit(c) PROVE Core'
<1> DEFINE q == IF policy = NoPolicy
                  THEN [call[c] EXCEPT !.at = "done"]
                  ELSE [call[c] EXCEPT !.at = "adjust", !.using = policy]
<1>1. Core /\ policy \in Policies \cup {NoPolicy} BY DEF IInv, RestTypes
<1>2. /\ call[c].at = "debit"
      /\ UNCHANGED <<policy, counter, held, settled, repeated, disturbed>>
      /\ call' = [call EXCEPT ![c] = q]
  BY DEF Debit, At, world, history
<1>3. /\ call[c] \in Call /\ UnderFirst(call[c], disturbed)
      /\ Placed(c, call[c], held, settled)
  BY <1>1, OfCall
<1>4. /\ q \in Call /\ q.period = call[c].period /\ q.cost = call[c].cost
      /\ \/ q.at = "done" /\ q.using = call[c].using
         \/ q.at = "adjust" /\ q.using = policy /\ policy # NoPolicy
  <2>1. CASE policy = NoPolicy BY <1>3, <2>1 DEF Call, Stages
  <2>2. CASE policy # NoPolicy BY <1>1, <1>3, <2>2 DEF Call, Stages
  <2> QED BY <2>1, <2>2
<1> HIDE DEF q
<1>5. call[c].period # 0 BY <1>2, <1>3 DEF Placed, Settling
<1>6. disturbed # Periods => q.using = First
  BY <1>1, <1>3, <1>4 DEF UnderFirst, Core, PolicyInv
<1> QED BY <1>1, <1>2, <1>4, <1>5, <1>6, MovingOn

(* The soft limit has been looked at. *)
LEMMA Warning == ASSUME Core, NEW c \in Calls, Warn(c) PROVE Core'
<1> DEFINE q == [call[c] EXCEPT !.at = "done"]
<1>1. /\ call[c].at = "warn" /\ call' = [call EXCEPT ![c] = q]
      /\ UNCHANGED <<policy, counter, held, settled, repeated, disturbed>>
  BY DEF Warn, At, GoTo, world, history
<1>2. call[c] \in Call /\ UnderFirst(call[c], disturbed) BY OfCall
<1>3. /\ q \in Call /\ q.at = "done" /\ q.period = call[c].period
      /\ q.using = call[c].using /\ q.cost = call[c].cost
  BY <1>2 DEF Call, Stages
<1> HIDE DEF q
<1> QED BY <1>1, <1>2, <1>3, MovingOn DEF UnderFirst

(* Steps that touch nothing of it. *)
LEMMA Aside ==
  ASSUME Core, UNCHANGED <<policy, counter, call, held, settled, repeated, disturbed>>
  PROVE  Core'
<1>1. CounterInv' BY SameCounter DEF Core, Period
<1>2. RequestInv' BY DEF Core, RequestInv
<1> QED BY <1>1, <1>2 DEF Core, PolicyInv

(* A new policy disturbs every period, and a removed one is not resolved. *)
LEMMA ChangingPolicy == ASSUME Core, ChangePolicy PROVE Core'
<1>1. /\ UNCHANGED <<counter, call, held, settled, repeated>>
      /\ \/ policy' = NoPolicy /\ disturbed' = disturbed
         \/ disturbed' = Periods
  BY DEF ChangePolicy
<1>2. CounterInv /\ CounterIsExact BY DEF Core, CounterInv
<1>3. CounterInv'
  <2>1. \A p : /\ Units(p)' = Units(p) /\ Unsettled(p)' = Unsettled(p) /\ Repeated(p)' = Repeated(p)
               /\ Committed(p)' = Committed(p) /\ Excess(p)' = Excess(p)
    BY <1>1, <1>2, SameUnits DEF CounterInv, Period
  <2>2. Periods \ disturbed' \subseteq Periods \ disturbed BY <1>1
  <2>3. CounterIsExact' BY <1>1, <1>2, <2>1, <2>2 DEF CounterIsExact, Period
  <2> QED BY <1>1, <1>2, <2>1, <2>3 DEF CounterInv
<1>4. RequestInv' BY <1>1 DEF Core, RequestInv, UnderFirst
<1> QED BY <1>1, <1>3, <1>4 DEF Core, PolicyInv

-----------------------------------------------------------------------------
(* The invariant. *)

(* Every step keeps the counter exact. *)
LEMMA CoreStep == ASSUME IInv, Next PROVE Core'
<1>1. Core BY DEF IInv
<1>2. ASSUME NEW c \in Calls, Admission(c) PROVE Core'
  <2>1. CASE Resolve(c) BY <2>1, Resolving
  <2>2. CASE ReserveRead(c) BY <1>1, <2>2, ReadingReserve
  <2>3. CASE ReserveExec(c) BY <1>1, <2>3, Taking DEF ReserveExec, world
  <2>4. CASE ReserveAborts(c) BY <1>1, <2>4, Retrying DEF ReserveAborts, At
  <2>5. CASE ReserveErrors(c)
    <3>1. UNCHANGED <<policy, settled, repeated, disturbed>> BY <2>5 DEF ReserveErrors, world
    <3>2. CASE call[c].at \in Reserving /\ Leave(c, "denied") /\ UNCHANGED <<counter, held>>
      BY <1>1, <3>1, <3>2, Leaving
    <3>3. CASE Take(c, "done") BY <1>1, <3>1, <3>3, Taking
    <3> QED BY <2>5, <3>2, <3>3 DEF ReserveErrors, Reserving
  <2> QED BY <1>2, <2>1, <2>2, <2>3, <2>4, <2>5 DEF Admission
<1>3. ASSUME NEW c \in Calls, Settlement(c) PROVE Core'
  <2>2. CASE Append(c) BY <1>1, <2>2, Aside DEF Append, world, history
  <2>3. CASE Debit(c) BY <2>3, Debiting
  <2>4. CASE AdjustRead(c) BY <1>1, <2>4, ReadingAdjust
  <2>5. CASE AdjustExec(c) BY <1>1, <2>5, Adjusting
  <2>6. CASE AdjustAborts(c) BY <1>1, <2>6, Retrying DEF AdjustAborts, At
  <2>7. CASE Warn(c) BY <1>1, <2>7, Warning
  <2>8. CASE Abandon(c) BY <1>1, <2>8, Leaving DEF Abandon, world, history, Settling
  <2> QED BY <1>3, <2>2, <2>3, <2>4, <2>5, <2>6, <2>7, <2>8 DEF Settlement
<1>8. ASSUME NEW r \in Requests, NEW k \in 1..MaxBills, Complete(r, k) PROVE Core'
  BY <1>1, <1>8, Completing
<1>4. ASSUME NEW p \in Periods, Reconcile(p) PROVE Core'
  <2>1. CASE Sum(p) BY <1>1, <2>1, Aside DEF Sum, world, history
  <2>2. CASE Write(p)
    <3>1. job[p].target \in Int BY DEF IInv, RestTypes
    <3> QED BY <1>1, <2>2, <3>1, Overwriting DEF Write, world
  <2>3. CASE ReconcileFails(p) BY <1>1, <2>3, Aside DEF ReconcileFails, world, history
  <2> QED BY <1>4, <2>1, <2>2, <2>3 DEF Reconcile
<1>5. ASSUME NEW p \in Periods, CounterExpires(p) PROVE Core'
  BY <1>1, <1>5, Overwriting DEF CounterExpires, world
<1>6. CASE PeriodEnds BY <1>1, <1>6, Aside DEF PeriodEnds, history
<1>7. CASE ChangePolicy BY <1>1, <1>7, ChangingPolicy
<1> QED BY <1>2, <1>3, <1>4, <1>5, <1>6, <1>7, <1>8 DEF Next

(* While its period lasts, an alert is published only with the key that stops *)
(* the next one.                                                              *)
LEMMA AlertStep == ASSUME IInv, Next PROVE AlertInv'
<1>1. AlertInv BY DEF IInv
<1>2. CASE UNCHANGED <<now, warned, alerts>> BY <1>1, <1>2 DEF AlertInv
<1>3. ASSUME NEW c \in Calls, Warn(c) PROVE AlertInv'
  <2> DEFINE p == Period(c)
  <2>1. call[c] \in Call /\ Placed(c, call[c], held, settled) BY OfCall DEF IInv
  <2>2. p \in Periods BY <1>3, <2>1 DEF Warn, At, Placed, Settling, Call, Period
  <2>3. /\ warned' = warned \cup {p} /\ now' = now
        /\ \/ p \in warned /\ alerts' = alerts
           \/ (p \notin warned \/ p < now) /\ alerts' = [alerts EXCEPT ![p] = @ + 1]
    BY <1>3 DEF Warn, Unmarked, world
  <2> HIDE DEF p
  <2>4. now \in Nat /\ p \in Nat BY <2>2 DEF IInv, RestTypes, Periods
  <2>5. warned' \subseteq Periods /\ alerts' \in [Periods -> Nat] BY <1>1, <2>2, <2>3 DEF AlertInv
  <2>6. ASSUME NEW x \in Periods, now <= x PROVE alerts'[x] = IF x \in warned' THEN 1 ELSE 0
    <3>1. alerts[x] = IF x \in warned THEN 1 ELSE 0 BY <1>1, <2>6 DEF AlertInv
    <3>2. CASE x = p BY <1>1, <2>2, <2>3, <2>4, <2>6, <3>1, <3>2 DEF AlertInv
    <3>3. CASE x # p BY <1>1, <2>2, <2>3, <3>1, <3>3 DEF AlertInv
    <3> QED BY <3>2, <3>3
  <2> QED BY <2>3, <2>5, <2>6 DEF AlertInv
<1>4. CASE PeriodEnds
  <2>1. now' = now + 1 /\ UNCHANGED <<warned, alerts>> BY <1>4 DEF PeriodEnds, alertVars
  <2>2. now \in Int /\ Periods \subseteq Int BY BudgetAssumption DEF IInv, RestTypes, Periods
  <2>3. \A x \in Periods : now' <= x => now <= x BY <2>1, <2>2
  <2> QED BY <1>1, <2>1, <2>3 DEF AlertInv
<1>5. (\E c \in Calls : Warn(c)) \/ PeriodEnds \/ UNCHANGED <<now, warned, alerts>>
  BY DEF Next, Admission, Settlement, Reconcile, Resolve, ReserveRead, ReserveExec, ReserveAborts,
         ReserveErrors, Retry, Complete, Append, Debit, AdjustRead, AdjustExec, AdjustAborts,
         Abandon, Sum, Write, ReconcileFails, CounterExpires, ChangePolicy, alertVars, world
<1> QED BY <1>2, <1>3, <1>4, <1>5

(* The jobs of a period are there or not, and waiting or not. *)
JobType == [Periods -> [step : {"none", "waiting", "summed"}, target : Int]]

(* A job moves on. *)
LEMMA JobMoves ==
  ASSUME job \in JobType, NEW p \in Periods,
         NEW step \in {"none", "waiting", "summed"}, NEW target \in Int
  PROVE  [job EXCEPT ![p] = [step |-> step, target |-> target]] \in JobType
BY DEF JobType

(* A reconciliation that ends leaves another job or none. *)
LEMMA JobEnds == ASSUME job \in JobType, NEW p \in Periods, Ends(p) PROVE job' \in JobType
<1>1. job' = [job EXCEPT ![p] = NoJob] \/ job' = [job EXCEPT ![p] = Waiting] BY DEF Ends
<1> QED BY <1>1, JobMoves DEF NoJob, Waiting

(* Every step keeps the types of what the counter does not depend on. *)
LEMMA RestStep == ASSUME IInv, Next PROVE RestTypes'
<1>1. /\ now \in Periods /\ changes \in 0..MaxChanges /\ policy \in Policies \cup {NoPolicy}
      /\ streams \subseteq Requests
      /\ spent \in [Periods -> Nat] /\ appending \subseteq Bills /\ armed \subseteq Periods
      /\ job \in JobType /\ RequestInv
  BY DEF IInv, RestTypes, JobType, Core
<1>2. CASE UNCHANGED <<now, changes, streams, policy, spent, appending, armed, job>>
  BY <1>1, <1>2 DEF RestTypes, JobType
<1>3. ASSUME NEW c \in Calls, ReserveExec(c) PROVE RestTypes'
  <2>1. UNCHANGED <<now, changes, streams, policy, spent, appending>> /\ Arm(Period(c))
    BY <1>3 DEF ReserveExec, world
  <2>2. Period(c) \in Periods
    <3>1. call[c].at = "reserveExec" BY <1>3 DEF ReserveExec, Take, At
    <3>2. call[c] \in Call /\ Placed(c, call[c], held, settled) BY OfCall DEF IInv
    <3> QED BY <3>1, <3>2 DEF Placed, Reserving, Call, Period
  <2> DEFINE p == Period(c)
  <2> HIDE DEF p
  <2>3. p \in Periods /\ Arm(p) BY <2>1, <2>2 DEF p
  <2>4. [job EXCEPT ![p] = Waiting] \in JobType BY <1>1, <2>3, JobMoves DEF Waiting
  <2>5. armed' \subseteq Periods /\ job' \in JobType BY <1>1, <2>3, <2>4 DEF Arm
  <2> QED BY <1>1, <2>1, <2>5 DEF RestTypes, JobType
<1>4. ASSUME NEW r \in Requests, NEW k \in 1..MaxBills, Complete(r, k) PROVE RestTypes'
  <2>1. /\ UNCHANGED <<now, changes, streams, policy, spent, armed, job>>
        /\ appending' = appending \cup {<<r, k>>}
    BY <1>4 DEF Complete, world
  <2>2. <<r, k>> \in Bills BY DEF Bills
  <2> QED BY <1>1, <2>1, <2>2 DEF RestTypes, JobType
<1>5. ASSUME NEW c \in Calls, Append(c) PROVE RestTypes'
  <2>1. call[c].cost \in Nat BY <1>1, Amounts
  <2>2. /\ UNCHANGED <<now, changes, streams, policy, armed, job>> /\ appending' = appending \ {c}
        /\ spent' = [spent EXCEPT ![now] = @ + call[c].cost] \/ spent' = spent
    BY <1>5 DEF Append, world
  <2>3. spent' \in [Periods -> Nat] BY <1>1, <2>1, <2>2
  <2> QED BY <1>1, <2>2, <2>3 DEF RestTypes, JobType
<1>6. ASSUME NEW p \in Periods, Reconcile(p) PROVE RestTypes'
  <2>1. UNCHANGED <<now, changes, streams, policy, spent, appending, armed>>
    BY <1>6 DEF Reconcile, Sum, Write, ReconcileFails, world
  <2>2. Ends(p) \/ (policy # NoPolicy /\ Sum(p))
    BY <1>6 DEF Reconcile, Sum, Write, ReconcileFails
  <2>3. CASE Ends(p) BY <1>1, <2>1, <2>3, JobEnds DEF RestTypes, JobType
  <2>4. CASE policy # NoPolicy /\ Sum(p)
    <3>1. policy \in Policy BY <1>1, <2>4, BudgetAssumption
    <3>2. policy.hard \in Nat BY <3>1 DEF Policy
    <3>3. policy.hard - spent[p] \in Int BY <1>1, <3>2
    <3>4. job' \in JobType BY <1>1, <2>4, <3>3, JobMoves DEF Sum
    <3> QED BY <1>1, <2>1, <3>4 DEF RestTypes, JobType
  <2> QED BY <2>2, <2>3, <2>4
<1>7. CASE PeriodEnds
  <2>1. now' \in Periods BY <1>1, <1>7, BudgetAssumption DEF PeriodEnds, Periods
  <2> QED BY <1>1, <1>7, <2>1 DEF PeriodEnds, RestTypes, JobType
<1>8. CASE ChangePolicy
  <2>1. changes' \in 0..MaxChanges BY <1>1, <1>8, BudgetAssumption DEF ChangePolicy
  <2> QED BY <1>1, <1>8, <2>1 DEF ChangePolicy, RestTypes, JobType
<1>9. \/ \E c \in Calls : ReserveExec(c) \/ Append(c)
      \/ \E r \in Requests, k \in 1..MaxBills : Complete(r, k)
      \/ \E p \in Periods : Reconcile(p)
      \/ PeriodEnds \/ ChangePolicy
      \/ UNCHANGED <<now, changes, streams, policy, spent, appending, armed, job>>
  BY DEF Next, Admission, Settlement, Resolve, ReserveRead, ReserveAborts, ReserveErrors, Retry,
         Debit, AdjustRead, AdjustExec, AdjustAborts, Warn, Abandon, CounterExpires, world
<1> QED BY <1>2, <1>3, <1>4, <1>5, <1>6, <1>7, <1>8, <1>9

(* Nothing is held of any period to begin with. *)
LEMMA Beginning == ASSUME Init PROVE IInv
<1>1. now \in Periods /\ changes \in 0..MaxChanges /\ streams \subseteq Requests
  BY BudgetAssumption DEF Init
<1>2. RestTypes /\ AlertInv
  BY <1>1, BudgetAssumption DEF Init, RestTypes, AlertInv, NoJob
<1>3. Fresh \in Call /\ [Fresh EXCEPT !.at = "none"] \in Call
  BY BudgetAssumption DEF Fresh, Call, Stages
<1>4. RequestInv
  <2>1. call \in [Calls -> Call] BY <1>3 DEF Init
  <2>2. ASSUME NEW c \in Calls
        PROVE  /\ Placed(c, call[c], held, settled)
               /\ Watched(call[c], counter) /\ UnderFirst(call[c], disturbed)
    BY DEF Init, Fresh, Placed, Watched, UnderFirst, Unreserved, Reserving, Settling, Executing
  <2>3. \A b \in Bills : Follows(call[b], call[<<b[1], 0>>])
    BY Kinds DEF Init, Fresh, Follows
  <2> QED BY <2>1, <2>2, <2>3 DEF RequestInv
<1>5. \A p : Units(p) = {} /\ Unsettled(p) = {} /\ Repeated(p) = {}
  BY DEF Init, Units, Unsettled, Repeated
<1>6. CounterInv
  BY <1>5, FS_EmptySet DEF Init, CounterInv, CounterIsExact
<1>7. PolicyInv BY DEF Init, PolicyInv
<1> QED BY <1>2, <1>4, <1>6, <1>7 DEF IInv, Core

(* A stuttering step changes nothing. *)
LEMMA Stuttering == ASSUME IInv, UNCHANGED vars PROVE IInv'
<1>1. UNCHANGED <<now, policy, changes, streams, counter, spent, call, appending, armed, warned,
                  alerts, job, held, settled, repeated, disturbed>>
  BY DEF vars, world, alertVars, history
<1>2. Core' BY <1>1, Aside DEF IInv
<1>3. RestTypes' BY <1>1 DEF IInv, RestTypes
<1>4. AlertInv' BY <1>1 DEF IInv, AlertInv
<1> QED BY <1>2, <1>3, <1>4 DEF IInv

(* The inductive invariant holds of every reachable state, for any requests, *)
(* done events, periods, costs, policies and number of retries.              *)
THEOREM Invariance == Spec => []IInv
<1>1. Init => IInv BY Beginning
<1>2. IInv /\ [Next]_vars => IInv'
  BY CoreStep, AlertStep, RestStep, Stuttering DEF IInv
<1> QED BY <1>1, <1>2, PTL DEF Spec

(* The variables have their types: attempts stay below MAX_OPTIMISTIC_RETRIES, *)
(* and only a bill is trued up.                                                *)
THEOREM TypeCorrect == Spec => []TypeOK
<1>1. IInv => TypeOK
  BY DEF IInv, RestTypes, AlertInv, Core, RequestInv, CounterInv, TypeOK
<1> QED BY <1>1, Invariance, PTL

(* However many requests reserve, abort, retry, give up and true up at once, *)
(* and however often each does, the counter of a period shows what they took *)
(* of its budget, and one reservation too much for every done event after a  *)
(* request's first, until something else overwrites it (reserve, adjust).    *)
THEOREM CounterExact == Spec => []CounterIsExact
<1>1. IInv => CounterIsExact BY DEF IInv, Core, CounterInv
<1> QED BY <1>1, Invariance, PTL

(* One soft limit alert at most while its period lasts, however many debits  *)
(* see the crossing at once (warnIfSoftLimitCrossed).                        *)
THEOREM AlertedOnce == Spec => []SoftLimitAlertedOnce
<1>1. IInv => SoftLimitAlertedOnce BY DEF IInv, AlertInv, SoftLimitAlertedOnce
<1> QED BY <1>1, Invariance, PTL

(* A request whose reservation commits stays within the hard limit together  *)
(* with all that was taken before it, and passes it by no more than repeated *)
(* true-ups gave back (checkAndReserve).                                     *)
THEOREM AdmittedWithin == Spec => AdmittedWithinLimit
<1> DEFINE Fits == \A r \in held' \ held : LET p == Period(<<r, 0>>) IN
                     p \notin disturbed => Committed(p) + First.hold <= First.hard + Excess(p)
<1>1. IInv /\ Next => Fits
  <2> SUFFICES ASSUME IInv, Next PROVE Fits OBVIOUS
  <2>1. ASSUME NEW c \in Calls, NEW stage \in {"admitted", "done"}, Take(c, stage),
               UNCHANGED <<policy, settled, repeated, disturbed>>
        PROVE  Fits
    BY <2>1, Taking DEF IInv
  <2>2. \/ held' = held
        \/ \E c \in Calls, stage \in {"admitted", "done"} :
             Take(c, stage) /\ UNCHANGED <<policy, settled, repeated, disturbed>>
    BY DEF Next, Admission, Settlement, Reconcile, Resolve, ReserveRead, ReserveExec, ReserveAborts,
           ReserveErrors, Retry, Complete, Append, Debit, AdjustRead, AdjustExec, AdjustAborts, Warn,
           Abandon, Sum, Write, ReconcileFails, PeriodEnds, CounterExpires, ChangePolicy,
           world, history
  <2> QED BY <2>1, <2>2
<1>2. UNCHANGED vars => Fits BY DEF vars, history
<1>3. IInv /\ [Next]_vars => Fits BY <1>1, <1>2
<1> QED BY <1>3, Invariance, PTL DEF Spec, AdmittedWithinLimit

=============================================================================
