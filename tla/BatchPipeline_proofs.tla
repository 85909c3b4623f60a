------------------------ MODULE BatchPipeline_proofs ------------------------
(***************************************************************************)
(* Proofs about BatchPipeline for any batches, drain loops, hand-offs,     *)
(* attempts, kinds and number of faults.                                   *)
(***************************************************************************)
EXTENDS BatchPipeline, FiniteSetTheorems, TLAPS

-----------------------------------------------------------------------------
(* Types. *)

(* The rows a batch has in the jobs table are finitely many. *)
LEMMA JobsOfFinite ==
  ASSUME NEW b \in Batches
  PROVE  IsFiniteSet(JobsOf(b)) /\ Cardinality(JobsOf(b)) \in Nat
<1>1. IsFiniteSet({b}) /\ IsFiniteSet(1..HandOffs)
  <2>1. 1 \in Int /\ HandOffs \in Int BY BatchPipelineAssumption
  <2>2. IsFiniteSet(1..HandOffs) BY <2>1, FS_Interval
  <2> QED BY <2>2, FS_Singleton
<1>2. IsFiniteSet({b} \X (1..HandOffs)) BY <1>1, FS_Product
<1>3. ASSUME NEW j \in JobsOf(b) PROVE j \in {b} \X (1..HandOffs)
  <2>1. j \in Batches \X (1..HandOffs) /\ j[1] = b BY DEF JobsOf, Jobs, BatchOf
  <2> QED BY <2>1
<1>4. JobsOf(b) \subseteq {b} \X (1..HandOffs) BY <1>3
<1>5. IsFiniteSet(JobsOf(b)) BY <1>2, <1>4, FS_Subset
<1> QED BY <1>5, FS_CardinalityType

(* A hand-off inserts a row for the batch of its ticket. *)
LEMMA Inserted ==
  ASSUME NEW t \in Ticket, Insert(t)
  PROVE  \E j \in Jobs : /\ BatchOf(j) = t.batch /\ Table!Submit(j)
                         /\ hookOf' = [hookOf EXCEPT ![j] = t.hook]
<1> DEFINE j == <<t.batch, Cardinality(JobsOf(t.batch)) + 1>>
<1>1. t.batch \in Batches BY DEF Ticket
<1>2. Cardinality(JobsOf(t.batch)) \in Nat BY <1>1, JobsOfFinite
<1>3. j \in Jobs /\ BatchOf(j) = t.batch
  BY <1>1, <1>2, BatchPipelineAssumption DEF Insert, Jobs, BatchOf
<1> QED BY <1>3 DEF Insert

(* The jobs table keeps its type, and a row that was inserted stays. *)
LEMMA TableStep ==
  ASSUME Table!TypeOK,
         \/ \E j \in Jobs : Table!Submit(j) \/ Table!Take({j}) \/ Table!Succeed(j) \/ Table!GiveUp({j})
         \/ \E j \in Jobs, a \in Nat : Table!Finish(j, a)
         \/ UNCHANGED jobVars
  PROVE  Table!TypeOK' /\ \A j \in Jobs : status[j] # "ABSENT" => status'[j] # "ABSENT"
<1>1. ASSUME NEW j \in Jobs, Table!Submit(j) \/ Table!Succeed(j) \/ Table!GiveUp({j})
      PROVE  Table!TypeOK' /\ \A k \in Jobs : status[k] # "ABSENT" => status'[k] # "ABSENT"
  BY <1>1 DEF Table!TypeOK, Table!Submit, Table!Succeed, Table!GiveUp, Table!SetStatus, Table!Statuses
<1>2. ASSUME NEW j \in Jobs, Table!Take({j})
      PROVE  Table!TypeOK' /\ \A k \in Jobs : status[k] # "ABSENT" => status'[k] # "ABSENT"
  BY <1>2 DEF Table!TypeOK, Table!Take, Table!SetStatus, Table!Statuses
<1>3. ASSUME NEW j \in Jobs, NEW a \in Nat, Table!Finish(j, a)
      PROVE  Table!TypeOK' /\ \A k \in Jobs : status[k] # "ABSENT" => status'[k] # "ABSENT"
  BY <1>3 DEF Table!TypeOK, Table!Finish
<1>4. CASE UNCHANGED jobVars BY <1>4 DEF jobVars, Table!TypeOK
<1> QED BY <1>1, <1>2, <1>3, <1>4

(* Rows, runs and what they did. *)
RunTypes ==
  /\ runs \subseteq Run
  /\ row \in [Batches -> {"absent", "pending", "processing"} \cup Outcomes]
  /\ routed \in [Batches -> Nat]
  /\ failOpens \in [Batches -> Nat]
  /\ notified \in [Batches -> SUBSET Outcomes]

(* Tickets, the queue and the drain loops. *)
DrainTypes ==
  /\ queue \subseteq Batches
  /\ loop \in [Drainers -> {"idle", "popping", "handing"}]
  /\ inHand \in [Drainers -> SUBSET Ticket]

RestTypes ==
  /\ hookOf \in [Jobs -> BOOLEAN]
  /\ api \in [Batches -> {"new", "queued", "accepted", "rejected"}]
  /\ harmed \subseteq Batches
  /\ faults \in 0..MaxFaults

(* The type of the whole is that of the jobs table, the runs, the loops and the rest. *)
LEMMA TypeParts ==
  /\ TypeOK <=> Table!TypeOK /\ RunTypes /\ DrainTypes /\ RestTypes
  /\ TypeOK' <=> Table!TypeOK' /\ RunTypes' /\ DrainTypes' /\ RestTypes'
BY DEF TypeOK, RunTypes, DrainTypes, RestTypes

(* Nothing is submitted to begin with. *)
LEMMA InitTypes == Init => TypeOK
<1> SUFFICES ASSUME Init PROVE TypeOK OBVIOUS
<1>1. Table!TypeOK BY DEF Init, Table!Init, Table!TypeOK, Table!Statuses
<1>2. RunTypes /\ DrainTypes BY DEF Init, RunTypes, DrainTypes
<1>3. RestTypes BY BatchPipelineAssumption DEF Init, RestTypes
<1> QED BY <1>1, <1>2, <1>3, TypeParts

(* Counting one more fault. *)
LEMMA FaultType == ASSUME TypeOK, NEW kind, Fault(kind) PROVE faults' \in 0..MaxFaults
BY BatchPipelineAssumption DEF TypeOK, Fault

(* A submission keeps the types. *)
LEMMA SubmissionTypes == ASSUME TypeOK, Submission PROVE TypeOK'
<1>1. PICK b \in Batches : Enqueue(b) \/ CreateRow(b) \/ CreateRowFails(b) BY DEF Submission
<1>2. CASE Enqueue(b)
  BY <1>2, TypeParts, TableStep DEF Enqueue, RunTypes, DrainTypes, RestTypes, rowVars, loopVars, historyVars
<1>3. CASE CreateRow(b)
  BY <1>3, TypeParts, TableStep DEF CreateRow, RunTypes, DrainTypes, RestTypes, loopVars, historyVars
<1>4. CASE CreateRowFails(b)
  BY <1>4, TypeParts, TableStep, FaultType
  DEF CreateRowFails, RunTypes, DrainTypes, RestTypes, rowVars, loopVars, historyVars
<1> QED BY <1>1, <1>2, <1>3, <1>4


(* What a drain loop has in hand. *)
LEMMA TicketType ==
  ASSUME TypeOK, NEW d \in Drainers, NEW t \in inHand[d]
  PROVE  /\ t \in Ticket /\ t.batch \in Batches /\ t.hook \in BOOLEAN
         /\ inHand[d] \subseteq Ticket
<1>1. t \in Ticket /\ inHand[d] \subseteq Ticket BY DEF TypeOK
<1> QED BY <1>1 DEF Ticket

(* A drain loop puts a ticket back with its next stage. *)
LEMMA SetTicketTypes ==
  ASSUME DrainTypes, NEW d \in Drainers, NEW t \in Ticket, UNCHANGED queue,
         NEW stage \in {"popped", "looked", "requeue"}, NEW hook \in BOOLEAN,
         SetTicket(d, t, stage, hook)
  PROVE  DrainTypes'
<1>1. Staged(t, stage, hook) \in Ticket BY DEF Staged, Ticket
<1> QED BY <1>1 DEF SetTicket, DrainTypes

(* A drain loop that is done with a ticket holds one less. *)
LEMMA DropTicketTypes ==
  ASSUME DrainTypes, NEW d \in Drainers, NEW t, queue' \subseteq Batches, DropTicket(d, t)
  PROVE  DrainTypes'
BY DEF DropTicket, DrainTypes

(* What is popped is a set of tickets. *)
LEMMA PoppedTypes ==
  ASSUME NEW S \in SUBSET Batches
  PROVE  Popped(S) \subseteq Ticket
<1> SUFFICES ASSUME NEW t \in Popped(S) PROVE t \in Ticket OBVIOUS
<1>1. PICK b \in S : t = [batch |-> b, stage |-> "popped", hook |-> FALSE] BY DEF Popped
<1>2. b \in Batches /\ FALSE \in BOOLEAN /\ "popped" \in {"popped", "looked", "requeue"} OBVIOUS
<1> QED BY <1>1, <1>2 DEF Ticket

(* The tickets in a loop's hand name batches. *)
LEMMA InHandTypes ==
  ASSUME TypeOK, NEW d \in Drainers PROVE InHandOf(d) \subseteq Batches
BY DEF TypeOK, InHandOf, Ticket

(* A step of a drain loop keeps the types. *)
LEMMA DrainStepTypes == ASSUME TypeOK, NEW d \in Drainers, Drain(d) PROVE TypeOK'
<1>1. CASE PopBatch(d)
  <2>1. PICK S \in SUBSET queue :
          /\ queue' = queue \ S /\ inHand' = [inHand EXCEPT ![d] = Popped(S)]
          /\ loop' = [loop EXCEPT ![d] = IF Cardinality(S) = DrainSize THEN "handing" ELSE "popping"]
    BY <1>1 DEF PopBatch, PopMin
  <2>2. Popped(S) \subseteq Ticket BY <2>1, PoppedTypes DEF TypeOK
  <2>3. DrainTypes' BY <2>1, <2>2 DEF TypeOK, DrainTypes
  <2> QED BY <1>1, <2>3, TypeParts, TableStep DEF PopBatch, RunTypes, RestTypes, rowVars, historyVars
<1>2. CASE PopBackground(d)
  <2>1. PICK S \in SUBSET queue :
          /\ queue' = queue \ S /\ inHand' = [inHand EXCEPT ![d] = @ \cup Popped(S)]
          /\ loop' = [loop EXCEPT ![d] = IF inHand[d] \cup Popped(S) = {} THEN "idle" ELSE "handing"]
    BY <1>2 DEF PopBackground, PopMin
  <2>2. Popped(S) \subseteq Ticket BY <2>1, PoppedTypes DEF TypeOK
  <2>3. DrainTypes' BY <2>1, <2>2 DEF TypeOK, DrainTypes
  <2> QED BY <1>2, <2>3, TypeParts, TableStep DEF PopBackground, RunTypes, RestTypes, rowVars, historyVars
<1>3. ASSUME NEW t \in inHand[d], LookUp(d, t) PROVE TypeOK'
  <2>1. t \in Ticket BY TicketType
  <2>2. DrainTypes' BY <1>3, <2>1, TypeParts, SetTicketTypes DEF LookUp
  <2> QED BY <1>3, <2>2, TypeParts, TableStep DEF LookUp, RunTypes, RestTypes, rowVars, historyVars
<1>4. ASSUME NEW t \in inHand[d], HandOff(d, t) PROVE TypeOK'
  <2>1. t \in Ticket /\ t.hook \in BOOLEAN BY TicketType
  <2>2. PICK j \in Jobs : Table!Submit(j) /\ hookOf' = [hookOf EXCEPT ![j] = t.hook]
    BY <1>4, <2>1, Inserted DEF HandOff
  <2>3. Table!TypeOK' BY <2>2, TypeParts, TableStep
  <2>4. hookOf' \in [Jobs -> BOOLEAN] BY <2>1, <2>2 DEF TypeOK
  <2>5. DrainTypes' BY <1>4, TypeParts, DropTicketTypes DEF HandOff, TypeOK
  <2> QED BY <1>4, <2>3, <2>4, <2>5, TypeParts DEF HandOff, RunTypes, RestTypes, rowVars, historyVars
<1>5. ASSUME NEW t \in inHand[d], Requeue(d, t) PROVE TypeOK'
  <2>1. queue' \subseteq Batches BY <1>5, TicketType DEF Requeue, TypeOK
  <2>2. DrainTypes' BY <1>5, <2>1, TypeParts, DropTicketTypes DEF Requeue
  <2> QED BY <1>5, <2>2, TypeParts, TableStep DEF Requeue, RunTypes, RestTypes, rowVars, historyVars
<1> QED BY <1>1, <1>2, <1>3, <1>4, <1>5 DEF Drain

(* A fault of a drain loop keeps the types. *)
LEMMA DrainFaultTypes == ASSUME TypeOK, NEW d \in Drainers, DrainFault(d) PROVE TypeOK'
<1>1. CASE PopBackgroundFails(d) \/ DrainCrash(d)
  <2>1. /\ loop' = [loop EXCEPT ![d] = "idle"] /\ inHand' = [inHand EXCEPT ![d] = {}]
        /\ harmed' = harmed \cup InHandOf(d) /\ faults' \in 0..MaxFaults
        /\ UNCHANGED <<jobVars, hookOf, runs, api, rowVars, queue, historyVars>>
    BY <1>1, FaultType DEF PopBackgroundFails, DrainCrash, Harm
  <2>2. DrainTypes' /\ RestTypes' BY <2>1, InHandTypes, TypeParts DEF DrainTypes, RestTypes
  <2> QED BY <2>1, <2>2, TypeParts, TableStep DEF RunTypes, rowVars, historyVars
<1>2. ASSUME NEW t \in inHand[d], LookUpFails(d, t) PROVE TypeOK'
  <2>1. t \in Ticket /\ t.batch \in Batches BY TicketType
  <2>2. DrainTypes' BY <1>2, <2>1, TypeParts, SetTicketTypes DEF LookUpFails
  <2>3. RestTypes' BY <1>2, <2>1, FaultType, TypeParts DEF LookUpFails, RestTypes, Harm
  <2> QED BY <1>2, <2>2, <2>3, TypeParts, TableStep DEF LookUpFails, RunTypes, rowVars, historyVars
<1>3. ASSUME NEW t \in inHand[d], HandOffFails(d, t) PROVE TypeOK'
  <2>1. t \in Ticket /\ t.hook \in BOOLEAN BY TicketType
  <2>2. DrainTypes' BY <1>3, <2>1, TypeParts, SetTicketTypes DEF HandOffFails
  <2>3. Table!TypeOK' /\ hookOf' \in [Jobs -> BOOLEAN]
    <3>1. CASE Insert(t)
      <4>1. PICK j \in Jobs : Table!Submit(j) /\ hookOf' = [hookOf EXCEPT ![j] = t.hook]
        BY <2>1, <3>1, Inserted
      <4> QED BY <2>1, <4>1, TypeParts, TableStep DEF TypeOK
    <3>2. CASE UNCHANGED <<jobVars, hookOf>> BY <3>2, TypeParts, TableStep DEF RestTypes
    <3> QED BY <1>3, <3>1, <3>2 DEF HandOffFails
  <2>4. RestTypes' BY <1>3, <2>3, FaultType, TypeParts DEF HandOffFails, RestTypes
  <2> QED BY <1>3, <2>2, <2>3, <2>4, TypeParts DEF HandOffFails, RunTypes, rowVars, historyVars
<1>4. ASSUME NEW t \in inHand[d], RequeueFails(d, t) PROVE TypeOK'
  <2>1. t.batch \in Batches BY TicketType
  <2>2. DrainTypes' BY <1>4, TypeParts, DropTicketTypes DEF RequeueFails, TypeOK
  <2>3. RestTypes' BY <1>4, <2>1, FaultType, TypeParts DEF RequeueFails, RestTypes, Harm
  <2> QED BY <1>4, <2>2, <2>3, TypeParts, TableStep DEF RequeueFails, RunTypes, rowVars, historyVars
<1> QED BY <1>1, <1>2, <1>3, <1>4 DEF DrainFault

(* The scheduler's claims and settlements keep the types. *)
LEMMA SchedulerTypes == ASSUME TypeOK, NEW j \in Jobs, Take(j) \/ SettleJob(j) PROVE TypeOK'
<1>1. CASE Take(j)
  <2>1. attempts[j] + 1 \in Nat BY TypeParts DEF Table!TypeOK
  <2>2. NewRun(j) \in Run BY <2>1 DEF NewRun, Run
  <2> QED BY <1>1, <2>2, TypeParts, TableStep
          DEF Take, RunTypes, DrainTypes, RestTypes, rowVars, loopVars, historyVars
<1>2. CASE SettleJob(j)
  BY <1>2, TypeParts, TableStep
  DEF SettleJob, RunTypes, DrainTypes, RestTypes, rowVars, loopVars, historyVars
<1> QED BY <1>1, <1>2

(* A run is of a job of some batch. *)
LEMMA RunType ==
  ASSUME TypeOK, NEW r \in runs
  PROVE  /\ r \in Run /\ r.job \in Jobs /\ BatchIn(r) \in Batches
         /\ \A pc \in {"mark", "route", "persist", "notify"}, o \in Outcomes \cup {"none"} :
              Advanced(r, pc, o) \in Run /\ BatchIn(Advanced(r, pc, o)) = BatchIn(r)
<1>1. r \in Run /\ r.job \in Jobs BY DEF TypeOK, Run
<1> QED BY <1>1 DEF Run, Jobs, BatchIn, BatchOf, Advanced

(* The handler returns: its run goes, its attempt is finished. *)
LEMMA ReturnTypes ==
  ASSUME TypeOK, NEW r \in runs, Return(r)
  PROVE  Table!TypeOK' /\ runs' = runs \ {r}
<1>1. r.job \in Jobs /\ r.attempt \in Nat BY RunType DEF Run
<1> QED BY <1>1, TypeParts, TableStep DEF Return

(* A run that was routed knows its outcome. *)
KnowsOutcome == \A r \in runs : r.pc \in {"persist", "notify"} => r.outcome \in Outcomes

(* A step of a run keeps the types. *)
LEMMA HandleTypes == ASSUME TypeOK, KnowsOutcome, NEW r \in runs, Handle(r) PROVE TypeOK'
<1>1. CASE MarkProcessing(r)
  <2>1. runs' \subseteq Run BY <1>1, RunType, TypeParts DEF MarkProcessing, GoOn, RunTypes
  <2>2. row' \in [Batches -> {"absent", "pending", "processing"} \cup Outcomes]
    BY <1>1, TypeParts DEF MarkProcessing, RunTypes
  <2>3. RunTypes' BY <1>1, <2>1, <2>2, TypeParts DEF MarkProcessing, RunTypes, historyVars
  <2> QED BY <1>1, <2>3, TypeParts, TableStep DEF MarkProcessing, GoOn, DrainTypes, RestTypes, loopVars
<1>2. CASE SkipDuplicate(r)
  <2>1. RunTypes' BY <1>2, ReturnTypes, TypeParts DEF SkipDuplicate, RunTypes, rowVars, historyVars
  <2> QED BY <1>2, <2>1, ReturnTypes, TypeParts DEF SkipDuplicate, DrainTypes, RestTypes, loopVars
<1>3. CASE Route(r)
  <2>1. PICK o \in Outcomes : GoOn(r, "persist", o) BY <1>3 DEF Route
  <2>2. runs' \subseteq Run BY <2>1, RunType, TypeParts DEF GoOn, RunTypes
  <2>3. routed' \in [Batches -> Nat] BY <1>3, RunType, TypeParts DEF Route, RunTypes
  <2>4. RunTypes' BY <1>3, <2>2, <2>3, TypeParts DEF Route, RunTypes, rowVars
  <2> QED BY <1>3, <2>1, <2>4, TypeParts, TableStep DEF Route, GoOn, DrainTypes, RestTypes, loopVars
<1>4. CASE Persist(r) \/ PersistNoRow(r)
  <2>1. r.outcome \in Outcomes BY <1>4 DEF Persist, PersistNoRow, KnowsOutcome
  <2>2. runs' \subseteq Run /\ UNCHANGED jobVars
    BY <1>4, <2>1, RunType, TypeParts DEF Persist, PersistNoRow, GoOn, RunTypes
  <2>3. row' \in [Batches -> {"absent", "pending", "processing"} \cup Outcomes]
    BY <1>4, <2>1, TypeParts DEF Persist, PersistNoRow, RunTypes, rowVars
  <2>4. RunTypes' BY <1>4, <2>2, <2>3, TypeParts DEF Persist, PersistNoRow, RunTypes, rowVars, historyVars
  <2> QED BY <1>4, <2>2, <2>4, TypeParts, TableStep
          DEF Persist, PersistNoRow, DrainTypes, RestTypes, loopVars
<1>5. CASE Notify(r)
  <2>1. r.outcome \in Outcomes BY <1>5 DEF Notify, KnowsOutcome
  <2>2. notified' \in [Batches -> SUBSET Outcomes] BY <1>5, <2>1, TypeParts DEF Notify, RunTypes
  <2>3. RunTypes' BY <1>5, <2>2, ReturnTypes, TypeParts DEF Notify, RunTypes, rowVars
  <2> QED BY <1>5, <2>3, ReturnTypes, TypeParts DEF Notify, DrainTypes, RestTypes, loopVars
<1> QED BY <1>1, <1>2, <1>3, <1>4, <1>5 DEF Handle

(* A fault of a run keeps the types. *)
LEMMA HandleFaultTypes == ASSUME TypeOK, KnowsOutcome, NEW r \in runs, HandleFault(r) PROVE TypeOK'
<1>1. BatchIn(r) \in Batches BY RunType
<1>2. CASE MarkProcessingFails(r)
  <2>1. runs' \subseteq Run BY <1>2, RunType, TypeParts DEF MarkProcessingFails, GoOn, RunTypes
  <2>2. row' \in [Batches -> {"absent", "pending", "processing"} \cup Outcomes]
    BY <1>2, TypeParts DEF MarkProcessingFails, RunTypes
  <2>3. failOpens' \in [Batches -> Nat] BY <1>1, <1>2, TypeParts DEF MarkProcessingFails, RunTypes
  <2>4. RunTypes' BY <1>2, <2>1, <2>2, <2>3, TypeParts DEF MarkProcessingFails, RunTypes, historyVars
  <2>5. RestTypes' BY <1>2, FaultType, TypeParts DEF MarkProcessingFails, RestTypes
  <2> QED BY <1>2, <2>4, <2>5, TypeParts, TableStep DEF MarkProcessingFails, GoOn, DrainTypes, loopVars
<1>3. CASE PersistFails(r)
  <2>1. r.outcome \in Outcomes BY <1>3 DEF PersistFails, KnowsOutcome
  <2>2. runs' \subseteq Run BY <1>3, <2>1, RunType, TypeParts DEF PersistFails, GoOn, RunTypes
  <2>3. RunTypes' BY <1>3, <2>2, TypeParts DEF PersistFails, RunTypes, rowVars, historyVars
  <2>4. RestTypes' BY <1>1, <1>3, FaultType, TypeParts DEF PersistFails, RestTypes, Harm
  <2> QED BY <1>3, <2>3, <2>4, TypeParts, TableStep DEF PersistFails, GoOn, DrainTypes, loopVars
<1>4. CASE NotifyFails(r)
  <2>1. RunTypes' BY <1>4, ReturnTypes, TypeParts DEF NotifyFails, RunTypes, rowVars, historyVars
  <2>2. RestTypes' BY <1>1, <1>4, FaultType, TypeParts DEF NotifyFails, RestTypes, Harm
  <2> QED BY <1>4, <2>1, <2>2, ReturnTypes, TypeParts DEF NotifyFails, DrainTypes, loopVars
<1>5. CASE RunCrash(r)
  <2>1. RunTypes' BY <1>5, TypeParts DEF RunCrash, RunTypes, rowVars, historyVars
  <2>2. RestTypes' BY <1>1, <1>5, FaultType, TypeParts DEF RunCrash, RestTypes, Harm
  <2> QED BY <1>5, <2>1, <2>2, TypeParts, TableStep DEF RunCrash, DrainTypes, loopVars
<1> QED BY <1>2, <1>3, <1>4, <1>5 DEF HandleFault

-----------------------------------------------------------------------------
(* Executions of a batch. *)

(* A row is created by the request that queued the batch. *)
ApiInv == \A b \in Batches : api[b] \in {"new", "queued"} => row[b] = "absent"

(* Runs that are about to call the routing engine, or have claimed the row. *)
Routing(b) == {r \in runs : BatchIn(r) = b /\ r.pc = "route"}
Engaged(b) == {r \in runs : BatchIn(r) = b /\ r.pc # "mark"}

(* Only the claim of the row and a fail-open admit a run to the engine. *)
Claims(b) == IF row[b] \in {"absent", "pending"} THEN 0 ELSE 1
CountInv(b) == Cardinality(Routing(b)) + routed[b] <= Claims(b) + failOpens[b]

(* As long as no run failed open, one run at most gets past the claim. *)
SingleInv(b) ==
  /\ row[b] \in {"absent", "pending"} => Engaged(b) = {} /\ notified[b] = {}
  /\ \A r, s \in Engaged(b) : r = s
  /\ Engaged(b) # {} => notified[b] = {}
  /\ row[b] \in Outcomes => \A r \in Engaged(b) : r.pc = "notify" /\ r.outcome = row[b]
  /\ \A x, y \in notified[b] : x = y
  /\ row[b] \in Outcomes => notified[b] \subseteq {row[b]}

ExecInv ==
  /\ KnowsOutcome /\ ApiInv /\ IsFiniteSet(runs)
  /\ \A b \in Batches : CountInv(b) /\ (failOpens[b] = 0 => SingleInv(b))

(* What a step that adds at most the run x does to the runs at the engine. *)
LEMMA RoutingStep ==
  ASSUME IsFiniteSet(runs), NEW x, runs' \subseteq runs \cup {x}
  PROVE  /\ IsFiniteSet(runs')
         /\ \A b : /\ Cardinality(Routing(b)) \in Nat /\ Cardinality(Routing(b)') \in Nat
                   /\ Cardinality(Routing(b)') <= Cardinality(Routing(b)) + 1
                   /\ x.pc # "route" \/ BatchIn(x) # b =>
                        /\ Cardinality(Routing(b)') <= Cardinality(Routing(b))
                        /\ \A r \in Routing(b) \ runs' :
                             Cardinality(Routing(b)') <= Cardinality(Routing(b)) - 1
<1>1. IsFiniteSet(runs \cup {x}) BY FS_AddElement
<1>2. IsFiniteSet(runs') BY <1>1, FS_Subset
<1> SUFFICES ASSUME NEW b
             PROVE  /\ Cardinality(Routing(b)) \in Nat /\ Cardinality(Routing(b)') \in Nat
                    /\ Cardinality(Routing(b)') <= Cardinality(Routing(b)) + 1
                    /\ x.pc # "route" \/ BatchIn(x) # b =>
                         /\ Cardinality(Routing(b)') <= Cardinality(Routing(b))
                         /\ \A r \in Routing(b) \ runs' :
                              Cardinality(Routing(b)') <= Cardinality(Routing(b)) - 1
  BY <1>2
<1>3. /\ Routing(b) \subseteq runs /\ Routing(b)' \subseteq runs'
      /\ Routing(b)' \subseteq Routing(b) \cup {x}
      /\ x.pc # "route" \/ BatchIn(x) # b => Routing(b)' \subseteq Routing(b)
  BY DEF Routing, BatchIn
<1>4. /\ IsFiniteSet(Routing(b)) /\ IsFiniteSet(Routing(b)')
      /\ Cardinality(Routing(b)) \in Nat /\ Cardinality(Routing(b)') \in Nat
  BY <1>2, <1>3, FS_Subset, FS_CardinalityType
<1>5. Cardinality(Routing(b)') <= Cardinality(Routing(b)) + 1
  <2>1. /\ IsFiniteSet(Routing(b) \cup {x})
        /\ Cardinality(Routing(b) \cup {x}) \in {Cardinality(Routing(b)), Cardinality(Routing(b)) + 1}
    BY <1>4, FS_AddElement
  <2>2. Cardinality(Routing(b)') <= Cardinality(Routing(b) \cup {x}) BY <1>3, <2>1, FS_Subset
  <2> QED BY <1>4, <2>1, <2>2
<1>6. ASSUME x.pc # "route" \/ BatchIn(x) # b
      PROVE  Cardinality(Routing(b)') <= Cardinality(Routing(b))
  BY <1>3, <1>4, <1>6, FS_Subset
<1>7. ASSUME x.pc # "route" \/ BatchIn(x) # b, NEW r \in Routing(b) \ runs'
      PROVE  Cardinality(Routing(b)') <= Cardinality(Routing(b)) - 1
  <2>1. Routing(b)' \subseteq Routing(b) \ {r} BY <1>3, <1>7
  <2>2. IsFiniteSet(Routing(b) \ {r}) /\ Cardinality(Routing(b) \ {r}) = Cardinality(Routing(b)) - 1
    BY <1>4, <1>7, FS_RemoveElement
  <2> QED BY <2>1, <2>2, FS_Subset
<1> QED BY <1>4, <1>5, <1>6, <1>7

(* A step that touches neither runs nor their outcomes. *)
LEMMA OutsideExec ==
  ASSUME ExecInv, UNCHANGED <<runs, rowVars, historyVars>>,
         \A b \in Batches : api'[b] \in {"new", "queued"} => api[b] \in {"new", "queued"}
  PROVE  ExecInv'
<1>1. UNCHANGED <<runs, row, failOpens, routed, notified>> BY DEF rowVars, historyVars
<1>2. KnowsOutcome' /\ ApiInv' BY <1>1 DEF ExecInv, KnowsOutcome, ApiInv
<1>3. ASSUME NEW b \in Batches PROVE CountInv(b)' /\ (failOpens'[b] = 0 => SingleInv(b)')
  <2>1. Routing(b)' = Routing(b) /\ Engaged(b)' = Engaged(b) /\ Claims(b)' = Claims(b)
    BY <1>1 DEF Routing, Engaged, Claims
  <2> QED BY <1>1, <2>1 DEF ExecInv, CountInv, SingleInv
<1> QED BY <1>1, <1>2, <1>3 DEF ExecInv

(* A submission executes nothing. *)
LEMMA SubmissionExec == ASSUME TypeOK, ExecInv, Submission PROVE ExecInv'
<1>1. PICK b \in Batches : Enqueue(b) \/ CreateRow(b) \/ CreateRowFails(b) BY DEF Submission
<1>2. CASE Enqueue(b) \/ CreateRowFails(b)
  <2>1. \A c \in Batches : api'[c] \in {"new", "queued"} => api[c] \in {"new", "queued"}
    BY <1>2 DEF Enqueue, CreateRowFails, TypeOK
  <2> QED BY <1>2, <2>1, OutsideExec DEF Enqueue, CreateRowFails
<1>3. CASE CreateRow(b)
  <2>1. /\ api[b] = "queued" /\ api' = [api EXCEPT ![b] = "accepted"]
        /\ row' = [row EXCEPT ![b] = "pending"] /\ row[b] = "absent"
        /\ UNCHANGED <<runs, failOpens, routed, notified>>
    BY <1>3 DEF CreateRow, historyVars, ExecInv, ApiInv
  <2>2. KnowsOutcome' /\ ApiInv' BY <2>1 DEF ExecInv, KnowsOutcome, ApiInv, TypeOK
  <2>3. ASSUME NEW c \in Batches PROVE CountInv(c)' /\ (failOpens'[c] = 0 => SingleInv(c)')
    <3>1. Routing(c)' = Routing(c) /\ Engaged(c)' = Engaged(c) BY <2>1 DEF Routing, Engaged
    <3>2. Claims(c)' = Claims(c) BY <2>1 DEF Claims, TypeOK
    <3>3. row'[c] = row[c] \/ (row[c] = "absent" /\ row'[c] = "pending") BY <2>1 DEF TypeOK
    <3>4. "pending" \notin Outcomes BY DEF Outcomes
    <3> QED BY <2>1, <3>1, <3>2, <3>3, <3>4 DEF ExecInv, CountInv, SingleInv
  <2> QED BY <2>1, <2>2, <2>3 DEF ExecInv
<1> QED BY <1>1, <1>2, <1>3

(* A drain loop executes nothing. *)
LEMMA DrainExec ==
  ASSUME TypeOK, ExecInv, NEW d \in Drainers, Drain(d) \/ DrainFault(d)
  PROVE  ExecInv'
<1>1. UNCHANGED <<runs, api, rowVars, historyVars>>
  BY DEF Drain, PopBatch, PopBackground, LookUp, HandOff, Requeue,
         DrainFault, PopBackgroundFails, DrainCrash, LookUpFails, HandOffFails, RequeueFails
<1> QED BY <1>1, OutsideExec

(* A run leaves, or one that has not claimed the row appears. *)
LEMMA PlainExec ==
  ASSUME TypeOK, ExecInv, UNCHANGED <<api, rowVars, historyVars>>,
         \/ runs' \subseteq runs
         \/ \E x : x.pc = "mark" /\ runs' = runs \cup {x}
  PROVE  ExecInv'
<1>1. UNCHANGED <<row, failOpens, routed, notified, api>> BY DEF rowVars, historyVars
<1>2. PICK x : x.pc = "mark" /\ runs' \subseteq runs \cup {x}
  <2>1. CASE runs' \subseteq runs
    <3>1. [pc |-> "mark"].pc = "mark" OBVIOUS
    <3> QED BY <2>1, <3>1
  <2> QED BY <2>1
<1>3. KnowsOutcome' /\ ApiInv' BY <1>1, <1>2 DEF ExecInv, KnowsOutcome, ApiInv
<1>4. IsFiniteSet(runs') /\ \A b : Cardinality(Routing(b)') <= Cardinality(Routing(b))
                                   /\ Cardinality(Routing(b)) \in Nat /\ Cardinality(Routing(b)') \in Nat
  BY <1>2, RoutingStep DEF ExecInv
<1>5. ASSUME NEW b \in Batches PROVE CountInv(b)' /\ (failOpens'[b] = 0 => SingleInv(b)')
  <2>1. Engaged(b)' \subseteq Engaged(b) BY <1>2 DEF Engaged, BatchIn
  <2>2. Claims(b)' = Claims(b) /\ Claims(b) \in Nat BY <1>1 DEF Claims
  <2>3. CountInv(b)' BY <1>1, <1>4, <2>2 DEF ExecInv, CountInv, TypeOK
  <2> QED BY <1>1, <2>1, <2>3 DEF ExecInv, SingleInv
<1> QED BY <1>3, <1>4, <1>5 DEF ExecInv

(* A claim gives the job a run that has done nothing yet. *)
LEMMA SchedulerExec ==
  ASSUME TypeOK, ExecInv, NEW j \in Jobs, Take(j) \/ SettleJob(j)
  PROVE  ExecInv'
<1>1. CASE Take(j)
  <2>1. NewRun(j).pc = "mark" BY DEF NewRun
  <2> QED BY <1>1, <2>1, PlainExec DEF Take
<1>2. CASE SettleJob(j) BY <1>2, PlainExec DEF SettleJob
<1> QED BY <1>1, <1>2

(* A run goes on: what it becomes and what the other runs are. *)
LEMMA Going ==
  ASSUME TypeOK, ExecInv, NEW r \in runs, NEW pc \in {"mark", "route", "persist", "notify"},
         NEW o \in Outcomes \cup {"none"}, GoOn(r, pc, o),
         pc \in {"persist", "notify"} => o \in Outcomes
  PROVE  /\ runs' = (runs \ {r}) \cup {Advanced(r, pc, o)} /\ KnowsOutcome' /\ IsFiniteSet(runs')
         /\ Advanced(r, pc, o).pc = pc /\ Advanced(r, pc, o).outcome = o
         /\ BatchIn(Advanced(r, pc, o)) = BatchIn(r) /\ BatchIn(r) \in Batches
         /\ \A b \in Batches \ {BatchIn(r)} : Engaged(b)' = Engaged(b) /\ Routing(b)' = Routing(b)
         /\ \A b \in Batches : /\ Cardinality(Routing(b)) \in Nat /\ Cardinality(Routing(b)') \in Nat
                               /\ routed[b] \in Nat /\ failOpens[b] \in Nat
<1> DEFINE x == Advanced(r, pc, o)
<1>1. runs' = (runs \ {r}) \cup {x} /\ x.pc = pc /\ x.outcome = o
  BY DEF GoOn, Advanced
<1>2. BatchIn(x) = BatchIn(r) /\ BatchIn(r) \in Batches BY RunType
<1> HIDE DEF x
<1>3. KnowsOutcome' BY <1>1 DEF ExecInv, KnowsOutcome
<1>4. /\ IsFiniteSet(runs')
      /\ \A b \in Batches : Cardinality(Routing(b)) \in Nat /\ Cardinality(Routing(b)') \in Nat
  BY <1>1, RoutingStep DEF ExecInv
<1>5. \A b \in Batches \ {BatchIn(r)} : Engaged(b)' = Engaged(b) /\ Routing(b)' = Routing(b)
  BY <1>1, <1>2 DEF Engaged, Routing
<1>6. \A b \in Batches : routed[b] \in Nat /\ failOpens[b] \in Nat BY DEF TypeOK
<1> QED BY <1>1, <1>2, <1>3, <1>4, <1>5, <1>6 DEF x

(* The other batches see nothing of it. *)
LEMMA OtherBatches ==
  ASSUME ExecInv, NEW b \in Batches, Engaged(b)' = Engaged(b), Routing(b)' = Routing(b),
         row'[b] = row[b], failOpens'[b] = failOpens[b], routed'[b] = routed[b],
         notified'[b] = notified[b]
  PROVE  CountInv(b)' /\ (failOpens'[b] = 0 => SingleInv(b)')
BY DEF ExecInv, CountInv, SingleInv, Claims

(* The claim: with a pending row there is nobody past it. *)
LEMMA MarkExec == ASSUME TypeOK, ExecInv, NEW r \in runs, MarkProcessing(r) PROVE ExecInv'
<1> DEFINE b == BatchIn(r)
           x == Advanced(r, "route", "none")
<1>1. GoOn(r, "route", "none") /\ row[b] = "pending" /\ row' = [row EXCEPT ![b] = "processing"]
      /\ UNCHANGED <<api, failOpens, routed, notified>>
  BY DEF MarkProcessing, historyVars
<1>2. /\ runs' = (runs \ {r}) \cup {x} /\ KnowsOutcome' /\ IsFiniteSet(runs')
      /\ x.pc = "route" /\ BatchIn(x) = b /\ b \in Batches
      /\ \A c \in Batches \ {b} : Engaged(c)' = Engaged(c) /\ Routing(c)' = Routing(c)
      /\ \A c \in Batches : /\ Cardinality(Routing(c)) \in Nat /\ Cardinality(Routing(c)') \in Nat
                            /\ routed[c] \in Nat /\ failOpens[c] \in Nat
  BY <1>1, Going
<1> HIDE DEF x, b
<1>3. row'[b] = "processing" /\ \A c \in Batches \ {b} : row'[c] = row[c] BY <1>1, <1>2 DEF TypeOK
<1>4. ApiInv' BY <1>1, <1>3 DEF ExecInv, ApiInv
<1>5. CountInv(b)'
  <2>1. Cardinality(Routing(b)') <= Cardinality(Routing(b)) + 1
    BY <1>2, RoutingStep DEF ExecInv
  <2>2. Claims(b) = 0 /\ Claims(b)' = 1 BY <1>1, <1>3 DEF Claims
  <2> QED BY <1>1, <1>2, <2>1, <2>2 DEF ExecInv, CountInv
<1>6. failOpens'[b] = 0 => SingleInv(b)'
  <2> SUFFICES ASSUME failOpens[b] = 0 PROVE SingleInv(b)' BY <1>1
  <2>1. Engaged(b) = {} /\ notified[b] = {} BY <1>1, <1>2 DEF ExecInv, SingleInv
  <2>2. Engaged(b)' \subseteq {x} BY <1>2, <2>1 DEF Engaged
  <2>3. "processing" \notin Outcomes BY DEF Outcomes
  <2> QED BY <1>1, <1>3, <2>1, <2>2, <2>3 DEF SingleInv
<1>7. \A c \in Batches \ {b} : CountInv(c)' /\ (failOpens'[c] = 0 => SingleInv(c)')
  BY <1>1, <1>2, <1>3, OtherBatches
<1> QED BY <1>2, <1>4, <1>5, <1>6, <1>7 DEF ExecInv

(* A markProcessing that throws counts as one that failed open. *)
LEMMA MarkFailsExec == ASSUME TypeOK, ExecInv, NEW r \in runs, MarkProcessingFails(r) PROVE ExecInv'
<1> DEFINE b == BatchIn(r)
           x == Advanced(r, "route", "none")
<1>1. /\ GoOn(r, "route", "none") /\ UNCHANGED <<api, routed, notified>>
      /\ row' = row \/ (row[b] = "pending" /\ row' = [row EXCEPT ![b] = "processing"])
      /\ failOpens' = [failOpens EXCEPT ![b] = @ + 1]
  BY DEF MarkProcessingFails, historyVars
<1>2. /\ runs' = (runs \ {r}) \cup {x} /\ KnowsOutcome' /\ IsFiniteSet(runs')
      /\ x.pc = "route" /\ BatchIn(x) = b /\ b \in Batches
      /\ \A c \in Batches \ {b} : Engaged(c)' = Engaged(c) /\ Routing(c)' = Routing(c)
      /\ \A c \in Batches : /\ Cardinality(Routing(c)) \in Nat /\ Cardinality(Routing(c)') \in Nat
                            /\ routed[c] \in Nat /\ failOpens[c] \in Nat
  BY <1>1, Going
<1> HIDE DEF x, b
<1>3. /\ row'[b] = row[b] \/ (row[b] = "pending" /\ row'[b] = "processing")
      /\ failOpens'[b] = failOpens[b] + 1
      /\ \A c \in Batches \ {b} : row'[c] = row[c] /\ failOpens'[c] = failOpens[c]
  BY <1>1, <1>2 DEF TypeOK
<1>4. ApiInv' BY <1>1, <1>3 DEF ExecInv, ApiInv
<1>5. CountInv(b)'
  <2>1. Cardinality(Routing(b)') <= Cardinality(Routing(b)) + 1
    BY <1>2, RoutingStep DEF ExecInv
  <2>2. Claims(b) <= Claims(b)' /\ Claims(b) \in Nat /\ Claims(b)' \in Nat BY <1>3 DEF Claims
  <2> QED BY <1>1, <1>2, <1>3, <2>1, <2>2 DEF ExecInv, CountInv
<1>6. failOpens'[b] # 0 BY <1>2, <1>3
<1>7. \A c \in Batches \ {b} : CountInv(c)' /\ (failOpens'[c] = 0 => SingleInv(c)')
  BY <1>1, <1>2, <1>3, OtherBatches
<1> QED BY <1>2, <1>4, <1>5, <1>6, <1>7 DEF ExecInv

(* A run routes its batch only after it marked it, or failed open. *)
LEMMA RouteExec == ASSUME TypeOK, ExecInv, NEW r \in runs, Route(r) PROVE ExecInv'
<1>0. PICK o \in Outcomes : GoOn(r, "persist", o) BY DEF Route
<1> DEFINE b == BatchIn(r)
           x == Advanced(r, "persist", o)
<1>1. /\ r.pc = "route" /\ UNCHANGED <<api, row, failOpens, notified>>
      /\ routed' = [routed EXCEPT ![b] = @ + 1]
  BY DEF Route, rowVars
<1>2. /\ runs' = (runs \ {r}) \cup {x} /\ KnowsOutcome' /\ IsFiniteSet(runs')
      /\ x.pc = "persist" /\ BatchIn(x) = b /\ b \in Batches
      /\ \A c \in Batches \ {b} : Engaged(c)' = Engaged(c) /\ Routing(c)' = Routing(c)
      /\ \A c \in Batches : /\ Cardinality(Routing(c)) \in Nat /\ Cardinality(Routing(c)') \in Nat
                            /\ routed[c] \in Nat /\ failOpens[c] \in Nat
  BY <1>0, Going
<1>b. r \in Routing(b) /\ r \in Engaged(b) BY <1>1 DEF Routing, Engaged
<1> HIDE DEF x, b
<1>3. routed'[b] = routed[b] + 1 /\ \A c \in Batches \ {b} : routed'[c] = routed[c]
  BY <1>1, <1>2 DEF TypeOK
<1>4. ApiInv' BY <1>1 DEF ExecInv, ApiInv
<1>5. CountInv(b)'
  <2>1. r \notin runs' BY <1>1, <1>2
  <2>2. Cardinality(Routing(b)') <= Cardinality(Routing(b)) - 1
    BY <1>b, <1>2, <2>1, RoutingStep DEF ExecInv
  <2>3. Claims(b)' = Claims(b) /\ Claims(b) \in Nat BY <1>1 DEF Claims
  <2> QED BY <1>1, <1>2, <1>3, <2>2, <2>3 DEF ExecInv, CountInv
<1>6. failOpens'[b] = 0 => SingleInv(b)'
  <2> SUFFICES ASSUME failOpens[b] = 0 PROVE SingleInv(b)' BY <1>1
  <2>1. SingleInv(b) BY <1>2 DEF ExecInv
  <2>2. Engaged(b) = {r} /\ notified[b] = {} BY <1>b, <2>1 DEF SingleInv
  <2>3. Engaged(b)' \subseteq {x} BY <1>2, <2>2 DEF Engaged
  <2>4. row[b] \notin {"absent", "pending"} \cup Outcomes BY <1>b, <1>1, <2>1 DEF SingleInv
  <2> QED BY <1>1, <2>2, <2>3, <2>4 DEF SingleInv
<1>7. \A c \in Batches \ {b} : CountInv(c)' /\ (failOpens'[c] = 0 => SingleInv(c)')
  BY <1>1, <1>2, <1>3, OtherBatches
<1> QED BY <1>2, <1>4, <1>5, <1>6, <1>7 DEF ExecInv

(* The outcome is recorded, or not; the run goes on to the webhook.         *)
LEMMA PersistExec ==
  ASSUME TypeOK, ExecInv, NEW r \in runs, Persist(r) \/ PersistNoRow(r) \/ PersistFails(r)
  PROVE  ExecInv'
<1> DEFINE b == BatchIn(r)
           x == Advanced(r, "notify", r.outcome)
<1>1. /\ r.pc = "persist" /\ GoOn(r, "notify", r.outcome)
      /\ UNCHANGED <<api, failOpens, routed, notified>>
      /\ row' = row \/ (row[b] # "absent" /\ row' = [row EXCEPT ![b] = r.outcome])
  BY DEF Persist, PersistNoRow, PersistFails, rowVars, historyVars
<1>a. r.outcome \in Outcomes BY <1>1 DEF ExecInv, KnowsOutcome
<1>2. /\ runs' = (runs \ {r}) \cup {x} /\ KnowsOutcome' /\ IsFiniteSet(runs')
      /\ x.pc = "notify" /\ x.outcome = r.outcome /\ BatchIn(x) = b /\ b \in Batches
      /\ \A c \in Batches \ {b} : Engaged(c)' = Engaged(c) /\ Routing(c)' = Routing(c)
      /\ \A c \in Batches : /\ Cardinality(Routing(c)) \in Nat /\ Cardinality(Routing(c)') \in Nat
                            /\ routed[c] \in Nat /\ failOpens[c] \in Nat
  BY <1>1, <1>a, Going
<1>b. r \in Engaged(b) BY <1>1 DEF Engaged
<1> HIDE DEF x, b
<1>3. /\ row'[b] = row[b] \/ (row[b] # "absent" /\ row'[b] = r.outcome)
      /\ \A c \in Batches \ {b} : row'[c] = row[c]
  BY <1>1, <1>2 DEF TypeOK
<1>4. ApiInv' BY <1>1, <1>3 DEF ExecInv, ApiInv
<1>5. CountInv(b)'
  <2>1. Cardinality(Routing(b)') <= Cardinality(Routing(b)) BY <1>2, RoutingStep DEF ExecInv
  <2>2. Claims(b) <= Claims(b)' /\ Claims(b) \in Nat /\ Claims(b)' \in Nat
    BY <1>3, <1>a DEF Claims, Outcomes
  <2> QED BY <1>1, <1>2, <2>1, <2>2 DEF ExecInv, CountInv
<1>6. failOpens'[b] = 0 => SingleInv(b)'
  <2> SUFFICES ASSUME failOpens[b] = 0 PROVE SingleInv(b)' BY <1>1
  <2>1. SingleInv(b) BY <1>2 DEF ExecInv
  <2>2. Engaged(b) = {r} /\ notified[b] = {} BY <1>b, <2>1 DEF SingleInv
  <2>3. Engaged(b)' \subseteq {x} BY <1>2, <2>2 DEF Engaged
  <2>4. row[b] \notin {"absent", "pending"} \cup Outcomes BY <1>b, <1>1, <2>1 DEF SingleInv
  <2>5. "absent" \notin Outcomes /\ "pending" \notin Outcomes BY DEF Outcomes
  <2>6. row'[b] \notin {"absent", "pending"} /\ (row'[b] \in Outcomes => row'[b] = r.outcome)
    BY <1>3, <1>a, <2>4, <2>5
  <2> QED BY <1>1, <1>2, <2>2, <2>3, <2>6 DEF SingleInv
<1>7. \A c \in Batches \ {b} : CountInv(c)' /\ (failOpens'[c] = 0 => SingleInv(c)')
  BY <1>1, <1>2, <1>3, OtherBatches
<1> QED BY <1>2, <1>4, <1>5, <1>6, <1>7 DEF ExecInv

(* A webhook tells the outcome its run persisted. *)
LEMMA NotifyExec == ASSUME TypeOK, ExecInv, NEW r \in runs, Notify(r) PROVE ExecInv'
<1> DEFINE b == BatchIn(r)
<1>1. /\ r.pc = "notify" /\ runs' = runs \ {r} /\ UNCHANGED <<api, row, failOpens, routed>>
      /\ notified' = notified \/ notified' = [notified EXCEPT ![b] = @ \cup {r.outcome}]
  BY ReturnTypes DEF Notify, rowVars
<1>2. b \in Batches BY RunType
<1>b. r \in Engaged(b) BY <1>1 DEF Engaged
<1> HIDE DEF b
<1>3. /\ notified'[b] \subseteq notified[b] \cup {r.outcome}
      /\ \A c \in Batches \ {b} : notified'[c] = notified[c]
  BY <1>1, <1>2 DEF TypeOK
<1>4. KnowsOutcome' /\ ApiInv' BY <1>1 DEF ExecInv, KnowsOutcome, ApiInv
<1>5. IsFiniteSet(runs') /\ \A c \in Batches :
        /\ Cardinality(Routing(c)') <= Cardinality(Routing(c))
        /\ Cardinality(Routing(c)) \in Nat /\ Cardinality(Routing(c)') \in Nat
  BY <1>1, RoutingStep DEF ExecInv
<1>6. ASSUME NEW c \in Batches PROVE CountInv(c)'
  <2>1. Claims(c)' = Claims(c) /\ Claims(c) \in Nat BY <1>1 DEF Claims
  <2> QED BY <1>1, <1>5, <2>1 DEF ExecInv, CountInv, TypeOK
<1>7. ASSUME NEW c \in Batches, failOpens'[c] = 0 PROVE SingleInv(c)'
  <2>1. SingleInv(c) /\ Engaged(c)' = Engaged(c) \ {r} BY <1>1, <1>7 DEF ExecInv, Engaged
  <2>2. CASE c # b BY <1>1, <1>3, <2>1, <2>2 DEF SingleInv
  <2>3. CASE c = b
    <3>1. Engaged(b)' = {} /\ notified'[b] \subseteq {r.outcome} /\ row[b] \notin {"absent", "pending"}
      BY <1>b, <1>3, <2>1, <2>3 DEF SingleInv
    <3>2. row[b] \in Outcomes => r.outcome = row[b] BY <1>b, <2>1, <2>3 DEF SingleInv
    <3> QED BY <1>1, <2>3, <3>1, <3>2 DEF SingleInv
  <2> QED BY <2>2, <2>3
<1> QED BY <1>4, <1>5, <1>6, <1>7 DEF ExecInv

(* Every step and every fault of a run keeps the account of executions. *)
LEMMA RunExec == ASSUME TypeOK, ExecInv, NEW r \in runs, Handle(r) \/ HandleFault(r) PROVE ExecInv'
<1>1. CASE SkipDuplicate(r) \/ NotifyFails(r) \/ RunCrash(r)
  <2>1. runs' \subseteq runs /\ UNCHANGED <<api, rowVars, historyVars>>
    BY <1>1, ReturnTypes DEF SkipDuplicate, NotifyFails, RunCrash
  <2> QED BY <2>1, PlainExec
<1> QED BY <1>1, MarkExec, MarkFailsExec, RouteExec, PersistExec, NotifyExec DEF Handle, HandleFault

(* Nothing was executed to begin with. *)
LEMMA InitExec == Init => ExecInv
<1> SUFFICES ASSUME Init PROVE ExecInv OBVIOUS
<1>1. IsFiniteSet(runs) BY FS_EmptySet DEF Init
<1>2. KnowsOutcome /\ ApiInv BY DEF Init, KnowsOutcome, ApiInv
<1>3. ASSUME NEW b \in Batches PROVE CountInv(b) /\ SingleInv(b)
  <2>1. Routing(b) = {} /\ Engaged(b) = {} BY DEF Init, Routing, Engaged
  <2>2. Cardinality(Routing(b)) = 0 BY <2>1, FS_EmptySet
  <2>3. routed[b] = 0 /\ failOpens[b] = 0 /\ notified[b] = {} /\ row[b] = "absent" BY DEF Init
  <2>4. "absent" \notin Outcomes BY DEF Outcomes
  <2> QED BY <2>1, <2>2, <2>3, <2>4 DEF CountInv, SingleInv, Claims
<1> QED BY <1>1, <1>2, <1>3 DEF ExecInv

-----------------------------------------------------------------------------
(* Where a queued batch is. *)

InSomeHand(b) == \E d \in Drainers : b \in InHandOf(d)
Somewhere(b) == b \in queue \/ JobsOf(b) # {} \/ InSomeHand(b)

DropInv ==
  /\ \A d \in Drainers : loop[d] = "idle" => inHand[d] = {}
  /\ NeverDropped

(* A batch is still somewhere if it does not leave the queue or a hand      *)
(* without getting a job row.                                               *)
LEMMA KeptSomewhere ==
  ASSUME NeverDropped, \A b \in Batches : api'[b] # "new" => api[b] # "new",
         harmed \subseteq harmed',
         \A j \in Jobs : status[j] # "ABSENT" => status'[j] # "ABSENT",
         \A b \in Batches : b \in queue \/ InSomeHand(b) => b \in harmed' \/ Somewhere(b)'
  PROVE  NeverDropped'
<1> SUFFICES ASSUME NEW b \in Batches, api'[b] # "new", b \notin harmed'
             PROVE  Somewhere(b)'
  BY DEF NeverDropped, Somewhere, InSomeHand
<1>1. Somewhere(b) BY DEF NeverDropped, Somewhere, InSomeHand
<1>2. JobsOf(b) \subseteq JobsOf(b)' BY DEF JobsOf
<1> QED BY <1>1, <1>2 DEF Somewhere

(* Hands other than d's hold what they held. *)
LEMMA OtherHands ==
  ASSUME TypeOK, NEW d \in Drainers, NEW H, inHand' = [inHand EXCEPT ![d] = H]
  PROVE  /\ InHandOf(d)' = {t.batch : t \in H} /\ inHand'[d] = H
         /\ \A e \in Drainers \ {d} : InHandOf(e)' = InHandOf(e) /\ inHand'[e] = inHand[e]
BY DEF TypeOK, InHandOf

(* What is popped is in the loop's hand. *)
LEMMA PopDrop ==
  ASSUME TypeOK, DropInv, NEW d \in Drainers, PopBatch(d) \/ PopBackground(d)
  PROVE  DropInv'
<1>1. PICK S \in SUBSET queue :
        /\ queue' = queue \ S /\ inHand' = [inHand EXCEPT ![d] = inHand[d] \cup Popped(S)]
        /\ loop' = [loop EXCEPT ![d] = loop'[d]]
        /\ loop'[d] = "idle" => inHand[d] \cup Popped(S) = {}
  <2>1. CASE PopBatch(d)
    <3>1. inHand[d] = {} BY <2>1 DEF PopBatch, DropInv
    <3>2. PICK S \in SUBSET queue :
            /\ queue' = queue \ S /\ inHand' = [inHand EXCEPT ![d] = Popped(S)]
            /\ loop' = [loop EXCEPT ![d] = IF Cardinality(S) = DrainSize THEN "handing" ELSE "popping"]
      BY <2>1 DEF PopBatch, PopMin
    <3>3. Popped(S) = inHand[d] \cup Popped(S) BY <3>1
    <3>4. loop'[d] # "idle" /\ loop' = [loop EXCEPT ![d] = loop'[d]] BY <3>2 DEF TypeOK
    <3> QED BY <3>2, <3>3, <3>4
  <2>2. CASE PopBackground(d)
    <3>1. PICK S \in SUBSET queue :
            /\ queue' = queue \ S /\ inHand' = [inHand EXCEPT ![d] = inHand[d] \cup Popped(S)]
            /\ loop' = [loop EXCEPT ![d] = IF inHand[d] \cup Popped(S) = {} THEN "idle" ELSE "handing"]
      BY <2>2 DEF PopBackground, PopMin
    <3>2. /\ loop'[d] = "idle" => inHand[d] \cup Popped(S) = {}
          /\ loop' = [loop EXCEPT ![d] = loop'[d]]
      BY <3>1 DEF TypeOK
    <3> QED BY <3>1, <3>2
  <2> QED BY <2>1, <2>2
<1>2. UNCHANGED <<jobVars, api, harmed>> BY DEF PopBatch, PopBackground
<1>3. /\ InHandOf(d)' = {t.batch : t \in inHand[d] \cup Popped(S)}
      /\ inHand'[d] = inHand[d] \cup Popped(S)
      /\ \A e \in Drainers \ {d} : InHandOf(e)' = InHandOf(e) /\ inHand'[e] = inHand[e]
  BY <1>1, OtherHands
<1>4. ASSUME NEW b \in S PROVE b \in InHandOf(d)'
  <2>1. [batch |-> b, stage |-> "popped", hook |-> FALSE] \in Popped(S) BY DEF Popped
  <2> QED BY <1>3, <2>1
<1>5. InHandOf(d) \subseteq InHandOf(d)' BY <1>3 DEF InHandOf
<1>6. ASSUME NEW b \in Batches, b \in queue \/ InSomeHand(b) PROVE Somewhere(b)'
  BY <1>1, <1>3, <1>4, <1>5, <1>6 DEF Somewhere, InSomeHand
<1>7. NeverDropped' BY <1>2, <1>6, KeptSomewhere DEF DropInv, jobVars
<1>8. \A e \in Drainers : loop'[e] = "idle" => inHand'[e] = {}
  BY <1>1, <1>3 DEF DropInv, TypeOK
<1> QED BY <1>7, <1>8 DEF DropInv

(* A ticket is looked up, or waits for its requeue: it stays in hand. *)
LEMMA StagedDrop ==
  ASSUME TypeOK, DropInv, NEW d \in Drainers, NEW t \in inHand[d], NEW stage, NEW hook,
         SetTicket(d, t, stage, hook), UNCHANGED <<api, queue>>, harmed \subseteq harmed',
         \A j \in Jobs : status[j] # "ABSENT" => status'[j] # "ABSENT"
  PROVE  DropInv'
<1> DEFINE H == (inHand[d] \ {t}) \cup {Staged(t, stage, hook)}
<1>1. inHand' = [inHand EXCEPT ![d] = H] /\ loop' = loop BY DEF SetTicket
<1>2. Staged(t, stage, hook).batch = t.batch BY DEF Staged
<1>3. /\ InHandOf(d)' = {u.batch : u \in H} /\ inHand'[d] = H
      /\ \A e \in Drainers \ {d} : InHandOf(e)' = InHandOf(e) /\ inHand'[e] = inHand[e]
  BY <1>1, OtherHands
<1>4. InHandOf(d) \subseteq InHandOf(d)'
  <2> SUFFICES ASSUME NEW u \in inHand[d] PROVE u.batch \in InHandOf(d)' BY DEF InHandOf
  <2>1. CASE u = t BY <1>2, <1>3, <2>1
  <2>2. CASE u # t BY <1>3, <2>2
  <2> QED BY <2>1, <2>2
<1>5. ASSUME NEW b \in Batches, b \in queue \/ InSomeHand(b) PROVE Somewhere(b)'
  BY <1>3, <1>4, <1>5 DEF Somewhere, InSomeHand
<1>6. NeverDropped' BY <1>5, KeptSomewhere DEF DropInv
<1>7. \A e \in Drainers : loop'[e] = "idle" => inHand'[e] = {} BY <1>1, <1>3 DEF DropInv
<1> QED BY <1>6, <1>7 DEF DropInv

(* A ticket leaves the hand for the jobs table, the queue or for good. *)
LEMMA DroppedDrop ==
  ASSUME TypeOK, DropInv, NEW d \in Drainers, NEW t \in inHand[d], DropTicket(d, t),
         UNCHANGED api, queue \subseteq queue', harmed \subseteq harmed',
         \A j \in Jobs : status[j] # "ABSENT" => status'[j] # "ABSENT",
         t.batch \in harmed' \/ t.batch \in queue' \/ JobsOf(t.batch)' # {}
  PROVE  DropInv'
<1> DEFINE H == inHand[d] \ {t}
<1>1. inHand' = [inHand EXCEPT ![d] = H]
      /\ loop' = [loop EXCEPT ![d] = IF inHand[d] = {t} THEN "idle" ELSE "handing"]
  BY DEF DropTicket
<1>2. /\ InHandOf(d)' = {u.batch : u \in H} /\ inHand'[d] = H
      /\ \A e \in Drainers \ {d} : InHandOf(e)' = InHandOf(e) /\ inHand'[e] = inHand[e]
  BY <1>1, OtherHands
<1>3. ASSUME NEW b \in InHandOf(d), b # t.batch PROVE b \in InHandOf(d)'
  <2>1. PICK u \in inHand[d] : b = u.batch BY DEF InHandOf
  <2>2. u \in H BY <1>3, <2>1
  <2> QED BY <1>2, <2>1, <2>2
<1>4. ASSUME NEW b \in Batches, b \in queue \/ InSomeHand(b)
      PROVE  b \in harmed' \/ Somewhere(b)'
  <2>1. CASE b = t.batch BY <2>1 DEF Somewhere
  <2>2. CASE b # t.batch BY <1>2, <1>3, <1>4, <2>2 DEF Somewhere, InSomeHand
  <2> QED BY <2>1, <2>2
<1>5. NeverDropped' BY <1>4, KeptSomewhere DEF DropInv
<1>6. \A e \in Drainers : loop'[e] = "idle" => inHand'[e] = {} BY <1>1, <1>2 DEF DropInv, TypeOK
<1> QED BY <1>5, <1>6 DEF DropInv

(* Rows of the jobs table stay through every hand-off. *)
LEMMA InsertKeeps ==
  ASSUME TypeOK, NEW t \in Ticket, Insert(t) 
  PROVE  /\ \A j \in Jobs : status[j] # "ABSENT" => status'[j] # "ABSENT"
         /\ JobsOf(t.batch)' # {}
<1>1. PICK j \in Jobs : BatchOf(j) = t.batch /\ Table!Submit(j) BY Inserted
<1>2. status'[j] = "PENDING" BY <1>1 DEF Table!Submit, Table!SetStatus
<1>3. j \in JobsOf(t.batch)' BY <1>1, <1>2 DEF JobsOf
<1> QED BY <1>1, <1>3, TypeParts, TableStep

(* A drain loop loses nothing but by a fault that is counted. *)
LEMMA DrainDrop ==
  ASSUME TypeOK, DropInv, NEW d \in Drainers, Drain(d) \/ DrainFault(d)
  PROVE  DropInv'
<1>1. ASSUME NEW t \in inHand[d], LookUp(d, t) \/ LookUpFails(d, t) PROVE DropInv'
  <2>1. PICK hook : SetTicket(d, t, "looked", hook) BY <1>1 DEF LookUp, LookUpFails
  <2>2. UNCHANGED <<api, queue, status>> /\ harmed \subseteq harmed'
    BY <1>1 DEF LookUp, LookUpFails, Harm, jobVars
  <2> QED BY <2>1, <2>2, StagedDrop
<1>2. ASSUME NEW t \in inHand[d], HandOff(d, t) PROVE DropInv'
  <2>1. t \in Ticket BY TicketType
  <2> QED BY <1>2, <2>1, InsertKeeps, DroppedDrop DEF HandOff
<1>3. ASSUME NEW t \in inHand[d], HandOffFails(d, t) PROVE DropInv'
  <2>1. t \in Ticket BY TicketType
  <2>2. \A j \in Jobs : status[j] # "ABSENT" => status'[j] # "ABSENT"
    BY <1>3, <2>1, InsertKeeps DEF HandOffFails, jobVars
  <2>3. SetTicket(d, t, "requeue", t.hook) /\ UNCHANGED <<api, queue, harmed>>
    BY <1>3 DEF HandOffFails
  <2> QED BY <2>2, <2>3, StagedDrop
<1>4. ASSUME NEW t \in inHand[d], Requeue(d, t) PROVE DropInv'
  <2>1. /\ DropTicket(d, t) /\ queue' = queue \cup {t.batch} /\ UNCHANGED <<api, status, harmed>>
    BY <1>4 DEF Requeue, jobVars
  <2> QED BY <2>1, DroppedDrop
<1>5. ASSUME NEW t \in inHand[d], RequeueFails(d, t) PROVE DropInv'
  <2>1. /\ DropTicket(d, t) /\ harmed' = harmed \cup {t.batch} /\ UNCHANGED <<api, status, queue>>
    BY <1>5 DEF RequeueFails, Harm, jobVars
  <2> QED BY <2>1, DroppedDrop
<1>6. CASE PopBackgroundFails(d) \/ DrainCrash(d)
  <2>1. /\ loop' = [loop EXCEPT ![d] = "idle"] /\ inHand' = [inHand EXCEPT ![d] = {}]
        /\ harmed' = harmed \cup InHandOf(d) /\ UNCHANGED <<status, api, queue>>
    BY <1>6 DEF PopBackgroundFails, DrainCrash, Harm, jobVars
  <2>2. \A e \in Drainers \ {d} : InHandOf(e)' = InHandOf(e) /\ inHand'[e] = inHand[e]
    BY <2>1, OtherHands
  <2>3. ASSUME NEW b \in Batches, b \in queue \/ InSomeHand(b)
        PROVE  b \in harmed' \/ Somewhere(b)'
    BY <2>1, <2>2, <2>3 DEF Somewhere, InSomeHand
  <2>4. NeverDropped' BY <2>1, <2>3, KeptSomewhere DEF DropInv
  <2>5. \A e \in Drainers : loop'[e] = "idle" => inHand'[e] = {} BY <2>1, <2>2 DEF DropInv, TypeOK
  <2> QED BY <2>4, <2>5 DEF DropInv
<1> QED BY <1>1, <1>2, <1>3, <1>4, <1>5, <1>6, PopDrop DEF Drain, DrainFault

(* Nothing else takes a batch out of the queue or a hand. *)
LEMMA OutsideDrop ==
  ASSUME TypeOK, DropInv, UNCHANGED loopVars, queue \subseteq queue', harmed \subseteq harmed',
         \A b \in Batches : api'[b] # "new" => api[b] # "new" \/ b \in queue',
         \A j \in Jobs : status[j] # "ABSENT" => status'[j] # "ABSENT"
  PROVE  DropInv'
<1>1. \A d \in Drainers : InHandOf(d)' = InHandOf(d) BY DEF loopVars, InHandOf
<1>2. NeverDropped'
  <2> SUFFICES ASSUME NEW b \in Batches, api'[b] # "new", b \notin harmed'
               PROVE  Somewhere(b)'
    BY DEF NeverDropped, Somewhere, InSomeHand
  <2>1. b \in queue' \/ Somewhere(b) BY DEF DropInv, NeverDropped, Somewhere, InSomeHand
  <2>2. JobsOf(b) \subseteq JobsOf(b)' BY DEF JobsOf
  <2> QED BY <1>1, <2>1, <2>2 DEF Somewhere, InSomeHand
<1> QED BY <1>2 DEF DropInv, loopVars

(* A submission queues the batch it counts as queued. *)
LEMMA SubmissionDrop == ASSUME TypeOK, DropInv, Submission PROVE DropInv'
<1>1. PICK b \in Batches : Enqueue(b) \/ CreateRow(b) \/ CreateRowFails(b) BY DEF Submission
<1>2. /\ UNCHANGED <<loopVars, status, harmed>> /\ queue \subseteq queue'
      /\ \A c \in Batches : api'[c] # "new" => api[c] # "new" \/ c \in queue'
  BY <1>1 DEF Enqueue, CreateRow, CreateRowFails, jobVars, TypeOK
<1> QED BY <1>2, OutsideDrop

(* The scheduler drops no job. *)
LEMMA SchedulerDrop ==
  ASSUME TypeOK, DropInv, NEW j \in Jobs, Take(j) \/ SettleJob(j)
  PROVE  DropInv'
<1>1. \A k \in Jobs : status[k] # "ABSENT" => status'[k] # "ABSENT"
  BY TypeParts, TableStep DEF Take, SettleJob
<1>2. UNCHANGED <<api, queue, loopVars, harmed>> BY DEF Take, SettleJob
<1> QED BY <1>1, <1>2, OutsideDrop

(* A run drops no job. *)
LEMMA RunDrop ==
  ASSUME TypeOK, DropInv, NEW r \in runs, Handle(r) \/ HandleFault(r)
  PROVE  DropInv'
<1>1. UNCHANGED status
  BY DEF Handle, HandleFault, MarkProcessing, SkipDuplicate, Route, Persist, PersistNoRow, Notify,
         MarkProcessingFails, PersistFails, NotifyFails, RunCrash, GoOn, Return, Table!Finish, jobVars
<1>2. UNCHANGED <<api, queue, loopVars>> /\ harmed \subseteq harmed'
  BY DEF Handle, HandleFault, MarkProcessing, SkipDuplicate, Route, Persist, PersistNoRow, Notify,
         MarkProcessingFails, PersistFails, NotifyFails, RunCrash, Harm
<1> QED BY <1>1, <1>2, OutsideDrop

-----------------------------------------------------------------------------
(* The inductive invariant, and what follows. *)

IInv == TypeOK /\ ExecInv /\ DropInv

(* The invariant holds in the initial states. *)
LEMMA InitInv == Init => IInv
<1> SUFFICES ASSUME Init PROVE IInv OBVIOUS
<1>1. DropInv BY DEF Init, DropInv, NeverDropped
<1> QED BY <1>1, InitTypes, InitExec DEF IInv

(* Every step keeps the invariant. *)
LEMMA NextInv == IInv /\ [Next]_vars => IInv'
<1> SUFFICES ASSUME IInv, [Next]_vars PROVE IInv' OBVIOUS
<1>1. CASE Submission BY <1>1, SubmissionTypes, SubmissionExec, SubmissionDrop DEF IInv
<1>2. ASSUME NEW d \in Drainers, Drain(d) \/ DrainFault(d) PROVE IInv'
  BY <1>2, DrainStepTypes, DrainFaultTypes, DrainExec, DrainDrop DEF IInv
<1>3. ASSUME NEW j \in Jobs, Take(j) \/ SettleJob(j) PROVE IInv'
  BY <1>3, SchedulerTypes, SchedulerExec, SchedulerDrop DEF IInv
<1>4. ASSUME NEW r \in runs, Handle(r) \/ HandleFault(r) PROVE IInv'
  BY <1>4, HandleTypes, HandleFaultTypes, RunExec, RunDrop DEF IInv, ExecInv
<1>5. CASE UNCHANGED vars
  <2>1. TypeOK' BY <1>5, TypeParts, TableStep
    DEF vars, IInv, RunTypes, DrainTypes, RestTypes, rowVars, loopVars, historyVars
  <2>2. ExecInv' BY <1>5, OutsideExec DEF vars, IInv
  <2>3. DropInv' BY <1>5, OutsideDrop DEF vars, IInv, jobVars
  <2> QED BY <2>1, <2>2, <2>3 DEF IInv
<1> QED BY <1>1, <1>2, <1>3, <1>4, <1>5 DEF Next

(* Every copy of a batch, every run of its job and its row stay accounted    *)
(* for, which is what the properties below follow from.                      *)
THEOREM Invariance == Spec => []IInv
BY InitInv, NextInv, PTL DEF Spec

(* Every variable keeps its type. *)
THEOREM TypeCorrect == Spec => []TypeOK
<1>1. IInv => TypeOK BY DEF IInv
<1> QED BY <1>1, Invariance, PTL

(* A batch is executed once, and once more for every run that failed open. *)
THEOREM ExecutedOnce == Spec => []RoutedOnceUnlessFailOpen
<1>1. ASSUME IInv, NEW b \in Batches PROVE routed[b] <= 1 + failOpens[b]
  <2>1. /\ Cardinality(Routing(b)) \in Nat /\ routed[b] \in Nat /\ failOpens[b] \in Nat
    <3>1. IsFiniteSet(Routing(b)) BY <1>1, FS_Subset DEF IInv, ExecInv, Routing
    <3> QED BY <1>1, <3>1, FS_CardinalityType DEF IInv, TypeOK
  <2>2. Claims(b) \in {0, 1} BY DEF Claims
  <2> QED BY <1>1, <2>1, <2>2 DEF IInv, ExecInv, CountInv
<1>2. IInv => RoutedOnceUnlessFailOpen BY <1>1 DEF RoutedOnceUnlessFailOpen
<1> QED BY <1>2, Invariance, PTL

(* Webhooks agree with one another and with the row. *)
THEOREM WebhooksAgree == Spec => []NotifiedAgreesWithRow
<1>1. IInv => NotifiedAgreesWithRow BY DEF IInv, ExecInv, SingleInv, NotifiedAgreesWithRow
<1> QED BY <1>1, Invariance, PTL

(* A queued batch is somewhere, or met a fault the code only logs. *)
THEOREM NothingDropped == Spec => []NeverDropped
<1>1. IInv => NeverDropped BY DEF IInv, DropInv
<1> QED BY <1>1, Invariance, PTL

(* Without a fail-open run, a recorded outcome is never overwritten. *)
THEOREM OutcomeStays == Spec => OutcomeIsFinal
<1> DEFINE Stays == \A b \in Batches : row[b] \in Outcomes /\ failOpens[b] = 0 => row'[b] = row[b]
<1>1. ASSUME IInv, [Next]_vars, NEW b \in Batches, row[b] \in Outcomes, failOpens[b] = 0
      PROVE  row'[b] = row[b]
  <2>1. row[b] \notin {"absent", "pending"} BY <1>1 DEF Outcomes
  <2>2. CASE UNCHANGED rowVars BY <2>2 DEF rowVars
  <2>3. ASSUME NEW c \in Batches, CreateRow(c) PROVE row'[b] = row[b]
    BY <1>1, <2>1, <2>3 DEF CreateRow, IInv, ExecInv, ApiInv, TypeOK
  <2>4. ASSUME NEW r \in runs, MarkProcessing(r) \/ MarkProcessingFails(r) PROVE row'[b] = row[b]
    BY <1>1, <2>1, <2>4 DEF MarkProcessing, MarkProcessingFails, IInv, TypeOK
  <2>5. ASSUME NEW r \in runs, Persist(r) PROVE row'[b] = row[b]
    <3>1. BatchIn(r) # b
      <4> SUFFICES ASSUME BatchIn(r) = b PROVE FALSE OBVIOUS
      <4>1. r \in Engaged(b) /\ r.pc = "persist" BY <2>5 DEF Persist, Engaged
      <4> QED BY <1>1, <4>1 DEF IInv, ExecInv, SingleInv
    <3> QED BY <1>1, <2>5, <3>1 DEF Persist, IInv, TypeOK
  <2>6. CASE Next
    <3>1. CASE Submission
      BY <2>2, <2>3, <3>1 DEF Submission, Enqueue, CreateRowFails
    <3>2. ASSUME NEW d \in Drainers, Drain(d) \/ DrainFault(d) PROVE UNCHANGED rowVars
      BY <3>2 DEF Drain, PopBatch, PopBackground, LookUp, HandOff, Requeue, DrainFault,
                  PopBackgroundFails, DrainCrash, LookUpFails, HandOffFails, RequeueFails
    <3>3. ASSUME NEW j \in Jobs, Take(j) \/ SettleJob(j) PROVE UNCHANGED rowVars
      BY <3>3 DEF Take, SettleJob
    <3>4. ASSUME NEW r \in runs, Handle(r) \/ HandleFault(r) PROVE row'[b] = row[b]
      <4>1. CASE SkipDuplicate(r) \/ Route(r) \/ PersistNoRow(r) \/ Notify(r)
        BY <2>2, <4>1 DEF SkipDuplicate, Route, PersistNoRow, Notify
      <4>2. CASE PersistFails(r) \/ NotifyFails(r) \/ RunCrash(r)
        BY <2>2, <4>2 DEF PersistFails, NotifyFails, RunCrash
      <4> QED BY <2>4, <2>5, <3>4, <4>1, <4>2 DEF Handle, HandleFault
    <3> QED BY <2>2, <2>6, <3>1, <3>2, <3>3, <3>4 DEF Next
  <2>7. CASE UNCHANGED vars BY <2>2, <2>7 DEF vars
  <2> QED BY <1>1, <2>6, <2>7
<1>2. IInv /\ [Next]_vars => [Stays]_vars BY <1>1
<1> QED BY <1>2, Invariance, PTL DEF Spec, OutcomeIsFinal
=============================================================================
