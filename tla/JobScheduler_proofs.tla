------------------------ MODULE JobScheduler_proofs -------------------------
(***************************************************************************)
(* Proofs about JobScheduler for any set of jobs and workers, any batch    *)
(* size and any number of attempts.  The inductive invariant ties the      *)
(* lock token of a row to the number of tokens issued for it, and every    *)
(* claim a worker still holds to one of those tokens.                      *)
(***************************************************************************)
EXTENDS JobScheduler, FiniteSetTheorems, TLAPS

-----------------------------------------------------------------------------
(* The inductive invariant. *)

(* Every claim of a row counts one attempt and issues one token; the row is *)
(* locked with the latest one exactly while it is running.                  *)
RowInv(j) ==
  /\ jobs[j].attempts = issued[j]
  /\ jobs[j].attempts <= MaxAttempts[j]
  /\ jobs[j].lockToken \in {NoToken, issued[j]}
  /\ jobs[j].status = "RUNNING" <=> jobs[j].lockToken # NoToken
  /\ jobs[j].lease # "none" => jobs[j].status = "RUNNING"
  /\ jobs[j].status = "SUCCEEDED" => issued[j] \in finished[j]
  /\ jobs[j].status = "FAILED" => jobs[j].attempts = MaxAttempts[j]
  /\ started[j] \subseteq 1..issued[j]

(* A held claim carries a token that was issued, as its attempt number, and *)
(* its step agrees with what is known of the handler's invocations.         *)
ClaimInv(c) ==
  /\ c.token \in 1..issued[c.job]
  /\ c.attempts = c.token
  /\ c.step = "waiting" => c.token \notin started[c.job]
  /\ c.step = "returned" => c.token \in finished[c.job]

IInv ==
  /\ TypeOK
  /\ \A j \in Jobs : RowInv(j)
  /\ \A w \in Workers : \A c \in held[w] : ClaimInv(c)
  /\ OneOwner

-----------------------------------------------------------------------------
(* Lemmas about rows and claims. *)

(* The row operators keep a row a row, and leave what the invariant needs. *)
LEMMA ReleasedRow ==
  ASSUME NEW r \in Row, NEW s \in Statuses, NEW due \in BOOLEAN
  PROVE  /\ Released(r, s, due) \in Row
         /\ Released(r, s, due).status = s
         /\ Released(r, s, due).lockToken = NoToken
         /\ Released(r, s, due).lease = "none"
         /\ Released(r, s, due).attempts = r.attempts
BY DEF Row, Released, NoToken, Statuses

(* Claiming a row gives it the new token and a live lease. *)
LEMMA ClaimedRow ==
  ASSUME NEW r \in Row, NEW t \in Nat
  PROVE  /\ Claimed(r, t) \in Row
         /\ Claimed(r, t).status = "RUNNING"
         /\ Claimed(r, t).lockToken = t
         /\ Claimed(r, t).attempts = r.attempts + 1
<1>1. r.attempts + 1 \in Nat /\ r.due \in BOOLEAN BY DEF Row
<1> QED BY <1>1 DEF Row, Claimed, Statuses

(* A row that becomes due, or whose lease expires, is the same row otherwise. *)
LEMMA AgedRow ==
  ASSUME NEW r \in Row
  PROVE  /\ [r EXCEPT !.due = TRUE] \in Row
         /\ [r EXCEPT !.due = TRUE].status = r.status
         /\ [r EXCEPT !.due = TRUE].lockToken = r.lockToken
         /\ [r EXCEPT !.due = TRUE].lease = r.lease
         /\ [r EXCEPT !.due = TRUE].attempts = r.attempts
         /\ [r EXCEPT !.lease = "expired"] \in Row
         /\ [r EXCEPT !.lease = "expired"].status = r.status
         /\ [r EXCEPT !.lease = "expired"].lockToken = r.lockToken
         /\ [r EXCEPT !.lease = "expired"].attempts = r.attempts
BY DEF Row

(* A claim whose step advances is still the same claim otherwise. *)
LEMMA ClaimFields ==
  ASSUME NEW c \in Claim, NEW s \in {"waiting", "executing", "returned", "thrown"}
  PROVE  /\ [c EXCEPT !.step = s] \in Claim
         /\ [c EXCEPT !.step = s].job = c.job
         /\ [c EXCEPT !.step = s].token = c.token
         /\ [c EXCEPT !.step = s].attempts = c.attempts
         /\ [c EXCEPT !.step = s].step = s
BY DEF Claim

(* Moving one claim of one worker on does not create a second owner. *)
LEMMA AdvanceKeepsOwner ==
  ASSUME TypeOK, OneOwner, NEW w \in Workers, NEW c \in held[w],
         NEW s \in {"waiting", "executing", "returned", "thrown"}, Advance(w, c, s)
  PROVE  /\ held' \in [Workers -> SUBSET Claim]
         /\ OneOwner'
         /\ \A v \in Workers : \A d \in held'[v] :
              \/ d \in held[v] /\ (d.job = c.job => d.token # c.token)
              \/ d = [c EXCEPT !.step = s]
<1>1. c \in Claim BY DEF TypeOK
<1>2. /\ [c EXCEPT !.step = s] \in Claim
      /\ [c EXCEPT !.step = s].job = c.job
      /\ [c EXCEPT !.step = s].token = c.token
  BY <1>1, ClaimFields
<1>3. held' = [held EXCEPT ![w] = (@ \ {c}) \cup {[c EXCEPT !.step = s]}] BY DEF Advance
<1>4. held' \in [Workers -> SUBSET Claim] BY <1>1, <1>2, <1>3 DEF TypeOK
<1>5. \A v \in Workers : \A d \in held'[v] :
        (d \in held[v] /\ (v = w => d # c)) \/ (v = w /\ d = [c EXCEPT !.step = s])
  BY <1>3 DEF TypeOK
<1>6. \A v \in Workers : \A d \in held'[v] :
        \/ d \in held[v] /\ (d.job = c.job => d.token # c.token)
        \/ d = [c EXCEPT !.step = s]
  BY <1>5 DEF OneOwner
<1>7. OneOwner'
  <2> SUFFICES ASSUME NEW u \in Workers, NEW v \in Workers, NEW d \in held'[u], NEW e \in held'[v],
                      d.job = e.job, d.token = e.token
               PROVE  u = v /\ d = e
    BY DEF OneOwner
  <2>1. CASE d \in held[u] /\ (u = w => d # c) /\ e \in held[v] /\ (v = w => e # c)
    BY <2>1 DEF OneOwner
  <2>2. CASE d \in held[u] /\ (u = w => d # c) /\ v = w /\ e = [c EXCEPT !.step = s]
    <3>1. d.job = c.job /\ d.token = c.token BY <2>2, <1>2
    <3> QED BY <2>2, <3>1 DEF OneOwner
  <2>3. CASE e \in held[v] /\ (v = w => e # c) /\ u = w /\ d = [c EXCEPT !.step = s]
    <3>1. e.job = c.job /\ e.token = c.token BY <2>3, <1>2
    <3> QED BY <2>3, <3>1 DEF OneOwner
  <2>4. CASE u = w /\ d = [c EXCEPT !.step = s] /\ v = w /\ e = [c EXCEPT !.step = s]
    BY <2>4
  <2> QED BY <1>5, <2>1, <2>2, <2>3, <2>4
<1> QED BY <1>4, <1>6, <1>7

(* Dropping one claim of one worker leaves the others. *)
LEMMA DoneKeepsOwner ==
  ASSUME TypeOK, OneOwner, NEW w \in Workers, NEW c \in held[w], DoneWith(w, c)
  PROVE  /\ held' \in [Workers -> SUBSET Claim]
         /\ phase' \in [Workers -> Phases]
         /\ OneOwner'
         /\ \A v \in Workers : held'[v] \subseteq held[v]
<1>1. held' = [held EXCEPT ![w] = @ \ {c}] BY DEF DoneWith
<1>2. held' \in [Workers -> SUBSET Claim] BY <1>1 DEF TypeOK
<1>3. \A v \in Workers : held'[v] \subseteq held[v] BY <1>1 DEF TypeOK
<1>4. OneOwner' BY <1>3 DEF OneOwner
<1>5. phase' \in [Workers -> Phases]
  BY DEF DoneWith, GoTo, EndOfPoll, TypeOK, Phases
<1> QED BY <1>2, <1>3, <1>4, <1>5

-----------------------------------------------------------------------------
(* The invariant is inductive: it holds of the empty table. *)
LEMMA InitInv == Init => IInv
<1> SUFFICES ASSUME Init PROVE IInv
  OBVIOUS
<1>1. TypeOK BY DEF Init, TypeOK, Row, Statuses, NoToken, Phases
<1>2. \A j \in Jobs : RowInv(j)
  BY JobSchedulerAssumption DEF Init, RowInv, NoToken, JobSchedulerAssumption
<1>3. \A w \in Workers : held[w] = {} BY DEF Init
<1> QED BY <1>1, <1>2, <1>3 DEF IInv, OneOwner

(* Steps that change rows only keep the claims as they are. *)
LEMMA RowStep ==
  ASSUME IInv, UNCHANGED <<issued, historyVars, held>>,
         jobs' \in [Jobs -> Row],
         phase' \in [Workers -> Phases], stopping' \in [Workers -> BOOLEAN],
         \A j \in Jobs : RowInv(j)'
  PROVE  IInv'
<1>1. TypeOK' BY DEF IInv, TypeOK, historyVars
<1>2. \A w \in Workers : \A c \in held'[w] : ClaimInv(c)'
  BY DEF IInv, ClaimInv, historyVars
<1>3. OneOwner' BY DEF IInv, OneOwner
<1> QED BY <1>1, <1>2, <1>3 DEF IInv

(* Inserting a row, and the passing of time, keep the invariant. *)
LEMMA TableStep ==
  ASSUME IInv, NEW j \in Jobs, Enqueue(j) \/ BecomesDue(j) \/ LeaseExpires(j)
  PROVE  IInv'
<1>1. /\ UNCHANGED <<issued, historyVars, held, phase, stopping>>
      /\ \A k \in Jobs : k # j => jobs'[k] = jobs[k]
  BY DEF Enqueue, BecomesDue, LeaseExpires, IInv, TypeOK, workerVars
<1>2. jobs[j] \in Row /\ RowInv(j) BY DEF IInv, TypeOK
<1>3. /\ jobs'[j] \in Row
      /\ RowInv(j)'
  <2>1. CASE Enqueue(j)
    <3>1. PICK due \in BOOLEAN : jobs'[j] = Released(jobs[j], "PENDING", due)
      BY <2>1 DEF Enqueue, IInv, TypeOK
    <3>2. jobs[j].status = "ABSENT" BY <2>1 DEF Enqueue
    <3>3. "PENDING" \in Statuses BY DEF Statuses
    <3>4. /\ jobs'[j] \in Row /\ jobs'[j].status = "PENDING" /\ jobs'[j].lockToken = NoToken
          /\ jobs'[j].lease = "none" /\ jobs'[j].attempts = jobs[j].attempts
      BY <1>2, <3>1, <3>3, ReleasedRow
    <3> QED BY <1>1, <1>2, <3>2, <3>4 DEF RowInv, historyVars
  <2>2. CASE BecomesDue(j)
    <3>1. jobs'[j] = [jobs[j] EXCEPT !.due = TRUE] BY <2>2 DEF BecomesDue, IInv, TypeOK
    <3> QED BY <1>1, <1>2, <3>1, AgedRow DEF RowInv, historyVars
  <2>3. CASE LeaseExpires(j)
    <3>1. jobs'[j] = [jobs[j] EXCEPT !.lease = "expired"] BY <2>3 DEF LeaseExpires, IInv, TypeOK
    <3>2. jobs[j].lease = "live" BY <2>3 DEF LeaseExpires
    <3> QED BY <1>1, <1>2, <3>1, <3>2, AgedRow DEF RowInv, historyVars
  <2> QED BY <2>1, <2>2, <2>3
<1>4. \A k \in Jobs : RowInv(k)' BY <1>1, <1>3 DEF IInv, RowInv, historyVars
<1>5. jobs' \in [Jobs -> Row]
  BY <1>1, <1>3 DEF Enqueue, BecomesDue, LeaseExpires, IInv, TypeOK
<1> QED BY <1>1, <1>4, <1>5, RowStep DEF IInv, TypeOK

(* Starting, stopping, crashing and sweeping keep the invariant. *)
LEMMA LoopStep ==
  ASSUME IInv, NEW w \in Workers, Loop(w)
  PROVE  IInv'
<1> USE DEF IInv
<1>1. CASE Start(w) \/ Stop(w) \/ SweepFails(w) \/ ClaimNothing(w)
  <2>1. /\ UNCHANGED <<jobs, issued, historyVars, held>>
        /\ phase' \in [Workers -> Phases] /\ stopping' \in [Workers -> BOOLEAN]
    BY <1>1 DEF Start, Stop, SweepFails, ClaimNothing, GoTo, EndOfPoll, TypeOK, Phases, tableVars
  <2>2. \A j \in Jobs : RowInv(j)' BY <2>1 DEF RowInv, historyVars
  <2> QED BY <2>1, <2>2, RowStep DEF TypeOK
<1>2. CASE Crash(w)
  <2>1. /\ UNCHANGED <<jobs, issued, historyVars>>
        /\ phase' \in [Workers -> Phases] /\ stopping' \in [Workers -> BOOLEAN]
        /\ held' \in [Workers -> SUBSET Claim]
        /\ \A v \in Workers : held'[v] \subseteq held[v]
    BY <1>2 DEF Crash, GoTo, TypeOK, Phases, tableVars
  <2>2. TypeOK' /\ \A j \in Jobs : RowInv(j)' BY <2>1 DEF RowInv, TypeOK, historyVars
  <2>3. OneOwner' /\ \A v \in Workers : \A c \in held'[v] : ClaimInv(c)'
    BY <2>1 DEF OneOwner, ClaimInv, historyVars
  <2> QED BY <2>2, <2>3
<1>3. CASE SweepExhausted(w)
  <2>1. /\ UNCHANGED <<issued, historyVars, held, stopping>>
        /\ phase' \in [Workers -> Phases]
    BY <1>3 DEF SweepExhausted, GoTo, TypeOK, Phases
  <2>2. ASSUME NEW j \in Jobs
        PROVE  jobs'[j] \in Row /\ RowInv(j)'
    <3>1. jobs[j] \in Row /\ jobs[j].attempts \in Nat BY DEF TypeOK, Row
    <3>2. MaxAttempts[j] \in Nat BY JobSchedulerAssumption DEF JobSchedulerAssumption
    <3>3. CASE Expired(jobs[j]) /\ jobs[j].attempts >= MaxAttempts[j]
      <4>1. jobs'[j] = Released(jobs[j], "FAILED", jobs[j].due) BY <1>3, <3>3 DEF SweepExhausted
      <4>2. "FAILED" \in Statuses /\ jobs[j].due \in BOOLEAN BY <3>1 DEF Statuses, Row
      <4>3. /\ jobs'[j] \in Row /\ jobs'[j].status = "FAILED" /\ jobs'[j].lockToken = NoToken
            /\ jobs'[j].lease = "none" /\ jobs'[j].attempts = jobs[j].attempts
        BY <3>1, <4>1, <4>2, ReleasedRow
      <4> QED BY <2>1, <3>1, <3>2, <3>3, <4>3 DEF RowInv, historyVars
    <3>4. CASE ~(Expired(jobs[j]) /\ jobs[j].attempts >= MaxAttempts[j])
      <4>1. jobs'[j] = jobs[j] BY <1>3, <3>4 DEF SweepExhausted
      <4> QED BY <2>1, <3>1, <4>1 DEF RowInv, historyVars
    <3> QED BY <3>3, <3>4
  <2>3. jobs' \in [Jobs -> Row] BY <1>3, <2>2 DEF SweepExhausted
  <2> QED BY <2>1, <2>2, <2>3, RowStep DEF TypeOK
<1> QED BY <1>1, <1>2, <1>3 DEF Loop

(* A claim gives each row a token that no held claim carries. *)
LEMMA ClaimStep ==
  ASSUME IInv, NEW w \in Workers, NEW C \in SUBSET Jobs, ClaimBatch(w, C)
  PROVE  IInv'
<1> USE DEF IInv
<1> DEFINE New(j) == [job |-> j, attempts |-> jobs[j].attempts + 1, token |-> issued[j] + 1,
                      step |-> "waiting"]
<1>1. /\ held' = [held EXCEPT ![w] = {New(j) : j \in C}]
      /\ UNCHANGED <<historyVars, stopping>>
      /\ phase' \in [Workers -> Phases]
  BY DEF ClaimBatch, GoTo, TypeOK, Phases
<1>2. ASSUME NEW j \in Jobs
      PROVE  /\ j \in C => /\ jobs'[j] = Claimed(jobs[j], issued[j] + 1)
                           /\ issued'[j] = issued[j] + 1
                           /\ jobs[j].attempts < MaxAttempts[j]
             /\ j \notin C => jobs'[j] = jobs[j] /\ issued'[j] = issued[j]
  BY DEF ClaimBatch, Claimable
<1>3. ASSUME NEW j \in Jobs
      PROVE  /\ jobs[j] \in Row /\ jobs[j].attempts \in Nat /\ issued[j] \in Nat
             /\ issued'[j] \in Nat /\ issued'[j] >= issued[j] /\ MaxAttempts[j] \in Nat
  <2>1. jobs[j] \in Row /\ jobs[j].attempts \in Nat /\ issued[j] \in Nat BY DEF TypeOK, Row
  <2>2. MaxAttempts[j] \in Nat BY JobSchedulerAssumption DEF JobSchedulerAssumption
  <2> QED BY <1>2, <2>1, <2>2
<1>4. ASSUME NEW j \in Jobs
      PROVE  jobs'[j] \in Row /\ RowInv(j)'
  <2>1. CASE j \in C
    <3>1. issued[j] + 1 \in Nat BY <1>3
    <3>2. /\ jobs'[j] \in Row /\ jobs'[j].status = "RUNNING"
          /\ jobs'[j].lockToken = issued[j] + 1 /\ jobs'[j].attempts = jobs[j].attempts + 1
      BY <1>2, <1>3, <2>1, <3>1, ClaimedRow
    <3> QED BY <1>1, <1>2, <1>3, <2>1, <3>2 DEF RowInv, historyVars, NoToken
  <2>2. CASE j \notin C
    BY <1>1, <1>2, <1>3, <2>2 DEF RowInv, historyVars
  <2> QED BY <2>1, <2>2
<1>5. ASSUME NEW j \in C
      PROVE  New(j) \in Claim /\ New(j).job = j /\ New(j).token = issued[j] + 1
             /\ New(j).attempts = New(j).token /\ New(j).step = "waiting"
  <2>1. jobs[j].attempts = issued[j] /\ jobs[j].attempts \in Nat BY <1>3 DEF RowInv
  <2> QED BY <2>1 DEF Claim
<1>6. TypeOK'
  <2>1. jobs' \in [Jobs -> Row] BY <1>4 DEF ClaimBatch
  <2>2. issued' \in [Jobs -> Nat] BY <1>3 DEF ClaimBatch
  <2>3. held' \in [Workers -> SUBSET Claim] BY <1>1, <1>5 DEF TypeOK
  <2> QED BY <1>1, <2>1, <2>2, <2>3 DEF TypeOK, historyVars
<1>7. ASSUME NEW v \in Workers, NEW c \in held'[v]
      PROVE  \/ c \in held[v] /\ c.token <= issued[c.job]
             \/ v = w /\ \E j \in C : c = New(j)
  <2>1. CASE v = w BY <1>1, <2>1 DEF TypeOK
  <2>2. CASE v # w
    <3>1. c \in held[v] BY <1>1, <2>2 DEF TypeOK
    <3>2. c.job \in Jobs BY <3>1 DEF TypeOK, Claim
    <3> QED BY <1>3, <3>1, <3>2 DEF ClaimInv
  <2> QED BY <2>1, <2>2
<1>8. ASSUME NEW v \in Workers, NEW c \in held'[v]
      PROVE  ClaimInv(c)'
  <2>1. CASE c \in held[v]
    <3>1. c.job \in Jobs BY <2>1 DEF TypeOK, Claim
    <3>2. ClaimInv(c) BY <2>1
    <3> QED BY <1>1, <1>3, <3>1, <3>2 DEF ClaimInv, historyVars
  <2>2. CASE v = w /\ \E j \in C : c = New(j)
    <3>1. PICK j \in C : c = New(j) BY <2>2
    <3>2. started[j] \subseteq 1..issued[j] BY DEF RowInv
    <3>3. c.token = issued[j] + 1 /\ c.job = j /\ c.attempts = c.token /\ c.step = "waiting"
      BY <1>5, <3>1
    <3>4. c.token \notin started[j] BY <1>3, <3>2, <3>3
    <3> QED BY <1>1, <1>2, <1>3, <3>3, <3>4 DEF ClaimInv, historyVars
  <2> QED BY <1>7, <2>1, <2>2
<1>9. OneOwner'
  <2> SUFFICES ASSUME NEW u \in Workers, NEW v \in Workers, NEW d \in held'[u], NEW e \in held'[v],
                      d.job = e.job, d.token = e.token
               PROVE  u = v /\ d = e
    BY DEF OneOwner
  <2> HIDE DEF New
  <2>1. CASE d \in held[u] /\ e \in held[v]
    BY <2>1 DEF OneOwner
  <2>2. CASE d \in held[u] /\ d.token <= issued[d.job] /\ \E j \in C : e = New(j)
    <3>1. PICK j \in C : e = New(j) BY <2>2
    <3> QED BY <1>3, <1>5, <2>2, <3>1
  <2>3. CASE e \in held[v] /\ e.token <= issued[e.job] /\ \E j \in C : d = New(j)
    <3>1. PICK j \in C : d = New(j) BY <2>3
    <3> QED BY <1>3, <1>5, <2>3, <3>1
  <2>4. CASE u = w /\ v = w /\ (\E j \in C : d = New(j)) /\ (\E j \in C : e = New(j))
    <3>1. PICK j \in C : d = New(j) BY <2>4
    <3>2. PICK k \in C : e = New(k) BY <2>4
    <3> QED BY <1>5, <2>4, <3>1, <3>2
  <2> QED BY <1>7, <2>1, <2>2, <2>3, <2>4
<1> QED BY <1>4, <1>6, <1>8, <1>9

(* Steps of a worker on one claim that leave the table alone. *)
LEMMA AdvanceStep ==
  ASSUME IInv, NEW w \in Workers, NEW c \in held[w],
         Begin(w, c) \/ NoHandler(w, c) \/ HandlerReturns(w, c) \/ HandlerThrows(w, c)
  PROVE  IInv'
<1> USE DEF IInv
<1> DEFINE Moved(s) == [c EXCEPT !.step = s]
           Steps == {"waiting", "executing", "returned", "thrown"}
<1>1. c \in Claim /\ c.job \in Jobs /\ c.token \in Nat /\ ClaimInv(c) BY DEF TypeOK, Claim
<1>2. UNCHANGED <<jobs, issued, phase, stopping>>
  BY DEF Begin, NoHandler, HandlerReturns, HandlerThrows, tableVars
<1>3. PICK s \in Steps : /\ Advance(w, c, s)
                        /\ \/ Begin(w, c) /\ s = "executing"
                           \/ HandlerReturns(w, c) /\ s = "returned"
                           \/ UNCHANGED <<started, finished>> /\ s = "thrown"
  BY DEF Begin, NoHandler, HandlerReturns, HandlerThrows, historyVars
<1>4. /\ held' \in [Workers -> SUBSET Claim]
      /\ OneOwner'
      /\ \A v \in Workers : \A d \in held'[v] :
           \/ d \in held[v] /\ (d.job = c.job => d.token # c.token)
           \/ d = Moved(s)
  BY <1>3, AdvanceKeepsOwner
<1>5. /\ Moved(s).job = c.job /\ Moved(s).token = c.token
      /\ Moved(s).attempts = c.attempts /\ Moved(s).step = s
  BY <1>1, ClaimFields
<1>6. /\ started' = [started EXCEPT ![c.job] = IF s = "executing" THEN @ \cup {c.token} ELSE @]
      /\ finished' = [finished EXCEPT ![c.job] = IF s = "returned" THEN @ \cup {c.token} ELSE @]
  BY <1>3 DEF Begin, HandlerReturns, TypeOK
<1>7. /\ started' \in [Jobs -> SUBSET Nat] /\ finished' \in [Jobs -> SUBSET Nat]
      /\ \A j \in Jobs : /\ j # c.job => started'[j] = started[j] /\ finished'[j] = finished[j]
                         /\ finished[j] \subseteq finished'[j]
      /\ started'[c.job] \subseteq started[c.job] \cup {c.token}
      /\ s = "returned" => c.token \in finished'[c.job]
  BY <1>1, <1>6 DEF TypeOK
<1>8. TypeOK' BY <1>2, <1>4, <1>7 DEF TypeOK
<1>9. ASSUME NEW j \in Jobs PROVE RowInv(j)'
  <2>1. started'[j] \subseteq 1..issued[j] BY <1>1, <1>7 DEF RowInv, ClaimInv
  <2>2. RowInv(j) /\ jobs'[j] = jobs[j] /\ issued'[j] = issued[j] BY <1>2
  <2> QED BY <1>7, <2>1, <2>2 DEF RowInv
<1>10. ASSUME NEW v \in Workers, NEW d \in held'[v] PROVE ClaimInv(d)'
  <2>1. CASE d \in held[v] /\ (d.job = c.job => d.token # c.token)
    <3>1. d.job \in Jobs /\ ClaimInv(d) BY <2>1 DEF TypeOK, Claim
    <3> QED BY <1>2, <1>7, <2>1, <3>1 DEF ClaimInv
  <2>2. CASE d = Moved(s)
    <3>1. d.job = c.job /\ d.token = c.token /\ d.attempts = c.attempts /\ d.step = s
      BY <1>5, <2>2
    <3>2. s # "waiting" BY <1>3
    <3> QED BY <1>1, <1>2, <1>7, <3>1, <3>2 DEF ClaimInv
  <2> QED BY <1>4, <2>1, <2>2
<1> QED BY <1>4, <1>8, <1>9, <1>10

(* A claim that matches the row's lock token is the latest claim of it. *)
LEMMA InForceIsLatest ==
  ASSUME IInv, NEW w \in Workers, NEW c \in held[w], InForce(c)
  PROVE  /\ c.job \in Jobs /\ jobs[c.job] \in Row
         /\ jobs[c.job].status = "RUNNING"
         /\ c.token = issued[c.job] /\ c.attempts = jobs[c.job].attempts
<1>1. c.job \in Jobs /\ ClaimInv(c) BY DEF IInv, TypeOK, Claim
<1>2. jobs[c.job] \in Row /\ issued[c.job] \in Nat /\ RowInv(c.job) BY <1>1 DEF IInv, TypeOK
<1>3. c.token # NoToken BY <1>1, <1>2 DEF ClaimInv, NoToken
<1> QED BY <1>1, <1>2, <1>3 DEF RowInv, ClaimInv, InForce

(* Steps that report the outcome of a claim. *)
LEMMA MarkStep ==
  ASSUME IInv, NEW w \in Workers, NEW c \in held[w],
         MarkSucceeded(w, c) \/ MarkFailed(w, c) \/ MarkErrors(w, c)
  PROVE  IInv'
<1> USE DEF IInv
<1>1. DoneWith(w, c) BY DEF MarkSucceeded, MarkFailed, MarkErrors
<1>2. /\ UNCHANGED <<issued, started, finished, stopping>>
      /\ held' \in [Workers -> SUBSET Claim]
      /\ phase' \in [Workers -> Phases]
      /\ OneOwner'
      /\ \A v \in Workers : held'[v] \subseteq held[v]
  BY <1>1, DoneKeepsOwner DEF DoneWith, historyVars
<1>3. c.job \in Jobs /\ ClaimInv(c) BY DEF TypeOK, Claim
<1>4. jobs' \in [Jobs -> Row] /\ \A j \in Jobs : RowInv(j)'
  <2>1. CASE jobs' = jobs BY <1>2, <2>1 DEF RowInv, TypeOK
  <2>2. CASE InForce(c) /\ jobs' # jobs
    <3> DEFINE r == jobs[c.job]
    <3>1. /\ r \in Row /\ r.status = "RUNNING" /\ r.due \in BOOLEAN
          /\ c.token = issued[c.job] /\ c.attempts = r.attempts
      BY <2>2, InForceIsLatest DEF Row
    <3>2. \E s \in Statuses, due \in BOOLEAN :
            /\ jobs' = [jobs EXCEPT ![c.job] = Released(r, s, due)]
            /\ s # "RUNNING"
            /\ s = "SUCCEEDED" => issued[c.job] \in finished[c.job]
            /\ s = "FAILED" => r.attempts >= MaxAttempts[c.job]
      <4>1. CASE MarkSucceeded(w, c)
        <5>1. jobs' = [jobs EXCEPT ![c.job] = Released(r, "SUCCEEDED", r.due)]
          BY <2>2, <4>1 DEF MarkSucceeded
        <5>2. issued[c.job] \in finished[c.job] BY <1>3, <3>1, <4>1 DEF MarkSucceeded, ClaimInv
        <5> QED BY <3>1, <5>1, <5>2 DEF Statuses
      <4>2. CASE MarkFailed(w, c) /\ c.attempts >= MaxAttempts[c.job]
        <5>1. jobs' = [jobs EXCEPT ![c.job] = Released(r, "FAILED", r.due)]
          BY <2>2, <4>2 DEF MarkFailed, AfterFailure
        <5> QED BY <3>1, <4>2, <5>1 DEF Statuses
      <4>3. CASE MarkFailed(w, c) /\ ~(c.attempts >= MaxAttempts[c.job])
        <5>1. jobs' = [jobs EXCEPT ![c.job] = Released(r, "PENDING", FALSE)]
          BY <2>2, <4>3 DEF MarkFailed, AfterFailure
        <5> QED BY <5>1 DEF Statuses
      <4> QED BY <2>2, <4>1, <4>2, <4>3 DEF MarkErrors
    <3>3. PICK s \in Statuses, due \in BOOLEAN :
            /\ jobs' = [jobs EXCEPT ![c.job] = Released(r, s, due)]
            /\ s # "RUNNING"
            /\ s = "SUCCEEDED" => issued[c.job] \in finished[c.job]
            /\ s = "FAILED" => r.attempts >= MaxAttempts[c.job]
      BY <3>2
    <3>4. /\ Released(r, s, due) \in Row
          /\ Released(r, s, due).status = s /\ Released(r, s, due).lockToken = NoToken
          /\ Released(r, s, due).lease = "none" /\ Released(r, s, due).attempts = r.attempts
      BY <3>1, ReleasedRow
    <3>5. jobs'[c.job] = Released(r, s, due) BY <1>3, <3>3 DEF TypeOK
    <3>6. r.attempts \in Nat /\ MaxAttempts[c.job] \in Nat /\ RowInv(c.job)
      BY <1>3, <3>1, JobSchedulerAssumption DEF JobSchedulerAssumption, Row
    <3> HIDE DEF r
    <3>7. RowInv(c.job)'
      <4>1. r.attempts = issued[c.job] /\ r.attempts <= MaxAttempts[c.job]
            /\ started[c.job] \subseteq 1..issued[c.job]
        BY <3>6 DEF RowInv, r
      <4> QED BY <1>2, <3>3, <3>4, <3>5, <3>6, <4>1 DEF RowInv
    <3>8. \A j \in Jobs : j # c.job => jobs'[j] = jobs[j] BY <3>3 DEF TypeOK
    <3>9. \A j \in Jobs : RowInv(j)' BY <1>2, <3>7, <3>8 DEF RowInv
    <3>10. jobs' \in [Jobs -> Row] BY <3>3, <3>4 DEF TypeOK
    <3> QED BY <3>9, <3>10
  <2> QED BY <2>1, <2>2 DEF MarkSucceeded, MarkFailed, MarkErrors
<1>5. TypeOK' BY <1>2, <1>4 DEF TypeOK
<1>6. \A v \in Workers : \A d \in held'[v] : ClaimInv(d)' BY <1>2 DEF ClaimInv
<1> QED BY <1>2, <1>4, <1>5, <1>6

(* Every step keeps the invariant. *)
LEMMA NextInv == IInv /\ [Next]_vars => IInv'
<1> SUFFICES ASSUME IInv, [Next]_vars PROVE IInv'
  OBVIOUS
<1>1. CASE Table BY <1>1, TableStep DEF Table
<1>2. ASSUME NEW w \in Workers, Loop(w) PROVE IInv' BY <1>2, LoopStep
<1>3. ASSUME NEW w \in Workers, ClaimSome(w) PROVE IInv' BY <1>3, ClaimStep DEF ClaimSome
<1>4. ASSUME NEW w \in Workers, Handle(w) PROVE IInv'
  BY <1>4, AdvanceStep, MarkStep DEF Handle
<1>5. CASE UNCHANGED vars
  BY <1>5 DEF vars, IInv, TypeOK, RowInv, ClaimInv, OneOwner
<1> QED BY <1>1, <1>2, <1>3, <1>4, <1>5 DEF Next

(* Every reachable state satisfies the inductive invariant. *)
THEOREM Invariance == Spec => []IInv
BY InitInv, NextInv, PTL DEF Spec

-----------------------------------------------------------------------------
(* State properties. *)

(* The state keeps its types. *)
THEOREM TypeCorrect == Spec => []TypeOK
<1>1. IInv => TypeOK BY DEF IInv
<1> QED BY <1>1, Invariance, PTL

(* No two claims held anywhere on one job carry the same lock token. *)
THEOREM TokensAreUnique == Spec => []OneOwner
<1>1. IInv => OneOwner BY DEF IInv
<1> QED BY <1>1, Invariance, PTL

(* SUCCEEDED rests on the latest claim, FAILED on spent attempts. *)
THEOREM SettledRight == Spec => []SettledForAReason
<1>1. IInv => SettledForAReason BY DEF IInv, RowInv, SettledForAReason
<1> QED BY <1>1, Invariance, PTL

(* Handlers run under at most as many claims as attempts are counted.       *)
THEOREM AttemptsBoundRuns == Spec => []RunsWithinAttempts
<1>1. IInv => RunsWithinAttempts
  <2> SUFFICES ASSUME IInv, NEW j \in Jobs
               PROVE  /\ Cardinality(started[j]) <= jobs[j].attempts
                      /\ jobs[j].attempts <= MaxAttempts[j]
    BY DEF RunsWithinAttempts
  <2>1. /\ issued[j] \in Nat /\ jobs[j].attempts = issued[j]
        /\ jobs[j].attempts <= MaxAttempts[j] /\ started[j] \subseteq 1..issued[j]
    BY DEF IInv, TypeOK, RowInv
  <2>2. IsFiniteSet(1..issued[j]) /\ Cardinality(1..issued[j]) = issued[j]
    BY <2>1, FS_Interval
  <2>3. Cardinality(started[j]) <= Cardinality(1..issued[j])
    BY <2>1, <2>2, FS_Subset
  <2> QED BY <2>1, <2>2, <2>3
<1> QED BY <1>1, Invariance, PTL

-----------------------------------------------------------------------------
(* Action properties. *)

(* A row changes only while it is absent, pending or running. *)
LEMMA OnlyOpenRowsChange ==
  ASSUME IInv, Next, NEW j \in Jobs, Settled(j)
  PROVE  jobs'[j] = jobs[j]
<1> USE DEF IInv
<1>1. jobs[j].status \in {"SUCCEEDED", "FAILED"} /\ RowInv(j) BY DEF Settled
<1>2. CASE Table
  <2>1. PICK k \in Jobs : Enqueue(k) \/ BecomesDue(k) \/ LeaseExpires(k) BY <1>2 DEF Table
  <2>2. jobs[k].status \in {"ABSENT", "PENDING", "RUNNING"}
    BY <2>1 DEF Enqueue, BecomesDue, LeaseExpires, RowInv
  <2>3. k # j BY <1>1, <2>2
  <2> QED BY <2>1, <2>3 DEF Enqueue, BecomesDue, LeaseExpires, TypeOK
<1>3. ASSUME NEW w \in Workers, Loop(w) PROVE jobs'[j] = jobs[j]
  BY <1>1, <1>3 DEF Loop, Start, Stop, Crash, SweepExhausted, SweepFails, ClaimNothing,
                    tableVars, Expired
<1>4. ASSUME NEW w \in Workers, ClaimSome(w) PROVE jobs'[j] = jobs[j]
  BY <1>1, <1>4 DEF ClaimSome, ClaimBatch, Claimable, Expired
<1>5. ASSUME NEW w \in Workers, Handle(w) PROVE jobs'[j] = jobs[j]
  <2>1. PICK c \in held[w] :
          \/ Begin(w, c) \/ NoHandler(w, c) \/ HandlerReturns(w, c) \/ HandlerThrows(w, c)
          \/ MarkSucceeded(w, c) \/ MarkFailed(w, c) \/ MarkErrors(w, c)
    BY <1>5 DEF Handle
  <2>2. CASE jobs' = jobs BY <2>2
  <2>3. CASE InForce(c) /\ jobs' # jobs
    <3>1. c.job # j BY <1>1, <2>3, InForceIsLatest
    <3> QED BY <2>1, <2>3, <3>1 DEF MarkSucceeded, MarkFailed, MarkErrors, Begin, NoHandler,
                                   HandlerReturns, HandlerThrows, tableVars, TypeOK
  <2> QED BY <2>1, <2>2, <2>3 DEF MarkSucceeded, MarkFailed, MarkErrors, Begin, NoHandler,
                                  HandlerReturns, HandlerThrows, tableVars
<1> QED BY <1>2, <1>3, <1>4, <1>5 DEF Next

(* A settled row never changes again, whatever stale workers report. *)
THEOREM SettledStays == Spec => SettledIsFinal
<1>1. IInv /\ [Next]_vars => [\A j \in Jobs : Settled(j) => jobs'[j] = jobs[j]]_vars
  BY OnlyOpenRowsChange
<1> QED BY <1>1, Invariance, PTL DEF Spec, SettledIsFinal

(* A worker begins a claim it has not begun before. *)
THEOREM ClaimsRunOnce == Spec => OneRunPerClaim
<1> DEFINE Fresh == \A w \in Workers : \A c \in held[w] :
                      Begin(w, c) => c.token \notin started[c.job]
<1>1. IInv => Fresh
  <2> SUFFICES ASSUME IInv, NEW w \in Workers, NEW c \in held[w], Begin(w, c)
               PROVE  c.token \notin started[c.job]
    OBVIOUS
  <2>1. c.step = "waiting" BY DEF Begin, NextInBatch
  <2> QED BY <2>1 DEF IInv, ClaimInv
<1>2. IInv /\ [Next]_vars => [Fresh]_vars BY <1>1
<1> HIDE DEF Fresh
<1>3. Spec => [][Fresh]_vars BY <1>2, Invariance, PTL DEF Spec
<1> QED BY <1>3 DEF OneRunPerClaim, Fresh

-----------------------------------------------------------------------------
(* JobScheduler implements JobLifecycle: forget workers, leases and lock    *)
(* tokens, and every step of the scheduler is a step of the job lifecycle   *)
(* or changes nothing of it.                                                *)

(* What the lifecycle sees of the table. *)
StatusBar == [j \in Jobs |-> jobs[j].status]
AttemptsBar == [j \in Jobs |-> jobs[j].attempts]

(* An empty table is a lifecycle in which nothing was submitted. *)
LEMMA InitRefines == Init => Lifecycle!Init
BY DEF Init, Lifecycle!Init

(* Steps that leave status, attempts and finished alone are stutters. *)
LEMMA StutterRefines ==
  ASSUME UNCHANGED finished,
         \A j \in Jobs : jobs'[j].status = jobs[j].status /\ jobs'[j].attempts = jobs[j].attempts
  PROVE  UNCHANGED Lifecycle!vars
BY DEF Lifecycle!vars

(* A step that releases some running rows with one status, and touches no   *)
(* other row, sets the status of those jobs and keeps all attempts.         *)
LEMMA ReleaseRefines ==
  ASSUME TypeOK, NEW C \in SUBSET Jobs, NEW s \in Statuses,
         \A j \in C : \E due \in BOOLEAN : jobs'[j] = Released(jobs[j], s, due),
         \A j \in Jobs \ C : jobs'[j] = jobs[j]
  PROVE  Lifecycle!SetStatus(C, s) /\ AttemptsBar' = AttemptsBar
<1>1. ASSUME NEW j \in Jobs
      PROVE  /\ jobs'[j].attempts = jobs[j].attempts
             /\ jobs'[j].status = IF j \in C THEN s ELSE jobs[j].status
  <2>1. CASE j \in C
    <3>1. PICK due \in BOOLEAN : jobs'[j] = Released(jobs[j], s, due) BY <2>1
    <3>2. jobs[j] \in Row BY DEF TypeOK
    <3> QED BY <2>1, <3>1, <3>2, ReleasedRow
  <2>2. CASE j \notin C BY <2>2
  <2> QED BY <2>1, <2>2
<1> QED BY <1>1 DEF Lifecycle!SetStatus, AttemptsBar

(* An insert submits a job; the passing of time is a stutter. *)
LEMMA TableRefines ==
  ASSUME IInv, NEW j \in Jobs, Enqueue(j) \/ BecomesDue(j) \/ LeaseExpires(j)
  PROVE  [Lifecycle!Next]_(Lifecycle!vars)
<1>1. TypeOK /\ jobs[j] \in Row /\ UNCHANGED finished
  BY DEF IInv, TypeOK, Enqueue, BecomesDue, LeaseExpires, historyVars
<1>2. CASE Enqueue(j)
  <2>1. Lifecycle!SetStatus({j}, "PENDING") /\ AttemptsBar' = AttemptsBar
    <3>1. \A k \in {j} : \E due \in BOOLEAN : jobs'[k] = Released(jobs[k], "PENDING", due)
      BY <1>1, <1>2 DEF Enqueue, TypeOK
    <3>2. \A k \in Jobs \ {j} : jobs'[k] = jobs[k] BY <1>1, <1>2 DEF Enqueue, TypeOK
    <3> QED BY <1>1, <3>1, <3>2, ReleaseRefines DEF Statuses
  <2>2. Lifecycle!Submit(j)
    BY <1>1, <1>2, <2>1 DEF Enqueue, Lifecycle!Submit, AttemptsBar
  <2> QED BY <2>2 DEF Lifecycle!Next
<1>3. CASE BecomesDue(j)
  <2>1. \A k \in Jobs : jobs'[k] = IF k = j THEN [jobs[j] EXCEPT !.due = TRUE] ELSE jobs[k]
    BY <1>1, <1>3 DEF BecomesDue, TypeOK
  <2> QED BY <1>1, <2>1, AgedRow, StutterRefines
<1>4. CASE LeaseExpires(j)
  <2>1. \A k \in Jobs : jobs'[k] = IF k = j THEN [jobs[j] EXCEPT !.lease = "expired"] ELSE jobs[k]
    BY <1>1, <1>4 DEF LeaseExpires, TypeOK
  <2> QED BY <1>1, <2>1, AgedRow, StutterRefines
<1> QED BY <1>2, <1>3, <1>4

(* The sweep gives up exhausted jobs; the rest of the poll loop stutters. *)
LEMMA LoopRefines ==
  ASSUME IInv, NEW w \in Workers, Loop(w)
  PROVE  [Lifecycle!Next]_(Lifecycle!vars)
<1>1. UNCHANGED finished
  BY DEF Loop, Start, Stop, Crash, SweepExhausted, SweepFails, ClaimNothing, historyVars
<1>2. CASE SweepExhausted(w)
  <2>0. PICK C \in SUBSET Jobs :
          C = {j \in Jobs : Expired(jobs[j]) /\ jobs[j].attempts >= MaxAttempts[j]}
    OBVIOUS
  <2>1. ASSUME NEW j \in C
        PROVE  /\ jobs[j].status = "RUNNING" /\ jobs[j].attempts = MaxAttempts[j]
               /\ \E due \in BOOLEAN : jobs'[j] = Released(jobs[j], "FAILED", due)
    <3>1. jobs[j].status = "RUNNING" BY <2>0 DEF Expired
    <3>2. jobs[j] \in Row /\ jobs[j].attempts \in Nat /\ RowInv(j) BY DEF IInv, TypeOK, Row
    <3>3. MaxAttempts[j] \in Nat BY JobSchedulerAssumption DEF JobSchedulerAssumption
    <3>4. jobs[j].attempts = MaxAttempts[j] BY <2>0, <3>2, <3>3 DEF RowInv
    <3>5. jobs'[j] = Released(jobs[j], "FAILED", jobs[j].due) /\ jobs[j].due \in BOOLEAN
      BY <1>2, <2>0, <3>2 DEF SweepExhausted, Row
    <3> QED BY <3>1, <3>4, <3>5
  <2>2. \A j \in Jobs \ C : jobs'[j] = jobs[j] BY <1>2, <2>0 DEF SweepExhausted
  <2>3. Lifecycle!SetStatus(C, "FAILED") /\ AttemptsBar' = AttemptsBar
    BY <2>1, <2>2, ReleaseRefines DEF IInv, Statuses
  <2>4. Lifecycle!GiveUp(C) BY <1>1, <2>1, <2>3 DEF Lifecycle!GiveUp, AttemptsBar
  <2> QED BY <2>4 DEF Lifecycle!Next
<1>3. CASE UNCHANGED jobs BY <1>1, <1>3, StutterRefines
<1> QED BY <1>2, <1>3 DEF Loop, Start, Stop, Crash, SweepFails, ClaimNothing, tableVars

(* A claim takes its whole batch at once. *)
LEMMA ClaimRefines ==
  ASSUME IInv, NEW w \in Workers, NEW C \in SUBSET Jobs, ClaimBatch(w, C)
  PROVE  Lifecycle!Take(C)
<1>1. ASSUME NEW j \in Jobs
      PROVE  /\ j \in C => /\ jobs'[j].status = "RUNNING"
                           /\ jobs'[j].attempts = jobs[j].attempts + 1
                           /\ jobs[j].status \in {"PENDING", "RUNNING"}
                           /\ jobs[j].attempts < MaxAttempts[j]
             /\ j \notin C => jobs'[j] = jobs[j]
  <2>1. jobs[j] \in Row /\ issued[j] + 1 \in Nat BY DEF IInv, TypeOK
  <2>2. CASE j \in C
    <3>1. jobs'[j] = Claimed(jobs[j], issued[j] + 1) /\ Claimable(j)
      BY <2>2 DEF ClaimBatch
    <3> QED BY <2>1, <2>2, <3>1, ClaimedRow DEF Claimable, Expired
  <2>3. CASE j \notin C BY <2>3 DEF ClaimBatch
  <2> QED BY <2>2, <2>3
<1>2. UNCHANGED finished BY DEF ClaimBatch, historyVars
<1> QED BY <1>1, <1>2 DEF Lifecycle!Take, Lifecycle!SetStatus

(* What a worker does with a claim finishes, settles or retries the job,    *)
(* or, when the claim is superseded, stutters.                              *)
LEMMA HandleRefines ==
  ASSUME IInv, NEW w \in Workers, Handle(w)
  PROVE  [Lifecycle!Next]_(Lifecycle!vars)
<1>1. PICK c \in held[w] :
        \/ Begin(w, c) \/ NoHandler(w, c) \/ HandlerReturns(w, c) \/ HandlerThrows(w, c)
        \/ MarkSucceeded(w, c) \/ MarkFailed(w, c) \/ MarkErrors(w, c)
  BY DEF Handle
<1>2. c.job \in Jobs /\ ClaimInv(c) /\ TypeOK /\ RowInv(c.job) BY DEF IInv, TypeOK, Claim
<1>3. CASE HandlerReturns(w, c)
  <2>1. UNCHANGED jobs /\ finished' = [finished EXCEPT ![c.job] = @ \cup {c.token}]
    BY <1>3 DEF HandlerReturns, tableVars
  <2>2. c.token \in 1..jobs[c.job].attempts BY <1>2 DEF ClaimInv, RowInv
  <2>3. Lifecycle!Finish(c.job, c.token) BY <1>2, <2>1, <2>2 DEF Lifecycle!Finish
  <2> QED BY <1>2, <2>2, <2>3 DEF Lifecycle!Next
<1>4. CASE UNCHANGED <<jobs, finished>> BY <1>4, StutterRefines
<1>5. CASE MarkSucceeded(w, c) /\ InForce(c)
  <2>1. /\ c.token = issued[c.job] /\ jobs[c.job].status = "RUNNING" /\ c.token \in finished[c.job]
        /\ jobs[c.job].attempts = issued[c.job]
    BY <1>2, <1>5, InForceIsLatest DEF ClaimInv, RowInv, MarkSucceeded
  <2>2. UNCHANGED finished BY <1>5 DEF MarkSucceeded, DoneWith, historyVars
  <2>3. \A j \in {c.job} : \E due \in BOOLEAN : jobs'[j] = Released(jobs[j], "SUCCEEDED", due)
    BY <1>2, <1>5 DEF MarkSucceeded, TypeOK, Row
  <2>4. \A j \in Jobs \ {c.job} : jobs'[j] = jobs[j] BY <1>2, <1>5 DEF MarkSucceeded, TypeOK
  <2>5. Lifecycle!SetStatus({c.job}, "SUCCEEDED") /\ AttemptsBar' = AttemptsBar
    BY <1>2, <2>3, <2>4, ReleaseRefines DEF Statuses
  <2>6. Lifecycle!Succeed(c.job) BY <1>2, <2>1, <2>2, <2>5 DEF Lifecycle!Succeed, AttemptsBar
  <2> QED BY <1>2, <2>6 DEF Lifecycle!Next
<1>6. CASE MarkFailed(w, c) /\ InForce(c)
  <2>1. /\ jobs[c.job].status = "RUNNING" /\ c.attempts = jobs[c.job].attempts
        /\ jobs[c.job].attempts \in Nat /\ jobs[c.job].due \in BOOLEAN
        /\ MaxAttempts[c.job] \in Nat
    BY <1>2, <1>6, InForceIsLatest, JobSchedulerAssumption DEF Row, JobSchedulerAssumption
  <2>2. /\ UNCHANGED finished
        /\ jobs' = [jobs EXCEPT ![c.job] = AfterFailure(c)]
    BY <1>6 DEF MarkFailed, DoneWith, historyVars
  <2>3. \A j \in Jobs \ {c.job} : jobs'[j] = jobs[j] BY <1>2, <2>2 DEF TypeOK
  <2>4. CASE c.attempts >= MaxAttempts[c.job]
    <3>1. \A j \in {c.job} : \E due \in BOOLEAN : jobs'[j] = Released(jobs[j], "FAILED", due)
      BY <1>2, <2>1, <2>2, <2>4 DEF AfterFailure, TypeOK
    <3>2. Lifecycle!SetStatus({c.job}, "FAILED") /\ AttemptsBar' = AttemptsBar
      BY <1>2, <2>3, <3>1, ReleaseRefines DEF Statuses
    <3>3. jobs[c.job].attempts = MaxAttempts[c.job] BY <1>2, <2>1, <2>4 DEF RowInv
    <3>4. Lifecycle!GiveUp({c.job})
      BY <1>2, <2>1, <2>2, <3>2, <3>3 DEF Lifecycle!GiveUp, AttemptsBar
    <3>5. {c.job} \in SUBSET Jobs BY <1>2
    <3> QED BY <3>4, <3>5 DEF Lifecycle!Next
  <2>5. CASE ~(c.attempts >= MaxAttempts[c.job])
    <3>1. \A j \in {c.job} : \E due \in BOOLEAN : jobs'[j] = Released(jobs[j], "PENDING", due)
      BY <1>2, <2>2, <2>5 DEF AfterFailure, TypeOK
    <3>2. Lifecycle!SetStatus({c.job}, "PENDING") /\ AttemptsBar' = AttemptsBar
      BY <1>2, <2>3, <3>1, ReleaseRefines DEF Statuses
    <3>3. jobs[c.job].attempts < MaxAttempts[c.job] BY <2>1, <2>5
    <3>4. Lifecycle!Retry(c.job) BY <1>2, <2>1, <2>2, <3>2, <3>3 DEF Lifecycle!Retry, AttemptsBar
    <3> QED BY <1>2, <3>4 DEF Lifecycle!Next
  <2> QED BY <2>4, <2>5
<1> QED BY <1>1, <1>3, <1>4, <1>5, <1>6
     DEF Begin, NoHandler, HandlerThrows, MarkSucceeded, MarkFailed, MarkErrors, DoneWith,
         tableVars, historyVars

(* A step of the scheduler is a step of the lifecycle, or a stutter. *)
LEMMA NextRefines == IInv /\ [Next]_vars => [Lifecycle!Next]_(Lifecycle!vars)
<1> SUFFICES ASSUME IInv, [Next]_vars PROVE [Lifecycle!Next]_(Lifecycle!vars)
  OBVIOUS
<1>1. CASE Table BY <1>1, TableRefines DEF Table
<1>2. ASSUME NEW w \in Workers, Loop(w) PROVE [Lifecycle!Next]_(Lifecycle!vars)
  BY <1>2, LoopRefines
<1>3. ASSUME NEW w \in Workers, ClaimSome(w) PROVE [Lifecycle!Next]_(Lifecycle!vars)
  BY <1>3, ClaimRefines DEF ClaimSome, Lifecycle!Next
<1>4. ASSUME NEW w \in Workers, Handle(w) PROVE [Lifecycle!Next]_(Lifecycle!vars)
  BY <1>4, HandleRefines
<1>5. CASE UNCHANGED vars BY <1>5, StutterRefines DEF vars
<1> QED BY <1>1, <1>2, <1>3, <1>4, <1>5 DEF Next

(* The polling scheduler with its leases, tokens, crashes and stale claims  *)
(* behaves, towards a reader of status and attempts, as a job lifecycle.    *)
THEOREM SchedulerImplementsLifecycle == Spec => ImplementsLifecycle
BY Invariance, InitRefines, NextRefines, PTL DEF Spec, ImplementsLifecycle, Lifecycle!Spec
=============================================================================
