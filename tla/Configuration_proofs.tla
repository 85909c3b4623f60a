------------------------ MODULE Configuration_proofs ------------------------
(***************************************************************************)
(* Proofs about Configuration for any number of processes, requests,       *)
(* scopes and writes.  The inductive invariant says which resolutions may  *)
(* still carry an old value, and that an invalidation under way belongs to *)
(* a write that was made, for the scope it was made for.                   *)
(***************************************************************************)
EXTENDS Configuration, SequenceTheorems, TLAPS

-----------------------------------------------------------------------------
(* The inductive invariant. *)

(* A message tells of a write that was made; the one of the latest GLOBAL   *)
(* write evicts the GLOBAL copy.                                            *)
MessageInv(m) ==
  /\ m.write <= written
  /\ m.write = row[GLOBAL] => m.scope = GLOBAL

MailInv(p) == \A i \in 1..Len(inbox[p]) : MessageInv(inbox[p][i]) /\ p \in up

Resolving == {"look", "find", "found"}

(* Handlers and loads resolve GLOBAL, on behalf of a process that is up;    *)
(* and what was found is the row's value unless a write overlapped.         *)
ActorInv(a) ==
  /\ a \in Handlers \cup Loaders /\ actor[a].stage # "off" => a[1] \in up
  /\ a \in Handlers \cup Loaders /\ actor[a].stage \in Resolving => actor[a].scope = GLOBAL
  /\ a \in Handlers /\ actor[a].stage # "off" =>
       MessageInv([write |-> a[2], scope |-> IF actor[a].stage = "del" THEN actor[a].scope ELSE GLOBAL])
  /\ actor[a].stage = "del" => a \in Handlers
  /\ a \in Loaders /\ actor[a].stage # "off" => a[1] \notin listening
  /\ a \in Handlers /\ actor[a].stage \in {"find", "found"} => a[1] \in listening
  /\ actor[a].stage = "found" /\ actor[a].scope = GLOBAL =>
       /\ actor[a].seen <= row[GLOBAL]
       /\ row[GLOBAL] \notin overlapped => actor[a].seen = row[GLOBAL]

(* The latest GLOBAL write has been evicted by the handler of some process. *)
Evicted ==
  \/ informed # {}
  \/ \E a \in Handlers : a[2] = row[GLOBAL] /\ actor[a].stage \in Resolving

CacheInv ==
  /\ cache[GLOBAL] <= row[GLOBAL] /\ row[GLOBAL] <= written
  /\ row[GLOBAL] \notin overlapped /\ Evicted => cache[GLOBAL] \in {None, row[GLOBAL]}

ViewInv(p) ==
  /\ view[p] <= row[GLOBAL]
  /\ p \notin listening => view[p] = None
  /\ row[GLOBAL] \notin overlapped /\ row[GLOBAL] \in Valid /\ p \in informed \cap listening =>
       view[p] = row[GLOBAL]
  /\ overlapped = {} /\ cache[GLOBAL] # None => view[p] <= cache[GLOBAL]

IInv ==
  /\ TypeOK
  /\ \A m \in unpublished : MessageInv(m)
  /\ \A p \in Processes : MailInv(p)
  /\ \A a \in Actors : ActorInv(a)
  /\ CacheInv
  /\ \A p \in Processes : ViewInv(p)

-----------------------------------------------------------------------------
(* Constants and kinds of actor. *)

(* None is no write, and GLOBAL is a scope. *)
LEMMA Constants ==
  /\ GLOBAL \in Scopes /\ GLOBAL \in Nat /\ None \in 0..MaxWrites /\ None \notin Writes
  /\ Valid \subseteq Writes /\ Writes \subseteq 0..MaxWrites /\ MaxWrites \in Nat
  /\ Scopes \subseteq Nat /\ 1 \in Scopes
BY ConfigurationAssumption DEF GLOBAL, Scopes, None, Writes

(* Handlers, loads and requests are different actors. *)
LEMMA Kinds ==
  ASSUME NEW a \in Actors
  PROVE  /\ a \in Handlers => a[1] \in Processes /\ a[2] \in Writes /\ a = <<a[1], a[2]>>
         /\ a \in Loaders => a[1] \in Processes /\ a[2] = 0 /\ a = <<a[1], 0>>
         /\ a \in Requests => a[1] \in Readers /\ a[1] \notin Processes
         /\ a \in Handlers => a \notin Loaders /\ a \notin Requests
         /\ a \in Loaders => a \notin Handlers /\ a \notin Requests
         /\ a \in Requests => a \notin Handlers /\ a \notin Loaders
<1>1. a \in Handlers => a[1] \in Processes /\ a[2] \in Writes /\ a = <<a[1], a[2]>> BY DEF Handlers
<1>2. a \in Loaders => a[1] \in Processes /\ a[2] = 0 /\ a = <<a[1], 0>> BY DEF Loaders
<1>3. a \in Requests => a[1] \in Readers BY DEF Requests
<1>4. 0 \notin Writes BY DEF Writes
<1> QED BY <1>1, <1>2, <1>3, <1>4, ConfigurationAssumption

(* The initial state satisfies the invariant. *)
LEMMA InitInv == Init => IInv
<1> SUFFICES ASSUME Init PROVE IInv OBVIOUS
<1>1. Off \in Actor BY Constants DEF Off, Actor
<1>2. TypeOK
  BY <1>1, Constants, ConfigurationAssumption DEF Init, TypeOK
<1>3. \A p \in Processes : Len(inbox[p]) = 0 BY DEF Init
<1>4. \A a \in Actors : actor[a].stage = "off" BY DEF Init, Off
<1>5. ~Evicted BY <1>4, Kinds DEF Init, Evicted, Resolving, Handlers, Actors
<1>6. \A a \in Actors : ActorInv(a) BY <1>4 DEF ActorInv, Resolving
<1>7. CacheInv BY <1>5, Constants DEF CacheInv, Init, None
<1>8. \A p \in Processes : ViewInv(p)
  <2>1. row[GLOBAL] = 0 /\ cache[GLOBAL] = 0 BY Constants DEF Init, None
  <2>2. \A p \in Processes : view[p] = 0 BY DEF Init, None
  <2>3. 0 <= 0 /\ informed = {} BY DEF Init
  <2> QED BY <2>1, <2>2, <2>3 DEF ViewInv, None
<1>9. \A p \in Processes : MailInv(p) BY <1>3 DEF MailInv
<1>10. unpublished = {} BY DEF Init
<1> QED BY <1>2, <1>6, <1>7, <1>8, <1>9, <1>10 DEF IInv

-----------------------------------------------------------------------------
(* Writes and messages. *)

(* A write keeps the invariant: what is under way is of earlier writes.     *)
LEMMA UpsertStep ==
  ASSUME IInv, NEW s \in Scopes, Upsert(s)
  PROVE  IInv'
<1> DEFINE new == written + 1
<1>1. /\ written < MaxWrites /\ written' = new /\ row' = [row EXCEPT ![s] = new]
      /\ new \in Writes /\ row'[s] = new
      /\ unpublished' = unpublished \cup {[write |-> new, scope |-> s]}
      /\ UNCHANGED <<cache, up, inbox, actor, listening, view, faults>>
  BY Constants DEF Upsert, IInv, TypeOK, Writes
<1>2. TypeOK'
  <2>1. row' \in [Scopes -> 0..MaxWrites] /\ written' \in 0..MaxWrites
    BY <1>1, Constants DEF IInv, TypeOK
  <2>2. unpublished' \subseteq Message BY <1>1 DEF IInv, TypeOK, Message
  <2>3. informed' \subseteq up' /\ overlapped' \subseteq Writes BY <1>1 DEF Upsert, IInv, TypeOK
  <2> QED BY <1>1, <2>1, <2>2, <2>3 DEF IInv, TypeOK
<1>3. row[GLOBAL] \in 0..MaxWrites /\ cache[GLOBAL] \in 0..MaxWrites /\ row[GLOBAL] < new
      /\ written \in 0..MaxWrites
  BY Constants DEF IInv, TypeOK, CacheInv
<1>4. row'[GLOBAL] = (IF s = GLOBAL THEN new ELSE row[GLOBAL])
  BY <1>1, Constants DEF IInv, TypeOK
<1>5. \A m : m.write \in Nat /\ MessageInv(m) => MessageInv(m)'
  BY <1>1, <1>3, <1>4 DEF MessageInv
<1>6. \A m \in unpublished' : MessageInv(m)'
  <2> SUFFICES ASSUME NEW m \in unpublished' PROVE MessageInv(m)' OBVIOUS
  <2>1. CASE m \in unpublished
    <3>1. m.write \in Nat /\ MessageInv(m) BY <2>1, Constants DEF IInv, TypeOK, Message, Writes
    <3> QED BY <3>1, <1>5
  <2>2. CASE m = [write |-> new, scope |-> s]
    BY <2>2, <1>1, <1>3, <1>4 DEF MessageInv
  <2> QED BY <1>1, <2>1, <2>2
<1>7. \A p \in Processes : MailInv(p)'
  <2> SUFFICES ASSUME NEW p \in Processes, NEW i \in 1..Len(inbox[p])
               PROVE  MessageInv(inbox[p][i])' /\ p \in up'
    BY <1>1 DEF MailInv
  <2>1. inbox[p][i] \in Message BY DEF IInv, TypeOK
  <2>2. inbox[p][i].write \in Nat /\ MessageInv(inbox[p][i]) /\ p \in up
    BY <2>1, Constants DEF IInv, MailInv, Message, Writes
  <2> QED BY <2>2, <1>1, <1>3, <1>4 DEF MessageInv
<1>8. row'[GLOBAL] \notin overlapped' => row'[GLOBAL] = row[GLOBAL] \/ ~FillUnderWay
  BY <1>1, <1>4 DEF Upsert
<1>9. row'[GLOBAL] = row[GLOBAL] => (row[GLOBAL] \notin overlapped' => row[GLOBAL] \notin overlapped)
  BY DEF Upsert
<1>10. \A a \in Actors : ActorInv(a)'
  <2> SUFFICES ASSUME NEW a \in Actors PROVE ActorInv(a)' OBVIOUS
  <2>1. ActorInv(a) BY DEF IInv
  <2>2. a \in Handlers /\ actor[a].stage # "off" =>
          MessageInv([write |-> a[2], scope |-> IF actor[a].stage = "del" THEN actor[a].scope ELSE GLOBAL])'
    <3>1. a \in Handlers => a[2] \in Nat BY Kinds DEF Writes
    <3> QED BY <2>1, <3>1, <1>1, <1>3, <1>4 DEF ActorInv, MessageInv
  <2>3. actor[a].stage = "found" /\ actor[a].scope = GLOBAL => FillUnderWay BY DEF FillUnderWay
  <2>4. actor[a].stage = "found" /\ actor[a].scope = GLOBAL =>
          /\ actor[a].seen <= row'[GLOBAL]
          /\ row'[GLOBAL] \notin overlapped' => actor[a].seen = row'[GLOBAL]
    <3>1. actor[a].seen \in 0..MaxWrites BY DEF IInv, TypeOK, Actor
    <3> QED BY <2>1, <2>3, <3>1, <1>3, <1>4, <1>8, <1>9 DEF ActorInv
  <2> QED BY <2>1, <2>2, <2>4, <1>1 DEF ActorInv
<1>11. Evicted' => Evicted /\ row'[GLOBAL] = row[GLOBAL]
  <2> SUFFICES ASSUME Evicted' PROVE Evicted /\ row'[GLOBAL] = row[GLOBAL] OBVIOUS
  <2>1. CASE informed' # {} BY <2>1, <1>4 DEF Upsert, Evicted
  <2>2. CASE \E a \in Handlers : a[2] = row'[GLOBAL] /\ actor'[a].stage \in Resolving
    <3>1. PICK a \in Handlers : a[2] = row'[GLOBAL] /\ actor[a].stage \in Resolving BY <2>2, <1>1
    <3>2. a \in Actors BY DEF Actors
    <3>3. a[2] <= written BY <3>1, <3>2 DEF IInv, ActorInv, Resolving, MessageInv
    <3>4. row'[GLOBAL] = row[GLOBAL] BY <3>1, <3>3, <1>3, <1>4
    <3> QED BY <3>1, <3>4 DEF Evicted
  <2> QED BY <2>1, <2>2 DEF Evicted
<1>12. CacheInv' BY <1>1, <1>3, <1>4, <1>9, <1>11 DEF IInv, CacheInv
<1>13. \A p \in Processes : ViewInv(p)'
  <2> SUFFICES ASSUME NEW p \in Processes PROVE ViewInv(p)' OBVIOUS
  <2>1. view[p] \in 0..MaxWrites BY DEF IInv, TypeOK
  <2>2. view[p] <= row'[GLOBAL] BY <2>1, <1>3, <1>4 DEF IInv, ViewInv
  <2>3. p \in informed' => p \in informed /\ row'[GLOBAL] = row[GLOBAL] BY <1>4 DEF Upsert
  <2>4. overlapped' = {} => overlapped = {} BY DEF Upsert
  <2> QED BY <1>1, <1>9, <2>2, <2>3, <2>4 DEF IInv, ViewInv
<1> QED BY <1>2, <1>6, <1>7, <1>10, <1>12, <1>13 DEF IInv

(* Sending a message appends it to inboxes of processes that are up.        *)
LEMMA SendStep ==
  ASSUME IInv, NEW m \in unpublished, NEW P \in SUBSET up, Send(m, P), faults' \in 0..MaxFaults
  PROVE  IInv'
<1>1. m \in Message /\ MessageInv(m) BY DEF IInv, TypeOK
<1>2. /\ UNCHANGED <<row, cache, written, overlapped, up, actor, listening, view, informed>>
      /\ unpublished' \subseteq unpublished
      /\ inbox' = [p \in Processes |-> IF p \in P THEN Append(inbox[p], m) ELSE inbox[p]]
  BY DEF Send, consumerVars
<1>3. \A p \in Processes : inbox[p] \in Seq(Message) /\ Append(inbox[p], m) \in Seq(Message)
  BY <1>1 DEF IInv, TypeOK
<1>4. TypeOK'
  <2>1. inbox' \in [Processes -> Seq(Message)] BY <1>2, <1>3
  <2> QED BY <1>2, <2>1 DEF IInv, TypeOK
<1>5. \A n \in unpublished' : MessageInv(n)' BY <1>2 DEF IInv, MessageInv
<1>6. \A p \in Processes : MailInv(p)'
  <2> SUFFICES ASSUME NEW p \in Processes, NEW i \in 1..Len(inbox'[p])
               PROVE  MessageInv(inbox[p][i])' /\ p \in up'
    BY DEF MailInv
  <2>1. CASE p \notin P BY <2>1, <1>2 DEF IInv, MailInv, MessageInv
  <2>2. CASE p \in P
    <3>1. inbox'[p] = Append(inbox[p], m) BY <2>2, <1>2
    <3>2. CASE i \in 1..Len(inbox[p])
      <4>1. inbox'[p][i] = inbox[p][i] BY <3>1, <3>2, <1>3
      <4> QED BY <4>1, <3>2, <1>2 DEF IInv, MailInv, MessageInv
    <3>3. CASE i = Len(inbox[p]) + 1
      <4>1. inbox'[p][i] = m BY <3>1, <3>3, <1>3
      <4> QED BY <4>1, <1>1, <1>2, <2>2 DEF MessageInv
    <3> QED BY <3>1, <3>2, <3>3, <1>3
  <2> QED BY <2>1, <2>2
<1>7. \A a \in Actors : ActorInv(a)' BY <1>2 DEF IInv, ActorInv, MessageInv
<1>8. CacheInv' BY <1>2 DEF IInv, CacheInv, Evicted
<1>9. \A p \in Processes : ViewInv(p)' BY <1>2 DEF IInv, ViewInv
<1> QED BY <1>4, <1>5, <1>6, <1>7, <1>8, <1>9 DEF IInv

-----------------------------------------------------------------------------
(* Actors. *)

(* What holds of all steps that change neither rows nor messages.           *)
LEMMA QuietStep ==
  ASSUME IInv, UNCHANGED <<rowVars, inbox>>, up \subseteq up'
  PROVE  /\ \A m \in unpublished' : MessageInv(m)'
         /\ \A p \in Processes : MailInv(p)'
         /\ \A m : MessageInv(m) => MessageInv(m)'
<1>1. UNCHANGED <<row, written, unpublished, overlapped, inbox>> BY DEF rowVars
<1>2. \A m : MessageInv(m) => MessageInv(m)' BY <1>1 DEF MessageInv
<1>3. \A m \in unpublished' : MessageInv(m)' BY <1>1, <1>2 DEF IInv
<1>4. \A p \in Processes : MailInv(p)' BY <1>1 DEF IInv, MailInv, MessageInv
<1> QED BY <1>2, <1>3, <1>4

(* A resolution that ends gives its consumer no outdated value, unless a    *)
(* write overlapped, and no value older than the one in use.                *)
LEMMA GotStep ==
  ASSUME IInv, NEW a \in Actors, NEW v \in 0..MaxWrites,
         Got(a, v), actor[a].stage \in Resolving, a \in Handlers => a[1] \in listening,
         UNCHANGED <<rowVars, up, inbox, faults>>,
         cache' \in [Scopes -> 0..MaxWrites],
         cache'[GLOBAL] <= row[GLOBAL],
         row[GLOBAL] \notin overlapped /\ Evicted => cache'[GLOBAL] \in {None, row[GLOBAL]},
         overlapped = {} /\ cache'[GLOBAL] # None =>
           /\ a \notin Requests => v <= cache'[GLOBAL]
           /\ \A p \in Processes : view[p] <= cache'[GLOBAL],
         a \notin Requests => v <= row[GLOBAL],
         a \notin Requests /\ row[GLOBAL] \notin overlapped /\ row[GLOBAL] # None /\ Evicted =>
           v = row[GLOBAL]
  PROVE  IInv'
<1> DEFINE p == a[1]
<1>1. UNCHANGED <<row, written, unpublished, overlapped, up, inbox, faults>> BY DEF rowVars
<1>2. actor' = [actor EXCEPT ![a] = Off] /\ Off \in Actor /\ Off.stage = "off"
  BY Constants DEF Got, Becomes, Off, Actor
<1>3. \A b \in Actors : actor'[b] = (IF b = a THEN Off ELSE actor[b])
  BY <1>2 DEF IInv, TypeOK
<1>4. a \notin Requests => p \in Processes /\ p \in up
  BY Kinds DEF IInv, ActorInv, Resolving, Actors
<1>5. /\ informed' = IF a \in Handlers /\ a[2] = row[GLOBAL] THEN informed \cup {p} ELSE informed
      /\ a \in Handlers /\ a[2] = row[GLOBAL] => Evicted
  BY DEF Got, Handled, Evicted
<1>6. listening' \subseteq up /\ informed' \subseteq up
  BY <1>4, <1>5, Kinds DEF Got, IInv, TypeOK
<1>7. \A q \in Processes : q # p \/ a \in Requests =>
        view'[q] = view[q] /\ (q \in listening' <=> q \in listening) /\ (q \in informed' <=> q \in informed)
  BY <1>5, Kinds DEF Got, Adopt, IInv, TypeOK
<1>8. a \notin Requests => view'[p] \in {v, view[p], None} /\ view'[p] \in 0..MaxWrites /\ (v \in Valid => view'[p] = v)
  BY <1>4, Kinds, Constants DEF Got, Adopt, IInv, TypeOK
<1>9. view' \in [Processes -> 0..MaxWrites]
  BY <1>4, Constants DEF Got, Adopt, IInv, TypeOK
<1>10. TypeOK' BY <1>1, <1>2, <1>6, <1>9 DEF IInv, TypeOK
<1>11. Evicted' => Evicted
  <2>1. informed' # {} => Evicted BY <1>5 DEF Evicted
  <2>2. ASSUME NEW b \in Handlers, b[2] = row'[GLOBAL], actor'[b].stage \in Resolving PROVE Evicted
    BY <2>2, <1>1, <1>2, <1>3 DEF Evicted, Resolving, Actors
  <2> QED BY <2>1, <2>2 DEF Evicted
<1>12. \A b \in Actors : ActorInv(b)'
  <2> SUFFICES ASSUME NEW b \in Actors PROVE ActorInv(b)' OBVIOUS
  <2>0. listening \subseteq listening' BY DEF Got
  <2>1. CASE b = a BY <2>1, <1>2, <1>3 DEF ActorInv, Resolving
  <2>2. CASE b # a
    <3>1. ActorInv(b) /\ actor'[b] = actor[b] BY <2>2, <1>3 DEF IInv
    <3>2. b \in Loaders /\ a \in Loaders => b[1] # a[1] BY <2>2, Kinds
    <3>3. b \in Loaders /\ b[1] \in listening' => b[1] \in listening
      BY <3>2, Kinds DEF Got
    <3> QED BY <2>0, <3>1, <3>3, <1>1 DEF ActorInv, MessageInv
  <2> QED BY <2>1, <2>2
<1>13. CacheInv' BY <1>1, <1>11 DEF IInv, CacheInv
<1>14. \A q \in Processes : ViewInv(q)'
  <2> SUFFICES ASSUME NEW q \in Processes PROVE ViewInv(q)' OBVIOUS
  <2>1. /\ ViewInv(q) /\ view[q] \in 0..MaxWrites
        /\ cache'[GLOBAL] \in 0..MaxWrites /\ row[GLOBAL] \in 0..MaxWrites
    BY Constants DEF IInv, TypeOK
  <2>2. CASE q # p \/ a \in Requests
    BY <2>1, <2>2, <1>1, <1>7 DEF ViewInv
  <2>3. CASE q = p /\ a \notin Requests
    <3>1. view'[q] <= row[GLOBAL] BY <2>1, <2>3, <1>8, Constants DEF ViewInv, None
    <3>2. q \in listening' BY <2>3, Kinds DEF Got, Actors
    <3>3. informed' # {} => Evicted BY <1>5 DEF Evicted
    <3>4. row[GLOBAL] \notin overlapped /\ row[GLOBAL] \in Valid /\ q \in informed' => view'[q] = row[GLOBAL]
      BY <2>3, <3>3, <1>8, Constants
    <3>5. overlapped = {} /\ cache'[GLOBAL] # None => view'[q] <= cache'[GLOBAL]
      BY <2>1, <2>3, <1>8, Constants DEF None
    <3> QED BY <3>1, <3>2, <3>4, <3>5, <1>1 DEF ViewInv
  <2> QED BY <2>2, <2>3
<1> QED BY <1>1, <1>10, <1>11, <1>12, <1>13, <1>14, QuietStep DEF IInv

(* A step that moves one actor on and leaves the consumers alone.           *)
LEMMA MoveStep ==
  ASSUME IInv, NEW a \in Actors, NEW st \in Actor, Becomes(a, st),
         UNCHANGED <<rowVars, consumerVars, faults>>,
         up \subseteq up', up' \subseteq Processes,
         inbox' \in [Processes -> Seq(Message)], \A p \in Processes : MailInv(p)',
         cache' \in [Scopes -> 0..MaxWrites], cache'[GLOBAL] \in {None, cache[GLOBAL]},
         ActorInv(a)',
         a \in Handlers /\ a[2] = row[GLOBAL] /\ st.stage \in Resolving =>
           Evicted \/ cache'[GLOBAL] = None
  PROVE  IInv'
<1>1. UNCHANGED <<row, written, unpublished, overlapped, listening, view, informed, faults>>
  BY DEF rowVars, consumerVars
<1>2. \A b \in Actors : actor'[b] = (IF b = a THEN st ELSE actor[b])
  BY DEF Becomes, IInv, TypeOK
<1>3. TypeOK' BY <1>1 DEF Becomes, IInv, TypeOK
<1>4. \A m \in unpublished' : MessageInv(m)' BY <1>1 DEF IInv, MessageInv
<1>5. \A b \in Actors : ActorInv(b)'
  <2> SUFFICES ASSUME NEW b \in Actors, b # a PROVE ActorInv(b)' OBVIOUS
  <2> QED BY <1>1, <1>2 DEF IInv, ActorInv, MessageInv
<1>6. row[GLOBAL] \in 0..MaxWrites /\ cache[GLOBAL] \in 0..MaxWrites BY Constants DEF IInv, TypeOK
<1>7. Evicted' => Evicted \/ cache'[GLOBAL] = None
  <2>1. informed' # {} => Evicted BY <1>1 DEF Evicted
  <2>2. ASSUME NEW b \in Handlers, b[2] = row'[GLOBAL], actor'[b].stage \in Resolving
        PROVE  Evicted \/ cache'[GLOBAL] = None
    <3>1. b \in Actors BY DEF Actors
    <3> QED BY <2>2, <3>1, <1>1, <1>2 DEF Evicted
  <2> QED BY <2>1, <2>2 DEF Evicted
<1>8. CacheInv' BY <1>1, <1>6, <1>7 DEF IInv, CacheInv, None
<1>9. \A p \in Processes : ViewInv(p)' BY <1>1 DEF IInv, ViewInv
<1> QED BY <1>3, <1>4, <1>5, <1>8, <1>9 DEF IInv

(* Facts about an actor that resolves, for the steps below.                 *)
LEMMA ActorFacts ==
  ASSUME IInv, NEW a \in Actors
  PROVE  /\ ActorInv(a)
         /\ actor[a] \in Actor /\ actor[a].scope \in Scopes /\ actor[a].seen \in 0..MaxWrites
         /\ a \notin Requests => a \in Handlers \cup Loaders
         /\ row[GLOBAL] \in 0..MaxWrites /\ cache[GLOBAL] \in 0..MaxWrites
         /\ row[actor[a].scope] \in 0..MaxWrites /\ cache[actor[a].scope] \in 0..MaxWrites
BY Constants DEF IInv, TypeOK, Actor, Actors

(* A cached copy ends a resolution.                                         *)
LEMMA CacheHitStep ==
  ASSUME IInv, NEW a \in Actors, CacheHit(a)
  PROVE  IInv'
<1> DEFINE v == cache[actor[a].scope]
<1>1. v \in 0..MaxWrites BY ActorFacts
<1>2. Got(a, v) /\ actor[a].stage \in Resolving /\ (a \in Handlers => a[1] \in listening)
  BY DEF CacheHit, Looks, Resolving
<1>3. UNCHANGED <<rowVars, cache, up, inbox, faults>> BY DEF CacheHit
<1>4. a \notin Requests => v = cache[GLOBAL] /\ v # None
  BY ActorFacts, <1>2 DEF CacheHit, ActorInv
<1>5. cache' \in [Scopes -> 0..MaxWrites] /\ cache'[GLOBAL] <= row[GLOBAL]
  BY <1>3 DEF IInv, TypeOK, CacheInv
<1>6. row[GLOBAL] \notin overlapped /\ Evicted => cache'[GLOBAL] \in {None, row[GLOBAL]}
  BY <1>3 DEF IInv, CacheInv
<1>7. overlapped = {} /\ cache'[GLOBAL] # None =>
        /\ a \notin Requests => v <= cache'[GLOBAL]
        /\ \A p \in Processes : view[p] <= cache'[GLOBAL]
  BY <1>1, <1>3, <1>4 DEF IInv, ViewInv
<1>8. a \notin Requests => v <= row[GLOBAL] BY <1>3, <1>4, <1>5
<1>9. a \notin Requests /\ row[GLOBAL] \notin overlapped /\ row[GLOBAL] # None /\ Evicted => v = row[GLOBAL]
  BY <1>3, <1>4, <1>6
<1> HIDE DEF v
<1> QED BY <1>1, <1>2, <1>3, <1>5, <1>6, <1>7, <1>8, <1>9, GotStep

(* The row's value is cached and ends the resolution.                       *)
LEMMA FillStep ==
  ASSUME IInv, NEW a \in Actors, Fill(a)
  PROVE  IInv'
<1> DEFINE v == actor[a].seen
<1>1. v \in 0..MaxWrites /\ v # None BY ActorFacts DEF Fill
<1>2. Got(a, v) /\ actor[a].stage = "found" /\ actor[a].stage \in Resolving
      /\ (a \in Handlers => a[1] \in listening)
  BY ActorFacts DEF Fill, Resolving, ActorInv
<1>3. UNCHANGED <<rowVars, up, inbox, faults>> BY DEF Fill
<1>4. cache' = [cache EXCEPT ![actor[a].scope] = v] BY DEF Fill
<1>5. cache' \in [Scopes -> 0..MaxWrites] BY <1>1, <1>4 DEF IInv, TypeOK
<1>6. cache'[GLOBAL] = IF actor[a].scope = GLOBAL THEN v ELSE cache[GLOBAL]
  BY <1>4, Constants DEF IInv, TypeOK
<1>7. actor[a].scope = GLOBAL => v <= row[GLOBAL] /\ (row[GLOBAL] \notin overlapped => v = row[GLOBAL])
  BY <1>2, ActorFacts DEF ActorInv
<1>8. a \notin Requests => actor[a].scope = GLOBAL BY <1>2, ActorFacts DEF ActorInv
<1>9. cache'[GLOBAL] <= row[GLOBAL] BY <1>6, <1>7 DEF IInv, CacheInv
<1>10. row[GLOBAL] \notin overlapped /\ Evicted => cache'[GLOBAL] \in {None, row[GLOBAL]}
  BY <1>6, <1>7 DEF IInv, CacheInv
<1>11. overlapped = {} /\ cache'[GLOBAL] # None =>
         /\ a \notin Requests => v <= cache'[GLOBAL]
         /\ \A p \in Processes : view[p] <= cache'[GLOBAL]
  BY <1>1, <1>6, <1>7, <1>8 DEF IInv, ViewInv
<1>12. a \notin Requests => v <= row[GLOBAL] BY <1>7, <1>8
<1>13. a \notin Requests /\ row[GLOBAL] \notin overlapped => v = row[GLOBAL] BY <1>7, <1>8
<1> HIDE DEF v
<1> QED BY <1>1, <1>2, <1>3, <1>5, <1>9, <1>10, <1>11, <1>12, <1>13, GotStep

(* No row: the next scope, or the end of the resolution.                    *)
LEMMA NotFoundStep ==
  ASSUME IInv, NEW a \in Actors, NotFound(a)
  PROVE  IInv'
<1>1. UNCHANGED <<rowVars, cache, up, inbox, faults>> /\ actor[a].stage = "found" /\ actor[a].seen = None
  BY DEF NotFound
<1>2. CASE actor[a].scope # GLOBAL
  <2> DEFINE st == At("look", actor[a].scope + 1, None)
  <2>1. Becomes(a, st) /\ UNCHANGED consumerVars BY <1>2 DEF NotFound
  <2>2. a \in Requests /\ a \notin Handlers /\ a \notin Loaders
    BY <1>1, <1>2, ActorFacts, Kinds DEF ActorInv, Resolving
  <2>3. actor[a].scope + 1 \in Scopes BY <1>2, ActorFacts, ConfigurationAssumption DEF Scopes, GLOBAL
  <2>4. st \in Actor /\ st.stage = "look" BY <2>3, Constants DEF Actor, At
  <2>5. actor'[a] = st BY <2>1 DEF Becomes, IInv, TypeOK
  <2>6. ActorInv(a)' BY <2>2, <2>4, <2>5 DEF ActorInv
  <2>7. \A p \in Processes : MailInv(p)' BY <1>1, QuietStep
  <2> HIDE DEF st
  <2> QED BY <1>1, <2>1, <2>2, <2>4, <2>6, <2>7, MoveStep DEF IInv, TypeOK
<1>3. CASE actor[a].scope = GLOBAL
  <2>1. Got(a, None) /\ actor[a].stage \in Resolving BY <1>1, <1>3 DEF NotFound, Resolving
  <2>2. a \in Handlers => a[1] \in listening BY <1>1, ActorFacts DEF ActorInv
  <2>3. row[GLOBAL] \notin overlapped => row[GLOBAL] = None BY <1>1, <1>3, ActorFacts DEF ActorInv
  <2>4. cache' \in [Scopes -> 0..MaxWrites] /\ cache'[GLOBAL] <= row[GLOBAL]
    BY <1>1 DEF IInv, TypeOK, CacheInv
  <2>5. row[GLOBAL] \notin overlapped /\ Evicted => cache'[GLOBAL] \in {None, row[GLOBAL]}
    BY <1>1 DEF IInv, CacheInv
  <2>6. overlapped = {} /\ cache'[GLOBAL] # None =>
          /\ a \notin Requests => None <= cache'[GLOBAL]
          /\ \A p \in Processes : view[p] <= cache'[GLOBAL]
    BY <1>1, ActorFacts DEF IInv, ViewInv, None
  <2>7. a \notin Requests => None <= row[GLOBAL] BY ActorFacts DEF None
  <2> QED BY <1>1, <2>1, <2>2, <2>3, <2>4, <2>5, <2>6, <2>7, Constants, GotStep
<1> QED BY <1>2, <1>3

-----------------------------------------------------------------------------
(* The other steps. *)

(* A cache miss and a look at the row: what is found is the current value.  *)
LEMMA MissAndFindStep ==
  ASSUME IInv, NEW a \in Actors, CacheMiss(a) \/ Find(a)
  PROVE  IInv'
<1>1. UNCHANGED <<rowVars, cache, up, inbox, consumerVars, faults>> BY DEF CacheMiss, Find
<1>2. UNCHANGED <<row, overlapped, written, up, listening>> BY <1>1 DEF rowVars, consumerVars
<1>3. \A p \in Processes : MailInv(p)' BY <1>1, QuietStep
<1>4. row[GLOBAL] \in Nat BY Constants DEF IInv, TypeOK
<1>5. CASE CacheMiss(a)
  <2> DEFINE st == At("find", actor[a].scope, None)
  <2>1. st \in Actor /\ st.stage = "find" /\ st.scope = actor[a].scope
    BY ActorFacts, Constants DEF Actor, At
  <2>2. Becomes(a, st) /\ actor[a].stage = "look" /\ (a \in Handlers => a[1] \in listening)
    BY <1>5 DEF CacheMiss, Looks
  <2>3. actor'[a] = st BY <2>2 DEF Becomes, IInv, TypeOK
  <2>4. ActorInv(a)'
    BY <1>2, <2>1, <2>2, <2>3, ActorFacts DEF ActorInv, Resolving, MessageInv
  <2>5. a \in Handlers /\ a[2] = row[GLOBAL] => Evicted BY <2>2 DEF Evicted, Resolving
  <2> HIDE DEF st
  <2> QED BY <1>1, <1>3, <2>1, <2>2, <2>4, <2>5, MoveStep DEF IInv, TypeOK
<1>6. CASE Find(a)
  <2> DEFINE st == At("found", actor[a].scope, row[actor[a].scope])
  <2>1. st \in Actor /\ st.stage = "found" /\ st.scope = actor[a].scope /\ st.seen = row[actor[a].scope]
    BY ActorFacts, Constants DEF Actor, At
  <2>2. Becomes(a, st) /\ actor[a].stage = "find" BY <1>6 DEF Find
  <2>3. actor'[a] = st BY <2>2 DEF Becomes, IInv, TypeOK
  <2>4. ActorInv(a)'
    BY <1>2, <1>4, <2>1, <2>2, <2>3, ActorFacts DEF ActorInv, Resolving, MessageInv
  <2>5. a \in Handlers /\ a[2] = row[GLOBAL] => Evicted BY <2>2 DEF Evicted, Resolving
  <2> HIDE DEF st
  <2> QED BY <1>1, <1>3, <2>1, <2>2, <2>4, <2>5, MoveStep DEF IInv, TypeOK
<1> QED BY <1>5, <1>6

(* Requests carry nothing but what they look up.                            *)
LEMMA RequestStep ==
  ASSUME IInv, NEW r \in Requests, Request(r) \/ RequestFails(r)
  PROVE  IInv'
<1>1. UNCHANGED <<rowVars, cache, up, inbox, consumerVars, faults>> BY DEF Request, RequestFails
<1>2. r \in Actors BY DEF Actors
<1>3. r \notin Handlers /\ r \notin Loaders BY <1>2, Kinds
<1>4. \A p \in Processes : MailInv(p)' BY <1>1, QuietStep
<1>5. PICK st \in Actor : Becomes(r, st) /\ st.stage \in {"off", "look"}
  BY Constants DEF Request, RequestFails, Actor, At, Off
<1>6. actor'[r] = st BY <1>2, <1>5 DEF Becomes, IInv, TypeOK
<1>7. ActorInv(r)' BY <1>3, <1>5, <1>6 DEF ActorInv
<1> QED BY <1>1, <1>2, <1>3, <1>4, <1>5, <1>7, MoveStep DEF IInv, TypeOK

(* A process that starts has no consumer yet.                               *)
LEMMA StartStep ==
  ASSUME IInv, NEW p \in Processes, Start(p)
  PROVE  IInv'
<1> DEFINE a == Loader(p)
           st == At("look", GLOBAL, None)
<1>1. UNCHANGED <<rowVars, cache, inbox, consumerVars, faults>> /\ up' = up \cup {p} /\ p \notin up
  BY DEF Start
<1>2. a \in Actors /\ a \in Loaders /\ a[1] = p BY DEF Loader, Loaders, Actors
<1>3. a \notin Handlers /\ a \notin Requests BY <1>2, Kinds
<1>4. up \subseteq up' /\ up' \subseteq Processes BY <1>1 DEF IInv, TypeOK
<1>5. \A q \in Processes : MailInv(q)' BY <1>1, <1>4, QuietStep
<1>6. st \in Actor /\ st.stage = "look" /\ st.scope = GLOBAL BY Constants DEF Actor, At
<1>7. Becomes(a, st) BY DEF Start
<1>8. actor'[a] = st BY <1>2, <1>7 DEF Becomes, IInv, TypeOK
<1>9. p \notin listening' BY <1>1 DEF IInv, TypeOK, consumerVars
<1>10. ActorInv(a)' BY <1>1, <1>2, <1>3, <1>6, <1>8, <1>9 DEF ActorInv
<1> HIDE DEF a, st
<1> QED BY <1>1, <1>2, <1>3, <1>4, <1>5, <1>6, <1>7, <1>10, MoveStep DEF IInv, TypeOK

(* A message becomes a handler of the same write.                           *)
LEMMA DeliverStep ==
  ASSUME IInv, NEW p \in Processes, Deliver(p)
  PROVE  IInv'
<1>1. /\ UNCHANGED <<rowVars, cache, up, consumerVars, faults>>
      /\ inbox[p] # <<>> /\ inbox' = [inbox EXCEPT ![p] = Tail(@)]
  BY DEF Deliver
<1>2. PICK m : m = Head(inbox[p]) /\ Becomes(<<p, m.write>>, At("del", m.scope, None))
  BY DEF Deliver
<1>3. inbox[p] \in Seq(Message) /\ inbox[p] # <<>> BY <1>1 DEF IInv, TypeOK
<1>4. m = inbox[p][1] /\ 1 \in 1..Len(inbox[p]) /\ m \in Message BY <1>2, <1>3
<1>5. MessageInv(m) /\ p \in up BY <1>4 DEF IInv, MailInv
<1> DEFINE a == <<p, m.write>>
           st == At("del", m.scope, None)
<1>6. a \in Handlers /\ a \in Actors /\ a[1] = p /\ a[2] = m.write BY <1>4 DEF Handlers, Actors, Message
<1>7. a \notin Loaders BY <1>6, Kinds
<1>8. st \in Actor /\ st.stage = "del" /\ st.scope = m.scope BY <1>4, Constants DEF Actor, At, Message
<1>9. actor'[a] = st BY <1>2, <1>6 DEF Becomes, IInv, TypeOK
<1>10. m = [write |-> m.write, scope |-> m.scope] BY <1>4 DEF Message
<1>11. UNCHANGED <<row, written>> BY <1>1 DEF rowVars
<1>12. ActorInv(a)'
  BY <1>1, <1>5, <1>6, <1>7, <1>8, <1>9, <1>11 DEF ActorInv, Resolving, MessageInv
<1>13. inbox' \in [Processes -> Seq(Message)]
  <2>1. Tail(inbox[p]) \in Seq(Message) BY <1>3
  <2> QED BY <1>1, <2>1 DEF IInv, TypeOK
<1>14. \A q \in Processes : MailInv(q)'
  <2> SUFFICES ASSUME NEW q \in Processes, NEW i \in 1..Len(inbox'[q])
               PROVE  MessageInv(inbox[q][i])' /\ q \in up'
    BY DEF MailInv
  <2>1. CASE q # p
    <3>1. inbox'[q] = inbox[q] BY <1>1, <2>1 DEF IInv, TypeOK
    <3> QED BY <3>1, <1>1, <1>11 DEF IInv, MailInv, MessageInv
  <2>2. CASE q = p
    <3>1. inbox'[p] = Tail(inbox[p]) BY <1>1 DEF IInv, TypeOK
    <3>2. i + 1 \in 1..Len(inbox[p]) /\ inbox'[p][i] = inbox[p][i + 1] BY <2>2, <3>1, <1>3
    <3> QED BY <2>2, <3>2, <1>1, <1>5, <1>11 DEF IInv, MailInv, MessageInv
  <2> QED BY <2>1, <2>2
<1>15. st.stage \notin Resolving BY <1>8 DEF Resolving
<1>16. Becomes(a, st) BY <1>2
<1> HIDE DEF a, st
<1> QED BY <1>1, <1>6, <1>8, <1>12, <1>13, <1>14, <1>15, <1>16, MoveStep DEF IInv, TypeOK

(* A handler evicts before it resolves.                                     *)
LEMMA EvictStep ==
  ASSUME IInv, NEW a \in Actors, Evict(a)
  PROVE  IInv'
<1> DEFINE st == At("look", GLOBAL, None)
<1>1. /\ UNCHANGED <<rowVars, up, inbox, consumerVars, faults>>
      /\ actor[a].stage = "del" /\ Becomes(a, st)
      /\ cache' = [cache EXCEPT ![actor[a].scope] = None]
  BY DEF Evict
<1>2. UNCHANGED <<row, written>> BY <1>1 DEF rowVars
<1>3. a \in Handlers /\ a \notin Loaders BY <1>1, ActorFacts, Kinds DEF ActorInv
<1>4. st \in Actor /\ st.stage = "look" /\ st.scope = GLOBAL BY Constants DEF Actor, At
<1>5. actor'[a] = st BY <1>1 DEF Becomes, IInv, TypeOK
<1>6. MessageInv([write |-> a[2], scope |-> actor[a].scope]) /\ a[1] \in up
  BY <1>1, <1>3, ActorFacts DEF ActorInv
<1>7. ActorInv(a)' BY <1>1, <1>2, <1>3, <1>4, <1>5, <1>6 DEF ActorInv, Resolving, MessageInv
<1>8. cache' \in [Scopes -> 0..MaxWrites] /\ cache'[GLOBAL] \in {None, cache[GLOBAL]}
  BY <1>1, Constants DEF IInv, TypeOK
<1>9. a[2] = row[GLOBAL] => cache'[GLOBAL] = None
  BY <1>1, <1>6, Constants DEF MessageInv, IInv, TypeOK
<1>10. \A p \in Processes : MailInv(p)' BY <1>1, QuietStep
<1> HIDE DEF st
<1> QED BY <1>1, <1>4, <1>7, <1>8, <1>9, <1>10, MoveStep DEF IInv, TypeOK

(* A handler that finds no consumer to notify has handled its invalidation. *)
LEMMA NobodyStep ==
  ASSUME IInv, NEW a \in Actors, NobodyToNotify(a)
  PROVE  IInv'
<1>1. /\ UNCHANGED <<row, written, unpublished, overlapped, cache, up, inbox, listening, view, faults>>
      /\ actor[a].stage = "look" /\ a \in Handlers /\ a[1] \notin listening
      /\ actor' = [actor EXCEPT ![a] = Off]
  BY DEF NobodyToNotify, rowVars, Becomes
<1>2. informed' \subseteq informed \cup {a[1]} /\ (informed' # {} => Evicted)
  BY <1>1 DEF NobodyToNotify, Handled, Evicted, Resolving
<1>3. a[1] \in up BY <1>1, ActorFacts DEF ActorInv
<1>4. Off \in Actor /\ Off.stage = "off" BY Constants DEF Off, Actor
<1>5. \A b \in Actors : actor'[b] = (IF b = a THEN Off ELSE actor[b]) BY <1>1 DEF IInv, TypeOK
<1>6. TypeOK' BY <1>1, <1>2, <1>3, <1>4 DEF IInv, TypeOK
<1>7. \A b \in Actors : ActorInv(b)'
  <2> SUFFICES ASSUME NEW b \in Actors PROVE ActorInv(b)' OBVIOUS
  <2>1. CASE b = a BY <2>1, <1>4, <1>5 DEF ActorInv, Resolving
  <2>2. CASE b # a BY <2>2, <1>1, <1>5 DEF IInv, ActorInv, MessageInv
  <2> QED BY <2>1, <2>2
<1>8. Evicted' => Evicted
  <2>1. ASSUME NEW b \in Handlers, b[2] = row'[GLOBAL], actor'[b].stage \in Resolving PROVE Evicted
    <3>1. b \in Actors BY DEF Actors
    <3> QED BY <2>1, <3>1, <1>1, <1>4, <1>5 DEF Evicted, Resolving
  <2> QED BY <2>1, <1>2 DEF Evicted
<1>9. CacheInv' BY <1>1, <1>8 DEF IInv, CacheInv
<1>10. \A p \in Processes : ViewInv(p)' BY <1>1, <1>2 DEF IInv, ViewInv
<1>11. \A p \in Processes : MailInv(p)' BY <1>1 DEF IInv, MailInv, MessageInv
<1>12. \A m \in unpublished' : MessageInv(m)' BY <1>1 DEF IInv, MessageInv
<1> QED BY <1>6, <1>7, <1>9, <1>10, <1>11, <1>12 DEF IInv

(* A copy that expires leaves nothing outdated behind.                      *)
LEMMA ExpireStep ==
  ASSUME IInv, NEW s \in Scopes, CacheExpires(s)
  PROVE  IInv'
<1>1. /\ UNCHANGED <<row, written, unpublished, overlapped, up, inbox, actor, listening, view, informed, faults>>
      /\ cache' = [cache EXCEPT ![s] = None]
  BY DEF CacheExpires, rowVars, consumerVars
<1>2. cache' \in [Scopes -> 0..MaxWrites] BY <1>1, Constants DEF IInv, TypeOK
<1>3. cache'[GLOBAL] \in {None, cache[GLOBAL]} BY <1>1, Constants DEF IInv, TypeOK
<1>4. row[GLOBAL] \in 0..MaxWrites BY Constants DEF IInv, TypeOK
<1>5. TypeOK' BY <1>1, <1>2 DEF IInv, TypeOK
<1>6. \A b \in Actors : ActorInv(b)' BY <1>1 DEF IInv, ActorInv, MessageInv
<1>7. CacheInv' BY <1>1, <1>3, <1>4 DEF IInv, CacheInv, Evicted, None
<1>8. \A p \in Processes : ViewInv(p)' BY <1>1, <1>3 DEF IInv, ViewInv
<1>9. \A p \in Processes : MailInv(p)' BY <1>1 DEF IInv, MailInv, MessageInv
<1>10. \A m \in unpublished' : MessageInv(m)' BY <1>1 DEF IInv, MessageInv
<1> QED BY <1>5, <1>6, <1>7, <1>8, <1>9, <1>10 DEF IInv

(* A process that ends takes its messages, its handlers and its value along. *)
LEMMA CrashStep ==
  ASSUME IInv, NEW p \in Processes, Crash(p)
  PROVE  IInv'
<1>1. /\ UNCHANGED <<row, written, unpublished, overlapped, cache>>
      /\ up' = up \ {p} /\ listening' = listening \ {p} /\ informed' = informed \ {p}
      /\ inbox' = [inbox EXCEPT ![p] = <<>>]
      /\ actor' = [b \in Actors |-> IF b[1] = p THEN Off ELSE actor[b]]
      /\ view' = [view EXCEPT ![p] = None]
      /\ faults' = faults + 1 /\ faults < MaxFaults
  BY DEF Crash, rowVars
<1>2. Off \in Actor /\ Off.stage = "off" BY Constants DEF Off, Actor
<1>3. TypeOK'
  <2>1. faults' \in 0..MaxFaults BY <1>1, ConfigurationAssumption DEF IInv, TypeOK
  <2>2. <<>> \in Seq(Message) OBVIOUS
  <2>3. inbox' \in [Processes -> Seq(Message)] BY <1>1, <2>2 DEF IInv, TypeOK
  <2>4. actor' \in [Actors -> Actor] BY <1>1, <1>2 DEF IInv, TypeOK
  <2>5. view' \in [Processes -> 0..MaxWrites] BY <1>1, Constants DEF IInv, TypeOK
  <2> QED BY <1>1, <2>1, <2>3, <2>4, <2>5 DEF IInv, TypeOK
<1>4. \A b \in Actors : ActorInv(b)'
  <2> SUFFICES ASSUME NEW b \in Actors PROVE ActorInv(b)' OBVIOUS
  <2>1. CASE b[1] = p
    <3>1. actor'[b].stage = "off" BY <2>1, <1>1, <1>2
    <3> QED BY <3>1 DEF ActorInv, Resolving
  <2>2. CASE b[1] # p
    <3>1. actor'[b] = actor[b] BY <2>2, <1>1
    <3> QED BY <2>2, <3>1, <1>1 DEF IInv, ActorInv, MessageInv
  <2> QED BY <2>1, <2>2
<1>5. Evicted' => Evicted
  <2>1. informed' # {} => Evicted BY <1>1 DEF Evicted
  <2>2. ASSUME NEW b \in Handlers, b[2] = row'[GLOBAL], actor'[b].stage \in Resolving PROVE Evicted
    <3>1. b \in Actors BY DEF Actors
    <3> QED BY <2>2, <3>1, <1>1, <1>2 DEF Evicted, Resolving
  <2> QED BY <2>1, <2>2 DEF Evicted
<1>6. CacheInv' BY <1>1, <1>5 DEF IInv, CacheInv
<1>7. \A q \in Processes : ViewInv(q)'
  <2> SUFFICES ASSUME NEW q \in Processes PROVE ViewInv(q)' OBVIOUS
  <2>1. ViewInv(q) /\ row[GLOBAL] \in 0..MaxWrites /\ cache[GLOBAL] \in 0..MaxWrites
    BY Constants DEF IInv, TypeOK
  <2>2. view'[q] = (IF q = p THEN None ELSE view[q]) BY <1>1 DEF IInv, TypeOK
  <2> QED BY <1>1, <2>1, <2>2 DEF ViewInv, None
<1>8. \A q \in Processes : MailInv(q)'
  <2> SUFFICES ASSUME NEW q \in Processes, NEW i \in 1..Len(inbox'[q])
               PROVE  MessageInv(inbox[q][i])' /\ q \in up'
    BY DEF MailInv
  <2>1. inbox'[q] = (IF q = p THEN <<>> ELSE inbox[q]) BY <1>1 DEF IInv, TypeOK
  <2>2. q # p /\ inbox'[q] = inbox[q] BY <2>1
  <2> QED BY <2>2, <1>1 DEF IInv, MailInv, MessageInv
<1>9. \A m \in unpublished' : MessageInv(m)' BY <1>1 DEF IInv, MessageInv
<1> QED BY <1>3, <1>4, <1>6, <1>7, <1>8, <1>9 DEF IInv

(* Publishing, with all subscribers reached or not.                         *)
LEMMA PublishStep ==
  ASSUME IInv, NEW m \in Message, Publish(m) \/ PublishMissed(m)
  PROVE  IInv'
<1>1. m \in unpublished BY DEF Publish, PublishMissed
<1>2. faults' \in 0..MaxFaults
  BY ConfigurationAssumption DEF Publish, PublishMissed, IInv, TypeOK
<1>3. PICK P \in SUBSET up : Send(m, P) BY DEF Publish, PublishMissed
<1> QED BY <1>1, <1>2, <1>3, SendStep

(* Every step keeps the invariant. *)
LEMMA NextInv == IInv /\ [Next]_vars => IInv'
<1> SUFFICES ASSUME IInv, [Next]_vars PROVE IInv' OBVIOUS
<1>1. CASE UNCHANGED vars
  <2>1. UNCHANGED <<row, cache, written, unpublished, up, inbox, actor, listening, view, informed, overlapped, faults>>
    BY <1>1 DEF vars, rowVars, consumerVars
  <2>2. \A m : MessageInv(m)' <=> MessageInv(m) BY <2>1 DEF MessageInv
  <2>3. TypeOK' BY <2>1 DEF IInv, TypeOK
  <2>4. \A p \in Processes : MailInv(p)' BY <2>1 DEF IInv, MailInv, MessageInv
  <2>5. \A a \in Actors : ActorInv(a)' BY <2>1 DEF IInv, ActorInv, MessageInv
  <2>6. CacheInv' /\ \A p \in Processes : ViewInv(p)' BY <2>1 DEF IInv, CacheInv, Evicted, ViewInv
  <2> QED BY <2>1, <2>2, <2>3, <2>4, <2>5, <2>6 DEF IInv
<1>2. ASSUME NEW s \in Scopes, Upsert(s) \/ CacheExpires(s) PROVE IInv'
  BY <1>2, UpsertStep, ExpireStep
<1>3. ASSUME NEW m \in Message, Publish(m) \/ PublishMissed(m) PROVE IInv'
  BY <1>3, PublishStep
<1>4. ASSUME NEW r \in Requests, Request(r) \/ RequestFails(r) PROVE IInv'
  BY <1>4, RequestStep
<1>5. ASSUME NEW p \in Processes, Start(p) \/ Crash(p) \/ Deliver(p) PROVE IInv'
  BY <1>5, StartStep, CrashStep, DeliverStep
<1>6. ASSUME NEW a \in Actors, Handle(a) PROVE IInv'
  BY <1>6, CacheHitStep, MissAndFindStep, FillStep, NotFoundStep, EvictStep, NobodyStep
  DEF Handle, Resolve
<1> QED BY <1>1, <1>2, <1>3, <1>4, <1>5, <1>6 DEF Next

-----------------------------------------------------------------------------
(* The invariant holds of the configuration service, however many           *)
(* processes, requests, scopes and writes there are.                        *)
THEOREM Invariance == Spec => []IInv
BY InitInv, NextInv, PTL DEF Spec

(* Every variable keeps its type. *)
THEOREM TypeCorrect == Spec => []TypeOK
<1>1. IInv => TypeOK BY DEF IInv
<1> QED BY <1>1, Invariance, PTL

(* A process that has handled the latest GLOBAL write uses it, and the      *)
(* cache holds no older value, unless a resolution overlapped the write     *)
(* (tryResolve, handleInvalidation).                                        *)
THEOREM Freshness == Spec => []InformedIsFresh
<1>1. ASSUME IInv PROVE InformedIsFresh
  <2>1. listening \subseteq Processes BY <1>1 DEF IInv, TypeOK
  <2> QED BY <1>1, <2>1 DEF IInv, CacheInv, Evicted, ViewInv, InformedIsFresh
<1> QED BY <1>1, Invariance, PTL

-----------------------------------------------------------------------------
(* A resolution gives a consumer no value older than the one it has, if     *)
(* what it found is not older than what the consumer uses.                  *)
LEMMA GotForward ==
  ASSUME IInv, NEW a \in Actors, NEW v \in 0..MaxWrites, Got(a, v), actor[a].stage \in Resolving,
         a \in Handlers => v = None \/ view[a[1]] <= v,
         NEW p \in Processes
  PROVE  view'[p] >= view[p]
<1>1. view[p] \in 0..MaxWrites /\ view \in [Processes -> 0..MaxWrites] BY DEF IInv, TypeOK
<1>2. CASE a \in Requests BY <1>1, <1>2, Kinds DEF Got
<1>3. CASE a \in Handlers
  <2>1. view' = [view EXCEPT ![a[1]] = IF v \in Valid THEN v ELSE view[a[1]]]
    BY <1>3, Kinds DEF Got, Adopt
  <2> QED BY <1>1, <1>3, <2>1, Constants
<1>4. CASE a \in Loaders
  <2>1. view' = [view EXCEPT ![a[1]] = IF v \in Valid THEN v ELSE None] /\ a[1] \in Processes
    BY <1>4, Kinds DEF Got, Adopt
  <2>2. a[1] \notin listening BY <1>4, ActorFacts DEF ActorInv, Resolving
  <2>3. view[a[1]] = 0 BY <2>1, <2>2 DEF IInv, ViewInv, None
  <2>4. (IF v \in Valid THEN v ELSE None) >= 0 BY DEF None
  <2> QED BY <1>1, <2>1, <2>3, <2>4
<1> QED BY <1>2, <1>3, <1>4 DEF Actors

(* No step takes a consumer back to an older value while no GLOBAL write    *)
(* overlapped a resolution (handleInvalidation: handlers overtake one       *)
(* another, and each reads the value anew).                                 *)
THEOREM NeverBack == Spec => NoGoingBack
<1>1. ASSUME IInv, [Next]_vars, overlapped = {}, NEW p \in up' PROVE view'[p] >= view[p]
  <2>1. IInv' BY <1>1, NextInv
  <2>2. p \in Processes BY <2>1 DEF IInv, TypeOK
  <2>3. view[p] \in Nat BY <1>1, <2>2, Constants DEF IInv, TypeOK
  <2>4. CASE UNCHANGED view BY <2>3, <2>4
  <2>5. ASSUME NEW a \in Actors, CacheHit(a) PROVE view'[p] >= view[p]
    <3>1. Got(a, cache[actor[a].scope]) /\ actor[a].stage \in Resolving /\ cache[actor[a].scope] # None
      BY <2>5 DEF CacheHit, Looks, Resolving
    <3>2. a \in Handlers => actor[a].scope = GLOBAL /\ a[1] \in Processes
      BY <1>1, <3>1, ActorFacts, Kinds DEF ActorInv
    <3>3. a \in Handlers => view[a[1]] <= cache[GLOBAL] BY <1>1, <3>1, <3>2 DEF IInv, ViewInv
    <3>4. cache[actor[a].scope] \in 0..MaxWrites BY <1>1, ActorFacts
    <3> QED BY <1>1, <2>2, <3>1, <3>2, <3>3, <3>4, GotForward
  <2>6. ASSUME NEW a \in Actors, Fill(a) PROVE view'[p] >= view[p]
    <3>1. Got(a, actor[a].seen) /\ actor[a].stage = "found" /\ actor[a].stage \in Resolving
      BY <2>6 DEF Fill, Resolving
    <3>2. a \in Handlers => actor[a].seen = row[GLOBAL] /\ a[1] \in Processes
      BY <1>1, <3>1, ActorFacts, Kinds DEF ActorInv
    <3>3. a \in Handlers => view[a[1]] <= actor[a].seen BY <1>1, <3>2 DEF IInv, ViewInv
    <3>4. actor[a].seen \in 0..MaxWrites BY <1>1, ActorFacts
    <3> QED BY <1>1, <2>2, <3>1, <3>3, <3>4, GotForward
  <2>7. ASSUME NEW a \in Actors, NotFound(a) PROVE view'[p] >= view[p]
    <3>1. actor[a].stage \in Resolving BY <2>7 DEF NotFound, Resolving
    <3>2. UNCHANGED view \/ Got(a, None) BY <2>7 DEF NotFound, consumerVars
    <3> QED BY <1>1, <2>2, <2>4, <3>1, <3>2, Constants, GotForward
  <2>8. ASSUME NEW q \in Processes, Crash(q) PROVE view'[p] >= view[p]
    <3>1. p # q /\ view' = [view EXCEPT ![q] = None] BY <2>8 DEF Crash
    <3> QED BY <1>1, <2>2, <2>3, <3>1 DEF IInv, TypeOK
  <2>9. CASE \E s \in Scopes : Upsert(s) \/ CacheExpires(s)
    BY <2>4, <2>9 DEF Upsert, CacheExpires, consumerVars
  <2>10. CASE \E m \in Message : Publish(m) \/ PublishMissed(m)
    BY <2>4, <2>10 DEF Publish, PublishMissed, Send, consumerVars
  <2>11. CASE \E r \in Requests : Request(r) \/ RequestFails(r)
    BY <2>4, <2>11 DEF Request, RequestFails, consumerVars
  <2>12. CASE \E q \in Processes : Start(q) \/ Deliver(q)
    BY <2>4, <2>12 DEF Start, Deliver, consumerVars
  <2>13. CASE \E a \in Actors : CacheMiss(a) \/ Find(a) \/ Evict(a) \/ NobodyToNotify(a)
    BY <2>4, <2>13 DEF CacheMiss, Find, Evict, NobodyToNotify, consumerVars
  <2>14. CASE UNCHANGED vars BY <2>4, <2>14 DEF vars, consumerVars
  <2> QED BY <1>1, <2>5, <2>6, <2>7, <2>8, <2>9, <2>10, <2>11, <2>12, <2>13, <2>14 DEF Next, Handle, Resolve
<1>2. IInv /\ [Next]_vars => [overlapped = {} => \A p \in up' : view'[p] >= view[p]]_vars BY <1>1
<1> QED BY <1>2, Invariance, PTL DEF Spec, NoGoingBack
=============================================================================
