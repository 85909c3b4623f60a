---------------------------- MODULE Configuration ---------------------------
(***************************************************************************)
(* One configuration key: rows in Postgres, a cache-aside copy of each in  *)
(* Redis, invalidation messages on a pub/sub channel, and one consumer per *)
(* process (provider registry, cost engine) that keeps the GLOBAL value in *)
(* memory: it reads it once at startup and is notified from then on.       *)
(*                                                                         *)
(* Everyone resolves a value in the same steps: look in the cache, find    *)
(* the row, fill the cache.  Three kinds of actor do so: a request that    *)
(* walks the scopes of its tenant, a consumer that loads, and the handler  *)
(* of an invalidation, of which several may be under way in one process.   *)
(*                                                                         *)
(* A value is the number of the write it comes from.  The commands of a    *)
(* process go over one Redis connection, whose replies arrive in order: a  *)
(* command and what the process does on its reply are one step.            *)
(***************************************************************************)
EXTENDS Integers, Sequences

CONSTANTS
  Processes,    \* gateway and worker processes
  Readers,      \* concurrent requests, over all processes
  Depth,        \* scopes of a tenant; the last one is GLOBAL
  MaxWrites,    \* bound on the number of writes
  Valid,        \* writes whose value the consumers accept
  MaxFaults     \* bound on lost messages and crashes

Scopes == 1..Depth
GLOBAL == Depth
Writes == 1..MaxWrites

ASSUME ConfigurationAssumption ==
  /\ Depth \in Nat \ {0} /\ MaxWrites \in Nat /\ MaxFaults \in Nat
  /\ Valid \subseteq Writes
  /\ Processes \cap Readers = {}

(* No row, no cached value, or a consumer's default. *)
None == 0

Loader(p) == <<p, 0>>
Handlers == Processes \X Writes
Loaders == Processes \X {0}
Requests == Readers \X {0}
Actors == Handlers \cup Loaders \cup Requests

VARIABLES
  row,          \* the configuration rows
  cache,        \* the cached copies
  written,      \* writes so far
  unpublished,  \* invalidations that are still to be published
  up,           \* processes that have subscribed to the channel
  inbox,        \* messages on their way to each process
  actor,        \* how far each actor is with its resolution
  listening,    \* processes whose consumer has subscribed
  view,         \* the value each consumer uses
  informed,     \* processes that have handled the latest GLOBAL write
  overlapped,   \* GLOBAL writes made while a resolution was between find and fill
  faults        \* faults so far

rowVars == <<row, written, unpublished, overlapped>>
consumerVars == <<listening, view, informed>>
vars == <<rowVars, cache, up, inbox, actor, consumerVars, faults>>

(* An invalidation, and which write it is of. *)
Message == [write : Writes, scope : Scopes]

Actor == [stage : {"off", "del", "look", "find", "found"}, scope : Scopes, seen : 0..MaxWrites]
Off == [stage |-> "off", scope |-> GLOBAL, seen |-> None]
At(stage, s, seen) == [stage |-> stage, scope |-> s, seen |-> seen]

TypeOK ==
  /\ row \in [Scopes -> 0..MaxWrites] /\ cache \in [Scopes -> 0..MaxWrites]
  /\ written \in 0..MaxWrites
  /\ unpublished \subseteq Message
  /\ up \subseteq Processes /\ listening \subseteq up /\ informed \subseteq up
  /\ inbox \in [Processes -> Seq(Message)]
  /\ actor \in [Actors -> Actor]
  /\ view \in [Processes -> 0..MaxWrites]
  /\ overlapped \subseteq Writes
  /\ faults \in 0..MaxFaults

Init ==
  /\ row = [s \in Scopes |-> None] /\ cache = [s \in Scopes |-> None]
  /\ written = 0
  /\ unpublished = {}
  /\ up = {} /\ listening = {} /\ informed = {}
  /\ inbox = [p \in Processes |-> <<>>]
  /\ actor = [a \in Actors |-> Off]
  /\ view = [p \in Processes |-> None]
  /\ overlapped = {}
  /\ faults = 0

-----------------------------------------------------------------------------
(* ConfigurationWriterService.set: the row first, then the invalidation. *)

(* Some resolution has found the current row and has not cached it yet. *)
FillUnderWay ==
  \E a \in Actors : actor[a].stage = "found" /\ actor[a].scope = GLOBAL

Upsert(s) ==
  /\ written < MaxWrites
  /\ written' = written + 1
  /\ row' = [row EXCEPT ![s] = written']
  /\ unpublished' = unpublished \cup {[write |-> written', scope |-> s]}
  /\ informed' = IF s = GLOBAL THEN {} ELSE informed
  /\ overlapped' = IF s = GLOBAL /\ FillUnderWay THEN overlapped \cup {written'} ELSE overlapped
  /\ UNCHANGED <<cache, up, inbox, actor, listening, view, faults>>

Send(m, P) ==
  /\ unpublished' = unpublished \ {m}
  /\ inbox' = [p \in Processes |-> IF p \in P THEN Append(inbox[p], m) ELSE inbox[p]]
  /\ UNCHANGED <<row, cache, written, overlapped, up, actor, consumerVars>>

Publish(m) == m \in unpublished /\ Send(m, up) /\ UNCHANGED faults

(* The writer fails before it publishes, or a subscriber is reconnecting:   *)
(* nobody keeps the message for those it does not reach.                    *)
PublishMissed(m) ==
  /\ m \in unpublished
  /\ faults < MaxFaults /\ faults' = faults + 1
  /\ \E P \in SUBSET up : P # up /\ Send(m, P)

-----------------------------------------------------------------------------
(* Resolving a value. *)

Becomes(a, s) == actor' = [actor EXCEPT ![a] = s]

(* The handler of an invalidation has done all it does. *)
Handled(a) ==
  informed' = IF a \in Handlers /\ a[2] = row[GLOBAL] THEN informed \cup {a[1]} ELSE informed

Adopt(p, v, otherwise) == view' = [view EXCEPT ![p] = IF v \in Valid THEN v ELSE otherwise]

(* Mutant: a handler hands on the write it was told of, not what it read. *)
GotFromMessage(a, v) ==
  /\ Becomes(a, Off)
  /\ Handled(a)
  /\ \/ a \in Requests /\ UNCHANGED <<view, listening>>
     \/ a \in Loaders /\ Adopt(a[1], v, None) /\ listening' = listening \cup {a[1]}
     \/ a \in Handlers /\ Adopt(a[1], a[2], view[a[1]]) /\ UNCHANGED listening

(* The resolution ended with value v, or with None.  A request returns it;  *)
(* a consumer takes it over and subscribes; a handler notifies the consumer *)
(* of it, which keeps its previous value if it is None or not valid.        *)
Got(a, v) ==
  /\ Becomes(a, Off)
  /\ Handled(a)
  /\ \/ a \in Requests /\ UNCHANGED <<view, listening>>
     \/ a \in Loaders /\ Adopt(a[1], v, None) /\ listening' = listening \cup {a[1]}
     \/ a \in Handlers /\ Adopt(a[1], v, view[a[1]]) /\ UNCHANGED listening

(* A handler without subscribers does not look at all. *)
Looks(a) == actor[a].stage = "look" /\ (a \in Handlers => a[1] \in listening)

CacheHit(a) ==
  /\ Looks(a)
  /\ cache[actor[a].scope] # None
  /\ Got(a, cache[actor[a].scope])
  /\ UNCHANGED <<rowVars, cache, up, inbox, faults>>

CacheMiss(a) ==
  /\ Looks(a)
  /\ cache[actor[a].scope] = None
  /\ Becomes(a, At("find", actor[a].scope, None))
  /\ UNCHANGED <<rowVars, cache, up, inbox, consumerVars, faults>>

Find(a) ==
  /\ actor[a].stage = "find"
  /\ Becomes(a, At("found", actor[a].scope, row[actor[a].scope]))
  /\ UNCHANGED <<rowVars, cache, up, inbox, consumerVars, faults>>

Fill(a) ==
  /\ actor[a].stage = "found"
  /\ actor[a].seen # None
  /\ cache' = [cache EXCEPT ![actor[a].scope] = actor[a].seen]
  /\ Got(a, actor[a].seen)
  /\ UNCHANGED <<rowVars, up, inbox, faults>>

(* No row: a request goes on to the next wider scope, if there is one. *)
NotFound(a) ==
  /\ actor[a].stage = "found"
  /\ actor[a].seen = None
  /\ IF actor[a].scope # GLOBAL
       THEN Becomes(a, At("look", actor[a].scope + 1, None)) /\ UNCHANGED consumerVars
       ELSE Got(a, None)
  /\ UNCHANGED <<rowVars, cache, up, inbox, faults>>

Resolve(a) == CacheHit(a) \/ CacheMiss(a) \/ Find(a) \/ Fill(a) \/ NotFound(a)

-----------------------------------------------------------------------------
(* Requests. *)

(* getWithFallback starts at the narrowest scope. *)
Request(r) ==
  /\ actor[r].stage = "off"
  /\ Becomes(r, At("look", 1, None))
  /\ UNCHANGED <<rowVars, cache, up, inbox, consumerVars, faults>>

RequestFails(r) ==
  /\ actor[r].stage # "off"
  /\ Becomes(r, Off)
  /\ UNCHANGED <<rowVars, cache, up, inbox, consumerVars, faults>>

(* A process subscribes to the channel before its consumer loads. *)

Start(p) ==
  /\ p \notin up
  /\ up' = up \cup {p}
  /\ Becomes(Loader(p), At("look", GLOBAL, None))
  /\ UNCHANGED <<rowVars, cache, inbox, consumerVars, faults>>

(* Mutant: the subscriptions of a process that ends linger. *)
CrashLingers(p) ==
  /\ p \in up
  /\ faults < MaxFaults /\ faults' = faults + 1
  /\ up' = up \ {p} /\ informed' = informed \ {p}
  /\ inbox' = [inbox EXCEPT ![p] = <<>>]
  /\ actor' = [a \in Actors |-> IF a[1] = p THEN Off ELSE actor[a]]
  /\ view' = [view EXCEPT ![p] = None]
  /\ UNCHANGED <<rowVars, cache, listening>>

(* A handler whose command fails rejects, which nobody catches; a load that *)
(* fails ends the startup: both come to the end of the process as well, and *)
(* so does a shutdown, which stops the service and its consumers.           *)
Crash(p) ==
  /\ p \in up
  /\ faults < MaxFaults /\ faults' = faults + 1
  /\ up' = up \ {p} /\ listening' = listening \ {p} /\ informed' = informed \ {p}
  /\ inbox' = [inbox EXCEPT ![p] = <<>>]
  /\ actor' = [a \in Actors |-> IF a[1] = p THEN Off ELSE actor[a]]
  /\ view' = [view EXCEPT ![p] = None]
  /\ UNCHANGED <<rowVars, cache>>

(* handleInvalidation is not awaited: handlers of one process overlap. *)
Deliver(p) ==
  /\ inbox[p] # <<>>
  /\ inbox' = [inbox EXCEPT ![p] = Tail(@)]
  /\ LET m == Head(inbox[p]) IN Becomes(<<p, m.write>>, At("del", m.scope, None))
  /\ UNCHANGED <<rowVars, cache, up, consumerVars, faults>>

(* Mutant: the cached copy is left alone. *)
EvictNothing(a) ==
  /\ actor[a].stage = "del"
  /\ Becomes(a, At("look", GLOBAL, None))
  /\ UNCHANGED <<rowVars, cache, up, inbox, consumerVars, faults>>

(* The written scope is evicted, but it is GLOBAL that is resolved anew. *)
Evict(a) ==
  /\ actor[a].stage = "del"
  /\ cache' = [cache EXCEPT ![actor[a].scope] = None]
  /\ Becomes(a, At("look", GLOBAL, None))
  /\ UNCHANGED <<rowVars, up, inbox, consumerVars, faults>>

NobodyToNotify(a) ==
  /\ actor[a].stage = "look" /\ a \in Handlers /\ a[1] \notin listening
  /\ Becomes(a, Off)
  /\ Handled(a)
  /\ UNCHANGED <<rowVars, cache, up, inbox, listening, view, faults>>

(* Mutant: cached copies have no TTL. *)
CacheStays(s) == FALSE /\ UNCHANGED vars

(* The copy's TTL of a minute is over (or a reader deleted a corrupt one). *)
CacheExpires(s) ==
  /\ cache[s] # None
  /\ cache' = [cache EXCEPT ![s] = None]
  /\ UNCHANGED <<rowVars, up, inbox, actor, consumerVars, faults>>

-----------------------------------------------------------------------------
Handle(a) == Resolve(a) \/ Evict(a) \/ NobodyToNotify(a)

Next ==
  \/ \E s \in Scopes : Upsert(s) \/ CacheExpires(s)
  \/ \E m \in Message : Publish(m) \/ PublishMissed(m)
  \/ \E r \in Requests : Request(r) \/ RequestFails(r)
  \/ \E p \in Processes : Start(p) \/ Crash(p) \/ Deliver(p)
  \/ \E a \in Actors : Handle(a)

Spec == Init /\ [][Next]_vars

(***************************************************************************)
(* What has begun goes on, messages arrive, processes are (re)started and  *)
(* cached copies expire.  Nobody need write or send a request.             *)
(***************************************************************************)
Fairness ==
  /\ \A s \in Scopes : WF_vars(CacheExpires(s))
  /\ \A m \in Message : WF_vars(Publish(m) \/ PublishMissed(m))
  /\ \A p \in Processes : WF_vars(Start(p)) /\ WF_vars(Deliver(p))
  /\ \A a \in Actors : WF_vars(Handle(a))

FairSpec == Spec /\ Fairness

-----------------------------------------------------------------------------
(* Properties. *)

(* Once a process has handled the invalidation of the latest GLOBAL write,  *)
(* its consumer uses that value and the cache does not hold an older one -  *)
(* whatever other resolutions, handlers, expiries, lost messages and        *)
(* crashes go on, as long as no resolution had read the old row and not yet *)
(* cached it when the write was made (tryResolve, handleInvalidation).      *)
InformedIsFresh ==
  row[GLOBAL] \notin overlapped /\ informed # {} =>
    /\ cache[GLOBAL] \in {None, row[GLOBAL]}
    /\ row[GLOBAL] \in Valid => \A p \in informed \cap listening : view[p] = row[GLOBAL]

(* While no GLOBAL write overlapped a resolution in that way, a consumer    *)
(* never goes back to an older value, although handlers of one process      *)
(* overtake one another and messages get lost (handleInvalidation).         *)
NoGoingBack ==
  [][overlapped = {} => \A p \in up' : view'[p] >= view[p]]_vars

(* An outdated cached value does not stay: once writes cease, each cached   *)
(* copy agrees with its row for good, although stale fills and lost         *)
(* invalidations leave it wrong for a while (CACHE_TTL_SECONDS).            *)
StaleCopiesGo ==
  \A s \in Scopes : <>[](cache[s] \in {None, row[s]})

(* "no restart is ever required for a config change" (ARCHITECTURE.md):     *)
(* without any fault, consumers end up with the latest valid GLOBAL value.  *)
ChangesArrive ==
  \A p \in Processes : <>[](p \in listening /\ row[GLOBAL] \in Valid => view[p] = row[GLOBAL])
=============================================================================
