--------------------------- MODULE AlertChannels ----------------------------
(***************************************************************************)
(* The alerts of the health tracker on their way out: the rows an operator *)
(* keeps through the Admin API, the fan-out of an alert to the enabled     *)
(* rows, and the deliver_webhook jobs.                                     *)
(***************************************************************************)
EXTENDS HealthTracker

CONSTANTS
  Channels,        \* row ids; each is drawn once (randomUUID)
  NoChannel,       \* an idle admin request has none
  Admins,          \* admin requests that may be in progress at once
  MaxDeliveries,   \* attempts of a deliver_webhook job
  Casts            \* bound: which recorders and admins a behaviour has

ASSUME ChannelBounds ==
  /\ MaxDeliveries \in Nat \ {0}
  /\ Casts \subseteq [recorders : SUBSET Recorders, admins : SUBSET Admins]

VARIABLES
  rows,            \* alert_channels: whether each row there is is enabled
  drawn,           \* ids given to a row so far
  admin,           \* each admin request
  audited,         \* audit entries: what was done to which row
  publishing,      \* alerts whose publish() has not yet listed the rows
  jobs,            \* deliver_webhook jobs
  heard,           \* history: which row's endpoint received which alert
  gone,            \* history: rows deleted for good, with the alerts sent out by then
  cast

channelVars == <<rows, drawn, admin, audited, publishing, jobs, heard, gone>>
vars == <<healthVars, channelVars, cast>>

Operations == {"created", "updated", "deleted"}
IdleAdmin == [pc |-> "idle", channel |-> NoChannel, op |-> "created"]

Init ==
  /\ HealthInit
  /\ rows = <<>> /\ drawn = {}
  /\ admin = [a \in Admins |-> IdleAdmin]
  /\ audited = {} /\ publishing = {} /\ jobs = {} /\ heard = {} /\ gone = <<>>
  /\ cast \in Casts

Exists(ch) == ch \in DOMAIN rows
With(f, ch, value) == [x \in DOMAIN f \cup {ch} |-> IF x = ch THEN value ELSE f[x]]
Without(f, ch) == [x \in DOMAIN f \ {ch} |-> f[x]]

----------------------------------------------------------------------------
(* The Admin API *)

Finish(a) == admin' = [admin EXCEPT ![a] = IdleAdmin]

(* Permission, id and body are checked before anything is read or written;   *)
(* a request they refuse changes nothing.                                    *)
AskCreate(a) ==
  /\ admin[a].pc = "idle"
  /\ \E ch \in Channels \ drawn :
       /\ admin' = [admin EXCEPT ![a] = [pc |-> "save", channel |-> ch, op |-> "created"]]
       /\ drawn' = drawn \cup {ch}
  /\ UNCHANGED <<rows, audited, publishing, jobs, heard, gone>>

Ask(a) ==
  /\ admin[a].pc = "idle"
  /\ \E ch \in drawn, op \in {"updated", "deleted"} :
       admin' = [admin EXCEPT ![a] = [pc |-> "find", channel |-> ch, op |-> op]]
  /\ UNCHANGED <<rows, drawn, audited, publishing, jobs, heard, gone>>

(* Mutant: an update does not look for the row first. *)
FindUnlessUpdate(a) ==
  /\ admin[a].pc = "find"
  /\ IF Exists(admin[a].channel) \/ admin[a].op = "updated"
     THEN admin' = [admin EXCEPT ![a].pc = IF admin[a].op = "updated" THEN "save" ELSE "remove"]
     ELSE Finish(a)
  /\ UNCHANGED <<rows, drawn, audited, publishing, jobs, heard, gone>>

(* findById; no such row is a 404. *)
Find(a) ==
  /\ admin[a].pc = "find"
  /\ IF Exists(admin[a].channel)
     THEN admin' = [admin EXCEPT ![a].pc = IF admin[a].op = "updated" THEN "save" ELSE "remove"]
     ELSE Finish(a)
  /\ UNCHANGED <<rows, drawn, audited, publishing, jobs, heard, gone>>

(* The audit entry is written on the side; its failure is only logged. *)
MayAudit(a) == audited' \in {audited, audited \cup {<<admin[a].op, admin[a].channel>>}}

(* save() is an upsert: it also brings back a row deleted since Find. *)
Save(a) ==
  /\ admin[a].pc = "save"
  /\ \E enabled \in BOOLEAN : rows' = With(rows, admin[a].channel, enabled)
  /\ Finish(a) /\ MayAudit(a)
  /\ UNCHANGED <<drawn, publishing, jobs, heard, gone>>

AboutToSave(ch) == \E a \in Admins : admin[a].pc = "save" /\ admin[a].channel = ch

SentOut == (1..Len(alerts)) \ publishing

(* The deletion of a row that is gone by now throws: a 500. *)
Delete(a) ==
  /\ admin[a].pc = "remove"
  /\ LET ch == admin[a].channel
     IN IF Exists(ch)
        THEN /\ rows' = Without(rows, ch)
             /\ gone' = IF AboutToSave(ch) THEN gone ELSE With(gone, ch, SentOut)
             /\ MayAudit(a)
        ELSE UNCHANGED <<rows, gone, audited>>
  /\ Finish(a)
  /\ UNCHANGED <<drawn, publishing, jobs, heard>>

(* A repository call fails: a 500; or the process dies. *)
AdminFails(a) ==
  /\ admin[a].pc # "idle" /\ Finish(a)
  /\ UNCHANGED <<rows, drawn, audited, publishing, jobs, heard, gone>>

AdminStep(a) ==
  AskCreate(a) \/ Ask(a) \/ Find(a) \/ Save(a) \/ Delete(a) \/ AdminFails(a)

----------------------------------------------------------------------------
(* From an alert to its receivers *)

(* The call that claimed an alert publishes it without waiting. *)
Raise ==
  /\ WindowExpires \/ StateExpires \/ \E c \in cast.recorders : RecordStep(c)
  /\ publishing' = publishing \cup (Len(alerts) + 1)..Len(alerts')
  /\ UNCHANGED <<rows, drawn, admin, audited, jobs, heard, gone>>

EnabledRows == {ch \in DOMAIN rows : rows[ch]}

(* One job per enabled row, each enqueued on its own: a failed one is logged *)
(* and the others are not.                                                   *)
FanOut(i) ==
  /\ i \in publishing /\ publishing' = publishing \ {i}
  /\ \E lost \in SUBSET EnabledRows :
       jobs' = jobs \cup {[alert |-> i, channel |-> ch, tries |-> 0] :
                           ch \in EnabledRows \ lost}
  /\ UNCHANGED <<rows, drawn, admin, audited, heard, gone>>

(* The rows cannot be listed, or the process dies: the alert is lost. *)
FanOutFails(i) ==
  /\ i \in publishing /\ publishing' = publishing \ {i}
  /\ UNCHANGED <<rows, drawn, admin, audited, jobs, heard, gone>>

(* How a run of the handler goes: the scheme, port, host or addresses are    *)
(* refused or not found, which assertHttpUrlFormat did not rule out; nothing *)
(* is reached; an answer, redirects included; or one that is cut off after   *)
(* the endpoint had the request (timeout, more than 1 MiB).                  *)
Replies == {"refused", "unreached", "2xx", "3xx", "failure", "cut off"}
Received(reply) == reply \notin {"refused", "unreached"}

(* One run of the handler.  A throw makes the job wait for its next attempt, *)
(* or fails it after the last one (JobScheduler).                            *)
Deliver(j) ==
  /\ j \in jobs
  /\ \E reply \in Replies :
       LET again == [j EXCEPT !.tries = @ + 1]
       IN /\ jobs' = (jobs \ {j}) \cup (IF reply = "2xx" \/ again.tries = MaxDeliveries THEN {} ELSE {again})
          /\ heard' = IF Received(reply) THEN heard \cup {[alert |-> j.alert, channel |-> j.channel]} ELSE heard
  /\ UNCHANGED <<rows, drawn, admin, audited, publishing, gone>>

Outgoing == (\E i \in publishing : FanOut(i) \/ FanOutFails(i)) \/ \E j \in jobs : Deliver(j)

Next ==
  \/ Raise /\ UNCHANGED cast
  \/ (Outgoing \/ \E a \in cast.admins : AdminStep(a)) /\ UNCHANGED <<healthVars, cast>>

Spec == Init /\ [][Next]_vars

----------------------------------------------------------------------------
(* Properties *)

(* Every call, row, request, alert and job is in a state the code can reach. *)
TypeOK ==
  /\ Len(outcomes) <= WindowSize + Cardinality(Recorders) + MaxFaults
  /\ \A c \in Recorders :
       /\ recorder[c].pc \in {"idle", "push", "trim", "score", "count", "watch", "exec"}
       /\ recorder[c].pc \in {"count", "watch", "exec"} => recorder[c].is # recorder[c].was
       /\ recorder[c].tries \in 0..MaxClaimTries
  /\ \A ch \in DOMAIN rows : ch \in drawn /\ rows[ch] \in BOOLEAN
  /\ \A a \in Admins :
       admin[a].pc \in {"save", "remove"} => admin[a].op = "deleted" <=> admin[a].pc = "remove"
  /\ audited \subseteq Operations \X drawn
  /\ publishing \subseteq 1..Len(alerts)
  /\ \A j \in jobs : j.alert \in SentOut /\ j.channel \in drawn /\ j.tries < MaxDeliveries

(* A row that was deleted stays deleted, and its endpoint hears of no alert  *)
(* listed after that: only of those whose jobs existed.  An update that had  *)
(* found the row before is the exception.                                    *)
(* (alert-channel.routes.ts PUT and DELETE, PersistentWebhookAlertChannel)   *)
RemovedHearsNothing ==
  \A ch \in DOMAIN gone :
    /\ ~Exists(ch)
    /\ \A x \in jobs \cup heard : x.channel = ch => x.alert \in gone[ch]
=============================================================================
