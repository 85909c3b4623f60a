----------------------------- MODULE Enrichment -----------------------------
(***************************************************************************)
(* The enrichment pipeline and its three stages.  A request is what has    *)
(* been done to it: which of its checks it passed and whether personal     *)
(* data in it was redacted.  A setting is absent, malformed or a value,    *)
(* and reading it may fail ("down").                                       *)
(***************************************************************************)
EXTENDS Integers, Sequences

Fresh == [prompted |-> FALSE, checked |-> FALSE, redacted |-> FALSE, filtered |-> FALSE]

(* What the settings are and what a reader may be told of one.  "typo" is a *)
(* list with an unregistered name.                                          *)
Settings ==
  [stages : {"absent", "malformed", "typo", "compliance", "all"},
   pii : {"absent", "malformed", "on"}, mode : {"absent", "fail_closed"}]
Readings(setting) == {setting, "down"}

Rejected == [action |-> "reject"]
Continue(m) == [action |-> "continue", request |-> m]

(* resolveStageNames(): nothing configured is no stage; a malformed list is  *)
(* rejected and a failed read thrown, before any stage runs.                 *)
StageNames(stages) ==
  CASE stages = "typo" -> <<"compliance_policies">>
    [] stages = "compliance" -> <<"compliance_policy">>
    [] stages = "all" -> <<"system_prompt_injection", "compliance_policy", "content_filter">>
    [] OTHER -> <<>>
Resolvable(reading) == reading \notin {"malformed", "down"}

(* Fails open whatever it reads. *)
SystemPromptInjection(m) ==
  {Continue(m), Continue([m EXCEPT !.prompted = TRUE])}

(* Denied topics were looked for, and personal data was redacted if asked. *)
Complied(m, pii) ==
  [prompted |-> m.prompted, checked |-> TRUE, redacted |-> m.redacted \/ pii = "on", filtered |-> m.filtered]

(* Mutant: a failed read of the compliance settings is treated as "not configured". *)
CompliancePolicyFailOpen(m, pii) ==
  {Rejected, Continue(m), Continue(Complied(m, pii))}

(* Both reads must succeed; a malformed value counts as empty or disabled.   *)
(* A denied topic is a fact of the content.                                  *)
CompliancePolicy(m, pii) ==
  IF pii = "down" THEN {Rejected}
  ELSE {Rejected, Continue(Complied(m, pii))}

ReadFailureMode(reading) ==
  IF reading \in {"fail_open", "fail_closed"} THEN reading ELSE "fail_open"

(* The moderation call answers, or fails or times out. *)
ContentFilter(m, mode) ==
  {Rejected, Continue([m EXCEPT !.filtered = TRUE])}
    \cup (IF ReadFailureMode(mode) = "fail_open" THEN {Continue(m)} ELSE {})

(* One stage of the list, by its name; an unregistered name rejects. *)
StageResults(name, m, settings) ==
  CASE name = "system_prompt_injection" -> SystemPromptInjection(m)
    [] name = "compliance_policy" -> UNION {CompliancePolicy(m, pii) : pii \in Readings(settings.pii)}
    [] name = "content_filter" -> UNION {ContentFilter(m, mode) : mode \in Readings(settings.mode)}
    [] OTHER -> {Rejected}
=============================================================================
