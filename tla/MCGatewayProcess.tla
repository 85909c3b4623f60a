-------------------------- MODULE MCGatewayProcess --------------------------
(* Two concurrent requests of one tenant.  A tenant with a bucket configures *)
(* no enrichment, and one with enrichment has no limit.                      *)
EXTENDS GatewayProcess

CONSTANTS r1, r2

Plain == [stages |-> "absent", pii |-> "absent", mode |-> "absent"]
MCSettings ==
  {x \in Settings :
     /\ x.stages \notin {"compliance", "all"} => x.pii = "absent"
     /\ x.stages = "all" => x.pii = "on"
     /\ x.stages # "all" => x.mode = "absent"}
MCTenants ==
  [settings : {Plain}, limits : {"value", "malformed"}] \cup [settings : MCSettings, limits : {"absent"}]
=============================================================================
