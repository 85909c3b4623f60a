------------------------------ MODULE MCAlerts ------------------------------
(* Two calls of record() and no admin request, or one call and two requests  *)
(* on one alert channel.                                                     *)
EXTENDS AlertChannels

CONSTANTS c1, c2, a1, a2, ch1, none

MCCasts == {[recorders |-> {c1, c2}, admins |-> {}], [recorders |-> {c1}, admins |-> {a1, a2}]}
MCSymmetry == Permutations({a1, a2})
=============================================================================
