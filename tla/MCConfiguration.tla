-------------------------- MODULE MCConfiguration ---------------------------
(* Configuration with a few processes and requests for TLC. *)
EXTENDS Configuration

CONSTANTS p1, r1

OneProcess == {p1}
NoReader == {}
OneReader == {r1}
=============================================================================
