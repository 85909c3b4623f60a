-------------------------- MODULE MCCircuitBreaker --------------------------
(* CircuitBreaker with a few concurrent calls for TLC. *)
EXTENDS CircuitBreaker

CONSTANTS c1, c2, t1, t2

TwoCallers == {c1, c2}
TwoTokens == {t1, t2}
=============================================================================
