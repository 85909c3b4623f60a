------------------------------ MODULE MCBudget ------------------------------
(* Budget for TLC: a few requests, a limit of a few reservations. *)
EXTENDS Budget, TLC

CONSTANTS r1, r2

TwoRequests == {r1, r2}
Interchangeable == Permutations(Requests)
(* The hard limit covers two reservations; the soft limit is one. *)
Small == [hard |-> 2, soft |-> 1, hold |-> 1]
Large == [hard |-> 4, soft |-> 3, hold |-> 2]
BothPolicies == {Small, Large}
(* Two periods under one policy, the last one with a change of policy, or the *)
(* last one with a request that is billed twice.                              *)
SomeStarts == {<<1, 1, {}>>, <<2, 0, {}>>} \cup {<<2, 1, {r}>> : r \in Requests}
=============================================================================
