----------------------------- MODULE MCRouting ------------------------------
(***************************************************************************)
(* Two calls: the two attempts of one SDK call, or two callers of the      *)
(* engine with any policy over both providers.                             *)
(***************************************************************************)
EXTENDS ChatCompletions

CONSTANTS c1, c2

MCAttempts == <<c1, c2>>

Policy(type, candidates) ==
  [type |-> type, candidates |-> candidates, weight |-> [i \in DOMAIN candidates |-> 1], shadow |-> FALSE]

MCPolicies ==
  {Policy("sticky", <<"groq", "gemini">>), Policy("sticky", <<"gemini", "groq">>),
   Policy("sticky", <<"gemini">>), Policy("round_robin", <<"groq", "gemini", "groq">>),
   [Policy("weighted", <<"groq", "gemini">>) EXCEPT !.weight[2] = 0],
   [Policy("weighted", <<"groq", "gemini">>) EXCEPT !.weight[2] = 2],
   [Policy("health_aware", <<"groq", "gemini">>) EXCEPT !.shadow = TRUE],
   [Policy("unknown", <<>>) EXCEPT !.shadow = TRUE]}

=============================================================================
