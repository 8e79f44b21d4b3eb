----------------------------- MODULE MCAssistant -----------------------------
(* A small instance of the agent and the Search API for TLC. *)
EXTENDS Assistant, TLC

CONSTANTS i1, f1, r1, x1, short, gemma, claude, gpt

MCSource == << >>

MCMax == [l \in Limiters |-> 1]

MCBackendOrder == <<gpt>>

\* The short marker abbreviates a known image and an invented id.
MCMatches == [m \in Markers |-> IF m = short THEN {i1, x1} ELSE {m}]

=============================================================================
