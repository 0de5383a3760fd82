--------------------------- MODULE MCAgentSessions ---------------------------
(* Two calls in one session or none, two overlapping ingestions, one dropped  *)
(* connection.                                                                *)
EXTENDS AgentSessions

Symmetry == Permutations(Calls) \cup Permutations(Jobs) \cup Permutations(Countries)
=============================================================================
