------------------------- MODULE MCAgentEventStream -------------------------
(* Small instances of AgentEventStream. *)
EXTENDS AgentEventStream, TLC

ConnSymmetry == Permutations(Conns)
=============================================================================
