-------------------------- MODULE MCAgentRegistry ---------------------------
(* Instances of AgentRegistry for TLC.                                     *)
EXTENDS AgentRegistry, TLC

RequestSymmetry == Permutations(Requests)
=============================================================================
