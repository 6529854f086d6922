----------------------------- MODULE MCAgentRun -----------------------------
(* AgentRun on small instances.                                            *)
EXTENDS AgentRun, TLC

RunSymmetry == Permutations(Runs)
=============================================================================
