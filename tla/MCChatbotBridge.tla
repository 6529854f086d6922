-------------------------- MODULE MCChatbotBridge --------------------------
(* ChatbotBridge on small instances.                                       *)
EXTENDS ChatbotBridge, TLC

JobSymmetry == Permutations(Jobs)
=============================================================================
