----------------------- MODULE MCChatbotConversations -----------------------
(* ChatbotConversations on small instances.                                *)
EXTENDS ChatbotConversations, TLC

Symmetric == Permutations(Requests) \cup Permutations(Addresses)
=============================================================================
