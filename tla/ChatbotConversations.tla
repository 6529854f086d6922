------------------------ MODULE ChatbotConversations ------------------------
(***************************************************************************)
(* What the chatbot service keeps of its visitors and customers in Redis:  *)
(* the windows of the rate limiter, the session of a widget, the           *)
(* conversation state of a session or of plain turns on a ticket, and the  *)
(* memory of a ticket, which streamed turns write.  Their keys differ, so  *)
(* a behaviour is about one of them.                                       *)
(***************************************************************************)
EXTENDS ConversationState, FiniteSets

CONSTANTS
  MaxTurns, Addresses, OrgKey, OrgLimit, IpLimit, Cap, Threshold, Keep

VARIABLES
  part,   \* which of Parts
  last, old, window, check,
  session, visit, tickets, alone, kept,
  memory, talk, heard, raced, forgotten

Limiter == INSTANCE RateLimiter
Widget == INSTANCE WidgetSessions
Ticket == INSTANCE TicketMemory

ASSUME ConversationsAssumption ==
  /\ IsFiniteSet(Requests)
  /\ OrgKey \notin Addresses
  /\ OrgLimit \in Nat \ {0} /\ IpLimit \in Nat \ {0}
  /\ MaxTurns \in Nat
  /\ Cap \in Nat /\ Cap >= 2
  /\ Keep \in Nat \ {0} /\ Threshold \in Nat

Parts == {"limiter", "session", "chat", "memory"}

limiterOnly == <<old, window, check>>
sessionOnly == <<session, visit, tickets, alone, kept>>
memoryOnly == <<memory, talk, heard, raced, forgotten>>
conversationVars == <<part, last, stateVars, troubles, limiterOnly, sessionOnly, memoryOnly>>

ConversationsTypeOK ==
  /\ part \in Parts
  /\ StateTypeOK
  /\ Limiter!LimiterTypeOK /\ Widget!SessionTypeOK /\ Ticket!MemoryTypeOK

ConversationsInit ==
  /\ part \in Parts
  /\ StateInit
  /\ Limiter!LimiterInit /\ Widget!SessionInit /\ Ticket!MemoryInit

ConversationsNext ==
  /\ UNCHANGED part
  /\ \/ part = "limiter" /\ Limiter!LimiterNext
        /\ UNCHANGED <<stateVars, troubles, sessionOnly, memoryOnly>>
     \/ part = "session" /\ Widget!SessionNext /\ UNCHANGED <<limiterOnly, memoryOnly>>
     \/ part = "chat" /\ Ticket!ChatNext /\ UNCHANGED <<limiterOnly, sessionOnly>>
     \/ part = "memory" /\ Ticket!MemoryNext /\ UNCHANGED <<limiterOnly, sessionOnly>>

ConversationsSpec == ConversationsInit /\ [][ConversationsNext]_conversationVars

-----------------------------------------------------------------------------
(* Properties.                                                             *)

\* However its requests overlap, no window holds more of them than the limit and one
\* less than are served at the same time (RateLimiter!WindowsHold).
WindowsHold == Limiter!WindowsHold

\* A turn that had the session to itself stays whole in it, or is told in a ticket
\* (WidgetSessions!TurnsToldOnce).
TurnsToldOnce == Widget!TurnsToldOnce

\* What was said on a ticket is in its memory, as it was said or in a summary, but for
\* two named ways to lose it (TicketMemory!MemoryTellsAll).
MemoryTellsAll == Ticket!MemoryTellsAll
=============================================================================
