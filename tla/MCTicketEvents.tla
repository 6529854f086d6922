--------------------------- MODULE MCTicketEvents ---------------------------
(* TicketEvents on small instances.                                        *)
EXTENDS TicketEvents, TLC

\* The preferences of a user who has not chosen, and no notifications.
Usual == [inApp |-> TRUE, own |-> FALSE]
Silent == [Usual EXCEPT !.inApp = FALSE]
Own == [Usual EXCEPT !.own = TRUE]

SomeChoices == {Usual, Silent, Own}
=============================================================================
