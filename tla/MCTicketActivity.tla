-------------------------- MODULE MCTicketActivity --------------------------
(* TicketActivity on small instances.                                      *)
EXTENDS TicketActivity, TLC

Symmetry == Permutations(Requests) \cup Permutations(Events)
=============================================================================
