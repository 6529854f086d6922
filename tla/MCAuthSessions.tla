--------------------------- MODULE MCAuthSessions ---------------------------
(* AuthSessions on small instances.                                        *)
EXTENDS AuthSessions, TLC

Symmetry == Permutations(Requests) \cup Permutations(Grants \ {First})
=============================================================================
