-------------------------- MODULE MCAutoAssignment --------------------------
(* AutoAssignment on a small instance.  The run checks liveness, so it uses *)
(* no symmetry.                                                            *)
EXTENDS AutoAssignment, TLC
=============================================================================
