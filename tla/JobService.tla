----------------------------- MODULE JobService -----------------------------
(***************************************************************************)
(* What the chatbot bridge promises the modules that enqueue jobs on it    *)
(* (the scraper, the AI automation, document upload): a job that was       *)
(* accepted is sent to the chatbot service at least once and at most       *)
(* MaxTries times, and ends either done, after a request that succeeded,   *)
(* or dead, after MinTries requests none of which did.                     *)
(*                                                                         *)
(* Nothing is said of breakers, delays, crashes or the order of jobs.      *)
(***************************************************************************)
EXTENDS Integers

CONSTANTS
  Jobs,      \* the jobs producers may submit
  MinTries,  \* requests a job is given before it may be given up
  MaxTries   \* requests a job may cost the chatbot service

VARIABLES
  phase,  \* job -> what its producer may observe
  tries   \* job -> requests sent for it

vars == <<phase, tries>>

Phases == {"absent", "pending", "done", "dead"}

Init ==
  /\ phase = [j \in Jobs |-> "absent"]
  /\ tries = [j \in Jobs |-> 0]

Submit(j) ==
  /\ phase[j] = "absent"
  /\ phase' = [phase EXCEPT ![j] = "pending"]
  /\ UNCHANGED tries

Try(j) ==
  /\ phase[j] = "pending"
  /\ tries[j] < MaxTries
  /\ tries' = [tries EXCEPT ![j] = @ + 1]
  /\ UNCHANGED phase

Succeed(j) ==
  /\ phase[j] = "pending"
  /\ tries[j] > 0
  /\ phase' = [phase EXCEPT ![j] = "done"]
  /\ UNCHANGED tries

GiveUp(j) ==
  /\ phase[j] = "pending"
  /\ tries[j] >= MinTries
  /\ phase' = [phase EXCEPT ![j] = "dead"]
  /\ UNCHANGED tries

Next == \E j \in Jobs : Submit(j) \/ Try(j) \/ Succeed(j) \/ GiveUp(j)

Spec == Init /\ [][Next]_vars

=============================================================================
