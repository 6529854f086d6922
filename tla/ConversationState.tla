------------------------- MODULE ConversationState -------------------------
(***************************************************************************)
(* The state of one conversation in Redis, conv:state:<org>:<id>           *)
(* (conversation/conversation_state.py of the chatbot service), which the  *)
(* widget keeps per session and the internal chat per ticket.  update()    *)
(* reads it, applies a turn and writes it back, with an await for each; no *)
(* error of Redis leaves it.  The service runs in several processes, so    *)
(* any number of updates may be under way.  Of the state only what decides *)
(* the stage is kept: histories and entities only grow, by what the same   *)
(* write adds.                                                             *)
(***************************************************************************)
EXTENDS Integers

CONSTANTS
  Requests,     \* requests served at the same time
  MaxTroubles   \* bound of the model: calls that fail

ASSUME StateAssumption == MaxTroubles \in Nat

VARIABLES
  conv,      \* the state stored, or Fresh
  update,    \* request -> what its update() is doing
  behind,    \* history: requests whose update holds a state that is not the last
  troubles   \* calls that have failed so far

stateVars == <<conv, update, behind>>

\* ConversationStage, in its order.
Opening == 0
Gathering == 1
Investigating == 2
Resolving == 3
Closing == 4

\* Turns are compared with 2 and 3 and counted up to there.
MaxCount == 3

\* A key that does not exist, or cannot be read, is a default state.
Fresh == [stage |-> Opening, turns |-> 0]
States == [stage : Opening..Closing, turns : 0..MaxCount]

NoUpdate == [at |-> "none", state |-> Fresh]

StateTypeOK ==
  /\ conv \in States
  /\ update \in [Requests -> [at : {"none", "read", "write"}, state : States]]
  /\ behind \in SUBSET Requests
  /\ troubles \in 0..MaxTroubles

StateInit ==
  /\ conv = Fresh
  /\ update = [p \in Requests |-> NoUpdate]
  /\ behind = {}
  /\ troubles = 0

Trouble == troubles < MaxTroubles /\ troubles' = troubles + 1

-----------------------------------------------------------------------------

\* Mutant: satisfied customers are taken back to where the investigation was.
AdvanceStageAnyway(c, responded, actionable, satisfied) ==
  CASE c.stage = Opening /\ c.turns >= 2 -> Gathering
    [] c.stage = Gathering /\ actionable -> Investigating
    [] c.stage = Investigating /\ responded -> Resolving
    [] c.stage = Resolving /\ ~satisfied -> Gathering
    [] OTHER -> c.stage

\* What the turn's message is decides: whether it has entities or an intent to act on,
\* and whether it shows the customer satisfied.  unresolved_turns is 0 after a response.
AdvanceStage(c, responded, actionable, satisfied) ==
  CASE c.stage = Opening /\ c.turns >= 2 -> Gathering
    [] c.stage = Gathering /\ actionable -> Investigating
    [] c.stage = Investigating /\ responded -> Resolving
    [] c.stage = Resolving /\ satisfied /\ c.turns >= 3 -> Closing
    [] OTHER -> c.stage

ApplyTurn(c, responded, actionable, satisfied) ==
  LET counted == [c EXCEPT !.turns = IF @ < MaxCount THEN @ + 1 ELSE MaxCount] IN
  [counted EXCEPT !.stage = AdvanceStage(counted, responded, actionable, satisfied)]

\* get_or_create within update: a failed read is a default state.
ReadState(p) ==
  /\ update[p].at = "read"
  /\ \/ /\ update' = [update EXCEPT ![p] = [at |-> "write", state |-> conv]]
        /\ UNCHANGED <<behind, troubles>>
     \/ /\ Trouble
        /\ update' = [update EXCEPT ![p] = [at |-> "write", state |-> Fresh]]
        /\ behind' = behind \cup {p}
  /\ UNCHANGED conv

\* _persist.  The others that have read are behind now.
WriteState(p, responded) ==
  /\ update[p].at = "write"
  /\ update' = [update EXCEPT ![p] = NoUpdate]
  /\ \/ /\ \E actionable, satisfied \in BOOLEAN :
             conv' = ApplyTurn(update[p].state, responded, actionable, satisfied)
        /\ behind' = {q \in Requests \ {p} : update[q].at = "write"}
        /\ UNCHANGED troubles
     \/ /\ Trouble
        /\ behind' = behind \ {p}
        /\ UNCHANGED conv

\* Whoever calls update() is cancelled, or its process ends.
DropUpdate(p) ==
  /\ update' = [update EXCEPT ![p] = NoUpdate]
  /\ behind' = behind \ {p}
  /\ UNCHANGED conv

\* The key lives for a day after the last write.
ExpireState ==
  /\ conv # Fresh
  /\ conv' = Fresh
  /\ UNCHANGED <<update, behind, troubles>>

-----------------------------------------------------------------------------
(* Properties.                                                             *)

\* "They advance forward but never move backward" (conversation_state.py:257), and the
\* turns are counted up: as long as the key lives, unless an update writes over another
\* that it has not read, or over a state that it could not read.
StageAdvances ==
  [][\/ conv'.stage >= conv.stage /\ conv'.turns >= conv.turns
     \/ conv' = Fresh
     \/ \E p \in behind : update[p].at = "write" /\ update'[p].at = "none"]_stateVars
=============================================================================
