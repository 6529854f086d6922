--------------------------- MODULE WidgetSessions ---------------------------
(***************************************************************************)
(* Turns of one widget session (widget of the chatbot service), of         *)
(* requests that the RateLimiter has allowed: the messages of the session  *)
(* in Redis, the conversation state, the agent's decision, the escalation  *)
(* to a ticket.  A turn is numbered when its request begins; an action is  *)
(* what a request does between two awaits.                                 *)
(*                                                                         *)
(* Any command of Redis may fail, which the code passes over.  The session *)
(* context, which is stored and read but used for nothing, is left out.    *)
(* Tickets are created by a route of the API gateway that this repository  *)
(* does not have: what the code does with its answer is modelled for every *)
(* answer.                                                                 *)
(***************************************************************************)
EXTENDS ConversationState, Sequences

CONSTANTS
  MaxTurns,   \* bound of the model: turns
  Cap         \* messages that a session keeps

Turns == 1..MaxTurns

VARIABLES
  last,      \* turns begun
  session,   \* session:messages:<id>: messages, the newest last
  visit,     \* request -> what it is doing
  tickets,   \* turn -> turns told in the ticket it was escalated to, if any
  alone,     \* history: turns that had the session to themselves and saw no failure
  kept       \* history: turns answered alone that the session has had to keep since

sessionVars == <<last, session, visit, tickets, alone, kept>>

\* at: the next step; loaded: turns in the messages loaded; blind: they could not be;
\* act: "gate" if the detector escalates, else the decision; list: what append_message
\* has read.
Idle == [at |-> "idle", turn |-> 0, loaded |-> {}, blind |-> FALSE, act |-> "none",
         list |-> <<>>]

Message == [turn : Turns, by : {"user", "assistant"}]

\* A request at these steps is in the session.
Inside == {"decide", "state", "create", "clear", "readUser", "writeUser", "readReply", "writeReply"}

Visits == [at : Inside \cup {"idle", "load"}, turn : 0..MaxTurns, loaded : SUBSET Turns,
           blind : BOOLEAN, act : {"none", "gate", "respond", "other", "escalate"},
           list : Seq(Message)]

SessionTypeOK ==
  /\ last \in 0..MaxTurns
  /\ session \in Seq(Message) /\ Len(session) <= Cap
  /\ visit \in [Requests -> Visits]
  /\ tickets \in [Turns -> SUBSET Turns]
  /\ alone \in SUBSET Turns
  /\ kept \in SUBSET Turns

SessionInit ==
  /\ last = 0
  /\ session = <<>>
  /\ visit = [p \in Requests |-> Idle]
  /\ tickets = [t \in Turns |-> {}]
  /\ alone = {}
  /\ kept = {}

Goto(p, step) == visit' = [visit EXCEPT ![p].at = step]
Leave(p) == visit' = [visit EXCEPT ![p] = Idle]
AloneNoMore(p) == alone' = alone \ {visit[p].turn}

-----------------------------------------------------------------------------
(* WidgetSessionService.handle.                                            *)

Arrive(p) ==
  /\ visit[p].at = "idle"
  /\ last < MaxTurns
  /\ last' = last + 1
  /\ visit' = [visit EXCEPT ![p].at = "load", ![p].turn = last']
  /\ UNCHANGED <<session, tickets, alone, kept, stateVars, troubles>>

TurnsIn(s) == {s[i].turn : i \in DOMAIN s}

\* Whether request p finds the session to itself when it loads it.
Loads(p, found, blind) ==
  LET others == {q \in Requests \ {p} : visit[q].at \in Inside} IN
  /\ visit' = [visit EXCEPT ![p].at = "decide", ![p].loaded = found, ![p].blind = blind]
  /\ alone' = IF others = {} /\ ~blind THEN alone \cup {visit[p].turn}
              ELSE alone \ {visit[q].turn : q \in others}

\* get_session; without Redis the session seems empty.
Load(p) ==
  /\ visit[p].at = "load"
  /\ \/ Loads(p, TurnsIn(session), FALSE) /\ UNCHANGED troubles
     \/ Trouble /\ Loads(p, {}, TRUE)
  /\ UNCHANGED <<last, session, tickets, kept, stateVars>>

BeginUpdate(p) ==
  /\ update' = [update EXCEPT ![p].at = "read"]
  /\ UNCHANGED <<conv, behind>>

\* The detector escalates, or the agent runs, which never raises, and decides.
Decide(p) ==
  /\ visit[p].at = "decide"
  /\ \E act \in {"gate", "respond", "other", "escalate"} :
       /\ visit' = [visit EXCEPT ![p].act = act,
                      ![p].at = IF act = "escalate" THEN "create" ELSE "state"]
       /\ IF act = "escalate" THEN UNCHANGED stateVars ELSE BeginUpdate(p)
  /\ UNCHANGED <<last, session, tickets, alone, kept, troubles>>

\* The conversation state is updated; the request goes on once it is.
UpdateState(p) ==
  /\ visit[p].at = "state"
  /\ \/ ReadState(p) /\ UNCHANGED visit
     \/ /\ WriteState(p, visit[p].act = "respond")
        /\ CASE visit[p].act = "gate" -> Goto(p, "create")
             [] visit[p].act = "escalate" -> Leave(p)
             [] OTHER -> Goto(p, "readUser")
  /\ UNCHANGED <<last, session, tickets, alone, kept>>

\* A request that has escalated: the agent's has yet to update the state.
Escalated(p) ==
  IF visit[p].act = "gate" THEN Leave(p) /\ UNCHANGED stateVars
  ELSE Goto(p, "state") /\ BeginUpdate(p)

Ticket(p) == [tickets EXCEPT ![visit[p].turn] = visit[p].loaded \cup {visit[p].turn}]

\* escalate_widget_session.
CreateTicket(p) ==
  /\ visit[p].at = "create"
  /\ tickets' = Ticket(p)
  /\ Goto(p, "clear")
  /\ UNCHANGED <<last, session, alone, kept, stateVars, troubles>>

\* The gateway refuses, or its answer is lost: the session is not cleared.
TicketFails(p) ==
  /\ visit[p].at = "create"
  /\ tickets' \in {tickets, Ticket(p)}
  /\ AloneNoMore(p)
  /\ Escalated(p)
  /\ UNCHANGED <<last, session, kept, troubles>>

\* What a request that could not load the session has not told in its ticket is lost.
ClearSession(p) ==
  /\ visit[p].at = "clear"
  /\ \/ /\ session' = <<>>
        /\ kept' = IF visit[p].blind THEN {} ELSE kept
        /\ UNCHANGED <<alone, troubles>>
     \/ Trouble /\ AloneNoMore(p) /\ UNCHANGED <<session, kept>>
  /\ Escalated(p)
  /\ UNCHANGED <<last, tickets>>

-----------------------------------------------------------------------------
(* append_message, of the message and then of the reply.                   *)

\* Mutant: a session keeps everything.
Uncapped(s) == s

\* Mutant: the oldest messages are kept.
Oldest(s) == IF Len(s) > Cap THEN SubSeq(s, 1, Cap) ELSE s

Newest(s) == IF Len(s) > Cap THEN SubSeq(s, Len(s) - Cap + 1, Len(s)) ELSE s

\* The turns whose messages are dropped.
Surplus(s) == IF Len(s) > Cap THEN TurnsIn(SubSeq(s, 1, Len(s) - Cap)) ELSE {}

\* A failed read ends the append, and the request goes on.  After the reply it is done.
ReadMessages(p) ==
  LET user == visit[p].at = "readUser" IN
  /\ visit[p].at \in {"readUser", "readReply"}
  /\ \/ /\ visit' = [visit EXCEPT ![p].at = IF user THEN "writeUser" ELSE "writeReply",
                                  ![p].list = session]
        /\ UNCHANGED <<alone, troubles>>
     \/ /\ Trouble
        /\ AloneNoMore(p)
        /\ IF user THEN Goto(p, "readReply") ELSE Leave(p)
  /\ UNCHANGED <<last, session, tickets, kept, stateVars>>

WriteMessages(p) ==
  LET t == visit[p].turn
      user == visit[p].at = "writeUser"
      list == Append(visit[p].list, [turn |-> t, by |-> IF user THEN "user" ELSE "assistant"])
  IN
  /\ visit[p].at \in {"writeUser", "writeReply"}
  /\ \/ /\ session' = Newest(list)
        /\ kept' = (kept \ Surplus(list)) \cup (IF user THEN {} ELSE {t} \cap alone)
        /\ UNCHANGED <<alone, troubles>>
     \/ Trouble /\ AloneNoMore(p) /\ UNCHANGED <<session, kept>>
  /\ IF user THEN visit' = [visit EXCEPT ![p].at = "readReply", ![p].list = <<>>] ELSE Leave(p)
  /\ UNCHANGED <<last, tickets, stateVars>>

-----------------------------------------------------------------------------
\* A visitor who leaves cancels a streamed request at any await; a process may end.
Abandon(p) ==
  /\ visit[p].at # "idle"
  /\ Leave(p)
  /\ AloneNoMore(p)
  /\ DropUpdate(p)
  /\ UNCHANGED <<last, session, tickets, kept, troubles>>

\* The session lives for half an hour after the last write: a request that has written
\* its message writes its reply before that.
ExpireSession ==
  /\ session # <<>>
  /\ \A p \in Requests : visit[p].at \notin {"readReply", "writeReply"}
  /\ session' = <<>>
  /\ kept' = {}
  /\ UNCHANGED <<last, visit, tickets, alone, stateVars, troubles>>

SessionNext ==
  \/ \E p \in Requests :
       \/ Arrive(p) \/ Load(p) \/ Decide(p) \/ UpdateState(p)
       \/ CreateTicket(p) \/ TicketFails(p) \/ ClearSession(p)
       \/ ReadMessages(p) \/ WriteMessages(p) \/ Abandon(p)
  \/ ExpireSession
  \/ ExpireState /\ UNCHANGED sessionVars

-----------------------------------------------------------------------------
(* Properties.                                                             *)

WholeIn(t, s) ==
  \E i \in 1..Len(s) - 1 :
    /\ s[i] = [turn |-> t, by |-> "user"]
    /\ s[i + 1] = [turn |-> t, by |-> "assistant"]

\* A turn that had the session to itself stays in it, message and reply together, or is
\* told in a ticket, whatever turns come later, race each other, escalate, fail or are
\* broken off, until the session expires or forty messages push it out; unless
\* a ticket is made by a request that could not load the session and cleared it.
\* And no turn is told in the tickets of two such turns.
TurnsToldOnce ==
  /\ \A t \in kept : WholeIn(t, session) \/ \E e \in Turns : t \in tickets[e]
  /\ \A e, f \in alone : e # f => tickets[e] \cap tickets[f] = {}
=============================================================================
