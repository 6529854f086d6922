---------------------------- MODULE TicketMemory ----------------------------
(***************************************************************************)
(* Turns on one ticket (services/chat_service.py, rag/pipeline.py and      *)
(* memory of the chatbot service).  A plain turn updates the conversation  *)
(* state and no more; a streamed turn writes its two messages to the       *)
(* ticket's memory in Redis, and replaces the older ones by a summary of   *)
(* the LLM when they have become many.                                     *)
(***************************************************************************)
EXTENDS ConversationState, Sequences

CONSTANTS
  MaxTurns,   \* bound of the model: streamed turns
  Threshold,  \* SUMMARIZE_THRESHOLD
  Keep        \* KEEP_RECENT

VARIABLES
  last,       \* streamed turns begun
  memory,     \* memory:messages:<org>:<ticket>, a Redis list
  talk,       \* request -> what it is doing
  heard,      \* history: messages written since the list was last empty
  raced,      \* history: those written while a summary was under way
  forgotten   \* history: those told only by a summary that has been summarised

memoryVars == <<last, memory, talk, heard, raced, forgotten>>

\* An entry tells one message, or those that a summary is made of.  Message 2t - 1 is
\* the customer's in turn t, 2t the reply.
Messages == 1..2 * MaxTurns
Entries == [role : {"user", "assistant", "system"}, tells : SUBSET Messages]

Idle == [at |-> "idle", turn |-> 0, list |-> <<>>]

Talks == [at : {"idle", "state", "user", "assistant", "measure", "read", "replace"},
          turn : 0..MaxTurns, list : Seq(Entries)]

MemoryTypeOK ==
  /\ last \in 0..MaxTurns
  /\ memory \in Seq(Entries)
  /\ talk \in [Requests -> Talks]
  /\ heard \in SUBSET Messages
  /\ raced \in SUBSET Messages
  /\ forgotten \in SUBSET Messages

MemoryInit ==
  /\ last = 0
  /\ memory = <<>>
  /\ talk = [p \in Requests |-> Idle]
  /\ heard = {}
  /\ raced = {}
  /\ forgotten = {}

Goto(p, step) == talk' = [talk EXCEPT ![p].at = step]
Leave(p) == talk' = [talk EXCEPT ![p] = Idle]

Told(s) == UNION {s[i].tells : i \in DOMAIN s}
ToldBy(roles, s) == UNION {s[i].tells : i \in {j \in DOMAIN s : s[j].role \in roles}}

-----------------------------------------------------------------------------
(* ChatService.                                                            *)

\* handle_message up to update(): the detector, a template or the agent has decided.
Chat(p) ==
  /\ talk[p].at = "idle"
  /\ Goto(p, "state")
  /\ update' = [update EXCEPT ![p].at = "read"]
  /\ UNCHANGED <<last, memory, heard, raced, forgotten, conv, behind, troubles>>

UpdateState(p) ==
  /\ talk[p].at = "state"
  /\ \/ ReadState(p) /\ UNCHANGED talk
     \/ Leave(p) /\ \E responded \in BOOLEAN : WriteState(p, responded)
  /\ UNCHANGED <<last, memory, heard, raced, forgotten>>

\* stream_message up to the first add_message: the reply is complete.
Stream(p) ==
  /\ talk[p].at = "idle"
  /\ last < MaxTurns
  /\ last' = last + 1
  /\ talk' = [talk EXCEPT ![p].at = "user", ![p].turn = last']
  /\ UNCHANGED <<memory, heard, raced, forgotten, stateVars, troubles>>

-----------------------------------------------------------------------------
(* RAGPipeline.stream.                                                     *)

\* add_message.  A canned reply and an answer from the FAQ are not followed by a summary.
AddMessage(p) ==
  LET role == talk[p].at
      m == IF role = "user" THEN 2 * talk[p].turn - 1 ELSE 2 * talk[p].turn
  IN
  /\ role \in {"user", "assistant"}
  /\ memory' = Append(memory, [role |-> role, tells |-> {m}])
  /\ heard' = heard \cup {m}
  /\ raced' = IF \E q \in Requests : talk[q].at = "replace" THEN raced \cup {m} ELSE raced
  /\ IF role = "user" THEN Goto(p, "assistant") ELSE Goto(p, "measure") \/ Leave(p)
  /\ UNCHANGED <<last, forgotten, stateVars, troubles>>

\* maybe_summarize: LLEN.
Measure(p) ==
  /\ talk[p].at = "measure"
  /\ IF Len(memory) < Threshold THEN Leave(p) ELSE Goto(p, "read")
  /\ UNCHANGED <<last, memory, heard, raced, forgotten, stateVars, troubles>>

\* LRANGE; then the LLM is asked.
ReadAll(p) ==
  /\ talk[p].at = "read"
  /\ talk' = [talk EXCEPT ![p].at = "replace", ![p].list = memory]
  /\ UNCHANGED <<last, memory, heard, raced, forgotten, stateVars, troubles>>

\* Mutant: one message too few is kept.
RecentButOne(s) == IF Len(s) > Keep THEN SubSeq(s, Len(s) - Keep + 2, Len(s)) ELSE s

\* all_messages[:-KEEP_RECENT] and all_messages[-KEEP_RECENT:].
Older(s) == IF Len(s) > Keep THEN SubSeq(s, 1, Len(s) - Keep) ELSE <<>>
Recent(s) == IF Len(s) > Keep THEN SubSeq(s, Len(s) - Keep + 1, Len(s)) ELSE s

\* The LLM has answered: the list is replaced in one transaction.  What the summary is
\* made of leaves earlier summaries out.
Replace(p) ==
  LET older == Older(talk[p].list)
      summary == [role |-> "system", tells |-> ToldBy({"user", "assistant"}, older)]
  IN
  /\ talk[p].at = "replace"
  /\ memory' = <<summary>> \o Recent(talk[p].list)
  /\ forgotten' = forgotten \cup ToldBy({"system"}, older)
  /\ Leave(p)
  /\ UNCHANGED <<last, heard, raced, stateVars, troubles>>

-----------------------------------------------------------------------------
\* A call of Redis or of the LLM fails, which ends the request (the summary's only
\* itself, but it is the last of it), the customer leaves, or the process ends.
Abandon(p) ==
  /\ talk[p].at # "idle"
  /\ Leave(p)
  /\ DropUpdate(p)
  /\ UNCHANGED <<last, memory, heard, raced, forgotten, troubles>>

\* The list lives for a day after the last write.
ExpireMemory ==
  /\ memory # <<>>
  /\ memory' = <<>>
  /\ heard' = {} /\ raced' = {} /\ forgotten' = {}
  /\ UNCHANGED <<last, talk, stateVars, troubles>>

\* Plain turns.
ChatNext ==
  \/ \E p \in Requests : Chat(p) \/ UpdateState(p) \/ Abandon(p)
  \/ ExpireState /\ UNCHANGED memoryVars

\* Streamed turns.
MemoryNext ==
  \/ \E p \in Requests :
       Stream(p) \/ AddMessage(p) \/ Measure(p) \/ ReadAll(p) \/ Replace(p) \/ Abandon(p)
  \/ ExpireMemory

-----------------------------------------------------------------------------
(* Properties.                                                             *)

\* "Everything older is distilled to a single summary entry" (summarizer.py:13): what was
\* said on the ticket is in its memory, as it was said or in a summary, though lists are
\* read, summarised for seconds and replaced while others write and summarise: unless it
\* was said while a summary was being made, or the summary that told it was summarised.
MemoryTellsAll == heard \subseteq Told(memory) \cup raced \cup forgotten
=============================================================================
