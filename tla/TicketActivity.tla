--------------------------- MODULE TicketActivity ---------------------------
(***************************************************************************)
(* The work on one ticket (modules/tickets of the API gateway): comments,  *)
(* attachments and tags come and go, the ticket is assigned and changes    *)
(* its status.  Each request reads and checks, writes, and emits an event  *)
(* (events/eventBus.js), whose handler writes the activity log             *)
(* (events/handlers/ticket.handlers.js).  Another handler notifies; see    *)
(* NotificationDelivery.                                                   *)
(*                                                                         *)
(* Requests run concurrently, one action between two awaits; the queries   *)
(* of the ticket and of the membership are one, as roles do not change.    *)
(* The creation of the ticket and its automatic assignment are in          *)
(* AutoAssignment; here it exists.  Texts and files are left out, and what *)
(* is shown of a comment to whom.                                          *)
(***************************************************************************)
EXTENDS Integers, FiniteSets

CONSTANTS
  Users,        \* members of the organization
  Creator,      \* who created the ticket
  Staff,        \* users whose role sees and edits all tickets
  NoUser,
  Events,       \* bound of the model: events of the ticket
  NoEvent,
  Comments,     \* bound of the model: comments, each written once
  Attachments,  \* bound of the model: attachments, each added once
  Tags,         \* tags of the organization
  NoItem,
  Requests      \* requests served at the same time

Posts == Comments \cup Attachments
Items == Posts \cup Tags

Kinds == {"assigned", "status", "added", "removed"}
Payloads == [kind : Kinds, actor : Users, item : Items \cup {NoItem}, to : Users \cup {NoUser}]

ASSUME ActivityAssumption ==
  /\ Creator \in Users
  /\ Staff \subseteq Users
  /\ NoUser \notin Users
  /\ NoItem \notin Items
  /\ NoEvent \notin Payloads
  /\ IsFiniteSet(Events)
  /\ IsFiniteSet(Requests)
  /\ Posts \cap Tags = {}
  /\ Comments \cap Attachments = {}

VARIABLES
  assignee,  \* Ticket.assignedToId
  event,     \* event -> its payload, or NoEvent
  items,     \* comments, attachments and tags the ticket has
  author,    \* post -> who has added it, or NoUser
  request,   \* request -> what it does, or Idle
  logging,   \* event -> its activity: none, pending, logged or lost
  unlogged   \* history: items with a change whose activity is lost

activityVars == <<assignee, event, items, author, request, logging, unlogged>>

Idle == [pc |-> "idle"]

\* A request by user to change item in the way of kind (assigned: to user `to').
Working(user, kind, item, to, pc) ==
  [pc |-> pc, user |-> user, kind |-> kind, item |-> item, to |-> to]

Works == [pc : {"check", "write", "emit"}, user : Users, kind : Kinds \cup {"updated"},
          item : Items \cup {NoItem}, to : Users \cup {NoUser}]

TypeOK ==
  /\ assignee \in Users \cup {NoUser}
  /\ event \in [Events -> Payloads \cup {NoEvent}]
  /\ items \in SUBSET Items
  /\ author \in [Posts -> Users \cup {NoUser}]
  /\ request \in [Requests -> Works \cup {Idle}]
  /\ logging \in [Events -> {"none", "pending", "logged", "lost"}]
  /\ unlogged \in SUBSET Items

Init ==
  /\ assignee = NoUser
  /\ event = [e \in Events |-> NoEvent]
  /\ items = {}
  /\ author = [p \in Posts |-> NoUser]
  /\ request = [r \in Requests |-> Idle]
  /\ logging = [e \in Events |-> "none"]
  /\ unlogged = {}

-----------------------------------------------------------------------------
(* Permissions (ticket.policy.js), with the ticket as it is read.          *)

CanView(u) == u \in Staff \/ u \in {Creator, assignee}
CanEditAll(u) == u \in Staff

-----------------------------------------------------------------------------
(* Requests begin: the ticket and the membership.                          *)

\* Bound of the model: there is an event left for each request under way.
Emitting == {r \in Requests : request[r] # Idle /\ request[r].kind # "updated"}
Room == Cardinality(Emitting) < Cardinality({e \in Events : event[e] = NoEvent})

Begin(r, work) ==
  /\ request[r] = Idle
  /\ work.kind # "updated" => Room
  /\ request' = [request EXCEPT ![r] = work]
  /\ UNCHANGED <<assignee, event, items, author, logging, unlogged>>

AddPost(r, u, p) ==
  /\ CanView(u)
  /\ author[p] = NoUser
  /\ \A q \in Requests : request[q] # Idle => request[q].item # p
  /\ Begin(r, Working(u, "added", p, NoUser, "write"))

\* createTicketCommentService, createTicketAttachmentService.
AddComment(r, u, p) == p \in Comments /\ AddPost(r, u, p)
AddAttachment(r, u, p) == p \in Attachments /\ AddPost(r, u, p)

\* The post is read in the next step.
DeletePost(r, u, p) ==
  /\ CanView(u)
  /\ Begin(r, Working(u, "removed", p, NoUser, "check"))

\* deleteTicketCommentService, deleteTicketAttachmentService.
DeleteComment(r, u, p) == p \in Comments /\ DeletePost(r, u, p)
DeleteAttachment(r, u, p) == p \in Attachments /\ DeletePost(r, u, p)

\* addTicketTagService, deleteTicketTagService.
AddTag(r, u, t) ==
  /\ t \in Tags
  /\ CanEditAll(u)
  /\ Begin(r, Working(u, "added", t, NoUser, "check"))

RemoveTag(r, u, t) ==
  /\ t \in Tags
  /\ CanEditAll(u)
  /\ Begin(r, Working(u, "removed", t, NoUser, "check"))

\* updateTicketStatusService, to any status.
UpdateStatus(r, u) ==
  /\ CanEditAll(u)
  /\ Begin(r, Working(u, "status", NoItem, NoUser, "write"))

\* assignTicketService, to a member.
AssignTicket(r, u, to) ==
  /\ CanEditAll(u)
  /\ Begin(r, Working(u, "assigned", NoItem, to, "write"))

\* updateTicketService with an assignee: it emits nothing.
UpdateTicket(r, u, to) ==
  /\ CanEditAll(u)
  /\ Begin(r, Working(u, "updated", NoItem, to, "write"))

-----------------------------------------------------------------------------
(* Requests go on.                                                         *)

At(r, pc) == request[r] # Idle /\ request[r].pc = pc

\* The item is read: a tag must not be, or be, on the ticket; a post must be there and
\* be the user's own, except for staff.
Permits(w) ==
  IF w.kind = "added" THEN w.item \notin items
  ELSE /\ w.item \in items
       /\ w.item \in Posts => w.user \in Staff \/ author[w.item] = w.user

Check(r) ==
  /\ At(r, "check")
  /\ request' = [request EXCEPT ![r] = IF Permits(request[r]) THEN [@ EXCEPT !.pc = "write"] ELSE Idle]
  /\ UNCHANGED <<assignee, event, items, author, logging, unlogged>>

\* Mutant: the key of a tag on a ticket is not unique.
AddTwice(r, w) ==
  /\ w.kind = "added"
  /\ items' = items \cup {w.item}
  /\ author' = IF w.item \in Posts THEN [author EXCEPT ![w.item] = w.user] ELSE author
  /\ UNCHANGED assignee

\* The write.  The key of a tag on a ticket is unique and a row is deleted once, so that
\* of two requests that have passed the same check one fails.
Add(r, w) ==
  /\ w.kind = "added"
  /\ w.item \notin items
  /\ items' = items \cup {w.item}
  /\ author' = IF w.item \in Posts THEN [author EXCEPT ![w.item] = w.user] ELSE author
  /\ UNCHANGED assignee

Remove(r, w) ==
  /\ w.kind = "removed"
  /\ w.item \in items
  /\ items' = items \ {w.item}
  /\ UNCHANGED <<assignee, author>>

Assign(r, w) ==
  /\ w.kind \in {"assigned", "updated"}
  /\ assignee' = w.to
  /\ UNCHANGED <<items, author>>

Write(r) ==
  /\ At(r, "write")
  /\ LET w == request[r]
     IN  /\ \/ Add(r, w)
            \/ Remove(r, w)
            \/ Assign(r, w)
            \/ w.kind = "status" /\ UNCHANGED <<assignee, items, author>>
         /\ request' = [request EXCEPT ![r] =
              IF w.kind = "updated" THEN Idle ELSE [@ EXCEPT !.pc = "emit"]]
  /\ UNCHANGED <<event, logging, unlogged>>

Payload(w) == [kind |-> w.kind, actor |-> w.user, item |-> w.item, to |-> w.to]

\* emitTicketEvent, and the answer; setImmediate calls the handlers later.
Emit(r, e) ==
  /\ At(r, "emit")
  /\ event[e] = NoEvent
  /\ event' = [event EXCEPT ![e] = Payload(request[r])]
  /\ request' = [request EXCEPT ![r] = Idle]
  /\ logging' = [logging EXCEPT ![e] = "pending"]
  /\ UNCHANGED <<assignee, items, author, unlogged>>

\* A query fails, or its write finds the item changed meanwhile.
RequestFails(r) ==
  /\ request[r] # Idle
  /\ request[r].pc \in {"check", "write"}
  /\ request' = [request EXCEPT ![r] = Idle]
  /\ UNCHANGED <<assignee, event, items, author, logging, unlogged>>

-----------------------------------------------------------------------------
(* The activity log, and the end of the server process.                    *)

\* createTicketActivityLog; an error is logged and that is all.
RecordActivity(e) ==
  /\ logging[e] = "pending"
  /\ \/ /\ logging' = [logging EXCEPT ![e] = "logged"]
        /\ UNCHANGED unlogged
     \/ /\ logging' = [logging EXCEPT ![e] = "lost"]
        /\ unlogged' = unlogged \cup ({event[e].item} \ {NoItem})
  /\ UNCHANGED <<assignee, event, items, author, request>>

\* Requests and handlers are lost.
ServerDies ==
  /\ request' = [r \in Requests |-> Idle]
  /\ logging' = [e \in Events |-> IF logging[e] = "pending" THEN "lost" ELSE logging[e]]
  /\ unlogged' = unlogged
       \cup ({request[r].item : r \in {q \in Requests : At(q, "emit")}} \ {NoItem})
       \cup ({event[e].item : e \in {f \in Events : logging[f] = "pending"}} \ {NoItem})
  /\ UNCHANGED <<assignee, event, items, author>>

Proceed ==
  \/ \E r \in Requests :
       \/ \E u \in Users :
            \/ \E i \in Items :
                 \/ AddComment(r, u, i)
                 \/ AddAttachment(r, u, i)
                 \/ DeleteComment(r, u, i)
                 \/ DeleteAttachment(r, u, i)
                 \/ AddTag(r, u, i)
                 \/ RemoveTag(r, u, i)
            \/ UpdateStatus(r, u)
            \/ \E to \in Users : AssignTicket(r, u, to) \/ UpdateTicket(r, u, to)
       \/ Check(r)
       \/ Write(r)
       \/ RequestFails(r)
  \/ \E e \in Events : RecordActivity(e)

Next ==
  \/ Proceed
  \/ \E r \in Requests, e \in Events : Emit(r, e)
  \/ ServerDies

Spec == Init /\ [][Next]_activityVars

-----------------------------------------------------------------------------
(* Properties.                                                             *)

Logged(kind, i) ==
  {e \in Events : logging[e] = "logged" /\ event[e].kind = kind /\ event[e].item = i}

\* All that happened to the item is in the log.
AllLogged(i) ==
  /\ i \notin unlogged
  /\ \A e \in Events : logging[e] = "pending" => event[e].item # i
  /\ \A r \in Requests : At(r, "emit") => request[r].item # i

\* The activity log tells which comments, attachments and tags the ticket has, in
\* whatever order requests and handlers ran: two requests that add the same tag leave
\* one activity (addTicketTagService's check and insert, deleteTicketTagService and the
\* others alike).
LogTellsItems ==
  \A i \in Items : AllLogged(i) =>
    Cardinality(Logged("added", i)) - Cardinality(Logged("removed", i))
      = IF i \in items THEN 1 ELSE 0
=============================================================================
