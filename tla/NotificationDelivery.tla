------------------------ MODULE NotificationDelivery ------------------------
(***************************************************************************)
(* The notifications of the events of one ticket (modules/notifications of *)
(* the API gateway): the handler of an event resolves the recipients, asks *)
(* their preferences, writes a notification for each and enqueues one      *)
(* BullMQ job, whose worker is to tell the browsers over a web      *)
(* socket.                                                                 *)
(* The ticket and its events are those of TicketActivity; TicketEvents     *)
(* composes the two and states the properties.                             *)
(*                                                                         *)
(* Handlers run in the server process, one action between two awaits; they *)
(* are lost with the process.  The queue's worker runs in the worker       *)
(* process.  What a notification says, whether it was read, and the email  *)
(* and push channels, which are placeholders, are left out.  Roles do not  *)
(* change here.                                                            *)
(***************************************************************************)
EXTENDS Integers, FiniteSets

CONSTANTS
  Users,       \* members of the organization
  Creator,     \* who created the ticket
  Staff,       \* users whose role sees and edits all tickets
  NoUser,
  Events,      \* bound of the model: events of the ticket
  NoEvent,
  Choosers,    \* bound of the model: users who choose their preferences
  Choices,     \* the preferences they choose among
  Default,     \* those of a user who has never chosen
  Attempts,    \* attempts of a job
  MaxStalls    \* BullMQ's maxStalledCount

Preferences == [inApp : BOOLEAN, own : BOOLEAN]

VARIABLES
  assignee,     \* Ticket.assignedToId (of TicketActivity)
  event,        \* event -> its payload, or NoEvent (of TicketActivity)
  preference,   \* user -> preferences: inApp (of these types), own (not suppressSelf)
  step,         \* event -> what its notification handler does next
  recipients,   \* event -> the recipients its handler has found
  rows,         \* event -> recipients of its notifications
  job,          \* event -> its delivery job
  recorded,     \* events whose job's failure is in AIProcessingFailure
  watched,      \* history: event handled -> users who have watched the ticket meanwhile
  wished,       \* history: event handled -> users who have wished to be notified of it
  steady        \* history: event handled -> users who did both all the time

handlerVars == <<step, recipients, rows, watched, wished, steady>>
jobVars == <<job, recorded>>
deliveryVars == <<preference, handlerVars, jobVars>>

Steps == {"none", "resolve", "filter", "create", "queue", "done", "lost"}
JobStates == {"none", "waiting", "active", "told", "done", "failed"}
NoJob == [state |-> "none", made |-> 0, stalls |-> 0]
Ended(state) == [NoJob EXCEPT !.state = state]

DeliveryTypeOK ==
  /\ preference \in [Users -> Choices]
  /\ step \in [Events -> Steps]
  /\ recipients \in [Events -> SUBSET Users]
  /\ rows \in [Events -> SUBSET Users]
  /\ job \in [Events -> [state : JobStates, made : 0..(Attempts - 1), stalls : 0..MaxStalls]]
  /\ recorded \in SUBSET Events
  /\ watched \in [Events -> SUBSET Users]
  /\ wished \in [Events -> SUBSET Users]
  /\ steady \in [Events -> SUBSET Users]

DeliveryInit ==
  /\ preference = [u \in Users |-> Default]
  /\ step = [e \in Events |-> "none"]
  /\ recipients = [e \in Events |-> {}]
  /\ rows = [e \in Events |-> {}]
  /\ job = [e \in Events |-> NoJob]
  /\ recorded = {}
  /\ watched = [e \in Events |-> {}]
  /\ wished = [e \in Events |-> {}]
  /\ steady = [e \in Events |-> {}]

-----------------------------------------------------------------------------
(* Recipients.                                                             *)

\* resolveRecipientsForTicketEvent: the new assignee of an assignment, else the
\* ticket's creator and assignee as they are now, and the staff.
Watchers(payload, assigned) ==
  IF payload.kind = "assigned" THEN {payload.to} \ {NoUser}
  ELSE ({Creator, assigned} \ {NoUser}) \cup Staff

\* applyRecipientPreferences for one recipient.
Wishes(u, payload, prefs) ==
  /\ prefs[u].inApp
  /\ u = payload.actor => prefs[u].own

\* Events whose recipients are not settled yet.
Open == {e \in Events : step[e] \in {"resolve", "filter"}}

\* The history goes on with the ticket and the preferences that follow.
Observe ==
  LET watch(e) == Watchers(event[e], assignee')
      wish(e) == {u \in Users : Wishes(u, event[e], preference')}
  IN  /\ watched' = [e \in Events |-> IF e \in Open THEN watched[e] \cup watch(e) ELSE watched[e]]
      /\ wished' = [e \in Events |-> IF e \in Open THEN wished[e] \cup wish(e) ELSE wished[e]]
      /\ steady' = [e \in Events |->
           IF e \in Open THEN steady[e] \cap watch(e) \cap wish(e) ELSE steady[e]]

\* The history of handlers that have ended.
Forget(ended) ==
  LET clear(h) == [e \in Events |-> IF e \in ended THEN {} ELSE h[e]]
  IN  /\ watched' = clear(watched)
      /\ wished' = clear(wished)
      /\ steady' = clear(steady)

-----------------------------------------------------------------------------
(* The handler of an event (createTicketEventNotificationService).         *)

\* emitTicketEvent: setImmediate calls the handler later.  There is none for a change
\* of status.
Notify(e, payload) ==
  LET watch == Watchers(payload, assignee)
      wish == {u \in Users : Wishes(u, payload, preference)}
  IN  /\ step' = [step EXCEPT ![e] = IF payload.kind = "status" THEN "done" ELSE "resolve"]
      /\ watched' = [watched EXCEPT ![e] = watch]
      /\ wished' = [wished EXCEPT ![e] = wish]
      /\ steady' = [steady EXCEPT ![e] = watch \cap wish]
      /\ UNCHANGED <<preference, recipients, rows, jobVars>>

\* Mutant: the assignee of the ticket is forgotten.
ResolveWithoutAssignee(e) ==
  /\ step[e] = "resolve"
  /\ recipients' = [recipients EXCEPT ![e] = Watchers(event[e], NoUser)]
  /\ step' = [step EXCEPT ![e] = "filter"]
  /\ UNCHANGED <<preference, rows, watched, wished, steady, jobVars>>

\* getTicketNotificationContext and getOrganizationStaffRecipientIds.
Resolve(e) ==
  /\ step[e] = "resolve"
  /\ recipients' = [recipients EXCEPT ![e] = Watchers(event[e], assignee)]
  /\ step' = [step EXCEPT ![e] = "filter"]
  /\ UNCHANGED <<preference, rows, watched, wished, steady, jobVars>>

\* Mutant: the preferences are not asked, only the actor is left out.
FilterOthers(e) ==
  /\ step[e] = "filter"
  /\ recipients' = [recipients EXCEPT ![e] = @ \ {event[e].actor}]
  /\ step' = [step EXCEPT ![e] = "create"]
  /\ UNCHANGED <<preference, rows, watched, wished, steady, jobVars>>

\* Mutant: the job is enqueued before the rows are written.
FilterThenEnqueue(e) ==
  /\ step[e] = "filter"
  /\ recipients' = [recipients EXCEPT ![e] =
                      {u \in recipients[e] : Wishes(u, event[e], preference)}]
  /\ step' = [step EXCEPT ![e] = "queue"]
  /\ UNCHANGED <<preference, rows, watched, wished, steady, jobVars>>

\* getNotificationPreferencesForUsers.
Filter(e) ==
  /\ step[e] = "filter"
  /\ recipients' = [recipients EXCEPT ![e] =
                      {u \in recipients[e] : Wishes(u, event[e], preference)}]
  /\ step' = [step EXCEPT ![e] = "create"]
  /\ UNCHANGED <<preference, rows, watched, wished, steady, jobVars>>

\* createNotifications: one row each, all or none.
CreateRows(e) ==
  /\ step[e] = "create"
  /\ rows' = [rows EXCEPT ![e] = recipients[e]]
  /\ step' = [step EXCEPT ![e] = "queue"]
  /\ UNCHANGED <<preference, recipients, watched, wished, steady, jobVars>>

\* enqueueNotification, also when no recipient is left.
Enqueue(e) ==
  /\ step[e] = "queue"
  /\ job' = [job EXCEPT ![e].state = "waiting"]
  /\ step' = [step EXCEPT ![e] = "done"]
  /\ Forget({e})
  /\ UNCHANGED <<preference, recipients, rows, recorded>>

Handling == {"resolve", "filter", "create", "queue"}

\* A call of the handler fails, a foreign key included; the error is logged.
HandlerFails(e) ==
  /\ step[e] \in Handling
  /\ step' = [step EXCEPT ![e] = "lost"]
  /\ Forget({e})
  /\ UNCHANGED <<preference, recipients, rows, jobVars>>

\* What handlers in progress become when the server process ends.
LoseHandlers ==
  /\ step' = [e \in Events |-> IF step[e] \in Handling THEN "lost" ELSE step[e]]
  /\ Forget({e \in Events : step[e] \in Handling})
  /\ UNCHANGED <<preference, recipients, rows, jobVars>>

\* updateMyNotificationPreferencesService.
ChoosePreferences(u) ==
  /\ \E c \in Choices : preference' = [preference EXCEPT ![u] = c]
  /\ UNCHANGED <<assignee, step, recipients, rows, jobVars>>
  /\ Observe

-----------------------------------------------------------------------------
(* The delivery job (notification.worker.js).                              *)

\* The worker takes the job; a delay before a retry is over.
Take(e) ==
  /\ job[e].state = "waiting"
  /\ job' = [job EXCEPT ![e].state = "active"]
  /\ UNCHANGED <<preference, handlerVars, recorded>>

\* sendWebsocketChannel.  In the worker process nobody hears it: socket.gateway.js has
\* no io instance there, and emitNotificationToUser returns false.
Tell(e) ==
  /\ job[e].state = "active"
  /\ job' = [job EXCEPT ![e].state = "told"]
  /\ UNCHANGED <<preference, handlerVars, recorded>>

Complete(e) ==
  /\ job[e].state = "told"
  /\ job' = [job EXCEPT ![e] = Ended("done")]
  /\ UNCHANGED <<preference, handlerVars, recorded>>

\* Mutant: a failed attempt is not counted.
AttemptFailsUncounted(e) ==
  /\ job[e].state = "active"
  /\ job' = [job EXCEPT ![e].state = "waiting"]
  /\ UNCHANGED <<preference, handlerVars, recorded>>

\* The query fails: a retry, or the end and persistFailure, which may fail too.
AttemptFails(e) ==
  /\ job[e].state = "active"
  /\ IF job[e].made + 1 < Attempts
     THEN /\ job' = [job EXCEPT ![e].state = "waiting", ![e].made = @ + 1]
          /\ UNCHANGED recorded
     ELSE /\ job' = [job EXCEPT ![e] = Ended("failed")]
          /\ recorded' \in {recorded, recorded \cup {e}}
  /\ UNCHANGED <<preference, handlerVars>>

\* The worker process ends and BullMQ finds its jobs stalled.  One that has stalled too
\* often fails, without persistFailure, as it was not at its last attempt.
WorkerDies ==
  /\ \E e \in Events : job[e].state \in {"active", "told"}
  /\ job' = [e \in Events |->
       IF job[e].state \notin {"active", "told"} THEN job[e]
       ELSE IF job[e].stalls < MaxStalls
            THEN [job[e] EXCEPT !.state = "waiting", !.stalls = @ + 1]
            ELSE Ended("failed")]
  /\ UNCHANGED <<preference, handlerVars, recorded>>

Deliver(e) == Take(e) \/ Tell(e) \/ Complete(e) \/ AttemptFails(e)

\* The ticket may change under the handlers, which do not notice.
TicketChanges ==
  /\ UNCHANGED <<preference, step, recipients, rows, jobVars>>
  /\ Observe

DeliveryNext ==
  \/ \E e \in Events :
       \/ Resolve(e)
       \/ Filter(e)
       \/ CreateRows(e)
       \/ Enqueue(e)
       \/ HandlerFails(e)
       \/ Deliver(e)
  \/ \E u \in Choosers : ChoosePreferences(u)
  \/ WorkerDies
=============================================================================
