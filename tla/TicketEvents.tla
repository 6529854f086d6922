---------------------------- MODULE TicketEvents ----------------------------
(***************************************************************************)
(* The work on a ticket composed with the notifications of its events: the *)
(* event bus calls the handlers of both, the ticket's assignee is read by  *)
(* the handlers while requests change it, and the server process takes     *)
(* both with it when it ends.  The worker of the delivery jobs is another  *)
(* process.                                                                *)
(***************************************************************************)
EXTENDS TicketActivity

CONSTANTS Choosers, Choices, Default, Attempts, MaxStalls

VARIABLES
  preference, step, recipients, rows, job, recorded, watched, wished, steady

Delivery == INSTANCE NotificationDelivery

ASSUME DeliveryAssumption ==
  /\ Choosers \subseteq Users
  /\ Choices \subseteq Delivery!Preferences
  /\ Default \in Choices
  /\ Attempts \in Nat \ {0}
  /\ MaxStalls \in Nat

vars == <<activityVars, Delivery!deliveryVars>>

EventsInit == Init /\ Delivery!DeliveryInit

EventsNext ==
  \/ Proceed /\ Delivery!TicketChanges
  \/ \E r \in Requests, e \in Events : Emit(r, e) /\ Delivery!Notify(e, Payload(request[r]))
  \/ ServerDies /\ Delivery!LoseHandlers
  \/ Delivery!DeliveryNext /\ UNCHANGED activityVars

\* The worker process is restarted and takes its jobs; its queries are answered or fail.
EventsSpec ==
  /\ EventsInit
  /\ [][EventsNext]_vars
  /\ \A e \in Events : WF_vars(Delivery!Deliver(e) /\ UNCHANGED activityVars)

EventsTypeOK == TypeOK /\ Delivery!DeliveryTypeOK

-----------------------------------------------------------------------------
(* Properties.                                                             *)

\* Only those get a notification who, while the event was handled, were creator,
\* assignee or staff at some moment and wished it at some moment
\* (resolveRecipientsForTicketEvent, applyRecipientPreferences, which read the ticket
\* and the preferences at different times).
OnlyWatchersNotified ==
  \A e \in Events : step[e] = "queue" => rows[e] \subseteq watched[e] \cap wished[e]

\* Who did both all the time gets one, unless the handler fails
\* (createTicketEventNotificationService).
SteadyWatchersNotified ==
  \A e \in Events : step[e] = "queue" => steady[e] \subseteq rows[e]

\* Nobody is told of a notification that is not there: the rows are written before the
\* job is enqueued, whose payload names the recipients (enqueueNotification).
ToldHaveRows == \A e \in Events : job[e].state # "none" => recipients[e] \subseteq rows[e]

\* Every delivery job ends, done or failed, whatever fails and however often the worker
\* dies (notification.queue.js, notification.worker.js).
JobsSettle ==
  \A e \in Events : job[e].state # "none" ~> job[e].state \in {"done", "failed"}
=============================================================================
