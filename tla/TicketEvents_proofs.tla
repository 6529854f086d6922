------------------------- MODULE TicketEvents_proofs -------------------------
(***************************************************************************)
(* Proofs about tickets, their activity log and their notifications.       *)
(*                                                                         *)
(* Of TicketActivity: type correctness, and that the activity log tells    *)
(* which items the ticket has.  Each change of an item that is not lost is *)
(* known in one place, the request that has written it, its event, or the  *)
(* log; counting them there gives an inductive invariant.                  *)
(*                                                                         *)
(* Of TicketEvents, which adds the deliveries: type correctness, who is    *)
(* notified, and that no delivery job is without its notifications.  The   *)
(* recipients a handler has found lie between those who always watched and *)
(* wished and those who ever did; the invariant says so at each of its     *)
(* steps.                                                                  *)
(***************************************************************************)
EXTENDS TicketEvents, FiniteSetTheorems, TLAPS


\* What goes on to emit is not an update of the ticket; what adds or removes, an item.
WorkInv(w) ==
  /\ w.pc = "emit" => w.kind # "updated"
  /\ w.kind \in {"added", "removed"} => w.item \in Items

ActivityInv ==
  /\ \A r \in Requests : request[r] # Idle => WorkInv(request[r])
  /\ \A e \in Events : logging[e] # "none" => event[e] # NoEvent

-----------------------------------------------------------------------------
(* Types of the ticket and its requests.                                   *)

LEMMA BeginTypes ==
  ASSUME TypeOK, ActivityInv, NEW r \in Requests, NEW work \in Works,
         WorkInv(work), Begin(r, work)
  PROVE  TypeOK' /\ ActivityInv' /\ event' = event
  BY DEF TypeOK, ActivityInv, Begin

LEMMA WorkTyped ==
  ASSUME NEW u \in Users, NEW to \in Users \cup {NoUser}, NEW i \in Items \cup {NoItem},
         NEW kind \in Kinds \cup {"updated"}, NEW pc \in {"check", "write"},
         kind \in {"added", "removed"} => i \in Items
  PROVE  /\ Working(u, kind, i, to, pc) \in Works
         /\ WorkInv(Working(u, kind, i, to, pc))
  BY DEF Working, Works, WorkInv

LEMMA AtWorks ==
  ASSUME TypeOK, NEW r \in Requests, request[r] # Idle
  PROVE  request[r] \in Works
  BY DEF TypeOK

LEMMA ProceedTypes ==
  ASSUME TypeOK, ActivityInv, Proceed
  PROVE  TypeOK' /\ ActivityInv' /\ event' = event
<1> USE DEF Kinds
<1>1. ASSUME NEW r \in Requests, NEW u \in Users, NEW i \in Items,
             \/ AddComment(r, u, i) \/ AddAttachment(r, u, i)
             \/ DeleteComment(r, u, i) \/ DeleteAttachment(r, u, i)
             \/ AddTag(r, u, i) \/ RemoveTag(r, u, i)
      PROVE  TypeOK' /\ ActivityInv' /\ event' = event
  <2>1. PICK kind \in {"added", "removed"}, pc \in {"check", "write"} :
          Begin(r, Working(u, kind, i, NoUser, pc))
    BY <1>1 DEF AddComment, AddAttachment, AddPost, DeleteComment, DeleteAttachment,
                DeletePost, AddTag, RemoveTag
  <2>2. /\ Working(u, kind, i, NoUser, pc) \in Works
        /\ WorkInv(Working(u, kind, i, NoUser, pc))
    BY WorkTyped
  <2> QED
    BY <2>1, <2>2, BeginTypes
<1>2. ASSUME NEW r \in Requests, NEW u \in Users, UpdateStatus(r, u)
      PROVE  TypeOK' /\ ActivityInv' /\ event' = event
  <2>1. /\ Working(u, "status", NoItem, NoUser, "write") \in Works
        /\ WorkInv(Working(u, "status", NoItem, NoUser, "write"))
    BY WorkTyped
  <2> QED
    BY <1>2, <2>1, BeginTypes DEF UpdateStatus
<1>3. ASSUME NEW r \in Requests, NEW u \in Users, NEW to \in Users,
             AssignTicket(r, u, to) \/ UpdateTicket(r, u, to)
      PROVE  TypeOK' /\ ActivityInv' /\ event' = event
  <2>1. PICK kind \in {"assigned", "updated"} : Begin(r, Working(u, kind, NoItem, to, "write"))
    BY <1>3 DEF AssignTicket, UpdateTicket
  <2>2. /\ Working(u, kind, NoItem, to, "write") \in Works
        /\ WorkInv(Working(u, kind, NoItem, to, "write"))
    BY WorkTyped
  <2> QED
    BY <2>1, <2>2, BeginTypes
<1>4. ASSUME NEW r \in Requests, Check(r)
      PROVE  TypeOK' /\ ActivityInv' /\ event' = event
  <2>1. request[r] \in Works
    BY <1>4, AtWorks DEF Check, At
  <2>2. /\ [request[r] EXCEPT !.pc = "write"] \in Works
        /\ WorkInv([request[r] EXCEPT !.pc = "write"])
    BY <1>4, <2>1 DEF Works, Check, At, ActivityInv, WorkInv
  <2> QED
    BY <1>4, <2>2 DEF Check, TypeOK, ActivityInv
<1>5. ASSUME NEW r \in Requests, Write(r)
      PROVE  TypeOK' /\ ActivityInv' /\ event' = event
  <2>1. request[r] \in Works
    BY <1>5, AtWorks DEF Write, At
  <2>2. [request[r] EXCEPT !.pc = "emit"] \in Works
    BY <2>1 DEF Works
  <2>6. WorkInv(request[r])
    BY <1>5 DEF Write, At, ActivityInv
  <2>3. /\ request' \in [Requests -> Works \cup {Idle}]
        /\ ActivityInv'
    <3>1. CASE request[r].kind = "updated"
      BY <1>5, <3>1 DEF Write, TypeOK, ActivityInv
    <3>2. CASE request[r].kind # "updated"
      <4>1. request' = [request EXCEPT ![r] = [@ EXCEPT !.pc = "emit"]]
        BY <1>5, <3>2 DEF Write
      <4>2. WorkInv([request[r] EXCEPT !.pc = "emit"])
        BY <2>1, <2>6, <3>2 DEF Works, WorkInv
      <4>3. UNCHANGED <<event, logging>>
        BY <1>5 DEF Write
      <4> QED
        BY <2>2, <4>1, <4>2, <4>3 DEF TypeOK, ActivityInv
    <3> QED
      BY <3>1, <3>2
  <2>4. /\ request[r].item \in Items \cup {NoItem}
        /\ request[r].to \in Users \cup {NoUser}
        /\ request[r].user \in Users
    BY <2>1 DEF Works
  <2>5. /\ items' \in SUBSET Items
        /\ author' \in [Posts -> Users \cup {NoUser}]
        /\ assignee' \in Users \cup {NoUser}
    <3>1. CASE Add(r, request[r])
      <4>1. request[r].item \in Items
        BY <2>6, <3>1 DEF Add, WorkInv
      <4> QED
        BY <3>1, <4>1, <2>4 DEF Add, TypeOK
    <3>2. CASE Remove(r, request[r])
      BY <3>2 DEF Remove, TypeOK
    <3>3. CASE Assign(r, request[r])
      BY <3>3, <2>4 DEF Assign, TypeOK
    <3>4. CASE UNCHANGED <<assignee, items, author>>
      BY <3>4 DEF TypeOK
    <3> QED
      BY <1>5, <3>1, <3>2, <3>3, <3>4 DEF Write
  <2> QED
    BY <1>5, <2>3, <2>5 DEF Write, TypeOK
<1>6. ASSUME NEW r \in Requests, RequestFails(r)
      PROVE  TypeOK' /\ ActivityInv' /\ event' = event
  BY <1>6 DEF RequestFails, TypeOK, ActivityInv
<1>7. ASSUME NEW e \in Events, RecordActivity(e)
      PROVE  TypeOK' /\ ActivityInv' /\ event' = event
  <2>1. event[e].item \in Items \cup {NoItem}
    BY <1>7 DEF RecordActivity, TypeOK, ActivityInv, Payloads
  <2> QED
    BY <1>7, <2>1 DEF RecordActivity, TypeOK, ActivityInv
<1> QED
  BY <1>1, <1>2, <1>3, <1>4, <1>5, <1>6, <1>7 DEF Proceed

LEMMA EmitTypes ==
  ASSUME TypeOK, ActivityInv, NEW r \in Requests, NEW e \in Events, Emit(r, e)
  PROVE  /\ TypeOK' /\ ActivityInv'
         /\ event' = [event EXCEPT ![e] = Payload(request[r])]
         /\ Payload(request[r]) \in Payloads
         /\ UNCHANGED assignee
<1>1. request[r] \in Works /\ WorkInv(request[r])
  BY AtWorks DEF Emit, At, ActivityInv
<1>2. Payload(request[r]) \in Payloads
  BY <1>1 DEF Emit, At, Works, WorkInv, Payload, Payloads, Kinds
<1>3. Payload(request[r]) # NoEvent
  BY <1>2, ActivityAssumption
<1> QED
  BY <1>2, <1>3 DEF Emit, TypeOK, ActivityInv

LEMMA ServerDiesTypes ==
  ASSUME TypeOK, ActivityInv, ServerDies
  PROVE  TypeOK' /\ ActivityInv' /\ UNCHANGED <<event, assignee>>
<1>1. \A r \in Requests : At(r, "emit") => request[r].item \in Items \cup {NoItem}
  BY AtWorks DEF At, Works
<1>2. \A e \in Events : logging[e] = "pending" => event[e].item \in Items \cup {NoItem}
  BY DEF TypeOK, ActivityInv, Payloads
<1>3. unlogged' \in SUBSET Items
  BY <1>1, <1>2 DEF ServerDies, TypeOK
<1> QED
  BY <1>3 DEF ServerDies, TypeOK, ActivityInv


-----------------------------------------------------------------------------
(* Where the changes of items are.                                         *)

\* Changes written and not emitted yet, and changes emitted and not lost.
Holds(r, kind, i) == At(r, "emit") /\ request[r].kind = kind /\ request[r].item = i
Tells(e, kind, i) ==
  /\ logging[e] \in {"pending", "logged"}
  /\ event[e].kind = kind
  /\ event[e].item = i

ToEmit(kind, i) == {r \in Requests : Holds(r, kind, i)}
Noted(kind, i) == {e \in Events : Tells(e, kind, i)}

Known(kind, i) == Cardinality(ToEmit(kind, i)) + Cardinality(Noted(kind, i))

CountInv ==
  \A i \in Items \ unlogged :
    Known("added", i) - Known("removed", i) = IF i \in items THEN 1 ELSE 0

Inv == TypeOK /\ ActivityInv /\ CountInv

LEMMA Counts ==
  ASSUME NEW kind, NEW i
  PROVE  /\ IsFiniteSet(ToEmit(kind, i)) /\ Cardinality(ToEmit(kind, i)) \in Nat
         /\ IsFiniteSet(Noted(kind, i)) /\ Cardinality(Noted(kind, i)) \in Nat
<1>1. IsFiniteSet(ToEmit(kind, i)) /\ IsFiniteSet(Noted(kind, i))
  BY FS_Subset, ActivityAssumption DEF ToEmit, Noted
<1> QED
  BY <1>1, FS_CardinalityType

\* A step that changes no item, and moves no change.
LEMMA SameKeeps ==
  ASSUME CountInv, items' = items, unlogged \subseteq unlogged',
         \A kind \in {"added", "removed"}, i \in Items \ unlogged' :
           /\ \A r \in Requests : Holds(r, kind, i)' = Holds(r, kind, i)
           /\ \A e \in Events : Tells(e, kind, i)' = Tells(e, kind, i)
  PROVE  CountInv'
<1> SUFFICES ASSUME NEW i \in Items \ unlogged'
    PROVE  Known("added", i)' - Known("removed", i)' = IF i \in items' THEN 1 ELSE 0
  BY DEF CountInv
<1>1. \A kind \in {"added", "removed"} : Known(kind, i)' = Known(kind, i)
  <2> SUFFICES ASSUME NEW kind \in {"added", "removed"}
      PROVE  Known(kind, i)' = Known(kind, i)
    OBVIOUS
  <2>1. ToEmit(kind, i)' = ToEmit(kind, i)
    BY DEF ToEmit
  <2>2. Noted(kind, i)' = Noted(kind, i)
    BY DEF Noted
  <2> QED
    BY <2>1, <2>2 DEF Known
<1> QED
  BY <1>1 DEF CountInv

\* A request comes to know of a change of item it has just made.
LEMMA ChangeKnown ==
  ASSUME Inv, NEW r \in Requests, NEW kind \in {"added", "removed"}, NEW item \in Items,
         ~At(r, "emit"), UNCHANGED <<event, logging, unlogged>>,
         Holds(r, kind, item)',
         \A q \in Requests \ {r} : request'[q] = request[q]
  PROVE  /\ Known(kind, item)' = Known(kind, item) + 1
         /\ \A k \in {"added", "removed"}, i \in Items :
              k # kind \/ i # item => Known(k, i)' = Known(k, i)
<1>1. \A k \in {"added", "removed"}, i \in Items : Noted(k, i)' = Noted(k, i)
  BY DEF Noted, Tells
<1>2. /\ \A q \in Requests \ {r} : \A k \in {"added", "removed"}, i \in Items :
           Holds(q, k, i)' = Holds(q, k, i)
      /\ \A k \in {"added", "removed"}, i \in Items :
           /\ ~Holds(r, k, i)
           /\ k # kind \/ i # item => ~Holds(r, k, i)'
  BY DEF Holds, At
<1>3. Known(kind, item)' = Known(kind, item) + 1
  <2>1. /\ ToEmit(kind, item)' = ToEmit(kind, item) \cup {r}
        /\ r \notin ToEmit(kind, item)
    BY <1>2 DEF ToEmit
  <2>2. Cardinality(ToEmit(kind, item)') = Cardinality(ToEmit(kind, item)) + 1
    BY <2>1, Counts, FS_AddElement
  <2> QED
    BY <1>1, <2>2, Counts DEF Known
<1>4. ASSUME NEW k \in {"added", "removed"}, NEW i \in Items, k # kind \/ i # item
      PROVE  Known(k, i)' = Known(k, i)
  <2>1. ToEmit(k, i)' = ToEmit(k, i)
    BY <1>2, <1>4 DEF ToEmit
  <2> QED
    BY <1>1, <2>1 DEF Known
<1> QED
  BY <1>3, <1>4

LEMMA CountedInts ==
  \A kind, i : Known(kind, i) \in Nat
  BY Counts DEF Known

LEMMA WriteCounts ==
  ASSUME Inv, NEW r \in Requests, Write(r)
  PROVE  CountInv'
<1> DEFINE w == request[r]
<1>1. /\ w \in Works /\ WorkInv(w)
      /\ ~At(r, "emit")
      /\ UNCHANGED <<event, logging, unlogged>>
  BY AtWorks DEF Inv, Write, At, ActivityInv
<1>2. /\ request'[r] = IF w.kind = "updated" THEN Idle ELSE [w EXCEPT !.pc = "emit"]
      /\ \A q \in Requests \ {r} : request'[q] = request[q]
  BY DEF Inv, TypeOK, Write
<1>3. w.kind # "updated" =>
        /\ At(r, "emit")'
        /\ request'[r].kind = w.kind /\ request'[r].item = w.item
  BY <1>1, <1>2 DEF At, Works, Idle
<1>4. CASE w.kind \in {"assigned", "updated", "status"}
  <2>1. items' = items
    BY <1>4 DEF Write, Add, Remove, Assign
  <2>2. \A kind \in {"added", "removed"}, i \in Items : ~Holds(r, kind, i) /\ ~Holds(r, kind, i)'
    <3>1. CASE w.kind = "updated"
      BY <1>1, <1>2, <3>1 DEF Holds, At
    <3>2. CASE w.kind \in {"assigned", "status"}
      BY <1>1, <1>3, <3>2 DEF Holds
    <3> QED
      BY <1>4, <3>1, <3>2
  <2>3. \A kind \in {"added", "removed"}, i \in Items : \A q \in Requests :
          Holds(q, kind, i)' = Holds(q, kind, i)
    BY <1>2, <2>2 DEF Holds, At
  <2>4. \A kind \in {"added", "removed"}, i \in Items : \A e \in Events :
          Tells(e, kind, i)' = Tells(e, kind, i)
    BY <1>1 DEF Tells
  <2> QED
    BY <1>1, <2>1, <2>3, <2>4, SameKeeps DEF Inv
<1>5. ASSUME NEW kind \in {"added", "removed"}, NEW item, w.kind = kind, w.item = item
      PROVE  CountInv'
  <2>1. item \in Items
    BY <1>1, <1>5 DEF WorkInv
  <2>2. Holds(r, kind, item)'
    BY <1>3, <1>5 DEF Holds
  <2>3. /\ Known(kind, item)' = Known(kind, item) + 1
        /\ \A k \in {"added", "removed"}, i \in Items :
             k # kind \/ i # item => Known(k, i)' = Known(k, i)
    BY <1>1, <1>2, <2>1, <2>2, ChangeKnown
  <2>4. \/ kind = "added" /\ item \notin items /\ items' = items \cup {item}
        \/ kind = "removed" /\ item \in items /\ items' = items \ {item}
    BY <1>5 DEF Write, Add, Remove, Assign
  <2> SUFFICES ASSUME NEW i \in Items \ unlogged'
      PROVE  Known("added", i)' - Known("removed", i)' = IF i \in items' THEN 1 ELSE 0
    BY DEF CountInv
  <2>5. /\ Known("added", i) - Known("removed", i) = IF i \in items THEN 1 ELSE 0
        /\ Known("added", i) \in Nat /\ Known("removed", i) \in Nat
    BY <1>1, CountedInts DEF Inv, CountInv
  <2>6. CASE i # item
    BY <2>3, <2>4, <2>5, <2>6
  <2>7. CASE i = item
    <3>1. CASE kind = "added"
      <4>1. /\ Known("added", i)' = Known("added", i) + 1
            /\ Known("removed", i)' = Known("removed", i)
        BY <2>1, <2>3, <2>7, <3>1
      <4> QED
        BY <2>4, <2>5, <2>7, <3>1, <4>1
    <3>2. CASE kind = "removed"
      <4>1. /\ Known("removed", i)' = Known("removed", i) + 1
            /\ Known("added", i)' = Known("added", i)
        BY <2>1, <2>3, <2>7, <3>2
      <4> QED
        BY <2>4, <2>5, <2>7, <3>2, <4>1
    <3> QED
      BY <1>5, <3>1, <3>2
  <2> QED
    BY <2>6, <2>7
<1>6. w.kind \in {"assigned", "updated", "status", "added", "removed"}
  BY <1>1 DEF Works, Kinds
<1> QED
  BY <1>4, <1>5, <1>6

LEMMA EmitCounts ==
  ASSUME Inv, NEW r \in Requests, NEW e \in Events, Emit(r, e)
  PROVE  CountInv'
<1> DEFINE w == request[r]
<1>1. /\ w \in Works /\ At(r, "emit")
      /\ logging[e] = "none"
      /\ UNCHANGED <<items, unlogged>>
  BY AtWorks DEF Inv, Emit, At, ActivityInv
<1>2. /\ request'[r] = Idle /\ event'[e] = Payload(w) /\ logging'[e] = "pending"
      /\ \A q \in Requests \ {r} : request'[q] = request[q]
      /\ \A f \in Events \ {e} : event'[f] = event[f] /\ logging'[f] = logging[f]
  BY DEF Inv, TypeOK, Emit
<1>3. ASSUME NEW kind \in {"added", "removed"}, NEW i \in Items
      PROVE  Known(kind, i)' = Known(kind, i)
  <2>1. /\ ~Holds(r, kind, i)' /\ ~Tells(e, kind, i)
        /\ Holds(r, kind, i) <=> w.kind = kind /\ w.item = i
        /\ Tells(e, kind, i)' <=> w.kind = kind /\ w.item = i
        /\ \A q \in Requests \ {r} : Holds(q, kind, i)' = Holds(q, kind, i)
        /\ \A f \in Events \ {e} : Tells(f, kind, i)' = Tells(f, kind, i)
    BY <1>1, <1>2 DEF Holds, Tells, At, Payload
  <2>2. CASE w.kind = kind /\ w.item = i
    <3>1. /\ ToEmit(kind, i)' = ToEmit(kind, i) \ {r} /\ r \in ToEmit(kind, i)
          /\ Noted(kind, i)' = Noted(kind, i) \cup {e} /\ e \notin Noted(kind, i)
      BY <2>1, <2>2 DEF ToEmit, Noted
    <3>2. Cardinality(ToEmit(kind, i)') = Cardinality(ToEmit(kind, i)) - 1
      BY <3>1, Counts, FS_RemoveElement
    <3>3. Cardinality(Noted(kind, i)') = Cardinality(Noted(kind, i)) + 1
      BY <3>1, Counts, FS_AddElement
    <3> QED
      BY <3>2, <3>3, Counts DEF Known
  <2>3. CASE ~(w.kind = kind /\ w.item = i)
    <3>1. ToEmit(kind, i)' = ToEmit(kind, i) /\ Noted(kind, i)' = Noted(kind, i)
      BY <2>1, <2>3 DEF ToEmit, Noted
    <3> QED
      BY <3>1 DEF Known
  <2> QED
    BY <2>2, <2>3
<1> QED
  BY <1>1, <1>3 DEF Inv, CountInv

LEMMA BeginCounts ==
  ASSUME Inv, NEW r \in Requests, NEW work \in Works, WorkInv(work), work.pc # "emit",
         Begin(r, work)
  PROVE  CountInv'
<1>1. /\ \A kind, i : ~Holds(r, kind, i) /\ ~Holds(r, kind, i)'
      /\ \A q \in Requests \ {r} : request'[q] = request[q]
  BY DEF Inv, TypeOK, Begin, Holds, At
<1> QED
  BY <1>1, SameKeeps DEF Inv, Begin, Holds, At, Tells

LEMMA OtherCounts ==
  ASSUME Inv, NEW r \in Requests, Check(r) \/ RequestFails(r)
  PROVE  CountInv'
<1>1. request[r] \in Works /\ request[r].pc # "emit"
  BY AtWorks DEF Inv, Check, RequestFails, At
<1>2. request'[r] # Idle => request'[r].pc # "emit"
  BY <1>1 DEF Inv, TypeOK, Check, RequestFails, Works
<1>3. /\ \A kind, i : ~Holds(r, kind, i) /\ ~Holds(r, kind, i)'
      /\ \A q \in Requests \ {r} : request'[q] = request[q]
  BY <1>1, <1>2 DEF Inv, TypeOK, Check, RequestFails, Holds, At
<1>4. UNCHANGED <<items, unlogged, event, logging>>
  BY DEF Check, RequestFails
<1> QED
  BY <1>3, <1>4, SameKeeps DEF Inv, Holds, At, Tells

LEMMA RecordCounts ==
  ASSUME Inv, NEW e \in Events, RecordActivity(e)
  PROVE  CountInv'
<1>1. /\ UNCHANGED <<items, event, request>>
      /\ unlogged \subseteq unlogged'
      /\ \A f \in Events \ {e} : logging'[f] = logging[f]
      /\ logging[e] = "pending"
      /\ \/ logging'[e] = "logged"
         \/ unlogged' = unlogged \cup ({event[e].item} \ {NoItem})
  BY DEF Inv, TypeOK, RecordActivity
<1>2. ASSUME NEW kind \in {"added", "removed"}, NEW i \in Items \ unlogged', NEW f \in Events
      PROVE  Tells(f, kind, i)' = Tells(f, kind, i)
  <2>1. CASE f # e
    BY <1>1, <2>1 DEF Tells
  <2>2. CASE f = e
    BY <1>1, <2>2, ActivityAssumption DEF Tells
  <2> QED
    BY <2>1, <2>2
<1> QED
  BY <1>1, <1>2, SameKeeps DEF Inv, Holds, At

LEMMA ServerDiesCounts ==
  ASSUME Inv, ServerDies
  PROVE  CountInv'
<1>1. items' = items /\ unlogged \subseteq unlogged' /\ event' = event
  BY DEF ServerDies
<1>2. ASSUME NEW kind \in {"added", "removed"}, NEW i \in Items \ unlogged', NEW r \in Requests
      PROVE  Holds(r, kind, i)' = Holds(r, kind, i)
  <2>1. ~Holds(r, kind, i)'
    BY DEF Holds, At, ServerDies
  <2>2. ~Holds(r, kind, i)
    <3> SUFFICES ASSUME Holds(r, kind, i) PROVE FALSE
      OBVIOUS
    <3>1. i \in {request[q].item : q \in {p \in Requests : At(p, "emit")}}
      BY DEF Holds
    <3>2. i # NoItem
      BY ActivityAssumption
    <3>3. i \in unlogged'
      BY <3>1, <3>2 DEF ServerDies
    <3> QED
      BY <3>3
  <2> QED
    BY <2>1, <2>2 DEF Holds
<1>3. ASSUME NEW kind \in {"added", "removed"}, NEW i \in Items \ unlogged', NEW e \in Events
      PROVE  Tells(e, kind, i)' = Tells(e, kind, i)
  BY ActivityAssumption DEF Tells, ServerDies
<1> QED
  BY <1>1, <1>2, <1>3, SameKeeps DEF Inv

-----------------------------------------------------------------------------
(* The invariant.                                                          *)

LEMMA InvInit == Init => Inv
<1> SUFFICES ASSUME Init PROVE Inv
  OBVIOUS
<1>1. \A kind, i : ToEmit(kind, i) = {} /\ Noted(kind, i) = {}
  BY DEF Init, ToEmit, Noted, Holds, Tells, At
<1>2. \A kind, i : Known(kind, i) = 0
  BY <1>1, FS_EmptySet DEF Known
<1> QED
  BY <1>2 DEF Init, Inv, TypeOK, ActivityInv, CountInv

LEMMA InvNext == Inv /\ [Next]_activityVars => Inv'
<1> SUFFICES ASSUME Inv, [Next]_activityVars PROVE Inv'
  OBVIOUS
<1>1. CASE Proceed
  <2>1. TypeOK' /\ ActivityInv'
    BY <1>1, ProceedTypes DEF Inv
  <2>2. CountInv'
    <3> USE DEF Kinds
    <3>1. ASSUME NEW r \in Requests, NEW work \in Works, WorkInv(work), work.pc # "emit",
                 Begin(r, work)
          PROVE  CountInv'
      BY <3>1, BeginCounts
    <3>2. ASSUME NEW r \in Requests, NEW u \in Users, NEW i \in Items,
                 \/ AddComment(r, u, i) \/ AddAttachment(r, u, i)
                 \/ DeleteComment(r, u, i) \/ DeleteAttachment(r, u, i)
                 \/ AddTag(r, u, i) \/ RemoveTag(r, u, i)
          PROVE  CountInv'
      <4>1. PICK kind \in {"added", "removed"}, pc \in {"check", "write"} :
              Begin(r, Working(u, kind, i, NoUser, pc))
        BY <3>2 DEF AddComment, AddAttachment, AddPost, DeleteComment, DeleteAttachment,
                    DeletePost, AddTag, RemoveTag
      <4>2. /\ Working(u, kind, i, NoUser, pc) \in Works
            /\ WorkInv(Working(u, kind, i, NoUser, pc))
        BY WorkTyped
      <4>3. Working(u, kind, i, NoUser, pc).pc # "emit"
        BY DEF Working
      <4> QED
        BY <4>1, <4>2, <4>3, <3>1
    <3>3. ASSUME NEW r \in Requests, NEW u \in Users, UpdateStatus(r, u)
          PROVE  CountInv'
      <4>1. /\ Working(u, "status", NoItem, NoUser, "write") \in Works
            /\ WorkInv(Working(u, "status", NoItem, NoUser, "write"))
        BY WorkTyped
      <4>2. Working(u, "status", NoItem, NoUser, "write").pc # "emit"
        BY DEF Working
      <4> QED
        BY <3>3, <4>1, <4>2, <3>1 DEF UpdateStatus
    <3>4. ASSUME NEW r \in Requests, NEW u \in Users, NEW to \in Users,
                 AssignTicket(r, u, to) \/ UpdateTicket(r, u, to)
          PROVE  CountInv'
      <4>1. PICK kind \in {"assigned", "updated"} :
              Begin(r, Working(u, kind, NoItem, to, "write"))
        BY <3>4 DEF AssignTicket, UpdateTicket
      <4>2. /\ Working(u, kind, NoItem, to, "write") \in Works
            /\ WorkInv(Working(u, kind, NoItem, to, "write"))
        BY WorkTyped
      <4>3. Working(u, kind, NoItem, to, "write").pc # "emit"
        BY DEF Working
      <4> QED
        BY <4>1, <4>2, <4>3, <3>1
    <3> QED
      BY <1>1, <3>2, <3>3, <3>4, WriteCounts, OtherCounts, RecordCounts DEF Proceed
  <2> QED
    BY <2>1, <2>2 DEF Inv
<1>2. CASE \E r \in Requests, e \in Events : Emit(r, e)
  BY <1>2, EmitTypes, EmitCounts DEF Inv
<1>3. CASE ServerDies
  BY <1>3, ServerDiesTypes, ServerDiesCounts DEF Inv
<1>4. CASE UNCHANGED activityVars
  <2>1. TypeOK' /\ ActivityInv'
    BY <1>4 DEF Inv, TypeOK, ActivityInv, activityVars
  <2>2. CountInv'
    BY <1>4, SameKeeps DEF Inv, activityVars, Holds, At, Tells
  <2> QED
    BY <2>1, <2>2 DEF Inv
<1> QED
  BY <1>1, <1>2, <1>3, <1>4 DEF Next

\* The inductive invariant.
THEOREM InvCorrect == Spec => []Inv
  BY InvInit, InvNext, PTL DEF Spec

\* Type correctness of the ticket and its requests.
THEOREM TypeCorrect == Spec => []TypeOK
<1>1. Inv => TypeOK
  BY DEF Inv
<1> QED
  BY <1>1, InvCorrect, PTL

\* The activity log tells which items the ticket has (ticket.handlers.js against
\* addTicketTagService and the others), for any number of requests and events.
THEOREM LogCorrect == Spec => []LogTellsItems
<1>1. Inv => LogTellsItems
  <2> SUFFICES ASSUME Inv, NEW i \in Items, AllLogged(i)
      PROVE  Cardinality(Logged("added", i)) - Cardinality(Logged("removed", i))
               = IF i \in items THEN 1 ELSE 0
    BY DEF LogTellsItems
  <2>1. \A kind : ToEmit(kind, i) = {} /\ Noted(kind, i) = Logged(kind, i)
    BY DEF AllLogged, ToEmit, Noted, Holds, Tells, Logged
  <2>2. \A kind : Known(kind, i) = Cardinality(Logged(kind, i))
    BY <2>1, FS_EmptySet, Counts DEF Known
  <2>3. i \in Items \ unlogged
    BY DEF AllLogged
  <2> QED
    BY <2>2, <2>3 DEF Inv, CountInv
<1> QED
  BY <1>1, InvCorrect, PTL

-----------------------------------------------------------------------------
(* The invariant of TicketEvents.                                          *)


\* Those the ticket and the preferences of the moment make recipients of e.
Watching(e) == Delivery!Watchers(event[e], assignee)
Wishing(e) == {u \in Users : Delivery!Wishes(u, event[e], preference)}

\* What a handler knows at each step, between the always and the ever.
Knows(e) ==
  /\ step[e] = "resolve" =>
       /\ Watching(e) \subseteq watched[e]
       /\ Wishing(e) \subseteq wished[e]
       /\ steady[e] \subseteq Watching(e) \cap Wishing(e)
  /\ step[e] = "filter" =>
       /\ recipients[e] \subseteq watched[e]
       /\ Wishing(e) \subseteq wished[e]
       /\ steady[e] \subseteq recipients[e] \cap Wishing(e)
  /\ step[e] \in {"create", "queue"} =>
       /\ recipients[e] \subseteq watched[e] \cap wished[e]
       /\ steady[e] \subseteq recipients[e]
  /\ step[e] = "queue" => rows[e] = recipients[e]

HandlerInv == \A e \in Events : Knows(e)

\* A job is there only when its handler is done, and then its rows are.
JobInv ==
  \A e \in Events :
    /\ step[e] # "none" => event[e] # NoEvent
    /\ job[e].state # "none" => step[e] = "done" /\ recipients[e] \subseteq rows[e]

EventsInv == EventsTypeOK /\ ActivityInv /\ HandlerInv /\ JobInv

-----------------------------------------------------------------------------
(* Types of the delivery.                                                  *)

LEMMA DeliveryConstants ==
  /\ Attempts \in Nat \ {0} /\ MaxStalls \in Nat
  /\ Choosers \subseteq Users /\ Choices \subseteq Delivery!Preferences /\ Default \in Choices
  BY DeliveryAssumption

LEMMA Emitted ==
  ASSUME EventsTypeOK, JobInv, NEW e \in Events, step[e] # "none"
  PROVE  event[e] \in Payloads
  BY DEF EventsTypeOK, TypeOK, JobInv

LEMMA WatchersTyped ==
  ASSUME NEW payload \in Payloads, NEW assigned \in Users \cup {NoUser}
  PROVE  Delivery!Watchers(payload, assigned) \subseteq Users
  BY ActivityAssumption DEF Delivery!Watchers, Payloads

LEMMA ForgetTypes ==
  ASSUME Delivery!DeliveryTypeOK, NEW ended, Delivery!Forget(ended)
  PROVE  /\ watched' \in [Events -> SUBSET Users]
         /\ wished' \in [Events -> SUBSET Users]
         /\ steady' \in [Events -> SUBSET Users]
  BY DEF Delivery!DeliveryTypeOK, Delivery!Forget

LEMMA ObserveTypes ==
  ASSUME EventsTypeOK, JobInv, assignee' \in Users \cup {NoUser}, event' = event,
         Delivery!Observe
  PROVE  /\ watched' \in [Events -> SUBSET Users]
         /\ wished' \in [Events -> SUBSET Users]
         /\ steady' \in [Events -> SUBSET Users]
<1>1. \A e \in Delivery!Open : Delivery!Watchers(event[e], assignee') \subseteq Users
  BY Emitted, WatchersTyped DEF Delivery!Open
<1> QED
  BY <1>1 DEF Delivery!Observe, Delivery!DeliveryTypeOK, EventsTypeOK

\* What handlers know stays true when the ticket or the preferences change.
LEMMA ObserveKeeps ==
  ASSUME EventsTypeOK, HandlerInv, event' = event, UNCHANGED <<step, recipients, rows>>,
         Delivery!Observe
  PROVE  HandlerInv'
<1> SUFFICES ASSUME NEW e \in Events PROVE Knows(e)'
  BY DEF HandlerInv
<1>1. CASE e \in Delivery!Open
  <2>1. /\ watched'[e] = watched[e] \cup Watching(e)'
        /\ wished'[e] = wished[e] \cup Wishing(e)'
        /\ steady'[e] = steady[e] \cap Watching(e)' \cap Wishing(e)'
    BY <1>1 DEF Delivery!Observe, Watching, Wishing
  <2> QED
    BY <1>1, <2>1 DEF HandlerInv, Knows, Delivery!Open
<1>2. CASE e \notin Delivery!Open
  <2>1. watched'[e] = watched[e] /\ wished'[e] = wished[e] /\ steady'[e] = steady[e]
    BY <1>2 DEF Delivery!Observe
  <2> QED
    BY <1>2, <2>1 DEF HandlerInv, Knows, Delivery!Open
<1> QED
  BY <1>1, <1>2

-----------------------------------------------------------------------------
(* The steps of a handler.                                                 *)

LEMMA SameWatchers ==
  ASSUME UNCHANGED <<event, assignee, preference>>, NEW e \in Events
  PROVE  Watching(e)' = Watching(e) /\ Wishing(e)' = Wishing(e)
  BY DEF Watching, Wishing

LEMMA ResolveKeeps ==
  ASSUME EventsInv, NEW e \in Events, Delivery!Resolve(e), UNCHANGED activityVars
  PROVE  Delivery!DeliveryTypeOK' /\ HandlerInv' /\ JobInv'
<1> USE DEF EventsInv
<1>1. Delivery!DeliveryTypeOK'
  <2>1. Watching(e) \subseteq Users
    BY Emitted, WatchersTyped DEF Delivery!Resolve, Watching, EventsTypeOK, TypeOK
  <2> QED
    BY <2>1 DEF Delivery!Resolve, Delivery!DeliveryTypeOK, Delivery!Steps, EventsTypeOK, Delivery!jobVars, Watching
<1>2. HandlerInv'
  <2>1. UNCHANGED <<event, assignee, preference>>
    BY DEF activityVars, Delivery!Resolve
  <2> SUFFICES ASSUME NEW f \in Events PROVE Knows(f)'
    BY DEF HandlerInv
  <2>2. Watching(f)' = Watching(f) /\ Wishing(f)' = Wishing(f)
    BY <2>1, SameWatchers
  <2>3. CASE f = e
    BY <2>1, <2>2, <2>3 DEF HandlerInv, Knows, Delivery!Resolve, Delivery!DeliveryTypeOK, EventsTypeOK, Watching
  <2>4. CASE f # e
    BY <2>1, <2>2, <2>4 DEF HandlerInv, Knows, Delivery!Resolve, Delivery!DeliveryTypeOK, EventsTypeOK
  <2> QED
    BY <2>3, <2>4
<1>3. JobInv'
  BY DEF JobInv, Delivery!Resolve, Delivery!DeliveryTypeOK, EventsTypeOK, activityVars,
         Delivery!jobVars, Delivery!Handling, HandlerInv, Knows
<1> QED
  BY <1>1, <1>2, <1>3

LEMMA FilterKeeps ==
  ASSUME EventsInv, NEW e \in Events, Delivery!Filter(e), UNCHANGED activityVars
  PROVE  Delivery!DeliveryTypeOK' /\ HandlerInv' /\ JobInv'
<1> USE DEF EventsInv
<1>1. Delivery!DeliveryTypeOK'
  BY DEF Delivery!Filter, Delivery!DeliveryTypeOK, Delivery!Steps, EventsTypeOK,
     Delivery!jobVars
<1>2. HandlerInv'
  <2>1. UNCHANGED <<event, assignee, preference>>
    BY DEF activityVars, Delivery!Filter
  <2> SUFFICES ASSUME NEW f \in Events PROVE Knows(f)'
    BY DEF HandlerInv
  <2>2. Watching(f)' = Watching(f) /\ Wishing(f)' = Wishing(f)
    BY <2>1, SameWatchers
  <2>3. CASE f = e
    BY <2>1, <2>2, <2>3 DEF HandlerInv, Knows, Delivery!Filter, Delivery!DeliveryTypeOK, EventsTypeOK, Wishing
  <2>4. CASE f # e
    BY <2>1, <2>2, <2>4 DEF HandlerInv, Knows, Delivery!Filter, Delivery!DeliveryTypeOK, EventsTypeOK
  <2> QED
    BY <2>3, <2>4
<1>3. JobInv'
  BY DEF JobInv, Delivery!Filter, Delivery!DeliveryTypeOK, EventsTypeOK, activityVars,
         Delivery!jobVars, Delivery!Handling, HandlerInv, Knows
<1> QED
  BY <1>1, <1>2, <1>3

LEMMA CreateRowsKeeps ==
  ASSUME EventsInv, NEW e \in Events, Delivery!CreateRows(e), UNCHANGED activityVars
  PROVE  Delivery!DeliveryTypeOK' /\ HandlerInv' /\ JobInv'
<1> USE DEF EventsInv
<1>1. Delivery!DeliveryTypeOK'
  BY DEF Delivery!CreateRows, Delivery!DeliveryTypeOK, Delivery!Steps, EventsTypeOK,
     Delivery!jobVars
<1>2. HandlerInv'
  <2>1. UNCHANGED <<event, assignee, preference>>
    BY DEF activityVars, Delivery!CreateRows
  <2> SUFFICES ASSUME NEW f \in Events PROVE Knows(f)'
    BY DEF HandlerInv
  <2>2. Watching(f)' = Watching(f) /\ Wishing(f)' = Wishing(f)
    BY <2>1, SameWatchers
  <2>3. CASE f = e
    BY <2>1, <2>2, <2>3 DEF HandlerInv, Knows, Delivery!CreateRows, Delivery!DeliveryTypeOK, EventsTypeOK
  <2>4. CASE f # e
    BY <2>1, <2>2, <2>4 DEF HandlerInv, Knows, Delivery!CreateRows, Delivery!DeliveryTypeOK, EventsTypeOK
  <2> QED
    BY <2>3, <2>4
<1>3. JobInv'
  BY DEF JobInv, Delivery!CreateRows, Delivery!DeliveryTypeOK, EventsTypeOK, activityVars,
         Delivery!jobVars, Delivery!Handling, HandlerInv, Knows
<1> QED
  BY <1>1, <1>2, <1>3

LEMMA EnqueueKeeps ==
  ASSUME EventsInv, NEW e \in Events, Delivery!Enqueue(e), UNCHANGED activityVars
  PROVE  Delivery!DeliveryTypeOK' /\ HandlerInv' /\ JobInv'
<1> USE DEF EventsInv
<1>1. Delivery!DeliveryTypeOK'
  BY ForgetTypes DEF Delivery!Enqueue, Delivery!DeliveryTypeOK, Delivery!Steps, EventsTypeOK,
     Delivery!jobVars, Delivery!JobStates
<1>2. HandlerInv'
  <2>1. UNCHANGED <<event, assignee, preference>>
    BY DEF activityVars, Delivery!Enqueue
  <2> SUFFICES ASSUME NEW f \in Events PROVE Knows(f)'
    BY DEF HandlerInv
  <2>2. Watching(f)' = Watching(f) /\ Wishing(f)' = Wishing(f)
    BY <2>1, SameWatchers
  <2>3. CASE f = e
    BY <2>1, <2>2, <2>3 DEF HandlerInv, Knows, Delivery!Enqueue, Delivery!DeliveryTypeOK, EventsTypeOK, Delivery!Forget
  <2>4. CASE f # e
    BY <2>1, <2>2, <2>4 DEF HandlerInv, Knows, Delivery!Enqueue, Delivery!DeliveryTypeOK, EventsTypeOK, Delivery!Forget
  <2> QED
    BY <2>3, <2>4
<1>3. JobInv'
  BY DEF JobInv, Delivery!Enqueue, Delivery!DeliveryTypeOK, EventsTypeOK, activityVars,
         Delivery!jobVars, Delivery!Handling, HandlerInv, Knows
<1> QED
  BY <1>1, <1>2, <1>3

LEMMA HandlerFailsKeeps ==
  ASSUME EventsInv, NEW e \in Events, Delivery!HandlerFails(e), UNCHANGED activityVars
  PROVE  Delivery!DeliveryTypeOK' /\ HandlerInv' /\ JobInv'
<1> USE DEF EventsInv
<1>1. Delivery!DeliveryTypeOK'
  BY ForgetTypes DEF Delivery!HandlerFails, Delivery!DeliveryTypeOK, Delivery!Steps, EventsTypeOK,
     Delivery!jobVars
<1>2. HandlerInv'
  <2>1. UNCHANGED <<event, assignee, preference>>
    BY DEF activityVars, Delivery!HandlerFails
  <2> SUFFICES ASSUME NEW f \in Events PROVE Knows(f)'
    BY DEF HandlerInv
  <2>2. Watching(f)' = Watching(f) /\ Wishing(f)' = Wishing(f)
    BY <2>1, SameWatchers
  <2>3. CASE f = e
    BY <2>1, <2>2, <2>3 DEF HandlerInv, Knows, Delivery!HandlerFails, Delivery!DeliveryTypeOK, EventsTypeOK, Delivery!Forget, Delivery!Handling
  <2>4. CASE f # e
    BY <2>1, <2>2, <2>4 DEF HandlerInv, Knows, Delivery!HandlerFails, Delivery!DeliveryTypeOK, EventsTypeOK, Delivery!Forget
  <2> QED
    BY <2>3, <2>4
<1>3. JobInv'
  BY DEF JobInv, Delivery!HandlerFails, Delivery!DeliveryTypeOK, EventsTypeOK, activityVars,
         Delivery!jobVars, Delivery!Handling, HandlerInv, Knows
<1> QED
  BY <1>1, <1>2, <1>3

LEMMA ChooseKeeps ==
  ASSUME EventsInv, NEW u \in Users, Delivery!ChoosePreferences(u), UNCHANGED activityVars
  PROVE  Delivery!DeliveryTypeOK' /\ HandlerInv' /\ JobInv'
<1> USE DEF EventsInv
<1>1. event' = event /\ assignee' \in Users \cup {NoUser}
  BY DEF activityVars, EventsTypeOK, TypeOK
<1>2. Delivery!DeliveryTypeOK'
  BY <1>1, ObserveTypes DEF Delivery!ChoosePreferences, Delivery!DeliveryTypeOK,
     EventsTypeOK, Delivery!jobVars
<1>3. HandlerInv'
  BY <1>1, ObserveKeeps DEF Delivery!ChoosePreferences
<1>4. JobInv'
  BY <1>1 DEF JobInv, Delivery!ChoosePreferences, Delivery!jobVars
<1> QED
  BY <1>2, <1>3, <1>4

-----------------------------------------------------------------------------
(* The steps of a job.                                                     *)

JobStep ==
  /\ job' \in [Events -> [state : Delivery!JobStates, made : 0..(Attempts - 1),
                          stalls : 0..MaxStalls]]
  /\ recorded' \in SUBSET Events
  /\ \A e \in Events : job'[e].state # "none" => job[e].state # "none"

LEMMA JobStepKeeps ==
  ASSUME EventsInv, JobStep, UNCHANGED <<preference, Delivery!handlerVars>>, UNCHANGED activityVars
  PROVE  Delivery!DeliveryTypeOK' /\ HandlerInv' /\ JobInv'
<1> USE DEF EventsInv, JobStep, Delivery!handlerVars, activityVars
<1>1. Delivery!DeliveryTypeOK'
  BY DEF Delivery!DeliveryTypeOK, EventsTypeOK
<1>2. HandlerInv'
  <2> SUFFICES ASSUME NEW e \in Events PROVE Knows(e)'
    BY DEF HandlerInv
  <2>1. Watching(e)' = Watching(e) /\ Wishing(e)' = Wishing(e)
    BY SameWatchers
  <2> QED
    BY <2>1 DEF HandlerInv, Knows
<1>3. JobInv'
  BY DEF JobInv
<1> QED
  BY <1>1, <1>2, <1>3

LEMMA JobTyped ==
  ASSUME EventsInv, NEW e \in Events
  PROVE  job[e] \in [state : Delivery!JobStates, made : 0..(Attempts - 1),
                     stalls : 0..MaxStalls]
  BY DEF EventsInv, EventsTypeOK, Delivery!DeliveryTypeOK

LEMMA DeliverKeeps ==
  ASSUME EventsInv, NEW e \in Events, Delivery!Deliver(e), UNCHANGED activityVars
  PROVE  Delivery!DeliveryTypeOK' /\ HandlerInv' /\ JobInv'
<1> DEFINE Jobs == [state : Delivery!JobStates, made : 0..(Attempts - 1),
                    stalls : 0..MaxStalls]
<1>1. job \in [Events -> Jobs] /\ recorded \in SUBSET Events
  BY DEF EventsInv, EventsTypeOK, Delivery!DeliveryTypeOK
<1>2. job[e] \in Jobs /\ job[e].state # "none"
  BY <1>1 DEF Delivery!Deliver, Delivery!Take, Delivery!Tell, Delivery!Complete,
              Delivery!AttemptFails
<1>3. \A s \in Delivery!JobStates : [job[e] EXCEPT !.state = s] \in Jobs
  BY <1>2
<1>4. \A s \in Delivery!JobStates : Delivery!Ended(s) \in Jobs
  BY DeliveryConstants DEF Delivery!Ended, Delivery!NoJob, Delivery!JobStates
<1>5. job[e].made + 1 < Attempts =>
        [job[e] EXCEPT !.state = "waiting", !.made = @ + 1] \in Jobs
  <2>1. job[e].made + 1 < Attempts => job[e].made + 1 \in 0..(Attempts - 1)
    BY <1>2, DeliveryConstants
  <2>2. "waiting" \in Delivery!JobStates
    BY DEF Delivery!JobStates
  <2>3. ASSUME NEW n \in 0..(Attempts - 1)
        PROVE  [job[e] EXCEPT !.state = "waiting", !.made = n] \in Jobs
    BY <1>2, <2>2
  <2> QED
    BY <2>1, <2>3
<1>6. PICK j \in Jobs : job' = [job EXCEPT ![e] = j]
  <2>1. CASE Delivery!Take(e)
    BY <1>1, <1>3, <2>1 DEF Delivery!Take, Delivery!JobStates
  <2>2. CASE Delivery!Tell(e)
    BY <1>1, <1>3, <2>2 DEF Delivery!Tell, Delivery!JobStates
  <2>3. CASE Delivery!Complete(e)
    BY <1>1, <1>4, <2>3 DEF Delivery!Complete, Delivery!JobStates
  <2>4. CASE Delivery!AttemptFails(e)
    BY <1>1, <1>4, <1>5, <2>4 DEF Delivery!AttemptFails, Delivery!JobStates
  <2> QED
    BY <2>1, <2>2, <2>3, <2>4 DEF Delivery!Deliver
<1>7. UNCHANGED <<preference, Delivery!handlerVars>> /\ recorded' \in SUBSET Events
  BY <1>1 DEF Delivery!Deliver, Delivery!Take, Delivery!Tell, Delivery!Complete,
              Delivery!AttemptFails
<1>8. JobStep
  BY <1>1, <1>2, <1>6, <1>7 DEF JobStep
<1> QED
  BY <1>7, <1>8, JobStepKeeps

LEMMA WorkerDiesKeeps ==
  ASSUME EventsInv, Delivery!WorkerDies, UNCHANGED activityVars
  PROVE  Delivery!DeliveryTypeOK' /\ HandlerInv' /\ JobInv'
<1>1. recorded \in SUBSET Events
  BY DEF EventsInv, EventsTypeOK, Delivery!DeliveryTypeOK
<1>2. ASSUME NEW e \in Events
      PROVE  /\ job'[e] \in [state : Delivery!JobStates, made : 0..(Attempts - 1),
                             stalls : 0..MaxStalls]
             /\ job'[e].state # "none" => job[e].state # "none"
  <2>1. job[e] \in [state : Delivery!JobStates, made : 0..(Attempts - 1), stalls : 0..MaxStalls]
    BY JobTyped
  <2>2. CASE job[e].state \notin {"active", "told"}
    BY <2>1, <2>2 DEF Delivery!WorkerDies
  <2>3. CASE job[e].state \in {"active", "told"} /\ job[e].stalls < MaxStalls
    <3>1. job'[e] = [job[e] EXCEPT !.state = "waiting", !.stalls = @ + 1]
      BY <2>3 DEF Delivery!WorkerDies
    <3>2. job[e].stalls + 1 \in 0..MaxStalls
      BY <2>1, <2>3, DeliveryConstants
    <3>3. "waiting" \in Delivery!JobStates
      BY DEF Delivery!JobStates
    <3> QED
      BY <2>1, <2>3, <3>1, <3>2, <3>3
  <2>4. CASE job[e].state \in {"active", "told"} /\ ~(job[e].stalls < MaxStalls)
    <3>1. job'[e] = Delivery!Ended("failed")
      BY <2>4 DEF Delivery!WorkerDies
    <3> QED
      BY <2>4, <3>1, DeliveryConstants DEF Delivery!JobStates, Delivery!Ended, Delivery!NoJob
  <2> QED
    BY <2>2, <2>3, <2>4
<1>3. JobStep
  BY <1>1, <1>2 DEF JobStep, Delivery!WorkerDies
<1> QED
  BY <1>3, JobStepKeeps DEF Delivery!WorkerDies

-----------------------------------------------------------------------------
(* The steps of the ticket, with what they do to the handlers.             *)

LEMMA ProceedKeeps ==
  ASSUME EventsInv, Proceed, Delivery!TicketChanges
  PROVE  EventsInv'
<1>1. TypeOK' /\ ActivityInv' /\ event' = event
  BY ProceedTypes DEF EventsInv, EventsTypeOK
<1>2. assignee' \in Users \cup {NoUser}
  BY <1>1 DEF TypeOK
<1>3. Delivery!DeliveryTypeOK'
  BY <1>1, <1>2, ObserveTypes DEF EventsInv, Delivery!TicketChanges, Delivery!DeliveryTypeOK,
     EventsTypeOK, Delivery!jobVars
<1>4. HandlerInv'
  BY <1>1, ObserveKeeps DEF EventsInv, Delivery!TicketChanges
<1>5. JobInv'
  BY <1>1 DEF EventsInv, JobInv, Delivery!TicketChanges, Delivery!jobVars
<1> QED
  BY <1>1, <1>3, <1>4, <1>5 DEF EventsInv, EventsTypeOK

LEMMA NotifyKeeps ==
  ASSUME EventsInv, NEW r \in Requests, NEW e \in Events, Emit(r, e),
         Delivery!Notify(e, Payload(request[r]))
  PROVE  EventsInv'
<1> DEFINE p == Payload(request[r])
<1>1. /\ TypeOK' /\ ActivityInv'
      /\ event' = [event EXCEPT ![e] = p]
      /\ p \in Payloads
      /\ UNCHANGED assignee
  BY EmitTypes DEF EventsInv, EventsTypeOK
<1>2. event[e] = NoEvent
  BY DEF Emit
<1>3. step[e] = "none" /\ job[e].state = "none"
  BY <1>2 DEF EventsInv, JobInv
<1>4. p # NoEvent
  BY <1>1, ActivityAssumption
<1>5. /\ event'[e] = p
      /\ \A f \in Events \ {e} : event'[f] = event[f]
  BY <1>1 DEF EventsInv, EventsTypeOK, TypeOK
<1>6. Delivery!Watchers(p, assignee) \subseteq Users
  BY <1>1, WatchersTyped DEF EventsInv, EventsTypeOK, TypeOK
<1> HIDE DEF p
<1>7. /\ step' = [step EXCEPT ![e] = IF p.kind = "status" THEN "done" ELSE "resolve"]
      /\ watched' = [watched EXCEPT ![e] = Delivery!Watchers(p, assignee)]
      /\ wished' = [wished EXCEPT ![e] = {u \in Users : Delivery!Wishes(u, p, preference)}]
      /\ steady' = [steady EXCEPT ![e] = Delivery!Watchers(p, assignee)
                                          \cap {u \in Users : Delivery!Wishes(u, p, preference)}]
      /\ UNCHANGED <<preference, recipients, rows, job, recorded>>
  BY DEF Delivery!Notify, Delivery!jobVars, p
<1>8. Delivery!DeliveryTypeOK'
  BY <1>6, <1>7 DEF EventsInv, EventsTypeOK, Delivery!DeliveryTypeOK, Delivery!Steps
<1>9. HandlerInv'
  <2> SUFFICES ASSUME NEW f \in Events PROVE Knows(f)'
    BY DEF HandlerInv
  <2>1. CASE f = e
    <3>1. /\ Watching(e)' = Delivery!Watchers(p, assignee)
          /\ Wishing(e)' = {u \in Users : Delivery!Wishes(u, p, preference)}
      BY <1>1, <1>5, <1>7 DEF Watching, Wishing
    <3>2. /\ step'[e] \in {"done", "resolve"}
          /\ watched'[e] = Watching(e)'
          /\ wished'[e] = Wishing(e)'
          /\ steady'[e] = Watching(e)' \cap Wishing(e)'
      BY <1>7, <3>1 DEF EventsInv, EventsTypeOK, Delivery!DeliveryTypeOK
    <3> QED
      BY <2>1, <3>2 DEF Knows
  <2>2. CASE f # e
    <3>1. Watching(f)' = Watching(f) /\ Wishing(f)' = Wishing(f)
      BY <1>1, <1>5, <1>7, <2>2 DEF Watching, Wishing
    <3>2. Knows(f)
      BY DEF EventsInv, HandlerInv
    <3>3. UNCHANGED <<step[f], watched[f], wished[f], steady[f], recipients[f], rows[f]>>
      BY <1>7, <2>2 DEF EventsInv, EventsTypeOK, Delivery!DeliveryTypeOK
    <3> QED
      BY <3>1, <3>2, <3>3 DEF Knows
  <2> QED
    BY <2>1, <2>2
<1>10. JobInv'
  BY <1>3, <1>4, <1>5, <1>7 DEF EventsInv, EventsTypeOK, Delivery!DeliveryTypeOK, JobInv
<1> QED
  BY <1>1, <1>8, <1>9, <1>10 DEF EventsInv, EventsTypeOK

LEMMA LoseHandlersKeeps ==
  ASSUME EventsInv, ServerDies, Delivery!LoseHandlers
  PROVE  EventsInv'
<1>1. TypeOK' /\ ActivityInv' /\ UNCHANGED <<event, assignee>>
  BY ServerDiesTypes DEF EventsInv, EventsTypeOK
<1>2. Delivery!DeliveryTypeOK'
  BY ForgetTypes DEF EventsInv, EventsTypeOK, Delivery!DeliveryTypeOK, Delivery!LoseHandlers,
     Delivery!Steps, Delivery!jobVars
<1>3. HandlerInv'
  BY DEF HandlerInv, Knows, Delivery!LoseHandlers, Delivery!Handling
<1>4. JobInv'
  BY <1>1 DEF EventsInv, JobInv, Delivery!LoseHandlers, Delivery!Handling, Delivery!jobVars
<1> QED
  BY <1>1, <1>2, <1>3, <1>4 DEF EventsInv, EventsTypeOK

-----------------------------------------------------------------------------
(* The invariant.                                                          *)

LEMMA EventsInvInit == EventsInit => EventsInv
<1> SUFFICES ASSUME EventsInit PROVE EventsInv
  OBVIOUS
<1>1. TypeOK
  BY DEF EventsInit, Init, TypeOK
<1>2. Delivery!DeliveryTypeOK
  BY DeliveryConstants DEF EventsInit, Delivery!DeliveryInit, Delivery!DeliveryTypeOK,
     Delivery!Steps, Delivery!JobStates, Delivery!NoJob
<1>3. ActivityInv
  BY DEF EventsInit, Init, ActivityInv
<1>4. HandlerInv /\ JobInv
  BY DEF EventsInit, Delivery!DeliveryInit, HandlerInv, Knows, JobInv, Delivery!NoJob
<1> QED
  BY <1>1, <1>2, <1>3, <1>4 DEF EventsInv, EventsTypeOK

LEMMA EventsInvNext == EventsInv /\ [EventsNext]_vars => EventsInv'
<1> SUFFICES ASSUME EventsInv, [EventsNext]_vars PROVE EventsInv'
  OBVIOUS
<1>1. CASE Proceed /\ Delivery!TicketChanges
  BY <1>1, ProceedKeeps
<1>2. CASE \E r \in Requests, e \in Events :
             Emit(r, e) /\ Delivery!Notify(e, Payload(request[r]))
  BY <1>2, NotifyKeeps
<1>3. CASE ServerDies /\ Delivery!LoseHandlers
  BY <1>3, LoseHandlersKeeps
<1>4. CASE Delivery!DeliveryNext /\ UNCHANGED activityVars
  <2>1. TypeOK' /\ ActivityInv'
    BY <1>4 DEF EventsInv, EventsTypeOK, TypeOK, ActivityInv, activityVars
  <2>2. Delivery!DeliveryTypeOK' /\ HandlerInv' /\ JobInv'
    BY <1>4, ResolveKeeps, FilterKeeps, CreateRowsKeeps, EnqueueKeeps, HandlerFailsKeeps,
       DeliverKeeps, ChooseKeeps, WorkerDiesKeeps, DeliveryConstants DEF Delivery!DeliveryNext
  <2> QED
    BY <2>1, <2>2 DEF EventsInv, EventsTypeOK
<1>5. CASE UNCHANGED vars
  <2>1. UNCHANGED activityVars /\ UNCHANGED <<preference, Delivery!handlerVars, Delivery!jobVars>>
    BY <1>5 DEF vars, Delivery!deliveryVars
  <2>2. JobStep
    BY <2>1, JobTyped DEF JobStep, EventsInv, EventsTypeOK, Delivery!DeliveryTypeOK, Delivery!jobVars
  <2>3. Delivery!DeliveryTypeOK' /\ HandlerInv' /\ JobInv'
    BY <2>1, <2>2, JobStepKeeps
  <2>4. TypeOK' /\ ActivityInv'
    BY <2>1 DEF EventsInv, EventsTypeOK, TypeOK, ActivityInv, activityVars
  <2> QED
    BY <2>3, <2>4 DEF EventsInv, EventsTypeOK
<1> QED
  BY <1>1, <1>2, <1>3, <1>4, <1>5 DEF EventsNext

\* The inductive invariant.
THEOREM EventsInvCorrect == EventsSpec => []EventsInv
  BY EventsInvInit, EventsInvNext, PTL DEF EventsSpec

\* Type correctness of the ticket, its requests, the handlers and the jobs.
THEOREM EventsTypeCorrect == EventsSpec => []EventsTypeOK
<1>1. EventsInv => EventsTypeOK
  BY DEF EventsInv
<1> QED
  BY <1>1, EventsInvCorrect, PTL

\* Only watchers who wished it are notified (resolveRecipientsForTicketEvent,
\* applyRecipientPreferences), whatever changes between the two reads.
THEOREM OnlyWatchersCorrect == EventsSpec => []OnlyWatchersNotified
<1>1. EventsInv => OnlyWatchersNotified
  BY DEF EventsInv, HandlerInv, Knows, OnlyWatchersNotified
<1> QED
  BY <1>1, EventsInvCorrect, PTL

\* Who always watched and wished it is notified (createTicketEventNotificationService).
THEOREM SteadyWatchersCorrect == EventsSpec => []SteadyWatchersNotified
<1>1. EventsInv => SteadyWatchersNotified
  BY DEF EventsInv, HandlerInv, Knows, SteadyWatchersNotified
<1> QED
  BY <1>1, EventsInvCorrect, PTL

\* No job is without its notifications (enqueueNotification).
THEOREM ToldCorrect == EventsSpec => []ToldHaveRows
<1>1. EventsInv => ToldHaveRows
  BY DEF EventsInv, JobInv, ToldHaveRows
<1> QED
  BY <1>1, EventsInvCorrect, PTL

-----------------------------------------------------------------------------
(* The composition does what TicketActivity says of the ticket.            *)

\* Handlers and jobs take no part in a step of the ticket, and all their own steps leave it
\* alone.
LEMMA ActivityStep == [EventsNext]_vars => [Next]_activityVars
<1> SUFFICES ASSUME [EventsNext]_vars
             PROVE  Next \/ UNCHANGED activityVars
  OBVIOUS
<1>1. CASE Proceed /\ Delivery!TicketChanges
  BY <1>1 DEF Next
<1>2. CASE \E r \in Requests, e \in Events :
             Emit(r, e) /\ Delivery!Notify(e, Payload(request[r]))
  BY <1>2 DEF Next
<1>3. CASE ServerDies /\ Delivery!LoseHandlers
  BY <1>3 DEF Next
<1>4. CASE Delivery!DeliveryNext /\ UNCHANGED activityVars
  BY <1>4
<1>5. CASE UNCHANGED vars
  BY <1>5 DEF vars
<1> QED
  BY <1>1, <1>2, <1>3, <1>4, <1>5 DEF EventsNext

\* A ticket whose events are handled and delivered behaves like one of TicketActivity: no
\* handler, job or preference enables or forbids a request anything (emitTicketEvent, whose
\* listeners run after the request and whose errors are only logged).
THEOREM ActivityImplemented == EventsSpec => Spec
<1>1. EventsInit => Init
  BY DEF EventsInit
<1> QED
  BY <1>1, ActivityStep, PTL DEF EventsSpec, Spec

\* So the activity log tells the items of the ticket here too, whatever becomes of the
\* notifications (createActivityLogForEvent).
THEOREM ComposedLogCorrect == EventsSpec => []LogTellsItems
  BY ActivityImplemented, LogCorrect, PTL
=============================================================================
