--------------------- MODULE OrganizationAccess_proofs ---------------------
(***************************************************************************)
(* Proofs about OrganizationAccess: type correctness, that nobody reaches  *)
(* the level of the owner, and that an entry of a cache is out of date     *)
(* only for the reasons StaleNeedsRace names.                              *)
(*                                                                         *)
(* The levels a request compares may be old, but those of the founder do   *)
(* not age: every copy of its membership, cached or held by a request,     *)
(* says 100.  So no update passes its check on the founder, and none gives *)
(* a role of that level.                                                   *)
(***************************************************************************)
EXTENDS OrganizationAccess, TLAPS

\* What a request has with it at each step.
Shape(q) ==
  /\ q.at \in {"verify", "put"} => q.op \in {"route", "ticket", "update"}
  /\ q.at = "putMember" => q.op \in {"invite", "update"}
  /\ q.at \in {"lock", "commit", "members", "purge"} => q.op \in {"delete", "editRole", "dropRole"}
  /\ q.at = "dropMember" => q.op = "ticket"
  /\ q.at \in {"snapshot", "putSnapshot"} => q.op = "login"
  /\ q.op = "create" <=> q.at \in {"cacheOwner", "dropOwner", "commitOwner"}
  /\ q.op \in {"route", "ticket"} => q.me = NoView
  /\ q.op \in {"route", "ticket", "login", "create"} => q.actor \in Users
  /\ q.op \in {"invite", "update"} /\ q.at \in {"verify", "put", "decide", "write", "putMember"} =>
       q.target \in Users
  /\ q.op = "update" /\ q.at \in {"verify", "put", "decide"} => q.me # NoView
  /\ q.at = "put" => q.held # NoView
  /\ q.op \in {"invite", "update"} /\ q.at = "write" => q.next \in RoleNames \ {"OWNER"}

\* What it holds of the founder, and which it may be while there is no organization.
Fits(q) ==
  /\ org \in {"none", "creating"} => q.op \in {"none", "create", "login"}
  /\ q.op = "create" => org = "creating"
  /\ q.op = "editRole" /\ q.at = "commit" => org = "open" /\ custom.level # 0
  /\ org = "open" =>
       /\ q.at = "put" /\ Subject(q) = founder => q.held.level = 100
       /\ q.op = "update" /\ q.at = "decide" /\ q.target = founder => q.held.level = 100
       /\ q.op = "update" /\ q.at = "write" => q.target # founder
       /\ q.at = "putMember" => q.target # founder

ReqInv == \A p \in Requests : Shape(req[p]) /\ Fits(req[p])

CreatorInv ==
  \A p, q \in Requests : req[p].op = "create" /\ req[q].op = "create" => p = q

OrgInv ==
  /\ org # "open" => \A u \in Users : role[u] = "none"
  /\ org = "open" => /\ founder \in Users
                     /\ role[founder] = "OWNER"
                     /\ \A u \in Users \ {founder} : role[u] # "OWNER"
  /\ custom.level = 0 => \A u \in Users : role[u] # "CUSTOM"

\* The membership cache before and after the organization is there.
CacheInv ==
  /\ org = "none" => \A u \in Users : cached[u] = NoEntry
  /\ org = "creating" =>
       \A u \in Users : Present(cached[u]) =>
         /\ cached[u].view = OwnerView
         /\ \E p \in Requests : req[p].at \in {"dropOwner", "commitOwner"} /\ req[p].actor = u
  /\ org = "open" => (Present(cached[founder]) => cached[founder].view.level = 100)

IInv == TypeOK /\ ReqInv /\ CreatorInv /\ OrgInv /\ CacheInv /\ StaleNeedsRace

-----------------------------------------------------------------------------
(* Roles and views.                                                        *)

LEMMA RoleDefTypes ==
  ASSUME TypeOK, NEW r \in RoleNames
  PROVE  /\ RoleDef(r).level \in 0..100
         /\ RoleDef(r).perms \in SUBSET Perms
         /\ r # "OWNER" => RoleDef(r).level < 100
         /\ r = "OWNER" => RoleDef(r).level = 100
<1>1. CASE r = "CUSTOM"
  BY <1>1 DEF RoleDef, TypeOK, CustomRoles, NoCustom, Dropped
<1>2. CASE r \in SystemRoles
  <2>1. r # "CUSTOM" /\ RoleDef(r) = SystemRole(r)
    BY <1>2 DEF SystemRoles, RoleDef
  <2>2. CASE r = "OWNER"
    BY <2>1, <2>2 DEF SystemRole
  <2>3. CASE r = "ADMIN"
    <3>1. RoleDef(r) = [level |-> 75, perms |-> Perms \ {"ORG_DELETE", "AGENT_UPDATE_AVAILABILITY"}]
      BY <2>1, <2>3 DEF SystemRole
    <3> QED
      BY <2>3, <3>1
  <2>4. CASE r = "MEMBER"
    <3>1. RoleDef(r) = [level |-> 10, perms |-> {"ORG_VIEW_MEMBERS"}]
      BY <2>1, <2>4 DEF SystemRole
    <3> QED
      BY <2>4, <3>1 DEF Perms
  <2> QED
    BY <1>2, <2>2, <2>3, <2>4 DEF SystemRoles
<1> QED
  BY <1>1, <1>2 DEF RoleNames

LEMMA OwnerViewTypes == OwnerView \in Views /\ OwnerView.level = 100 /\ OwnerView # NoView
  BY DEF OwnerView, SystemRole, Views, RoleNames, SystemRoles, NoView

LEMMA NoViewTyped == NoView \in Views
  BY DEF NoView, Views

LEMMA ViewTypes ==
  ASSUME TypeOK, NEW u \in Users
  PROVE  /\ View(u) \in Views
         /\ role[u] # "none" => View(u) # NoView
         /\ role[u] = "OWNER" => View(u) = OwnerView
         /\ role[u] # "OWNER" => View(u).level < 100
<1>1. CASE role[u] = "none"
  BY <1>1 DEF View, NoView, Views
<1>2. CASE role[u] # "none"
  <2>1. role[u] \in RoleNames
    BY <1>2 DEF TypeOK
  <2>2. View(u) = [role |-> role[u], level |-> RoleDef(role[u]).level,
                   perms |-> RoleDef(role[u]).perms]
    BY <1>2 DEF View
  <2>3. View(u) \in Views /\ View(u) # NoView
    BY <2>1, <2>2, <1>2, RoleDefTypes DEF Views, NoView
  <2>4. role[u] = "OWNER" => View(u) = OwnerView
    BY <2>2 DEF RoleDef, OwnerView
  <2>5. role[u] # "OWNER" => View(u).level < 100
    BY <2>1, <2>2, RoleDefTypes
  <2> QED
    BY <2>3, <2>4, <2>5
<1> QED
  BY <1>1, <1>2

\* What the database says of the founder does not change while there is an organization.
LEMMA FounderView ==
  ASSUME IInv, org = "open"
  PROVE  founder \in Users /\ View(founder).level = 100
  BY ViewTypes, OwnerViewTypes DEF IInv, OrgInv

-----------------------------------------------------------------------------
(* Steps that leave the database alone.                                    *)

OwesM(q, u) ==
  \/ q.at = "putMember" /\ q.target = u
  \/ q.at = "purge"
  \/ q.at \in {"dropOwner", "commitOwner"} /\ q.actor = u

OwesS(q, u) == q.at \in {"putMember", "purge", "dropSnapshots"} /\ u \in q.ids

\* Entry e, of u, is as good as the one cached now, or better.
KeepsM(e, q, r, u) ==
  \/ e.view = View(u)
  \/ e.view # View(u) /\ e.excused
  \/ e = NoEntry
  \/ /\ e.view = cached[u].view
     /\ cached[u].excused => e.excused
     /\ OwesM(q, u) => OwesM(r, u)

KeepsS(e, q, r, u) ==
  \/ ~e.present
  \/ e.view = View(u)
  \/ e.view # View(u) /\ e.excused
  \/ /\ e.view = snapshot[u].view /\ e.present = snapshot[u].present
     /\ snapshot[u].excused => e.excused
     /\ OwesS(q, u) => OwesS(r, u)

\* Request p does the rest of its step while the database stays as it is.
LEMMA CacheStep ==
  ASSUME IInv, NEW p \in Requests, NEW r \in ReqRecords, Shape(r), Fits(r),
         req' = [req EXCEPT ![p] = r], UNCHANGED dbVars,
         req[p].op # "create", r.op # "create",
         token' \in [Users -> (SUBSET Perms) \cup {Expired}], writes' \in 0..MaxWrites,
         cached' \in [Users -> Entries], snapshot' \in [Users -> Snapshots],
         org \in {"none", "creating"} => cached' = cached,
         org = "open" => (Present(cached'[founder]) => cached'[founder].view.level = 100),
         \A u \in Users : KeepsM(cached'[u], req[p], r, u) /\ KeepsS(snapshot'[u], req[p], r, u)
  PROVE  IInv'
<1>1. TypeOK'
  BY DEF IInv, TypeOK, dbVars
<1>2. req[p] \in ReqRecords /\ req'[p] = r /\ \A q \in Requests \ {p} : req'[q] = req[q]
  BY DEF IInv, TypeOK
<1>3. ReqInv'
  <2>1. ASSUME NEW q \in Requests
        PROVE  (Shape(req[q]) /\ Fits(req[q]))'
    <3>1. CASE q = p
      BY <1>2, <3>1 DEF Shape, Fits, dbVars, Subject, Verified
    <3>2. CASE q # p
      BY <1>2, <3>2 DEF IInv, ReqInv, Shape, Fits, dbVars, Subject, Verified
    <3> QED
      BY <3>1, <3>2
  <2> QED
    BY <2>1 DEF ReqInv
<1>4. CreatorInv'
  BY <1>2 DEF IInv, CreatorInv
<1>5. OrgInv'
  BY DEF IInv, OrgInv, dbVars
<1>6. CacheInv'
  <2>1. org = "none" => (\A u \in Users : cached[u] = NoEntry)'
    BY DEF IInv, CacheInv
  <2>2. ASSUME org = "creating", NEW u \in Users, Present(cached[u])
        PROVE  /\ cached[u].view = OwnerView
               /\ \E q \in Requests : req'[q].at \in {"dropOwner", "commitOwner"} /\ req'[q].actor = u
    <3>1. PICK q \in Requests : req[q].at \in {"dropOwner", "commitOwner"} /\ req[q].actor = u
      BY <2>2 DEF IInv, CacheInv
    <3>2. q # p
      BY <3>1 DEF IInv, ReqInv, Shape
    <3> QED
      BY <1>2, <2>2, <3>1, <3>2 DEF IInv, CacheInv
  <2>3. org' = org /\ founder' = founder /\ (OwnerView)' = OwnerView
    BY DEF dbVars, OwnerView, SystemRole
  <2>4. org = "creating" => (\A u \in Users : Present(cached[u]) =>
             /\ cached[u].view = OwnerView
             /\ \E q \in Requests : req[q].at \in {"dropOwner", "commitOwner"} /\ req[q].actor = u)'
    BY <2>2, <2>3 DEF Present
  <2> QED
    BY <2>1, <2>3, <2>4 DEF CacheInv, Present
<1>7. StaleNeedsRace'
  <2>1. ASSUME NEW u \in Users
        PROVE  /\ Present(cached'[u]) /\ cached'[u].view # View(u) =>
                    cached'[u].excused \/ \E q \in Requests : OwesM(req'[q], u)
               /\ snapshot'[u].present /\ snapshot'[u].view # View(u) =>
                    snapshot'[u].excused \/ \E q \in Requests : OwesS(req'[q], u)
    <3>1. ASSUME Present(cached'[u]), cached'[u].view # View(u), ~cached'[u].excused
          PROVE  \E q \in Requests : OwesM(req'[q], u)
      <4>1. /\ cached'[u].view = cached[u].view /\ ~cached[u].excused
            /\ OwesM(req[p], u) => OwesM(r, u)
        BY <3>1 DEF KeepsM, Present, NoEntry
      <4>2. PICK q \in Requests : OwesM(req[q], u)
        BY <3>1, <4>1 DEF IInv, StaleNeedsRace, Present, OwesMembership, OwesM
      <4> QED
        BY <1>2, <4>1, <4>2
    <3>2. ASSUME snapshot'[u].present, snapshot'[u].view # View(u), ~snapshot'[u].excused
          PROVE  \E q \in Requests : OwesS(req'[q], u)
      <4>1. /\ snapshot'[u].view = snapshot[u].view /\ snapshot[u].present /\ ~snapshot[u].excused
            /\ OwesS(req[p], u) => OwesS(r, u)
        BY <3>2 DEF KeepsS
      <4>2. PICK q \in Requests : OwesS(req[q], u)
        BY <3>2, <4>1 DEF IInv, StaleNeedsRace, OwesSnapshot, OwesS
      <4> QED
        BY <1>2, <4>1, <4>2
    <3> QED
      BY <3>1, <3>2
  <2>2. \A u \in Users : View(u)' = View(u)
    BY DEF View, RoleDef, SystemRole, dbVars
  <2> QED
    BY <2>1, <2>2 DEF StaleNeedsRace, OwesMembership, OwesSnapshot, OwesM, OwesS, Present
<1> QED
  BY <1>1, <1>3, <1>4, <1>5, <1>6, <1>7 DEF IInv

\* The same when the caches are left alone too.
LEMMA QuietStep ==
  ASSUME IInv, NEW p \in Requests, NEW r \in ReqRecords, Shape(r), Fits(r),
         req' = [req EXCEPT ![p] = r], UNCHANGED <<dbVars, cached, snapshot>>,
         req[p].op # "create", r.op # "create",
         token' \in [Users -> (SUBSET Perms) \cup {Expired}], writes' \in 0..MaxWrites,
         \A u \in Users : (OwesM(req[p], u) => OwesM(r, u)) /\ (OwesS(req[p], u) => OwesS(r, u))
  PROVE  IInv'
<1>1. cached' \in [Users -> Entries] /\ snapshot' \in [Users -> Snapshots]
  BY DEF IInv, TypeOK
<1>2. \A u \in Users : KeepsM(cached'[u], req[p], r, u) /\ KeepsS(snapshot'[u], req[p], r, u)
  BY DEF KeepsM, KeepsS
<1>3. org = "open" => (Present(cached'[founder]) => cached'[founder].view.level = 100)
  BY DEF IInv, CacheInv
<1> QED
  BY <1>1, <1>2, <1>3, CacheStep

LEMMA IdleFits == Idle \in ReqRecords /\ Shape(Idle) /\ Fits(Idle) /\ Idle.op = "none"
                  /\ Idle.edit = NoCustom /\ Idle.at = "idle"
<1>1. Idle \in ReqRecords
  BY DEF Idle, ReqRecords, Ops, Steps, NoView, Views, NoCustom, RoleEdits, KeepLevel
<1> QED
  BY <1>1 DEF Idle, Shape, Fits

LEMMA ReqFacts ==
  ASSUME IInv, NEW p \in Requests
  PROVE  req[p] \in ReqRecords /\ Shape(req[p]) /\ Fits(req[p])
  BY DEF IInv, TypeOK, ReqInv

-----------------------------------------------------------------------------
(* Requests begin.                                                         *)

LEMMA ArriveStep ==
  ASSUME IInv, NEW p \in Requests, NEW u \in Users, Arrive(p, u)
  PROVE  IInv'
<1>1. PICK r \in ReqRecords :
        /\ Begin(p, r)
        /\ Shape(r) /\ Fits(r) /\ r.op # "create"
  <2> USE IdleFits DEF Idle, ReqRecords, Ops, Steps, Shape, Fits, Known, Subject, Verified
  <2>1. CASE CallOrganization(p, u)
    <3>1. token[u] \in SUBSET Perms
      BY <2>1 DEF CallOrganization, IInv, TypeOK
    <3> DEFINE r == [Idle EXCEPT !.op = "route", !.at = "verify", !.actor = u, !.auth = token[u]]
    <3>2. r \in ReqRecords /\ Shape(r)
      BY <3>1
    <3>3. Fits(r) /\ Begin(p, r)
      BY <2>1 DEF CallOrganization
    <3> QED
      BY <3>2, <3>3
  <2>2. CASE CallTickets(p, u)
    <3> DEFINE r == [Idle EXCEPT !.op = "ticket", !.at = "verify", !.actor = u]
    <3>1. r \in ReqRecords /\ Shape(r) /\ Fits(r) /\ Begin(p, r)
      BY <2>2 DEF CallTickets
    <3> QED
      BY <3>1
  <2>3. CASE Login(p, u)
    <3> DEFINE r == [Idle EXCEPT !.op = "login", !.at = "snapshot", !.actor = u]
    <3>1. r \in ReqRecords /\ Shape(r) /\ Fits(r) /\ Begin(p, r)
      BY <2>3 DEF Login
    <3> QED
      BY <3>1
  <2> QED
    BY <2>1, <2>2, <2>3 DEF Arrive
<1>2. req[p].at = "idle" /\ req' = [req EXCEPT ![p] = r]
  BY <1>1 DEF Begin
<1>3. UNCHANGED <<dbVars, cached, snapshot, token, writes>>
  BY DEF Arrive, CallOrganization, CallTickets, Login
<1>4. /\ token' \in [Users -> (SUBSET Perms) \cup {Expired}] /\ writes' \in 0..MaxWrites
  BY <1>3 DEF IInv, TypeOK
<1>5. req[p].op # "create" /\ \A v \in Users : ~OwesM(req[p], v) /\ ~OwesS(req[p], v)
  BY <1>2, ReqFacts DEF Shape, OwesM, OwesS
<1> QED
  BY <1>1, <1>2, <1>3, <1>4, <1>5, QuietStep

-----------------------------------------------------------------------------
(* Memberships.                                                            *)

\* What a request becomes that goes on with membership v.
Becomes(p, r) ==
  /\ Shape(r) /\ Fits(r) /\ r.op # "create"
  /\ req' = [req EXCEPT ![p] = r]
  /\ writes' \in 0..MaxWrites

LEMMA AdmitBecomes ==
  ASSUME IInv, NEW p \in Requests, req[p].op = "route", NEW v \in Views, v # NoView, Admit(p, v)
  PROVE  \E r \in ReqRecords : Becomes(p, r)
<1>1. PICK op \in Writers \ {"create"} : \E t \in Targets(op) :
        /\ CountWrite
        /\ req' = [req EXCEPT ![p] = [Idle EXCEPT !.op = op, !.at = FirstStep(op),
                                      !.actor = req[p].actor, !.target = t, !.me = v]]
  BY DEF Admit
<1>0. PICK t \in Targets(op) :
        /\ CountWrite
        /\ req' = [req EXCEPT ![p] = [Idle EXCEPT !.op = op, !.at = FirstStep(op),
                                      !.actor = req[p].actor, !.target = t, !.me = v]]
  BY <1>1
<1> DEFINE r == [Idle EXCEPT !.op = op, !.at = FirstStep(op),
                             !.actor = req[p].actor, !.target = t, !.me = v]
<1>2. /\ op = "delete" => FirstStep(op) = "lock"
      /\ op = "update" => FirstStep(op) = "verify"
      /\ op \in {"invite", "editRole", "dropRole"} => FirstStep(op) = "decide"
      /\ op \in {"delete", "update", "invite", "editRole", "dropRole"}
  <2>1. op \in {"delete", "update", "invite", "editRole", "dropRole"}
    BY DEF Writers
  <2>2. op = "delete" => FirstStep(op) = "lock"
    BY DEF FirstStep
  <2>3. op = "update" => FirstStep(op) = "verify"
    BY DEF FirstStep
  <2>4. op = "invite" => FirstStep(op) = "decide"
    BY DEF FirstStep
  <2>5. op = "editRole" => FirstStep(op) = "decide"
    BY DEF FirstStep
  <2>6. op = "dropRole" => FirstStep(op) = "decide"
    BY DEF FirstStep
  <2> QED
    BY <2>1, <2>2, <2>3, <2>4, <2>5, <2>6
<1>3. t \in Users \cup {NoUser} /\ (op \in {"invite", "update"} => t \in Users)
  BY DEF Targets
<1>4. FirstStep(op) \in {"lock", "verify", "decide"}
  BY <1>2
<1>5. r.op = op /\ r.at = FirstStep(op) /\ r.actor = req[p].actor /\ r.target = t /\ r.me = v
      /\ r.held = NoView /\ r.next = "none"
  BY DEF Idle
<1>6. r \in ReqRecords
  BY <1>2, <1>3, <1>4, IdleFits, ReqFacts DEF ReqRecords, Ops, Steps, Writers, Idle
<1>7. Shape(r)
  BY <1>2, <1>3, <1>5 DEF Shape
<1>8. Fits(r)
  <2>1. org \notin {"none", "creating"}
    BY ReqFacts DEF Fits
  <2> QED
    BY <1>2, <1>5, <2>1 DEF Fits
<1>9. writes' \in 0..MaxWrites
  BY <1>0, AccessAssumption DEF CountWrite, IInv, TypeOK
<1> HIDE DEF r
<1> QED
  BY <1>0, <1>2, <1>5, <1>6, <1>7, <1>8, <1>9 DEF Becomes, r

LEMMA MembershipBecomes ==
  ASSUME IInv, NEW p \in Requests, req[p].at \in {"verify", "put"}, NEW v \in Views, v # NoView,
         org = "open" => (Subject(req[p]) = founder => v.level = 100),
         WithMembership(p, v)
  PROVE  \E r \in ReqRecords : Becomes(p, r)
<1>1. req[p] \in ReqRecords /\ Shape(req[p]) /\ Fits(req[p])
  BY ReqFacts
<1>2. writes \in 0..MaxWrites
  BY DEF IInv, TypeOK
<1>3. CASE Verified(req[p]) /\ req' = [req EXCEPT ![p].at = "decide", ![p].held = v] /\ UNCHANGED writes
  <2> DEFINE r == [req[p] EXCEPT !.at = "decide", !.held = v]
  <2>1. r \in ReqRecords /\ req' = [req EXCEPT ![p] = r]
    BY <1>1, <1>3 DEF ReqRecords, Steps
  <2>2. req[p].op = "update" /\ Subject(req[p]) = req[p].target
    BY <1>1, <1>3 DEF Shape, Verified, Subject
  <2>3. r.at = "decide" /\ r.held = v /\ r.op = "update" /\ r.target = req[p].target /\ r.me = req[p].me
    BY <1>1, <2>2 DEF ReqRecords
  <2>4. Shape(r) /\ Fits(r)
    BY <1>1, <2>2, <2>3 DEF Shape, Fits
  <2> QED
    BY <1>2, <1>3, <2>1, <2>3, <2>4 DEF Becomes
<1>4. CASE req[p].op = "route" /\ Admit(p, v)
  BY <1>4, AdmitBecomes
<1>5. CASE req[p].op = "ticket" /\ UNCHANGED writes
           /\ req' = [req EXCEPT ![p].at = "dropMember", ![p].held = NoView]
  <2> DEFINE r == [req[p] EXCEPT !.at = "dropMember", !.held = NoView]
  <2>1. r \in ReqRecords /\ req' = [req EXCEPT ![p] = r]
    BY <1>1, <1>5, NoViewTyped DEF ReqRecords, Steps
  <2>2. r.at = "dropMember" /\ r.held = NoView /\ r.op = "ticket" /\ r.me = req[p].me
        /\ r.actor = req[p].actor
    BY <1>1, <1>5 DEF ReqRecords
  <2>3. Shape(r) /\ Fits(r)
    BY <1>1, <1>5, <2>2 DEF Shape, Fits
  <2> QED
    BY <1>2, <1>5, <2>1, <2>2, <2>3 DEF Becomes
<1>6. CASE Finish(p) /\ UNCHANGED writes
  BY <1>2, <1>6, IdleFits DEF Becomes, Finish
<1> QED
  BY <1>3, <1>4, <1>5, <1>6 DEF WithMembership

LEMMA SubjectUser ==
  ASSUME IInv, NEW p \in Requests, req[p].at \in {"verify", "put"}
  PROVE  /\ Subject(req[p]) \in Users
         /\ req[p].op # "create" /\ org \notin {"none", "creating"}
         /\ \A u \in Users : ~OwesM(req[p], u) /\ ~OwesS(req[p], u)
  BY ReqFacts DEF Shape, Fits, Subject, Verified, OwesM, OwesS

LEMMA MembershipFromCacheStep ==
  ASSUME IInv, NEW p \in Requests, MembershipFromCache(p)
  PROVE  IInv'
<1> DEFINE u == Subject(req[p])
<1>1. u \in Users /\ req[p].at \in {"verify", "put"}
  BY SubjectUser DEF MembershipFromCache
<1>2. cached[u] \in Entries /\ Present(cached[u]) /\ WithMembership(p, cached[u].view)
  BY <1>1 DEF MembershipFromCache, IInv, TypeOK
<1>3. org = "open" => (u = founder => cached[u].view.level = 100)
  BY <1>2 DEF IInv, CacheInv
<1>4. PICK r \in ReqRecords : Becomes(p, r)
  BY <1>1, <1>2, <1>3, MembershipBecomes DEF Entries, Present
<1>5. UNCHANGED <<dbVars, cached, snapshot, token>>
  BY DEF MembershipFromCache
<1>6. token' \in [Users -> (SUBSET Perms) \cup {Expired}]
  BY <1>5 DEF IInv, TypeOK
<1> QED
  BY <1>1, <1>4, <1>5, <1>6, SubjectUser, QuietStep DEF Becomes

LEMMA MembershipFromDatabaseStep ==
  ASSUME IInv, NEW p \in Requests, MembershipFromDatabase(p)
  PROVE  IInv'
<1> DEFINE u == Subject(req[p])
           v == View(u)
<1>1. u \in Users /\ req[p].at \in {"verify", "put"}
  BY SubjectUser DEF MembershipFromDatabase
<1>2. v \in Views /\ (org = "open" => (u = founder => v.level = 100))
  BY <1>1, ViewTypes, FounderView DEF IInv
<1>3. req[p] \in ReqRecords /\ Shape(req[p]) /\ Fits(req[p])
  BY ReqFacts
<1>4. PICK r \in ReqRecords :
        req' = [req EXCEPT ![p] = r] /\ Shape(r) /\ Fits(r) /\ r.op # "create"
  <2>1. CASE v = NoView
    BY <2>1, IdleFits DEF MembershipFromDatabase
  <2>2. CASE v # NoView
    <3> DEFINE r == [req[p] EXCEPT !.at = "put", !.held = v]
    <3>1. req' = [req EXCEPT ![p] = r]
      BY <2>2 DEF MembershipFromDatabase
    <3>2. r \in ReqRecords
      BY <1>2, <1>3 DEF ReqRecords, Steps
    <3>3. r.at = "put" /\ r.held = v /\ r.op = req[p].op /\ r.me = req[p].me
          /\ r.actor = req[p].actor /\ r.target = req[p].target
      BY <1>3 DEF ReqRecords
    <3>4. req[p].at = "verify"
      BY DEF MembershipFromDatabase
    <3> HIDE DEF r, v
    <3>5. Shape(r)
      BY <1>3, <3>3, <3>4, <2>2 DEF Shape
    <3>6. Subject(r) = u
      BY <3>3 DEF Subject, Verified
    <3>7. Fits(r)
      BY <1>2, <1>3, <3>3, <3>4, <3>6 DEF Fits
    <3>8. r.op # "create"
      BY <1>3, <3>3, <3>4 DEF Shape
    <3> QED
      BY <3>1, <3>2, <3>5, <3>7, <3>8
  <2> QED
    BY <2>1, <2>2
<1>5. UNCHANGED <<dbVars, cached, snapshot, token, writes>>
  BY DEF MembershipFromDatabase
<1>6. token' \in [Users -> (SUBSET Perms) \cup {Expired}] /\ writes' \in 0..MaxWrites
  BY <1>5 DEF IInv, TypeOK
<1> QED
  BY <1>1, <1>4, <1>5, <1>6, SubjectUser, QuietStep

LEMMA CacheMembershipStep ==
  ASSUME IInv, NEW p \in Requests, CacheMembership(p)
  PROVE  IInv'
<1> DEFINE u == Subject(req[p])
           h == req[p].held
<1>1. u \in Users /\ req[p].at \in {"verify", "put"} /\ req[p].at = "put"
  BY SubjectUser DEF CacheMembership
<1>2. h \in Views /\ h # NoView /\ (org = "open" => (u = founder => h.level = 100))
  BY <1>1, ReqFacts DEF ReqRecords, Shape, Fits
<1>3. PICK r \in ReqRecords : Becomes(p, r)
  BY <1>1, <1>2, MembershipBecomes DEF CacheMembership
<1>4. UNCHANGED <<dbVars, snapshot, token>>
      /\ (cached' = cached \/ cached' = Stored(u, h, WantsOrg(req[p])))
  BY DEF CacheMembership
<1>5. token' \in [Users -> (SUBSET Perms) \cup {Expired}] /\ snapshot' \in [Users -> Snapshots]
  BY <1>4 DEF IInv, TypeOK
<1>6. WantsOrg(req[p]) \in BOOLEAN
  BY DEF WantsOrg
<1> DEFINE e == [view |-> h, withOrg |-> WantsOrg(req[p]), excused |-> h # View(u)]
<1>7. e \in Entries /\ e.view = h /\ (h # View(u) => e.excused)
  BY <1>2, <1>6 DEF Entries
<1>8. cached' = cached \/ cached' = [cached EXCEPT ![u] = e]
  BY <1>4 DEF Stored
<1> HIDE DEF e, u, h
<1>9. cached' \in [Users -> Entries]
  BY <1>1, <1>7, <1>8 DEF IInv, TypeOK
<1>10. org = "open" => (Present(cached'[founder]) => cached'[founder].view.level = 100)
  BY <1>1, <1>2, <1>7, <1>8, FounderView DEF IInv, CacheInv, TypeOK
<1>11. \A w \in Users : KeepsM(cached'[w], req[p], r, w) /\ KeepsS(snapshot'[w], req[p], r, w)
  <2>1. \A w \in Users : ~OwesM(req[p], w) /\ ~OwesS(req[p], w)
    BY <1>1, SubjectUser
  <2>2. ASSUME NEW w \in Users
        PROVE  KeepsM(cached'[w], req[p], r, w)
    <3>1. CASE cached'[w] = cached[w]
      BY <2>1, <3>1 DEF KeepsM
    <3>2. CASE w = u /\ cached'[w] = e
      BY <1>7, <3>2 DEF KeepsM
    <3> QED
      BY <1>1, <1>8, <3>1, <3>2 DEF IInv, TypeOK
  <2>3. \A w \in Users : KeepsS(snapshot'[w], req[p], r, w)
    BY <1>4, <2>1 DEF KeepsS
  <2> QED
    BY <2>2, <2>3
<1>12. /\ req[p].op # "create" /\ org \notin {"none", "creating"}
       /\ Shape(r) /\ Fits(r) /\ r.op # "create" /\ req' = [req EXCEPT ![p] = r]
       /\ writes' \in 0..MaxWrites
  BY <1>1, <1>3, SubjectUser DEF Becomes
<1> QED
  BY <1>4, <1>5, <1>9, <1>10, <1>11, <1>12, CacheStep

-----------------------------------------------------------------------------
(* The checks.                                                             *)

\* A step of p that only answers it, or changes nothing but what it does next.
LEMMA ReqOnlyStep ==
  ASSUME IInv, NEW p \in Requests, NEW r \in ReqRecords, Shape(r), Fits(r),
         req' = [req EXCEPT ![p] = r], UNCHANGED <<dbVars, cached, snapshot, token, writes>>,
         req[p].op # "create", r.op # "create",
         req[p].at \notin {"putMember", "purge", "dropSnapshots"}
  PROVE  IInv'
<1>1. token' \in [Users -> (SUBSET Perms) \cup {Expired}] /\ writes' \in 0..MaxWrites
  BY DEF IInv, TypeOK
<1>2. \A u \in Users : ~OwesM(req[p], u) /\ ~OwesS(req[p], u)
  BY ReqFacts DEF OwesM, OwesS, Shape
<1> QED
  BY <1>1, <1>2, QuietStep

LEMMA DecideMemberStep ==
  ASSUME IInv, NEW p \in Requests, DecideMember(p)
  PROVE  IInv'
<1> DEFINE q == req[p]
<1>1. q \in ReqRecords /\ Shape(q) /\ Fits(q) /\ q.at = "decide" /\ q.op \in {"invite", "update"}
      /\ q.target \in Users
  BY ReqFacts DEF DecideMember, Shape
<1>2. PICK n \in Given :
        IF /\ RoleExists(n)
           /\ \/ q.op = "invite" /\ MayInvite(q, n)
              \/ q.op = "update" /\ MayUpdate(q, n)
        THEN Granted(p, "write", n, NoCustom)
        ELSE Finish(p)
  BY DEF DecideMember
<1>3. UNCHANGED <<dbVars, cached, snapshot, token, writes>>
  BY DEF DecideMember
<1>4. CASE Finish(p)
  BY <1>1, <1>3, <1>4, IdleFits, ReqOnlyStep DEF Finish
<1>5. CASE /\ Granted(p, "write", n, NoCustom)
           /\ \/ q.op = "invite" /\ MayInvite(q, n)
              \/ q.op = "update" /\ MayUpdate(q, n)
  <2> DEFINE r == [Idle EXCEPT !.op = q.op, !.at = "write", !.target = q.target,
                               !.next = n, !.edit = NoCustom]
  <2>1. n \in RoleNames /\ q.me.level \in 0..100 /\ q.held.level \in 0..100
    BY <1>1, AccessAssumption DEF ReqRecords, Views
  <2>2. n # "OWNER"
    <3>1. RoleDef(n).level \in 0..100 /\ (n = "OWNER" => RoleDef(n).level = 100)
      BY <2>1, RoleDefTypes DEF IInv
    <3> QED
      BY <1>5, <2>1, <3>1 DEF MayInvite, MayUpdate
  <2>3. org = "open" /\ q.op = "update" => q.target # founder
    BY <1>1, <1>5, <2>1 DEF MayInvite, MayUpdate, Fits
  <2>4. r \in ReqRecords
    BY <1>1, <2>1, IdleFits DEF ReqRecords, Steps, Idle
  <2>5. r.op = q.op /\ r.at = "write" /\ r.target = q.target /\ r.next = n
    BY DEF Idle
  <2>6. Shape(r) /\ Fits(r)
    BY <1>1, <2>1, <2>2, <2>3, <2>5 DEF Shape, Fits
  <2>7. req' = [req EXCEPT ![p] = r]
    BY <1>5 DEF Granted
  <2> HIDE DEF r
  <2> QED
    BY <1>1, <1>3, <2>4, <2>5, <2>6, <2>7, ReqOnlyStep
<1> QED
  BY <1>2, <1>4, <1>5

LEMMA DecideRoleStep ==
  ASSUME IInv, NEW p \in Requests, DecideEdit(p) \/ DecideDrop(p)
  PROVE  IInv'
<1> DEFINE q == req[p]
<1>1. q \in ReqRecords /\ Shape(q) /\ Fits(q) /\ q.at = "decide" /\ q.op \in {"editRole", "dropRole"}
  BY ReqFacts DEF DecideEdit, DecideDrop
<1>2. PICK step \in {"lock", "write"}, e \in RoleEdits :
        Granted(p, step, "CUSTOM", e) \/ Finish(p)
  <2>1. NoCustom \in RoleEdits
    BY DEF NoCustom, RoleEdits, KeepLevel
  <2> QED
    BY <2>1, AccessAssumption DEF DecideEdit, DecideDrop
<1>3. UNCHANGED <<dbVars, cached, snapshot, token, writes>>
  BY DEF DecideEdit, DecideDrop
<1>4. CASE Finish(p)
  BY <1>1, <1>3, <1>4, IdleFits, ReqOnlyStep DEF Finish
<1>5. CASE Granted(p, step, "CUSTOM", e)
  <2> DEFINE r == [Idle EXCEPT !.op = q.op, !.at = step, !.target = q.target,
                               !.next = "CUSTOM", !.edit = e]
  <2>1. r \in ReqRecords
    BY <1>1, IdleFits DEF ReqRecords, Steps, Idle, RoleNames
  <2>2. r.op = q.op /\ r.at = step
    BY DEF Idle
  <2>3. Shape(r) /\ Fits(r)
    BY <1>1, <2>2 DEF Shape, Fits
  <2>4. req' = [req EXCEPT ![p] = r]
    BY <1>5 DEF Granted
  <2> HIDE DEF r
  <2> QED
    BY <1>1, <1>3, <2>1, <2>2, <2>3, <2>4, ReqOnlyStep
<1> QED
  BY <1>2, <1>4, <1>5

LEMMA LockStep ==
  ASSUME IInv, NEW p \in Requests,
         LockRole(p) \/ ReadMembers(p) \/ LockOrganization(p) \/ DeleteOrganizationFails(p)
  PROVE  IInv'
<1> DEFINE q == req[p]
<1>1. q \in ReqRecords /\ Shape(q) /\ Fits(q) /\ q.at \in {"lock", "commit", "members"}
  BY ReqFacts DEF LockRole, ReadMembers, LockOrganization, DeleteOrganizationFails
<1>2. PICK step \in {"commit", "purge"}, ids \in SUBSET Users :
        \/ Finish(p)
        \/ /\ req' = [req EXCEPT ![p].at = step, ![p].ids = ids]
           /\ step = "commit" => q.op = "delete" \/ RoleExists("CUSTOM")
  BY <1>1 DEF LockRole, ReadMembers, LockOrganization, DeleteOrganizationFails, Members
<1>3. UNCHANGED <<dbVars, cached, snapshot, token, writes>>
  BY DEF LockRole, ReadMembers, LockOrganization, DeleteOrganizationFails
<1>4. q.op # "create"
  BY <1>1 DEF Shape
<1>5. CASE Finish(p)
  BY <1>1, <1>3, <1>4, <1>5, IdleFits, ReqOnlyStep DEF Finish
<1>6. CASE /\ req' = [req EXCEPT ![p].at = step, ![p].ids = ids]
           /\ step = "commit" => q.op = "delete" \/ RoleExists("CUSTOM")
  <2> DEFINE r == [q EXCEPT !.at = step, !.ids = ids]
  <2>1. r \in ReqRecords /\ req' = [req EXCEPT ![p] = r]
    BY <1>1, <1>6 DEF ReqRecords, Steps
  <2>2. r.at = step /\ r.op = q.op /\ r.me = q.me /\ r.actor = q.actor /\ r.target = q.target
    BY <1>1 DEF ReqRecords
  <2>3. Shape(r)
    BY <1>1, <1>4, <2>2 DEF Shape
  <2>4. Fits(r)
    BY <1>1, <1>4, <1>6, <2>2 DEF Fits, RoleExists
  <2> HIDE DEF r
  <2> QED
    BY <1>1, <1>3, <1>4, <2>1, <2>2, <2>3, <2>4, ReqOnlyStep
<1> QED
  BY <1>2, <1>5, <1>6

-----------------------------------------------------------------------------
(* The caches are told.                                                    *)

\* After DEL calls that may fail, every entry there is is excused if it is stale.
LEMMA DeletedKeeps ==
  ASSUME IInv, NEW us \in SUBSET Users, NEW gone \in SUBSET us,
         cached' = Deleted(cached, us, gone, NoEntry)
  PROVE  /\ cached' \in [Users -> Entries]
         /\ org = "open" => (Present(cached'[founder]) => cached'[founder].view.level = 100)
         /\ \A u \in Users : /\ cached'[u] = NoEntry \/ cached'[u].view = cached[u].view
                             /\ cached[u].excused => cached'[u].excused \/ cached'[u] = NoEntry
         /\ \A u \in us : \/ cached'[u] = NoEntry
                          \/ cached'[u].view = View(u)
                          \/ cached'[u].excused
<1>1. NoEntry \in Entries /\ ~Present(NoEntry)
  BY NoViewTyped DEF NoEntry, Entries, Present
<1>2. ASSUME NEW u \in Users
      PROVE  /\ cached'[u] \in Entries
             /\ cached'[u] = NoEntry \/ cached'[u].view = cached[u].view
             /\ cached[u].excused => cached'[u].excused \/ cached'[u] = NoEntry
             /\ u \in us => \/ cached'[u] = NoEntry
                            \/ cached'[u].view = View(u)
                            \/ cached'[u].excused
  <2>1. cached[u] \in Entries
    BY DEF IInv, TypeOK
  <2>2. CASE u \in gone
    BY <1>1, <2>2 DEF Deleted
  <2>3. CASE u \notin gone
    <3> DEFINE b == cached[u].excused \/ (u \in us /\ cached[u] # NoEntry /\ cached[u].view # View(u))
    <3>1. cached'[u] = [cached[u] EXCEPT !.excused = b]
      BY <2>3 DEF Deleted
    <3>2. b \in BOOLEAN
      BY <2>1 DEF Entries
    <3>3. cached'[u] \in Entries /\ cached'[u].view = cached[u].view /\ cached'[u].excused = b
      BY <2>1, <3>1, <3>2 DEF Entries
    <3>4. cached[u] = NoEntry => cached'[u] = NoEntry
      <4>1. ASSUME cached[u] = NoEntry PROVE b = FALSE
        BY <4>1 DEF NoEntry
      <4>2. ASSUME cached[u] = NoEntry PROVE cached'[u] = [NoEntry EXCEPT !.excused = FALSE]
        BY <3>1, <4>1, <4>2
      <4> QED
        BY <4>2 DEF NoEntry
    <3> QED
      BY <3>3, <3>4
  <2> QED
    BY <2>2, <2>3
<1>3. cached' \in [Users -> Entries]
  BY <1>2 DEF Deleted
<1>4. org = "open" => (Present(cached'[founder]) => cached'[founder].view.level = 100)
  BY <1>1, <1>2, FounderView DEF IInv, CacheInv, Present
<1> QED
  BY <1>2, <1>3, <1>4

LEMMA SnapshotsDeletedKeep ==
  ASSUME IInv, NEW us \in SUBSET Users, DeleteSnapshots(us)
  PROVE  /\ snapshot' \in [Users -> Snapshots]
         /\ \A u \in Users :
              \/ ~snapshot'[u].present
              \/ /\ snapshot'[u].view = snapshot[u].view
                 /\ snapshot'[u].present = snapshot[u].present
                 /\ snapshot[u].excused => snapshot'[u].excused
         /\ \A u \in us : \/ ~snapshot'[u].present
                          \/ snapshot'[u].view = View(u)
                          \/ snapshot'[u].excused
<1>1. PICK gone \in SUBSET us : snapshot' = Deleted(snapshot, us, gone, NoSnapshot)
  BY DEF DeleteSnapshots
<1>2. NoSnapshot \in Snapshots /\ ~NoSnapshot.present
  BY NoViewTyped DEF NoSnapshot, Snapshots
<1>3. ASSUME NEW u \in Users
      PROVE  /\ snapshot'[u] \in Snapshots
             /\ \/ ~snapshot'[u].present
                \/ /\ snapshot'[u].view = snapshot[u].view
                   /\ snapshot'[u].present = snapshot[u].present
                   /\ snapshot[u].excused => snapshot'[u].excused
             /\ u \in us => \/ ~snapshot'[u].present
                            \/ snapshot'[u].view = View(u)
                            \/ snapshot'[u].excused
  <2>1. snapshot[u] \in Snapshots
    BY DEF IInv, TypeOK
  <2>2. CASE u \in gone
    BY <1>1, <1>2, <2>2 DEF Deleted
  <2>3. CASE u \notin gone
    <3> DEFINE b == snapshot[u].excused
                    \/ (u \in us /\ snapshot[u] # NoSnapshot /\ snapshot[u].view # View(u))
    <3>1. snapshot'[u] = [snapshot[u] EXCEPT !.excused = b]
      BY <1>1, <2>3 DEF Deleted
    <3>2. b \in BOOLEAN
      BY <2>1 DEF Snapshots
    <3>3. /\ snapshot'[u] \in Snapshots /\ snapshot'[u].view = snapshot[u].view
          /\ snapshot'[u].excused = b /\ snapshot'[u].present = snapshot[u].present
      BY <2>1, <3>1, <3>2 DEF Snapshots
    <3> QED
      BY <1>2, <3>3
  <2> QED
    BY <2>2, <2>3
<1>4. snapshot' \in [Users -> Snapshots]
  BY <1>1, <1>3 DEF Deleted
<1> QED
  BY <1>3, <1>4

LEMMA PurgeStep ==
  ASSUME IInv, NEW p \in Requests, PurgeMemberships(p)
  PROVE  IInv'
<1> DEFINE q == req[p]
           r == [q EXCEPT !.at = "dropSnapshots"]
<1>1. q \in ReqRecords /\ Shape(q) /\ Fits(q) /\ q.at = "purge"
  BY ReqFacts DEF PurgeMemberships
<1>2. r \in ReqRecords /\ req' = [req EXCEPT ![p] = r]
  BY <1>1 DEF PurgeMemberships, Goto, ReqRecords, Steps
<1>3. r.at = "dropSnapshots" /\ r.op = q.op /\ r.ids = q.ids /\ r.me = q.me /\ r.actor = q.actor
      /\ r.target = q.target
  BY <1>1 DEF ReqRecords
<1>4. q.op # "create" /\ Shape(r) /\ Fits(r)
  BY <1>1, <1>3 DEF Shape, Fits
<1>5. PICK gone \in SUBSET Users : cached' = Deleted(cached, Users, gone, NoEntry)
  BY DEF PurgeMemberships, DeleteMemberships
<1>6. UNCHANGED <<dbVars, snapshot, token, writes>>
  BY DEF PurgeMemberships
<1>7. snapshot' \in [Users -> Snapshots] /\ token' \in [Users -> (SUBSET Perms) \cup {Expired}]
      /\ writes' \in 0..MaxWrites
  BY <1>6 DEF IInv, TypeOK
<1>8. org \notin {"none", "creating"}
  BY <1>1, <1>4 DEF Fits, Shape, IInv
<1> HIDE DEF r
<1>9. \A u \in Users : KeepsM(cached'[u], q, r, u) /\ KeepsS(snapshot'[u], q, r, u)
  <2>1. \A u \in Users : \/ cached'[u] = NoEntry \/ cached'[u].view = View(u) \/ cached'[u].excused
    BY <1>5, DeletedKeeps
  <2>2. \A u \in Users : OwesS(q, u) => OwesS(r, u)
    BY <1>1, <1>3 DEF OwesS
  <2> QED
    BY <1>6, <2>1, <2>2 DEF KeepsM, KeepsS
<1>10. /\ cached' \in [Users -> Entries]
       /\ org = "open" => (Present(cached'[founder]) => cached'[founder].view.level = 100)
  BY <1>5, DeletedKeeps
<1> QED
  BY <1>2, <1>3, <1>4, <1>6, <1>7, <1>8, <1>9, <1>10, CacheStep

LEMMA DropSnapshotsStep ==
  ASSUME IInv, NEW p \in Requests, DropSnapshots(p)
  PROVE  IInv'
<1> DEFINE q == req[p]
<1>1. q \in ReqRecords /\ Shape(q) /\ q.at = "dropSnapshots" /\ q.ids \in SUBSET Users
  BY ReqFacts DEF DropSnapshots, ReqRecords
<1>2. req' = [req EXCEPT ![p] = Idle] /\ q.op # "create"
  BY <1>1 DEF DropSnapshots, Finish, Shape
<1>3. UNCHANGED <<dbVars, cached, token, writes>>
  BY DEF DropSnapshots
<1>4. cached' \in [Users -> Entries] /\ token' \in [Users -> (SUBSET Perms) \cup {Expired}]
      /\ writes' \in 0..MaxWrites
      /\ (org = "open" => (Present(cached'[founder]) => cached'[founder].view.level = 100))
  BY <1>3 DEF IInv, TypeOK, CacheInv
<1>5. /\ snapshot' \in [Users -> Snapshots]
      /\ \A u \in Users :
           \/ ~snapshot'[u].present
           \/ /\ snapshot'[u].view = snapshot[u].view
              /\ snapshot'[u].present = snapshot[u].present
              /\ snapshot[u].excused => snapshot'[u].excused
      /\ \A u \in q.ids : \/ ~snapshot'[u].present
                          \/ snapshot'[u].view = View(u)
                          \/ snapshot'[u].excused
  BY <1>1, SnapshotsDeletedKeep DEF DropSnapshots
<1>6. \A u \in Users : KeepsM(cached'[u], q, Idle, u) /\ KeepsS(snapshot'[u], q, Idle, u)
  BY <1>1, <1>3, <1>5 DEF KeepsM, KeepsS, OwesM, OwesS
<1> QED
  BY <1>2, <1>3, <1>4, <1>5, <1>6, IdleFits, CacheStep

LEMMA DropMemberStep ==
  ASSUME IInv, NEW p \in Requests, DropMember(p)
  PROVE  IInv'
<1> DEFINE q == req[p]
<1>1. q \in ReqRecords /\ Shape(q) /\ Fits(q) /\ q.at = "dropMember" /\ q.actor \in Users
      /\ q.op = "ticket"
  BY ReqFacts DEF DropMember, Shape
<1>2. req' = [req EXCEPT ![p] = Idle] /\ UNCHANGED <<dbVars, snapshot, token, writes>>
  BY DEF DropMember, Finish
<1>3. CASE UNCHANGED cached
  BY <1>1, <1>2, <1>3, IdleFits, ReqOnlyStep
<1>4. ASSUME NEW gone \in SUBSET {q.actor}, cached' = Deleted(cached, {q.actor}, gone, NoEntry)
      PROVE  IInv'
  <2>1. {q.actor} \in SUBSET Users
    BY <1>1
  <2>2. /\ cached' \in [Users -> Entries]
        /\ org = "open" => (Present(cached'[founder]) => cached'[founder].view.level = 100)
        /\ \A u \in Users : /\ cached'[u] = NoEntry \/ cached'[u].view = cached[u].view
                            /\ cached[u].excused => cached'[u].excused \/ cached'[u] = NoEntry
    BY <1>4, <2>1, DeletedKeeps
  <2>3. \A u \in Users : KeepsM(cached'[u], q, Idle, u) /\ KeepsS(snapshot'[u], q, Idle, u)
    BY <1>1, <1>2, <2>2 DEF KeepsM, KeepsS, OwesM, OwesS
  <2>4. snapshot' \in [Users -> Snapshots] /\ token' \in [Users -> (SUBSET Perms) \cup {Expired}]
        /\ writes' \in 0..MaxWrites /\ org \notin {"none", "creating"}
    BY <1>1, <1>2 DEF IInv, TypeOK, Fits
  <2> QED
    BY <1>1, <1>2, <2>2, <2>3, <2>4, IdleFits, CacheStep
<1> QED
  BY <1>3, <1>4 DEF DropMember, DeleteMemberships

LEMMA CacheNewRoleStep ==
  ASSUME IInv, NEW p \in Requests, CacheNewRole(p)
  PROVE  IInv'
<1> DEFINE q == req[p]
           t == q.target
           r == [q EXCEPT !.at = "dropSnapshots", !.held = NoView]
           e == [view |-> q.held, withOrg |-> FALSE, excused |-> q.held # View(t)]
<1>1. q \in ReqRecords /\ Shape(q) /\ Fits(q) /\ q.at = "putMember" /\ t \in Users
      /\ q.op \in {"invite", "update"} /\ q.held \in Views
  BY ReqFacts DEF CacheNewRole, Shape, ReqRecords
<1>2. r \in ReqRecords /\ req' = [req EXCEPT ![p] = r]
  BY <1>1, NoViewTyped DEF CacheNewRole, ReqRecords, Steps
<1>3. r.at = "dropSnapshots" /\ r.op = q.op /\ r.ids = q.ids /\ r.me = q.me /\ r.actor = q.actor
      /\ r.target = q.target
  BY <1>1 DEF ReqRecords
<1>4. Shape(r) /\ Fits(r)
  BY <1>1, <1>3 DEF Shape, Fits
<1>5. UNCHANGED <<dbVars, snapshot, token, writes>>
  BY DEF CacheNewRole
<1>6. snapshot' \in [Users -> Snapshots] /\ token' \in [Users -> (SUBSET Perms) \cup {Expired}]
      /\ writes' \in 0..MaxWrites /\ org \notin {"none", "creating"}
  BY <1>1, <1>5 DEF IInv, TypeOK, Fits
<1>7. e \in Entries /\ e.view = q.held /\ (e.view # View(t) => e.excused)
  BY <1>1 DEF Entries
<1>8. org = "open" => t # founder
  BY <1>1 DEF Fits
<1>9. \A u \in Users : (u # t => (OwesM(q, u) => OwesM(r, u))) /\ (OwesS(q, u) => OwesS(r, u))
  BY <1>1, <1>3 DEF OwesM, OwesS
<1> HIDE DEF r, e
<1>10. CASE cached' = [cached EXCEPT ![t] = e]
  <2>1. cached' \in [Users -> Entries]
    BY <1>1, <1>7, <1>10 DEF IInv, TypeOK
  <2>2. org = "open" => (Present(cached'[founder]) => cached'[founder].view.level = 100)
    BY <1>8, <1>10, FounderView DEF IInv, CacheInv, TypeOK
  <2>3. cached'[t] = e /\ \A u \in Users : u # t => cached'[u] = cached[u]
    BY <1>1, <1>10 DEF IInv, TypeOK
  <2>4. \A u \in Users : KeepsM(cached'[u], q, r, u) /\ KeepsS(snapshot'[u], q, r, u)
    BY <1>5, <1>7, <1>9, <2>3 DEF KeepsM, KeepsS
  <2> QED
    BY <1>1, <1>2, <1>3, <1>4, <1>5, <1>6, <2>1, <2>2, <2>4, CacheStep
<1>11. CASE cached' = Deleted(cached, {t}, {}, NoEntry)
  <2>1. {t} \in SUBSET Users /\ {} \in SUBSET {t}
    BY <1>1
  <2>2. /\ cached' \in [Users -> Entries]
        /\ org = "open" => (Present(cached'[founder]) => cached'[founder].view.level = 100)
        /\ \A u \in Users : /\ cached'[u] = NoEntry \/ cached'[u].view = cached[u].view
                            /\ cached[u].excused => cached'[u].excused \/ cached'[u] = NoEntry
        /\ \A u \in {t} : \/ cached'[u] = NoEntry \/ cached'[u].view = View(u) \/ cached'[u].excused
    BY <1>11, <2>1, DeletedKeeps
  <2>3. \A u \in Users : KeepsM(cached'[u], q, r, u) /\ KeepsS(snapshot'[u], q, r, u)
    BY <1>5, <1>9, <2>2 DEF KeepsM, KeepsS
  <2> QED
    BY <1>1, <1>2, <1>3, <1>4, <1>5, <1>6, <2>2, <2>3, CacheStep
<1> QED
  BY <1>10, <1>11 DEF CacheNewRole, Stored, e

-----------------------------------------------------------------------------
(* Logins, and what expires.                                               *)

LEMMA SnapshotStep ==
  ASSUME IInv, NEW p \in Requests,
         SnapshotFromCache(p) \/ SnapshotFromDatabase(p) \/ CacheSnapshot(p)
  PROVE  IInv'
<1> DEFINE q == req[p]
           u == q.actor
<1>1. q \in ReqRecords /\ Shape(q) /\ Fits(q) /\ q.at \in {"snapshot", "putSnapshot"}
      /\ q.op = "login" /\ u \in Users /\ q.held \in Views
  BY ReqFacts DEF SnapshotFromCache, SnapshotFromDatabase, CacheSnapshot, Shape, ReqRecords
<1>2. UNCHANGED <<dbVars, cached, writes>>
  BY DEF SnapshotFromCache, SnapshotFromDatabase, CacheSnapshot
<1>3. \A v \in Users : ~OwesM(q, v) /\ ~OwesS(q, v)
  BY <1>1 DEF OwesM, OwesS
<1>4. writes' \in 0..MaxWrites /\ cached' \in [Users -> Entries]
      /\ (org = "open" => (Present(cached'[founder]) => cached'[founder].view.level = 100))
  BY <1>2 DEF IInv, TypeOK, CacheInv
<1>5. ASSUME NEW v \in Views, UseToken(u, v)
      PROVE  token' \in [Users -> (SUBSET Perms) \cup {Expired}]
  BY <1>1, <1>5 DEF UseToken, Views, IInv, TypeOK
<1>6. CASE SnapshotFromCache(p)
  <2>1. snapshot[u] \in Snapshots
    BY <1>1 DEF IInv, TypeOK
  <2>2. token' \in [Users -> (SUBSET Perms) \cup {Expired}]
    BY <1>5, <1>6, <2>1 DEF SnapshotFromCache, Snapshots
  <2>3. req' = [req EXCEPT ![p] = Idle] /\ UNCHANGED snapshot
    BY <1>6 DEF SnapshotFromCache, Finish
  <2> QED
    BY <1>1, <1>2, <1>3, <1>4, <2>2, <2>3, IdleFits, QuietStep
<1>7. CASE SnapshotFromDatabase(p)
  <2> DEFINE r == [q EXCEPT !.at = "putSnapshot", !.held = View(u)]
  <2>1. r \in ReqRecords /\ req' = [req EXCEPT ![p] = r]
    BY <1>1, <1>7, ViewTypes DEF SnapshotFromDatabase, ReqRecords, Steps, IInv
  <2>2. r.at = "putSnapshot" /\ r.op = q.op /\ r.actor = q.actor
    BY <1>1 DEF ReqRecords
  <2>3. Shape(r) /\ Fits(r)
    BY <1>1, <2>2 DEF Shape, Fits
  <2>4. UNCHANGED <<snapshot, token>>
    BY <1>7 DEF SnapshotFromDatabase
  <2> HIDE DEF r
  <2> QED
    BY <1>1, <1>2, <2>1, <2>2, <2>3, <2>4, ReqOnlyStep
<1>8. CASE CacheSnapshot(p)
  <2> DEFINE e == [present |-> TRUE, view |-> q.held, excused |-> q.held # View(u)]
  <2>1. e \in Snapshots /\ (e.view # View(u) => e.excused)
    BY <1>1 DEF Snapshots
  <2>2. snapshot' = snapshot \/ snapshot' = [snapshot EXCEPT ![u] = e]
    BY <1>8 DEF CacheSnapshot
  <2>3. token' \in [Users -> (SUBSET Perms) \cup {Expired}]
    BY <1>1, <1>5, <1>8 DEF CacheSnapshot
  <2>4. req' = [req EXCEPT ![p] = Idle]
    BY <1>8 DEF CacheSnapshot, Finish
  <2> HIDE DEF e
  <2>5. snapshot' \in [Users -> Snapshots]
        /\ \A v \in Users : snapshot'[v] = snapshot[v] \/ (v = u /\ snapshot'[v] = e)
    BY <1>1, <2>1, <2>2 DEF IInv, TypeOK
  <2>6. \A v \in Users : KeepsM(cached'[v], q, Idle, v) /\ KeepsS(snapshot'[v], q, Idle, v)
    BY <1>2, <1>3, <2>1, <2>5 DEF KeepsM, KeepsS
  <2> QED
    BY <1>1, <1>2, <1>4, <2>3, <2>4, <2>5, <2>6, IdleFits, CacheStep
<1> QED
  BY <1>6, <1>7, <1>8

LEMMA ExpireStep ==
  ASSUME IInv, NEW u \in Users, Expire(u)
  PROVE  IInv'
<1>1. UNCHANGED <<dbVars, req, writes>>
  BY DEF Expire, ExpireMembership, ExpireSnapshot, ExpireToken
<1>2. NoEntry \in Entries /\ NoSnapshot \in Snapshots /\ ~Present(NoEntry) /\ ~NoSnapshot.present
  BY NoViewTyped DEF NoEntry, NoSnapshot, Entries, Snapshots, Present
<1>3. \A v \in Users : cached'[v] \in {cached[v], NoEntry} /\ snapshot'[v] \in {snapshot[v], NoSnapshot}
  BY DEF Expire, ExpireMembership, ExpireSnapshot, ExpireToken, IInv, TypeOK
<1>4. /\ cached' \in [Users -> Entries] /\ snapshot' \in [Users -> Snapshots]
      /\ token' \in [Users -> (SUBSET Perms) \cup {Expired}]
  BY <1>2 DEF Expire, ExpireMembership, ExpireSnapshot, ExpireToken, IInv, TypeOK
<1>5. TypeOK'
  BY <1>1, <1>4 DEF IInv, TypeOK, dbVars
<1>6. ReqInv' /\ CreatorInv' /\ OrgInv'
  BY <1>1 DEF IInv, ReqInv, CreatorInv, OrgInv, Shape, Fits, Subject, Verified, dbVars
<1>7. CacheInv'
  <2>1. (OwnerView)' = OwnerView
    BY DEF OwnerView, SystemRole
  <2> QED
    BY <1>1, <1>2, <1>3, <2>1, FounderView DEF IInv, CacheInv, Present, dbVars
<1>8. StaleNeedsRace'
  <2>1. \A v \in Users : View(v)' = View(v)
    BY <1>1 DEF View, RoleDef, SystemRole, dbVars
  <2> QED
    BY <1>1, <1>2, <1>3, <2>1 DEF IInv, StaleNeedsRace, OwesMembership, OwesSnapshot, Present
<1> QED
  BY <1>5, <1>6, <1>7, <1>8 DEF IInv

-----------------------------------------------------------------------------
(* Steps that change the database.                                         *)

LEMMA ViewSame ==
  ASSUME NEW u \in Users, role'[u] = role[u], role[u] = "CUSTOM" => custom' = custom
  PROVE  View(u)' = View(u)
<1>1. CASE role[u] = "CUSTOM"
  BY <1>1 DEF View, RoleDef
<1>2. CASE role[u] # "CUSTOM"
  BY <1>2 DEF View, RoleDef
<1> QED
  BY <1>1, <1>2

\* Fits, of a request as it is now, in the state after the step.
FitsAfter(q) ==
  /\ org' \in {"none", "creating"} => q.op \in {"none", "create", "login"}
  /\ q.op = "create" => org' = "creating"
  /\ q.op = "editRole" /\ q.at = "commit" => org' = "open" /\ custom'.level # 0
  /\ org' = "open" =>
       /\ q.at = "put" /\ Subject(q) = founder' => q.held.level = 100
       /\ q.op = "update" /\ q.at = "decide" /\ q.target = founder' => q.held.level = 100
       /\ q.op = "update" /\ q.at = "write" => q.target # founder'
       /\ q.at = "putMember" => q.target # founder'

LEMMA OthersFit ==
  ASSUME IInv, NEW p \in Requests, NEW r \in ReqRecords, Shape(r), FitsAfter(r),
         req' = [req EXCEPT ![p] = r], r.op = "create" => req[p].op = "create",
         \A q \in Requests \ {p} : FitsAfter(req[q])
  PROVE  /\ req' \in [Requests -> ReqRecords]
         /\ ReqInv' /\ CreatorInv'
         /\ req'[p] = r /\ \A q \in Requests \ {p} : req'[q] = req[q]
<1>1. req' \in [Requests -> ReqRecords] /\ req'[p] = r /\ \A q \in Requests \ {p} : req'[q] = req[q]
  BY DEF IInv, TypeOK
<1>2. ASSUME NEW q \in Requests
      PROVE  (Shape(req[q]) /\ Fits(req[q]))'
  <2>1. CASE q = p
    BY <1>1, <2>1 DEF Shape, Fits, FitsAfter, Subject, Verified
  <2>2. CASE q # p
    BY <1>1, <2>2, ReqFacts DEF Shape, Fits, FitsAfter, Subject, Verified
  <2> QED
    BY <2>1, <2>2
<1>3. CreatorInv'
  BY <1>1 DEF IInv, CreatorInv
<1> QED
  BY <1>1, <1>2, <1>3 DEF ReqInv

\* What is out of date after a step was so before it, or is excused or owed now.
LEMMA StaleStep ==
  ASSUME IInv, NEW p \in Requests, NEW r \in ReqRecords,
         req'[p] = r, \A q \in Requests \ {p} : req'[q] = req[q],
         \A u \in Users :
           /\ \/ ~Present(cached'[u]) \/ cached'[u].view = View(u)'
              \/ cached'[u].excused \/ OwesM(r, u)
              \/ /\ View(u)' = View(u) /\ cached'[u] = cached[u]
                 /\ OwesM(req[p], u) => OwesM(r, u)
           /\ \/ ~snapshot'[u].present \/ snapshot'[u].view = View(u)'
              \/ snapshot'[u].excused \/ OwesS(r, u)
              \/ /\ View(u)' = View(u) /\ snapshot'[u].view = snapshot[u].view
                 /\ snapshot'[u].present = snapshot[u].present
                 /\ snapshot[u].excused => snapshot'[u].excused
                 /\ OwesS(req[p], u) => OwesS(r, u)
  PROVE  StaleNeedsRace'
<1>1. ASSUME NEW u \in Users
      PROVE  /\ Present(cached'[u]) /\ cached'[u].view # View(u)' =>
                  cached'[u].excused \/ \E q \in Requests : OwesM(req'[q], u)
             /\ snapshot'[u].present /\ snapshot'[u].view # View(u)' =>
                  snapshot'[u].excused \/ \E q \in Requests : OwesS(req'[q], u)
  <2>1. ASSUME Present(cached'[u]), cached'[u].view # View(u)', ~cached'[u].excused
        PROVE  \E q \in Requests : OwesM(req'[q], u)
    <3>1. CASE OwesM(r, u)
      BY <3>1
    <3>2. CASE View(u)' = View(u) /\ cached'[u] = cached[u] /\ (OwesM(req[p], u) => OwesM(r, u))
      <4>1. PICK q \in Requests : OwesM(req[q], u)
        BY <2>1, <3>2 DEF IInv, StaleNeedsRace, OwesMembership, OwesM
      <4> QED
        BY <3>2, <4>1
    <3> QED
      BY <2>1, <3>1, <3>2
  <2>2. ASSUME snapshot'[u].present, snapshot'[u].view # View(u)', ~snapshot'[u].excused
        PROVE  \E q \in Requests : OwesS(req'[q], u)
    <3>1. CASE OwesS(r, u)
      BY <3>1
    <3>2. CASE /\ View(u)' = View(u) /\ snapshot'[u].view = snapshot[u].view
               /\ snapshot'[u].present = snapshot[u].present
               /\ snapshot[u].excused => snapshot'[u].excused
               /\ OwesS(req[p], u) => OwesS(r, u)
      <4>1. PICK q \in Requests : OwesS(req[q], u)
        BY <2>2, <3>2 DEF IInv, StaleNeedsRace, OwesSnapshot, OwesS
      <4> QED
        BY <3>2, <4>1
    <3> QED
      BY <2>2, <3>1, <3>2
  <2> QED
    BY <2>1, <2>2
<1> QED
  BY <1>1 DEF StaleNeedsRace, OwesMembership, OwesSnapshot, OwesM, OwesS, Present

LEMMA UnseenTypes ==
  ASSUME IInv, NEW ids, Unseen(ids)
  PROVE  /\ snapshot' \in [Users -> Snapshots]
         /\ \A u \in Users :
              /\ snapshot'[u].view = snapshot[u].view /\ snapshot'[u].present = snapshot[u].present
              /\ snapshot[u].excused => snapshot'[u].excused
              /\ u \in Members \ ids /\ snapshot[u].present => snapshot'[u].excused
<1>1. ASSUME NEW u \in Users
      PROVE  /\ snapshot'[u] \in Snapshots
             /\ snapshot'[u].view = snapshot[u].view /\ snapshot'[u].present = snapshot[u].present
             /\ snapshot[u].excused => snapshot'[u].excused
             /\ u \in Members \ ids /\ snapshot[u].present => snapshot'[u].excused
  <2> DEFINE b == snapshot[u].excused \/ (u \in Members \ ids /\ snapshot[u].present)
  <2>1. snapshot[u] \in Snapshots
    BY DEF IInv, TypeOK
  <2>2. snapshot'[u] = [snapshot[u] EXCEPT !.excused = b]
    BY DEF Unseen
  <2>3. b \in BOOLEAN
    BY <2>1 DEF Snapshots
  <2> QED
    BY <2>1, <2>2, <2>3 DEF Snapshots
<1> QED
  BY <1>1 DEF Unseen

LEMMA StoreCustomRoleStep ==
  ASSUME IInv, NEW d \in Customs, StoreCustomRole(d)
  PROVE  IInv'
<1>1. /\ org = "open" /\ custom.level = 0 /\ custom' = d
      /\ UNCHANGED <<org, role, founder, cached, snapshot, token, req, writes>>
  BY DEF StoreCustomRole, NoCustom
<1>2. d \in CustomRoles /\ d.level # 0
  BY AccessAssumption DEF CustomRoles
<1>3. \A u \in Users : role[u] # "CUSTOM"
  BY <1>1 DEF IInv, OrgInv
<1>4. TypeOK'
  BY <1>1, <1>2 DEF IInv, TypeOK
<1>5. ReqInv' /\ CreatorInv' /\ OrgInv'
  BY <1>1, <1>2, <1>3 DEF IInv, ReqInv, CreatorInv, OrgInv, Shape, Fits, FitsAfter, Subject, Verified
<1>6. CacheInv'
  BY <1>1 DEF IInv, CacheInv, Present
<1>7. \A u \in Users : View(u)' = View(u)
  BY <1>1, <1>3, ViewSame
<1>8. StaleNeedsRace'
  BY <1>1, <1>7 DEF IInv, StaleNeedsRace, OwesMembership, OwesSnapshot, Present
<1> QED
  BY <1>4, <1>5, <1>6, <1>8 DEF IInv

\* An invitation or an update that may not be done any more.
LEMMA RefusedStep ==
  ASSUME IInv, NEW p \in Requests, Finish(p), req[p].at = "write",
         UNCHANGED <<dbVars, cached, snapshot, token, writes>>
  PROVE  IInv'
<1>1. req[p].op # "create"
  BY ReqFacts DEF Shape
<1> QED
  BY <1>1, IdleFits, ReqOnlyStep DEF Finish

LEMMA GiveRoleStep ==
  ASSUME IInv, NEW p \in Requests, req[p].at = "write", req[p].op \in {"invite", "update"},
         RoleExists(req[p].next), req[p].op = "invite" => role[req[p].target] = "none",
         GiveRole(p), UNCHANGED <<org, custom, founder, cached, snapshot, token, writes>>
  PROVE  IInv'
<1> DEFINE q == req[p]
           t == q.target
           v == [role |-> q.next, level |-> RoleDef(q.next).level, perms |-> RoleDef(q.next).perms]
           r == [Idle EXCEPT !.op = q.op, !.at = "putMember", !.target = t, !.ids = {t}, !.held = v]
<1>1. q \in ReqRecords /\ Shape(q) /\ Fits(q) /\ t \in Users /\ q.next \in RoleNames \ {"OWNER"}
  BY ReqFacts DEF Shape
<1>2. org = "open" /\ (q.next = "CUSTOM" => custom.level # 0)
  BY DEF RoleExists
<1>3. t # founder
  BY <1>1, <1>2 DEF Fits, IInv, OrgInv
<1>4. v \in Views
  BY <1>1, RoleDefTypes DEF Views, IInv
<1>5. role' = [role EXCEPT ![t] = q.next] /\ req' = [req EXCEPT ![p] = r]
  BY DEF GiveRole
<1> HIDE DEF v
<1>6. r \in ReqRecords
  BY <1>1, <1>4, IdleFits DEF ReqRecords, Ops, Steps, Idle
<1>7. r.op = q.op /\ r.at = "putMember" /\ r.target = t /\ r.ids = {t}
  BY DEF Idle
<1> HIDE DEF r
<1>8. Shape(r) /\ FitsAfter(r)
  BY <1>1, <1>2, <1>3, <1>7 DEF Shape, Fits, FitsAfter
<1>9. \A o \in Requests \ {p} : FitsAfter(req[o])
  BY ReqFacts DEF Fits, FitsAfter, Subject, Verified
<1>10. r.op # "create"
  BY <1>7
<1>11. /\ req' \in [Requests -> ReqRecords] /\ ReqInv' /\ CreatorInv'
       /\ req'[p] = r /\ \A o \in Requests \ {p} : req'[o] = req[o]
  BY <1>5, <1>6, <1>8, <1>9, <1>10, OthersFit
<1>12. role' \in [Users -> RoleNames \cup {"none"}] /\ role'[t] = q.next
       /\ \A u \in Users \ {t} : role'[u] = role[u]
  BY <1>1, <1>5 DEF IInv, TypeOK
<1>13. TypeOK'
  BY <1>11, <1>12 DEF IInv, TypeOK
<1>14. OrgInv'
  BY <1>1, <1>2, <1>3, <1>12 DEF IInv, OrgInv
<1>15. CacheInv'
  BY <1>2 DEF IInv, CacheInv, Present
<1>16. \A u \in Users \ {t} : View(u)' = View(u)
  BY <1>12, ViewSame
<1>17. OwesM(r, t) /\ OwesS(r, t)
  BY <1>7 DEF OwesM, OwesS
<1>18. \A u \in Users : ~OwesM(q, u) /\ ~OwesS(q, u)
  BY <1>1 DEF OwesM, OwesS
<1>19. StaleNeedsRace'
  BY <1>1, <1>6, <1>11, <1>16, <1>17, <1>18, StaleStep
<1> QED
  BY <1>11, <1>13, <1>14, <1>15, <1>19 DEF IInv

LEMMA MemberStep ==
  ASSUME IInv, NEW p \in Requests, InviteMember(p) \/ UpdateMembershipRole(p)
  PROVE  IInv'
<1>1. /\ req[p].at = "write" /\ req[p].op \in {"invite", "update"}
      /\ UNCHANGED <<org, custom, founder, cached, snapshot, token, writes>>
      /\ \/ Finish(p) /\ UNCHANGED role
         \/ /\ GiveRole(p) /\ RoleExists(req[p].next)
            /\ req[p].op = "invite" => role[req[p].target] = "none"
  BY DEF InviteMember, UpdateMembershipRole
<1> QED
  BY <1>1, RefusedStep, GiveRoleStep DEF dbVars

LEMMA EditedTypes ==
  ASSUME NEW d \in CustomRoles, NEW e \in RoleEdits
  PROVE  Edited(d, e) \in CustomRoles
<1>1. e.level # KeepLevel => e.level \in 1..99
  BY DEF RoleEdits
<1>2. e.perms # KeepPerms => e.perms \in (SUBSET Perms) \ {{}}
  BY DEF RoleEdits, KeepPerms
<1> QED
  BY <1>1, <1>2 DEF Edited, CustomRoles

LEMMA UpdateOrgRoleStep ==
  ASSUME IInv, NEW p \in Requests, UpdateOrgRole(p)
  PROVE  IInv'
<1> DEFINE q == req[p]
           r == [q EXCEPT !.at = "purge"]
<1>1. q \in ReqRecords /\ Shape(q) /\ Fits(q) /\ q.op = "editRole" /\ q.at = "commit"
  BY ReqFacts DEF UpdateOrgRole
<1>2. org = "open" /\ custom.level # 0 /\ custom \in CustomRoles
  BY <1>1 DEF Fits, IInv, TypeOK, NoCustom, Dropped
<1>3. custom' \in CustomRoles /\ custom'.level # 0
  <2>1. custom' \in CustomRoles
    BY <1>1, <1>2, EditedTypes DEF UpdateOrgRole, ReqRecords
  <2> QED
    BY <2>1 DEF CustomRoles
<1>4. r \in ReqRecords /\ req' = [req EXCEPT ![p] = r]
  BY <1>1 DEF UpdateOrgRole, Goto, ReqRecords, Steps
<1>5. r.at = "purge" /\ r.op = q.op /\ r.ids = q.ids /\ r.me = q.me /\ r.actor = q.actor
      /\ r.target = q.target
  BY <1>1 DEF ReqRecords
<1>6. UNCHANGED <<org, role, founder, cached, token, writes>> /\ Unseen(q.ids)
  BY DEF UpdateOrgRole
<1> HIDE DEF r
<1>7. Shape(r) /\ FitsAfter(r) /\ r.op # "create"
  BY <1>1, <1>2, <1>5, <1>6 DEF Shape, Fits, FitsAfter
<1>8. \A o \in Requests \ {p} : FitsAfter(req[o])
  BY <1>3, <1>6, ReqFacts DEF Fits, FitsAfter, Subject, Verified
<1>9. /\ req' \in [Requests -> ReqRecords] /\ ReqInv' /\ CreatorInv'
      /\ req'[p] = r /\ \A o \in Requests \ {p} : req'[o] = req[o]
  BY <1>4, <1>7, <1>8, OthersFit
<1>10. /\ snapshot' \in [Users -> Snapshots]
       /\ \A u \in Users :
            /\ snapshot'[u].view = snapshot[u].view /\ snapshot'[u].present = snapshot[u].present
            /\ snapshot[u].excused => snapshot'[u].excused
            /\ u \in Members \ q.ids /\ snapshot[u].present => snapshot'[u].excused
  BY <1>6, UnseenTypes
<1>11. TypeOK'
  BY <1>3, <1>6, <1>9, <1>10 DEF IInv, TypeOK
<1>12. OrgInv' /\ CacheInv'
  BY <1>2, <1>3, <1>6 DEF IInv, OrgInv, CacheInv, Present
<1>13. \A u \in Users : OwesM(r, u) /\ (u \in q.ids => OwesS(r, u)) /\ ~OwesS(q, u)
  BY <1>1, <1>5 DEF OwesM, OwesS
<1>14. \A u \in Users \ Members : View(u)' = View(u)
  BY <1>6, ViewSame DEF Members
<1>15. StaleNeedsRace'
  BY <1>4, <1>9, <1>10, <1>13, <1>14, StaleStep
<1> QED
  BY <1>9, <1>11, <1>12, <1>15 DEF IInv

LEMMA DeleteOrgRoleStep ==
  ASSUME IInv, NEW p \in Requests, DeleteOrgRole(p)
  PROVE  IInv'
<1> DEFINE q == req[p]
           r == [q EXCEPT !.at = "members"]
<1>1. q \in ReqRecords /\ Shape(q) /\ Fits(q) /\ q.op = "dropRole" /\ q.at = "write"
      /\ UNCHANGED <<org, role, founder, cached, snapshot, token, writes>>
  BY ReqFacts DEF DeleteOrgRole
<1>2. CASE Finish(p) /\ UNCHANGED custom
  BY <1>1, <1>2, RefusedStep DEF dbVars
<1>3. CASE /\ RoleExists("CUSTOM") /\ \A u \in Users : role[u] # "CUSTOM"
           /\ custom' = Dropped /\ Goto(p, "members")
  <2>1. r \in ReqRecords /\ req' = [req EXCEPT ![p] = r]
    BY <1>1, <1>3 DEF Goto, ReqRecords, Steps
  <2>2. r.at = "members" /\ r.op = q.op /\ r.me = q.me /\ r.actor = q.actor /\ r.target = q.target
    BY <1>1 DEF ReqRecords
  <2>3. org = "open" /\ \A o \in Requests : ~(req[o].op = "editRole" /\ req[o].at = "commit")
    BY <1>3 DEF RoleExists, DeleteOrgRole, RoleLocked
  <2> HIDE DEF r
  <2>4. Shape(r) /\ FitsAfter(r) /\ r.op # "create"
    BY <1>1, <2>2, <2>3 DEF Shape, Fits, FitsAfter
  <2>5. \A o \in Requests \ {p} : FitsAfter(req[o])
    BY <1>1, <2>3, ReqFacts DEF Fits, FitsAfter, Subject, Verified
  <2>6. /\ req' \in [Requests -> ReqRecords] /\ ReqInv' /\ CreatorInv'
        /\ req'[p] = r /\ \A o \in Requests \ {p} : req'[o] = req[o]
    BY <2>1, <2>4, <2>5, OthersFit
  <2>7. TypeOK'
    BY <1>1, <1>3, <2>6 DEF IInv, TypeOK
  <2>8. OrgInv' /\ CacheInv'
    BY <1>1, <1>3, <2>3 DEF IInv, OrgInv, CacheInv, Present
  <2>9. \A u \in Users : View(u)' = View(u)
    BY <1>1, <1>3, ViewSame
  <2>10. \A u \in Users : ~OwesM(q, u) /\ ~OwesS(q, u)
    BY <1>1 DEF OwesM, OwesS
  <2>11. StaleNeedsRace'
    BY <1>1, <2>1, <2>6, <2>9, <2>10, StaleStep
  <2> QED
    BY <2>6, <2>7, <2>8, <2>11 DEF IInv
<1> QED
  BY <1>2, <1>3 DEF DeleteOrgRole

LEMMA DeleteOrganizationStep ==
  ASSUME IInv, NEW p \in Requests, DeleteOrganization(p)
  PROVE  IInv'
<1> DEFINE q == req[p]
           r == [q EXCEPT !.at = "purge"]
<1>1. q \in ReqRecords /\ Shape(q) /\ Fits(q) /\ q.op = "delete" /\ q.at = "commit"
  BY ReqFacts DEF DeleteOrganization
<1>2. /\ org = "open" /\ org' = "gone" /\ role' = [u \in Users |-> "none"] /\ custom' = Dropped
      /\ Unseen(q.ids) /\ UNCHANGED <<founder, cached, token, writes>>
      /\ \A o \in Requests : ~(req[o].op = "editRole" /\ req[o].at = "commit")
  BY DEF DeleteOrganization, RoleLocked
<1>3. r \in ReqRecords /\ req' = [req EXCEPT ![p] = r]
  BY <1>1 DEF DeleteOrganization, Goto, ReqRecords, Steps
<1>4. r.at = "purge" /\ r.op = q.op /\ r.ids = q.ids /\ r.me = q.me /\ r.actor = q.actor
      /\ r.target = q.target
  BY <1>1 DEF ReqRecords
<1> HIDE DEF r
<1>5. Shape(r) /\ FitsAfter(r) /\ r.op # "create"
  BY <1>1, <1>2, <1>4 DEF Shape, Fits, FitsAfter
<1>6. \A o \in Requests \ {p} : FitsAfter(req[o])
  BY <1>2, ReqFacts DEF Fits, FitsAfter
<1>7. /\ req' \in [Requests -> ReqRecords] /\ ReqInv' /\ CreatorInv'
      /\ req'[p] = r /\ \A o \in Requests \ {p} : req'[o] = req[o]
  BY <1>3, <1>5, <1>6, OthersFit
<1>8. /\ snapshot' \in [Users -> Snapshots]
      /\ \A u \in Users :
           /\ snapshot'[u].view = snapshot[u].view /\ snapshot'[u].present = snapshot[u].present
           /\ snapshot[u].excused => snapshot'[u].excused
           /\ u \in Members \ q.ids /\ snapshot[u].present => snapshot'[u].excused
  BY <1>2, UnseenTypes
<1>9. TypeOK'
  BY <1>2, <1>7, <1>8 DEF IInv, TypeOK
<1>10. OrgInv' /\ CacheInv'
  BY <1>2 DEF OrgInv, CacheInv
<1>11. \A u \in Users : OwesM(r, u) /\ (u \in q.ids => OwesS(r, u)) /\ ~OwesS(q, u)
  BY <1>1, <1>4 DEF OwesM, OwesS
<1>12. ASSUME NEW u \in Users \ Members
       PROVE  View(u)' = View(u)
  <2>1. role[u] = "none" /\ role'[u] = "none"
    BY <1>2 DEF Members
  <2> QED
    BY <2>1, ViewSame
<1>13. StaleNeedsRace'
  BY <1>3, <1>7, <1>8, <1>11, <1>12, StaleStep
<1> QED
  BY <1>7, <1>9, <1>10, <1>13 DEF IInv

-----------------------------------------------------------------------------
(* The organization is created.                                            *)

LEMMA CreateOrganizationStep ==
  ASSUME IInv, NEW p \in Requests, NEW u \in Users, CreateOrganization(p, u)
  PROVE  IInv'
<1> DEFINE r == [Idle EXCEPT !.op = "create", !.at = "cacheOwner", !.actor = u]
<1>1. /\ org = "none" /\ org' = "creating" /\ req[p].at = "idle" /\ req' = [req EXCEPT ![p] = r]
      /\ UNCHANGED <<role, custom, founder, cached, snapshot, token>> /\ writes' \in 0..MaxWrites
  BY AccessAssumption DEF CreateOrganization, Begin, CountWrite, IInv, TypeOK
<1>2. r \in ReqRecords /\ r.op = "create" /\ r.at = "cacheOwner" /\ r.actor = u
  BY IdleFits DEF ReqRecords, Ops, Steps, Writers, Idle
<1> HIDE DEF r
<1>3. \A o \in Requests : req[o].op # "create"
  BY <1>1, ReqFacts DEF Fits
<1>4. req' \in [Requests -> ReqRecords] /\ req'[p] = r /\ \A o \in Requests \ {p} : req'[o] = req[o]
  BY <1>1, <1>2 DEF IInv, TypeOK
<1>5. TypeOK'
  BY <1>1, <1>4 DEF IInv, TypeOK
<1>6. ReqInv'
  <2>1. ASSUME NEW o \in Requests
        PROVE  (Shape(req[o]) /\ Fits(req[o]))'
    <3>1. CASE o = p
      BY <1>1, <1>2, <1>4, <3>1 DEF Shape, Fits
    <3>2. CASE o # p
      BY <1>1, <1>3, <1>4, <3>2, ReqFacts DEF Shape, Fits
    <3> QED
      BY <3>1, <3>2
  <2> QED
    BY <2>1 DEF ReqInv
<1>7. CreatorInv'
  BY <1>3, <1>4 DEF CreatorInv
<1>8. OrgInv' /\ CacheInv'
  BY <1>1 DEF IInv, OrgInv, CacheInv, Present, NoEntry
<1>9. \A v \in Users : View(v)' = View(v)
  BY <1>1, ViewSame
<1>10. \A v \in Users : ~OwesM(req[p], v) /\ ~OwesS(req[p], v)
  BY <1>1 DEF OwesM, OwesS
<1>11. StaleNeedsRace'
  BY <1>1, <1>2, <1>4, <1>9, <1>10, StaleStep
<1> QED
  BY <1>5, <1>6, <1>7, <1>8, <1>11 DEF IInv

LEMMA CreatorFacts ==
  ASSUME IInv, NEW p \in Requests, req[p].at \in {"cacheOwner", "dropOwner", "commitOwner"}
  PROVE  /\ req[p].op = "create" /\ req[p].actor \in Users /\ org = "creating"
         /\ \A o \in Requests \ {p} : req[o].op # "create" /\ req[o].op \in {"none", "login"}
         /\ \A u \in Users : role[u] = "none"
         /\ \A u \in Users : ~OwesS(req[p], u)
<1>1. req[p].op = "create" /\ req[p].actor \in Users /\ org = "creating"
  BY ReqFacts DEF Shape, Fits
<1>2. \A o \in Requests \ {p} : req[o].op # "create"
  BY <1>1 DEF IInv, CreatorInv
<1>3. \A o \in Requests \ {p} : req[o].op \in {"none", "login"}
  BY <1>1, <1>2, ReqFacts DEF Fits
<1>4. \A u \in Users : role[u] = "none"
  BY <1>1 DEF IInv, OrgInv
<1> QED
  BY <1>1, <1>2, <1>3, <1>4 DEF OwesS

LEMMA OwnerStep ==
  ASSUME IInv, NEW p \in Requests, CacheOwner(p) \/ DropOwner(p)
  PROVE  IInv'
<1> DEFINE q == req[p]
           a == q.actor
<1>1. q \in ReqRecords /\ Shape(q) /\ Fits(q) /\ q.at \in {"cacheOwner", "dropOwner"}
  BY ReqFacts DEF CacheOwner, DropOwner
<1>2. PICK step \in {"dropOwner", "commitOwner"} :
        /\ req' = [req EXCEPT ![p].at = step] /\ UNCHANGED <<dbVars, token, writes>>
  BY DEF CacheOwner, DropOwner, Goto
<1> DEFINE r == [q EXCEPT !.at = step]
<1>3. r \in ReqRecords /\ req' = [req EXCEPT ![p] = r]
  BY <1>1, <1>2 DEF ReqRecords, Steps
<1>4. r.at = step /\ r.op = q.op /\ r.actor = a
  BY <1>1 DEF ReqRecords
<1>5. q.op = "create" /\ a \in Users /\ org = "creating"
  BY <1>1, CreatorFacts
<1> HIDE DEF r
<1>6. Shape(r) /\ FitsAfter(r)
  BY <1>2, <1>4, <1>5 DEF Shape, FitsAfter, dbVars
<1>7. \A o \in Requests \ {p} : FitsAfter(req[o])
  BY <1>2, ReqFacts DEF Fits, FitsAfter, dbVars
<1>8. /\ req' \in [Requests -> ReqRecords] /\ ReqInv' /\ CreatorInv'
      /\ req'[p] = r /\ \A o \in Requests \ {p} : req'[o] = req[o]
  BY <1>3, <1>4, <1>5, <1>6, <1>7, OthersFit
<1>9. /\ cached' \in [Users -> Entries]
      /\ \A u \in Users : \/ cached'[u] = cached[u]
                          \/ u = a /\ cached'[u].view = OwnerView
  <2> DEFINE e == [view |-> OwnerView, withOrg |-> FALSE, excused |-> FALSE]
  <2>1. cached' = cached \/ cached' = [cached EXCEPT ![a] = e]
    BY DEF CacheOwner, DropOwner
  <2>2. e \in Entries /\ e.view = OwnerView
    BY OwnerViewTypes DEF Entries
  <2> HIDE DEF e
  <2> QED
    BY <1>5, <2>1, <2>2 DEF IInv, TypeOK
<1>10. /\ snapshot' \in [Users -> Snapshots]
       /\ \A u \in Users :
            \/ ~snapshot'[u].present
            \/ /\ snapshot'[u].view = snapshot[u].view
               /\ snapshot'[u].present = snapshot[u].present
               /\ snapshot[u].excused => snapshot'[u].excused
  <2>1. CASE CacheOwner(p)
    BY <2>1 DEF CacheOwner, IInv, TypeOK
  <2>2. CASE DropOwner(p)
    <3>1. {a} \in SUBSET Users
      BY <1>5
    <3> QED
      BY <2>2, <3>1, SnapshotsDeletedKeep DEF DropOwner
  <2> QED
    BY <2>1, <2>2
<1>11. TypeOK'
  BY <1>2, <1>8, <1>9, <1>10 DEF IInv, TypeOK, dbVars
<1>12. OrgInv'
  BY <1>2 DEF IInv, OrgInv, dbVars
<1>13. CacheInv'
  <2>1. (OwnerView)' = OwnerView /\ org' = "creating"
    BY <1>2, <1>5 DEF OwnerView, SystemRole, dbVars
  <2>2. ASSUME NEW u \in Users, Present(cached'[u])
        PROVE  /\ cached'[u].view = OwnerView
               /\ \E o \in Requests : req'[o].at \in {"dropOwner", "commitOwner"} /\ req'[o].actor = u
    <3>1. CASE cached'[u] = cached[u]
      <4>1. PICK o \in Requests : req[o].at \in {"dropOwner", "commitOwner"} /\ req[o].actor = u
        BY <1>5, <2>2, <3>1 DEF IInv, CacheInv
      <4>2. cached[u].view = OwnerView
        BY <1>5, <2>2, <3>1 DEF IInv, CacheInv
      <4> QED
        BY <1>4, <1>8, <3>1, <4>1, <4>2
    <3>2. CASE u = a /\ cached'[u].view = OwnerView
      BY <1>4, <1>8, <3>2
    <3> QED
      BY <1>9, <3>1, <3>2
  <2> QED
    BY <2>1, <2>2 DEF CacheInv, Present
<1>14. \A u \in Users : View(u)' = View(u)
  BY <1>2, ViewSame DEF dbVars
<1>15. StaleNeedsRace'
  <2>1. OwesM(r, a)
    BY <1>4 DEF OwesM
  <2>2. \A u \in Users : OwesM(q, u) => OwesM(r, u)
    BY <1>1, <1>4 DEF OwesM
  <2>3. \A u \in Users : ~OwesS(q, u)
    BY <1>1, CreatorFacts
  <2> QED
    BY <1>3, <1>8, <1>9, <1>10, <1>14, <2>1, <2>2, <2>3, StaleStep
<1> QED
  BY <1>8, <1>11, <1>12, <1>13, <1>15 DEF IInv

\* Until the organization is there, only its creator's membership is cached.
LEMMA OnlyOwnerCached ==
  ASSUME IInv, NEW p \in Requests, req[p].at = "commitOwner", NEW u \in Users, Present(cached[u])
  PROVE  cached[u].view = OwnerView /\ u = req[p].actor
<1>1. org = "creating" /\ \A o \in Requests \ {p} : req[o].op # "create"
  BY CreatorFacts
<1>2. PICK o \in Requests : req[o].at \in {"dropOwner", "commitOwner"} /\ req[o].actor = u
  BY <1>1 DEF IInv, CacheInv
<1>3. o = p
  BY <1>1, <1>2, ReqFacts DEF Shape
<1> QED
  BY <1>1, <1>2, <1>3 DEF IInv, CacheInv

LEMMA CommitOwnerStep ==
  ASSUME IInv, NEW p \in Requests, CommitOwner(p)
  PROVE  IInv'
<1> DEFINE q == req[p]
           a == q.actor
<1>1. q.at = "commitOwner" /\ a \in Users /\ org = "creating" /\ q.op = "create"
  BY CreatorFacts DEF CommitOwner
<1>2. /\ org' = "open" /\ role' = [role EXCEPT ![a] = "OWNER"] /\ founder' = a
      /\ snapshot' = [snapshot EXCEPT ![a].excused = @ \/ snapshot[a].present]
      /\ req' = [req EXCEPT ![p] = Idle]
      /\ UNCHANGED <<custom, cached, token, writes>>
  BY DEF CommitOwner, Finish
<1>3. \A o \in Requests \ {p} : req[o].op \in {"none", "login"}
  BY <1>1, CreatorFacts
<1>4. FitsAfter(Idle)
  BY IdleFits DEF FitsAfter
<1>5. \A o \in Requests \ {p} : FitsAfter(req[o])
  BY <1>2, <1>3, ReqFacts DEF FitsAfter, Shape
<1>6. /\ req' \in [Requests -> ReqRecords] /\ ReqInv' /\ CreatorInv'
      /\ req'[p] = Idle /\ \A o \in Requests \ {p} : req'[o] = req[o]
  BY <1>2, <1>4, <1>5, IdleFits, OthersFit
<1>7. \A u \in Users : role[u] = "none"
  BY <1>1, CreatorFacts
<1>8. role' \in [Users -> RoleNames \cup {"none"}] /\ role'[a] = "OWNER"
      /\ \A u \in Users \ {a} : role'[u] = "none" /\ role'[u] = role[u]
  BY <1>1, <1>2, <1>7 DEF IInv, TypeOK, RoleNames, SystemRoles
<1>9. /\ snapshot' \in [Users -> Snapshots]
      /\ snapshot'[a].present => snapshot'[a].excused
      /\ \A u \in Users \ {a} : snapshot'[u] = snapshot[u]
  <2> DEFINE b == snapshot[a].excused \/ snapshot[a].present
  <2>1. snapshot[a] \in Snapshots
    BY <1>1 DEF IInv, TypeOK
  <2>2. b \in BOOLEAN
    BY <2>1 DEF Snapshots
  <2>3. snapshot' = [snapshot EXCEPT ![a] = [snapshot[a] EXCEPT !.excused = b]]
    BY <1>2
  <2>4. [snapshot[a] EXCEPT !.excused = b] \in Snapshots
    BY <2>1, <2>2 DEF Snapshots
  <2>5. snapshot' \in [Users -> Snapshots]
        /\ snapshot'[a] = [snapshot[a] EXCEPT !.excused = b]
        /\ \A u \in Users \ {a} : snapshot'[u] = snapshot[u]
    BY <1>1, <2>3, <2>4 DEF IInv, TypeOK
  <2>6. snapshot'[a].present = snapshot[a].present /\ snapshot'[a].excused = b
    BY <2>1, <2>5 DEF Snapshots
  <2> QED
    BY <2>5, <2>6
<1>10. TypeOK'
  BY <1>1, <1>2, <1>6, <1>8, <1>9 DEF IInv, TypeOK
<1>11. OrgInv'
  BY <1>1, <1>2, <1>8 DEF OrgInv
<1>12. CacheInv'
  BY <1>1, <1>2, OnlyOwnerCached, OwnerViewTypes DEF CacheInv, Present
<1>13. \A u \in Users \ {a} : View(u)' = View(u)
  BY <1>2, <1>8, ViewSame
<1>14. \A u \in Users : u = a => View(u)' = OwnerView
  <2> SUFFICES ASSUME NEW u \in Users, role'[u] = "OWNER" PROVE View(u)' = OwnerView
    BY <1>8
  <2>1. RoleDef(role[u])' = SystemRole("OWNER")
    BY DEF RoleDef, SystemRole
  <2>2. View(u)' = [role |-> role'[u], level |-> RoleDef(role[u])'.level,
                    perms |-> RoleDef(role[u])'.perms]
    BY DEF View
  <2> QED
    BY <2>1, <2>2 DEF OwnerView
<1>15. StaleNeedsRace'
  <2>1. \A u \in Users : Present(cached'[u]) => cached'[u].view = View(u)'
    BY <1>1, <1>2, <1>14, OnlyOwnerCached
  <2>2. \A u \in Users : ~OwesS(q, u)
    BY <1>1, CreatorFacts
  <2> QED
    BY <1>6, <1>9, <1>13, <2>1, <2>2, IdleFits, StaleStep
<1> QED
  BY <1>6, <1>10, <1>11, <1>12, <1>15 DEF IInv

LEMMA RollBackOwnerStep ==
  ASSUME IInv, NEW p \in Requests, RollBackOwner(p)
  PROVE  IInv'
<1> DEFINE q == req[p]
           a == q.actor
<1>1. q.at = "commitOwner" /\ a \in Users /\ org = "creating" /\ q.op = "create"
  BY CreatorFacts DEF RollBackOwner
<1>2. /\ org' = "gone" /\ cached' = [cached EXCEPT ![a].excused = Present(cached[a])]
      /\ req' = [req EXCEPT ![p] = Idle]
      /\ UNCHANGED <<role, custom, founder, snapshot, token, writes>>
  BY DEF RollBackOwner, Finish
<1>3. \A o \in Requests \ {p} : req[o].op \in {"none", "login"}
  BY <1>1, CreatorFacts
<1>4. FitsAfter(Idle)
  BY IdleFits DEF FitsAfter
<1>5. \A o \in Requests \ {p} : FitsAfter(req[o])
  BY <1>2, <1>3 DEF FitsAfter
<1>6. /\ req' \in [Requests -> ReqRecords] /\ ReqInv' /\ CreatorInv'
      /\ req'[p] = Idle /\ \A o \in Requests \ {p} : req'[o] = req[o]
  BY <1>2, <1>4, <1>5, IdleFits, OthersFit
<1>7. /\ cached' \in [Users -> Entries]
      /\ Present(cached'[a]) => cached'[a].excused
      /\ \A u \in Users \ {a} : cached'[u] = cached[u]
  <2> DEFINE b == Present(cached[a])
  <2>1. cached[a] \in Entries
    BY <1>1 DEF IInv, TypeOK
  <2>2. b \in BOOLEAN
    BY DEF Present
  <2>3. cached' = [cached EXCEPT ![a] = [cached[a] EXCEPT !.excused = b]]
    BY <1>2
  <2>4. [cached[a] EXCEPT !.excused = b] \in Entries
    BY <2>1, <2>2 DEF Entries
  <2>5. cached' \in [Users -> Entries]
        /\ cached'[a] = [cached[a] EXCEPT !.excused = b]
        /\ \A u \in Users \ {a} : cached'[u] = cached[u]
    BY <1>1, <2>3, <2>4 DEF IInv, TypeOK
  <2>6. cached'[a].view = cached[a].view /\ cached'[a].excused = b
    BY <2>1, <2>5 DEF Entries
  <2> QED
    BY <2>5, <2>6 DEF Present
<1>8. TypeOK'
  BY <1>2, <1>6, <1>7 DEF IInv, TypeOK
<1>9. OrgInv' /\ CacheInv'
  BY <1>1, <1>2 DEF IInv, OrgInv, CacheInv
<1>10. \A u \in Users : View(u)' = View(u)
  BY <1>2, ViewSame
<1>11. StaleNeedsRace'
  <2>1. \A u \in Users : ~OwesS(q, u)
    BY <1>1, CreatorFacts
  <2>2. \A u \in Users \ {a} : ~OwesM(q, u)
    BY <1>1 DEF OwesM
  <2>3. \A u \in Users \ {a} : ~Present(cached[u])
    BY <1>1, OnlyOwnerCached
  <2> QED
    BY <1>2, <1>6, <1>7, <1>10, <2>1, <2>2, <2>3, IdleFits, StaleStep
<1> QED
  BY <1>6, <1>8, <1>9, <1>11 DEF IInv

-----------------------------------------------------------------------------
(* The theorems.                                                           *)

LEMMA InvInit == Init => IInv
<1> SUFFICES ASSUME Init PROVE IInv
  OBVIOUS
<1>1. NoEntry \in Entries /\ NoSnapshot \in Snapshots /\ ~NoSnapshot.present /\ ~Present(NoEntry)
  BY NoViewTyped DEF NoEntry, NoSnapshot, Entries, Snapshots, Present
<1>2. TypeOK
  BY <1>1, IdleFits, AccessAssumption DEF Init, TypeOK
<1>3. ReqInv /\ CreatorInv
  BY IdleFits DEF Init, ReqInv, CreatorInv
<1>4. OrgInv /\ CacheInv
  BY DEF Init, OrgInv, CacheInv
<1>5. StaleNeedsRace
  BY <1>1 DEF Init, StaleNeedsRace
<1> QED
  BY <1>2, <1>3, <1>4, <1>5 DEF IInv

LEMMA StepKeeps ==
  ASSUME IInv, NEW p \in Requests, Step(p)
  PROVE  IInv'
  BY MembershipFromCacheStep, MembershipFromDatabaseStep, CacheMembershipStep, DecideMemberStep,
     DecideRoleStep, MemberStep, CacheNewRoleStep, LockStep, UpdateOrgRoleStep, DeleteOrgRoleStep,
     DeleteOrganizationStep, PurgeStep, DropSnapshotsStep, DropMemberStep, OwnerStep,
     CommitOwnerStep, RollBackOwnerStep, SnapshotStep
  DEF Step

LEMMA InvNext == IInv /\ [Next]_vars => IInv'
<1> SUFFICES ASSUME IInv, [Next]_vars PROVE IInv'
  OBVIOUS
<1>1. CASE UNCHANGED vars
  <2>1. TypeOK' /\ ReqInv' /\ CreatorInv' /\ OrgInv'
    BY <1>1 DEF vars, IInv, TypeOK, ReqInv, Shape, Fits, Subject, Verified, CreatorInv, OrgInv
  <2>2. CacheInv'
    BY <1>1 DEF vars, IInv, CacheInv, OwnerView, SystemRole, Present
  <2>3. \A u \in Users : View(u)' = View(u)
    BY <1>1, ViewSame DEF vars
  <2>4. StaleNeedsRace'
    BY <1>1, <2>3 DEF vars, IInv, StaleNeedsRace, OwesMembership, OwesSnapshot, Present
  <2> QED
    BY <2>1, <2>2, <2>4 DEF IInv
<1>2. CASE Next
  <2>1. Founders \subseteq Users
    BY AccessAssumption
  <2> QED
    BY <1>2, <2>1, StepKeeps, ArriveStep, CreateOrganizationStep, StoreCustomRoleStep, ExpireStep
    DEF Next
<1> QED
  BY <1>1, <1>2

\* The inductive invariant: types, what requests hold, the founder's copies, and the
\* reasons for which an entry may be out of date.
THEOREM InvCorrect == Spec => []IInv
  BY InvInit, InvNext, PTL DEF Spec

\* Organization, roles, caches, tokens and requests (organization.*, getUserPermissionSnapshot)
\* keep their types, for any users, custom roles, edits and requests.
THEOREM TypeCorrect == Spec => []TypeOK
<1>1. IInv => TypeOK
  BY DEF IInv
<1> QED
  BY <1>1, InvCorrect, PTL

\* Whatever memberships the checks of levels (assertCanInviteRole, assertCanUpdateRole,
\* updateRoleService) are made on, nobody comes to the level of the owner.
THEOREM OwnerCorrect == Spec => []OwnerOutranks
<1>1. IInv => OwnerOutranks
  <2> SUFFICES ASSUME IInv, org = "open"
               PROVE  /\ role[founder] = "OWNER"
                      /\ \A u \in Users \ {founder} : View(u).level < View(founder).level
    BY DEF OwnerOutranks
  <2>1. View(founder).level = 100 /\ role[founder] = "OWNER"
    BY FounderView DEF IInv, OrgInv
  <2>2. \A u \in Users \ {founder} : View(u).level < 100
    BY ViewTypes DEF IInv, OrgInv
  <2> QED
    BY <2>1, <2>2
<1> QED
  BY <1>1, InvCorrect, PTL

\* Every write of a membership or a role (org.repo.js) tells both caches of all it
\* concerns: an entry is out of date only while that is under way, or for a reason named.
THEOREM StaleCorrect == Spec => []StaleNeedsRace
<1>1. IInv => StaleNeedsRace
  BY DEF IInv
<1> QED
  BY <1>1, InvCorrect, PTL
=============================================================================
