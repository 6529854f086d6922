------------------------- MODULE OrganizationAccess -------------------------
(***************************************************************************)
(* Who may do what in one organization (modules/organization of the API    *)
(* gateway, with the permission snapshot of modules/auth/auth.repo.js and  *)
(* the membership reads of modules/tickets/ticket.repo.js): its members    *)
(* and their roles in the database, the memberships cached in Redis, the   *)
(* permission snapshots cached beside them, and the permissions every      *)
(* access token carries.  Requests run concurrently; an action is what one *)
(* does between two awaits.                                                *)
(*                                                                         *)
(* A view is what a reader sees of a user: role, level and permissions.    *)
(* The system roles are constant; AGENT differs from MEMBER in ticket      *)
(* permissions and in the one to change one's availability, and is left    *)
(* out.  This code cannot create a custom role (see WithMembership), but   *)
(* reads, updates and deletes those there are.  The read and the write     *)
(* connection reach the same database.  Redis may fail at any call, which  *)
(* is logged and passed over; a crash of the gateway leaves the caches as  *)
(* Redis failing from then on would, and is not an action of its own.      *)
(***************************************************************************)
EXTENDS Integers

CONSTANTS
  Users,
  Founders,    \* bound of the model: users who create the organization
  Clients,     \* bound of the model: users who log in and call the routes of tickets
  NoUser,
  Customs,     \* bound of the model: custom roles that are stored, [level, perms]
  Given,       \* bound of the model: roles that are asked for a member
  Edits,       \* bound of the model: bodies of PATCH /:orgId/roles/:roleId
  Requests,    \* requests served at the same time
  Others,      \* bound of the model: those that may be logins and ticket routes
  MaxWrites    \* bound of the model: requests that write

Perms == {"ORG_UPDATE", "ORG_DELETE", "ORG_INVITE_MEMBER", "ORG_MANAGE_MEMBER",
          "ORG_VIEW_MEMBERS", "ROLE_CREATE", "ROLE_UPDATE", "ROLE_DELETE",
          "AGENT_UPDATE_AVAILABILITY"}

SystemRoles == {"OWNER", "ADMIN", "MEMBER"}
RoleNames == SystemRoles \cup {"CUSTOM"}

\* What createRoleSchema lets a custom role be.
CustomRoles == [level : 1..99, perms : (SUBSET Perms) \ {{}}]

\* What updateRoleSchema lets the body of an edit be: Keep fields are absent.
KeepLevel == 0
KeepPerms == {}
RoleEdits == [level : (1..99) \cup {KeepLevel}, perms : SUBSET Perms]

ASSUME AccessAssumption ==
  /\ Founders \subseteq Users
  /\ Clients \subseteq Users
  /\ NoUser \notin Users
  /\ Customs \subseteq CustomRoles
  /\ Given \subseteq RoleNames
  /\ Edits \subseteq RoleEdits
  /\ Others \subseteq Requests
  /\ MaxWrites \in Nat

VARIABLES
  org,       \* the organization: "none", "creating", "open" or "gone"
  role,      \* user -> name of the role of the membership, or "none"
  custom,    \* the custom role, or NoCustom, or Dropped
  cached,    \* user -> org:membership:<org>:user:<user> in Redis, or NoEntry
  snapshot,  \* user -> auth:user:scope:<user> in Redis, or NoSnapshot
  token,     \* user -> the permissions of the access token it uses, or Expired
  req,       \* request -> what it is doing
  writes,    \* writing requests so far
  founder    \* history: the user who created the organization

vars == <<org, role, custom, cached, snapshot, token, req, writes, founder>>

Expired == {"expired"}
NoCustom == [level |-> 0, perms |-> {}]
Dropped == [level |-> 0, perms |-> Perms]

\* DEFAULT_ROLES.
SystemRole(r) ==
  CASE r = "OWNER" -> [level |-> 100, perms |-> Perms]
    [] r = "ADMIN" -> [level |-> 75,
                       perms |-> Perms \ {"ORG_DELETE", "AGENT_UPDATE_AVAILABILITY"}]
    [] r = "MEMBER" -> [level |-> 10, perms |-> {"ORG_VIEW_MEMBERS"}]

RoleDef(r) == IF r = "CUSTOM" THEN custom ELSE SystemRole(r)

Views == [role : RoleNames \cup {"none"}, level : 0..100, perms : SUBSET Perms]
NoView == [role |-> "none", level |-> 0, perms |-> {}]

\* What the database says of u now: normalizeMembershipRole of the row read.
View(u) ==
  IF role[u] = "none" THEN NoView
  ELSE [role |-> role[u], level |-> RoleDef(role[u]).level,
        perms |-> RoleDef(role[u]).perms]

\* excused (history): the entry was out of date when it was stored, or Redis did not
\* do what would have brought it up to date.
Entries == [view : Views, withOrg : BOOLEAN, excused : BOOLEAN]
NoEntry == [view |-> NoView, withOrg |-> FALSE, excused |-> FALSE]
Snapshots == [present : BOOLEAN, view : Views, excused : BOOLEAN]
NoSnapshot == [present |-> FALSE, view |-> NoView, excused |-> FALSE]

Writers == {"create", "delete", "invite", "update", "editRole", "dropRole"}
Ops == Writers \cup {"none", "route", "ticket", "login"}
Steps == {"idle", "verify", "put", "decide", "write", "putMember",
          "dropSnapshots", "lock", "commit", "members", "purge", "dropMember",
          "cacheOwner", "dropOwner", "commitOwner", "snapshot", "putSnapshot"}

ReqRecords ==
  [op : Ops, at : Steps,
   actor : Users \cup {NoUser},     \* the authenticated user
   target : Users \cup {NoUser},    \* the member read, invited or updated
   next : RoleNames \cup {"none"},  \* the role to give it
   edit : RoleEdits,
   auth : SUBSET Perms,             \* permissions of the token it presents
   me : Views,                      \* req.membership, once verified
   held : Views,                    \* what was read or written last
   ids : SUBSET Users]              \* members read for the snapshots to drop

Idle == [op |-> "none", at |-> "idle", actor |-> NoUser, target |-> NoUser,
         next |-> "none", edit |-> NoCustom, auth |-> {}, me |-> NoView,
         held |-> NoView, ids |-> {}]

TypeOK ==
  /\ org \in {"none", "creating", "open", "gone"}
  /\ role \in [Users -> RoleNames \cup {"none"}]
  /\ custom \in CustomRoles \cup {NoCustom, Dropped}
  /\ cached \in [Users -> Entries]
  /\ snapshot \in [Users -> Snapshots]
  /\ token \in [Users -> (SUBSET Perms) \cup {Expired}]
  /\ req \in [Requests -> ReqRecords]
  /\ writes \in 0..MaxWrites
  /\ founder \in Users \cup {NoUser}

Init ==
  /\ org = "none"
  /\ role = [u \in Users |-> "none"]
  /\ custom = NoCustom
  /\ cached = [u \in Users |-> NoEntry]
  /\ snapshot = [u \in Users |-> NoSnapshot]
  /\ token = [u \in Users |-> {}]
  /\ req = [p \in Requests |-> Idle]
  /\ writes = 0
  /\ founder = NoUser

dbVars == <<org, role, custom, founder>>

Members == {u \in Users : role[u] # "none"}
Known == org \in {"open", "gone"}
Present(e) == e.view # NoView

-----------------------------------------------------------------------------
(* Redis.                                                                  *)

Stored(u, view, withOrg) ==
  [cached EXCEPT ![u] = [view |-> view, withOrg |-> withOrg, excused |-> view # View(u)]]

\* The keys of gone are deleted; those of the rest of us are not, as Redis failed.
Deleted(c, us, gone, none) ==
  [u \in Users |->
     IF u \in gone THEN none
     ELSE [c[u] EXCEPT !.excused = @ \/ (u \in us /\ c[u] # none /\ c[u].view # View(u))]]

\* deleteByPattern and deleteCachedValue, which may fail, and halfway too.
DeleteMemberships(us) ==
  \E gone \in SUBSET us : cached' = Deleted(cached, us, gone, NoEntry)

\* invalidateUserPermissionSnapshots: one DEL per user, each of which may fail.
DeleteSnapshots(us) ==
  \E gone \in SUBSET us : snapshot' = Deleted(snapshot, us, gone, NoSnapshot)

\* Mutant: entries stored by an invitation or an update are kept for good.
ExpireOnlyJoined(u) ==
  /\ Present(cached[u]) /\ cached[u].withOrg
  /\ cached' = [cached EXCEPT ![u] = NoEntry]
  /\ UNCHANGED <<dbVars, snapshot, token, req, writes>>

\* A key lives CACHE_TTL_SECONDS; reading it does not prolong that.
ExpireMembership(u) ==
  /\ Present(cached[u])
  /\ cached' = [cached EXCEPT ![u] = NoEntry]
  /\ UNCHANGED <<dbVars, snapshot, token, req, writes>>

ExpireSnapshot(u) ==
  /\ snapshot[u].present
  /\ snapshot' = [snapshot EXCEPT ![u] = NoSnapshot]
  /\ UNCHANGED <<dbVars, cached, token, req, writes>>

\* The access token expires: a login or a refresh is next.
ExpireToken(u) ==
  /\ token[u] # Expired
  /\ token' = [token EXCEPT ![u] = Expired]
  /\ UNCHANGED <<dbVars, cached, snapshot, req, writes>>

-----------------------------------------------------------------------------
(* Requests begin.                                                         *)

Begin(p, r) ==
  /\ req[p].at = "idle"
  /\ req' = [req EXCEPT ![p] = r]

CountWrite == writes < MaxWrites /\ writes' = writes + 1

Goto(p, step) == req' = [req EXCEPT ![p].at = step]
Finish(p) == req' = [req EXCEPT ![p] = Idle]

\* POST /: findOrganizationByOwner has found none; the transaction begins.
CreateOrganization(p, u) ==
  /\ org = "none"
  /\ org' = "creating"
  /\ Begin(p, [Idle EXCEPT !.op = "create", !.at = "cacheOwner", !.actor = u])
  /\ CountWrite
  /\ UNCHANGED <<role, custom, founder, cached, snapshot, token>>

\* A route behind authenticate and verifyOrganizationMembership.  Which one it is, like
\* its parameters and its body, is chosen where the code first looks at it.
CallOrganization(p, u) ==
  /\ Known
  /\ token[u] # Expired
  /\ Begin(p, [Idle EXCEPT !.op = "route", !.at = "verify", !.actor = u, !.auth = token[u]])
  /\ UNCHANGED <<dbVars, cached, snapshot, token, writes>>

\* A route of the tickets: getTicketOrganizationMembership, of the caller or an assignee.
CallTickets(p, u) ==
  /\ Known
  /\ token[u] # Expired
  /\ Begin(p, [Idle EXCEPT !.op = "ticket", !.at = "verify", !.actor = u])
  /\ UNCHANGED <<dbVars, cached, snapshot, token, writes>>

\* issueTokens of a login or a refresh: getUserPermissionSnapshot.
Login(p, u) ==
  /\ Begin(p, [Idle EXCEPT !.op = "login", !.at = "snapshot", !.actor = u])
  /\ UNCHANGED <<dbVars, cached, snapshot, token, writes>>

\* A custom role of this organization is stored by other means than its routes.
StoreCustomRole(d) ==
  /\ org = "open"
  /\ custom = NoCustom
  /\ custom' = d
  /\ UNCHANGED <<org, role, founder, cached, snapshot, token, req, writes>>

RoleExists(r) == org = "open" /\ (r = "CUSTOM" => custom.level # 0)

\* The transaction of an edit holds the row of the role: others wait for it.
RoleLocked == \E p \in Requests : req[p].op = "editRole" /\ req[p].at = "commit"

-----------------------------------------------------------------------------
(* Whose membership is it: verifyOrganizationMembership asks for the       *)
(* caller's, updateMemberFromOrganizationService then for the target's.    *)

Verified(q) == q.me # NoView
Subject(q) == IF Verified(q) THEN q.target ELSE q.actor

\* getUserMembershipInOrganization wants the organization with the membership,
\* getTicketOrganizationMembership and getOrganizationMembershipByUserId do not.
WantsOrg(q) == q.op = "route"

GuardOf(op) ==
  CASE op = "delete" -> "ORG_DELETE"
    [] op = "invite" -> "ORG_INVITE_MEMBER"
    [] op = "update" -> "ORG_MANAGE_MEMBER"
    [] op = "editRole" -> "ROLE_UPDATE"
    [] op = "dropRole" -> "ROLE_DELETE"

\* requirePermission: the permissions of the token, if it has any for the organization.
Permitted(q, op, v) == GuardOf(op) \in IF q.auth # {} THEN q.auth ELSE v.perms

\* What an admitted request does next.
FirstStep(op) ==
  CASE op = "delete" -> "lock"
    [] op = "update" -> "verify"
    [] op \in {"invite", "editRole", "dropRole"} -> "decide"

Targets(op) == IF op \in {"invite", "update"} THEN Users ELSE {NoUser}

\* Request p has verified membership v and is admitted to a route that writes.
Admit(p, v) ==
  \E op \in Writers \ {"create"} : \E t \in Targets(op) :
    /\ Permitted(req[p], op, v)
    /\ CountWrite
    /\ req' = [req EXCEPT ![p] = [Idle EXCEPT !.op = op, !.at = FirstStep(op),
                                  !.actor = req[p].actor, !.target = t, !.me = v]]

\* Request p goes on with membership v.  A route that only reads is answered, one that
\* lacks the permission is refused.  So are POST /:orgId/roles, whose service calls a
\* function it does not import and throws, PATCH /:orgId/roles/:roleId with a name,
\* which does so too, and PATCH /:orgId, which changes nothing that is modelled.
WithMembership(p, v) ==
  \/ /\ Verified(req[p])
     /\ req' = [req EXCEPT ![p].at = "decide", ![p].held = v]
     /\ UNCHANGED writes
  \/ req[p].op = "route" /\ Admit(p, v)
  \/ /\ req[p].op = "ticket" /\ "AGENT_UPDATE_AVAILABILITY" \in v.perms
     /\ req' = [req EXCEPT ![p].at = "dropMember", ![p].held = NoView]
     /\ UNCHANGED writes
  \/ req[p].op \in {"route", "ticket"} /\ Finish(p) /\ UNCHANGED writes

\* A hit.
MembershipFromCache(p) ==
  LET entry == cached[Subject(req[p])] IN
  /\ req[p].at = "verify"
  /\ Present(entry)
  /\ WantsOrg(req[p]) => entry.withOrg
  /\ WithMembership(p, entry.view)
  /\ UNCHANGED <<dbVars, cached, snapshot, token>>

\* A miss, or Redis does not answer: the database is read.  No membership: 403, 404.
MembershipFromDatabase(p) ==
  LET v == View(Subject(req[p])) IN
  /\ req[p].at = "verify"
  /\ req' = [req EXCEPT ![p] =
       IF v = NoView THEN Idle ELSE [@ EXCEPT !.at = "put", !.held = v]]
  /\ UNCHANGED <<dbVars, cached, snapshot, token, writes>>

\* The membership read is cached.
CacheMembership(p) ==
  /\ req[p].at = "put"
  /\ cached' \in {cached, Stored(Subject(req[p]), req[p].held, WantsOrg(req[p]))}
  /\ WithMembership(p, req[p].held)
  /\ UNCHANGED <<dbVars, snapshot, token>>

-----------------------------------------------------------------------------
(* The services: getOrgRoleById and the checks that follow it.             *)

\* assertCanInviteRole.
MayInvite(q, r) ==
  /\ "ORG_INVITE_MEMBER" \in q.me.perms
  /\ RoleDef(r).level < q.me.level

\* Mutant: the level of the target is not looked at.
MayUpdateAnyone(q, r) ==
  /\ "ORG_MANAGE_MEMBER" \in q.me.perms
  /\ q.actor # q.target
  /\ RoleDef(r).level < q.me.level
  /\ r # "OWNER"

\* assertCanUpdateRole.
MayUpdate(q, r) ==
  /\ "ORG_MANAGE_MEMBER" \in q.me.perms
  /\ q.actor # q.target
  /\ q.held.level < q.me.level
  /\ RoleDef(r).level < q.me.level
  /\ r # "OWNER"

\* updateRoleService.
MayEdit(q, e) == custom.level < q.me.level /\ e.level < q.me.level

\* deleteRoleService.
MayDrop(q) == custom.level < q.me.level

\* What a request that passes its check goes on with, and what it has done with.
Granted(p, step, r, e) ==
  req' = [req EXCEPT ![p] = [Idle EXCEPT !.op = req[p].op, !.at = step,
                               !.target = req[p].target, !.next = r, !.edit = e]]

DecideMember(p) ==
  LET q == req[p] IN
  /\ q.at = "decide"
  /\ q.op \in {"invite", "update"}
  /\ \E r \in Given :
       IF /\ RoleExists(r)
          /\ \/ q.op = "invite" /\ MayInvite(q, r)
             \/ q.op = "update" /\ MayUpdate(q, r)
       THEN Granted(p, "write", r, NoCustom)
       ELSE Finish(p)
  /\ UNCHANGED <<dbVars, cached, snapshot, token, writes>>

DecideEdit(p) ==
  /\ req[p].op = "editRole" /\ req[p].at = "decide"
  /\ \E e \in Edits : IF RoleExists("CUSTOM") /\ MayEdit(req[p], e)
                      THEN Granted(p, "lock", "CUSTOM", e) ELSE Finish(p)
  /\ UNCHANGED <<dbVars, cached, snapshot, token, writes>>

DecideDrop(p) ==
  /\ req[p].op = "dropRole" /\ req[p].at = "decide"
  /\ IF RoleExists("CUSTOM") /\ MayDrop(req[p])
     THEN Granted(p, "write", "CUSTOM", NoCustom) ELSE Finish(p)
  /\ UNCHANGED <<dbVars, cached, snapshot, token, writes>>

-----------------------------------------------------------------------------
(* The writes.  One that the database refuses ends the request.            *)

\* The row of the target now has the role; its view was read with the write.
GiveRole(p) ==
  LET q == req[p] IN
  /\ role' = [role EXCEPT ![q.target] = q.next]
  /\ req' = [req EXCEPT ![p] = [Idle EXCEPT !.op = q.op, !.at = "putMember",
       !.target = q.target, !.ids = {q.target},
       !.held = [role |-> q.next, level |-> RoleDef(q.next).level,
                 perms |-> RoleDef(q.next).perms]]]

\* inviteMemberInOrganization: the user must not be a member yet.
InviteMember(p) ==
  /\ req[p].op = "invite" /\ req[p].at = "write"
  /\ IF RoleExists(req[p].next) /\ role[req[p].target] = "none"
     THEN GiveRole(p)
     ELSE Finish(p) /\ UNCHANGED role
  /\ UNCHANGED <<org, custom, founder, cached, snapshot, token, writes>>

\* updateMembershipRole: the user must be one still.
UpdateMembershipRole(p) ==
  /\ req[p].op = "update" /\ req[p].at = "write"
  /\ IF RoleExists(req[p].next) /\ role[req[p].target] # "none"
     THEN GiveRole(p)
     ELSE Finish(p) /\ UNCHANGED role
  /\ UNCHANGED <<org, custom, founder, cached, snapshot, token, writes>>

\* Both go on to cache the membership, without its organization.
CacheNewRole(p) ==
  /\ req[p].at = "putMember"
  /\ cached' \in {Stored(req[p].target, req[p].held, FALSE),
                  Deleted(cached, {req[p].target}, {}, NoEntry)}
  /\ req' = [req EXCEPT ![p].at = "dropSnapshots", ![p].held = NoView]
  /\ UNCHANGED <<dbVars, snapshot, token, writes>>

\* updateOrgRole: the transaction updates the role and reads the members.
LockRole(p) ==
  /\ req[p].op = "editRole" /\ req[p].at = "lock"
  /\ ~RoleLocked
  /\ IF RoleExists("CUSTOM")
     THEN req' = [req EXCEPT ![p].at = "commit", ![p].ids = Members]
     ELSE Finish(p)
  /\ UNCHANGED <<dbVars, cached, snapshot, token, writes>>

Edited(d, e) ==
  [level |-> IF e.level = KeepLevel THEN d.level ELSE e.level,
   perms |-> IF e.perms = KeepPerms THEN d.perms ELSE e.perms]

\* The history of the snapshots of members who joined after the transaction read ids.
Unseen(ids) ==
  snapshot' = [u \in Users |->
    [snapshot[u] EXCEPT !.excused = @ \/ (u \in Members \ ids /\ snapshot[u].present)]]

\* Mutant: the memberships that are cached are left alone.
UpdateOrgRoleUntold(p) ==
  /\ req[p].op = "editRole" /\ req[p].at = "commit"
  /\ custom' = Edited(custom, req[p].edit)
  /\ Unseen(req[p].ids)
  /\ Goto(p, "dropSnapshots")
  /\ UNCHANGED <<org, role, founder, cached, token, writes>>

\* It commits.
UpdateOrgRole(p) ==
  /\ req[p].op = "editRole" /\ req[p].at = "commit"
  /\ custom' = Edited(custom, req[p].edit)
  /\ Unseen(req[p].ids)
  /\ Goto(p, "purge")
  /\ UNCHANGED <<org, role, founder, cached, token, writes>>

\* deleteOrgRole: a role that a member has cannot be deleted.
DeleteOrgRole(p) ==
  /\ req[p].op = "dropRole" /\ req[p].at = "write"
  /\ ~RoleLocked
  /\ IF RoleExists("CUSTOM") /\ \A u \in Users : role[u] # "CUSTOM"
     THEN custom' = Dropped /\ Goto(p, "members")
     ELSE Finish(p) /\ UNCHANGED custom
  /\ UNCHANGED <<org, role, founder, cached, snapshot, token, writes>>

ReadMembers(p) ==
  /\ req[p].at = "members"
  /\ req' = [req EXCEPT ![p].at = "purge", ![p].ids = Members]
  /\ UNCHANGED <<dbVars, cached, snapshot, token, writes>>

\* deleteOrganization: the transaction reads the members.  If the organization is gone
\* already it throws, and the cache is purged nevertheless.
LockOrganization(p) ==
  /\ req[p].op = "delete" /\ req[p].at = "lock"
  /\ req' = [req EXCEPT ![p].at = IF org = "open" THEN "commit" ELSE "purge",
                        ![p].ids = Members]
  /\ UNCHANGED <<dbVars, cached, snapshot, token, writes>>

\* It deletes the memberships, the roles and the organization.
DeleteOrganization(p) ==
  /\ req[p].op = "delete" /\ req[p].at = "commit"
  /\ org = "open"
  /\ ~RoleLocked
  /\ org' = "gone"
  /\ role' = [u \in Users |-> "none"]
  /\ custom' = Dropped
  /\ Unseen(req[p].ids)
  /\ Goto(p, "purge")
  /\ UNCHANGED <<founder, cached, token, writes>>

\* Or it fails, on a row that another table refers to: only the cache is purged.
DeleteOrganizationFails(p) ==
  /\ req[p].op = "delete" /\ req[p].at = "commit"
  /\ req' = [req EXCEPT ![p].at = "purge", ![p].ids = {}]
  /\ UNCHANGED <<dbVars, cached, snapshot, token, writes>>

\* invalidateOrganizationMembershipCacheByOrg.
PurgeMemberships(p) ==
  /\ req[p].at = "purge"
  /\ DeleteMemberships(Users)
  /\ Goto(p, "dropSnapshots")
  /\ UNCHANGED <<dbVars, snapshot, token, writes>>

DropSnapshots(p) ==
  /\ req[p].at = "dropSnapshots"
  /\ DeleteSnapshots(req[p].ids)
  /\ Finish(p)
  /\ UNCHANGED <<dbVars, cached, token, writes>>

\* updateAgentAvailability, which fails for a member no more.
DropMember(p) ==
  /\ req[p].at = "dropMember"
  /\ IF role[req[p].actor] = "none" THEN UNCHANGED cached
     ELSE DeleteMemberships({req[p].actor})
  /\ Finish(p)
  /\ UNCHANGED <<dbVars, snapshot, token, writes>>

-----------------------------------------------------------------------------
(* createOrganizationWithRolesAndOwner: the caches are told inside the     *)
(* transaction, before it commits.                                         *)

OwnerView ==
  [role |-> "OWNER", level |-> SystemRole("OWNER").level, perms |-> SystemRole("OWNER").perms]

CacheOwner(p) ==
  /\ req[p].at = "cacheOwner"
  /\ cached' \in {cached,
       [cached EXCEPT ![req[p].actor] =
          [view |-> OwnerView, withOrg |-> FALSE, excused |-> FALSE]]}
  /\ Goto(p, "dropOwner")
  /\ UNCHANGED <<dbVars, snapshot, token, writes>>

DropOwner(p) ==
  /\ req[p].at = "dropOwner"
  /\ DeleteSnapshots({req[p].actor})
  /\ Goto(p, "commitOwner")
  /\ UNCHANGED <<dbVars, cached, token, writes>>

\* A snapshot stored since then lacks the organization.
CommitOwner(p) ==
  LET u == req[p].actor IN
  /\ req[p].at = "commitOwner"
  /\ org' = "open"
  /\ role' = [role EXCEPT ![u] = "OWNER"]
  /\ founder' = u
  /\ snapshot' = [snapshot EXCEPT ![u].excused = @ \/ snapshot[u].present]
  /\ Finish(p)
  /\ UNCHANGED <<custom, cached, token, writes>>

RollBackOwner(p) ==
  LET u == req[p].actor IN
  /\ req[p].at = "commitOwner"
  /\ org' = "gone"
  /\ cached' = [cached EXCEPT ![u].excused = Present(cached[u])]
  /\ Finish(p)
  /\ UNCHANGED <<role, custom, founder, snapshot, token, writes>>

-----------------------------------------------------------------------------
(* issueTokens.                                                            *)

\* The token is signed; the user goes over to it, or keeps using the one it has.
UseToken(u, v) == token' \in {token, [token EXCEPT ![u] = v.perms]}

SnapshotFromCache(p) ==
  LET u == req[p].actor IN
  /\ req[p].at = "snapshot"
  /\ snapshot[u].present
  /\ UseToken(u, snapshot[u].view)
  /\ Finish(p)
  /\ UNCHANGED <<dbVars, cached, snapshot, writes>>

SnapshotFromDatabase(p) ==
  /\ req[p].at = "snapshot"
  /\ req' = [req EXCEPT ![p].at = "putSnapshot", ![p].held = View(req[p].actor)]
  /\ UNCHANGED <<dbVars, cached, snapshot, token, writes>>

\* The snapshot is cached, or is not, and the token signed with it.
CacheSnapshot(p) ==
  LET u == req[p].actor
      v == req[p].held
  IN
  /\ req[p].at = "putSnapshot"
  /\ \/ snapshot' = [snapshot EXCEPT ![u] =
          [present |-> TRUE, view |-> v, excused |-> v # View(u)]]
     \/ UNCHANGED snapshot
  /\ UseToken(u, v)
  /\ Finish(p)
  /\ UNCHANGED <<dbVars, cached, writes>>

-----------------------------------------------------------------------------
(* What a request still owes the caches.                                   *)

\* p has changed what the database says of u and has yet to tell the cache.
OwesMembership(p, u) ==
  \/ req[p].at = "putMember" /\ req[p].target = u
  \/ req[p].at = "purge"
  \/ req[p].at \in {"dropOwner", "commitOwner"} /\ req[p].actor = u

\* p has changed it and has yet to drop the snapshot.
OwesSnapshot(p, u) ==
  req[p].at \in {"putMember", "purge", "dropSnapshots"} /\ u \in req[p].ids

-----------------------------------------------------------------------------
\* Everything request p does after it began.
Step(p) ==
  \/ MembershipFromCache(p) \/ MembershipFromDatabase(p) \/ CacheMembership(p)
  \/ DecideMember(p) \/ DecideEdit(p) \/ DecideDrop(p)
  \/ InviteMember(p) \/ UpdateMembershipRole(p) \/ CacheNewRole(p)
  \/ LockRole(p) \/ UpdateOrgRole(p) \/ DeleteOrgRole(p) \/ ReadMembers(p)
  \/ LockOrganization(p) \/ DeleteOrganization(p) \/ DeleteOrganizationFails(p)
  \/ PurgeMemberships(p) \/ DropSnapshots(p) \/ DropMember(p)
  \/ CacheOwner(p) \/ DropOwner(p) \/ CommitOwner(p) \/ RollBackOwner(p)
  \/ SnapshotFromCache(p) \/ SnapshotFromDatabase(p) \/ CacheSnapshot(p)

Arrive(p, u) ==
  \/ CallOrganization(p, u)
  \/ p \in Others /\ u \in Clients /\ CallTickets(p, u)
  \/ p \in Others /\ u \in Clients /\ Login(p, u)

Expire(u) ==
  \/ ExpireMembership(u)
  \/ u \in Clients /\ (ExpireSnapshot(u) \/ ExpireToken(u))

Next ==
  \/ \E p \in Requests : Step(p) \/ \E u \in Users : Arrive(p, u)
  \/ \E p \in Requests, u \in Founders : CreateOrganization(p, u)
  \/ \E d \in Customs : StoreCustomRole(d)
  \/ \E u \in Users : Expire(u)

Spec == Init /\ [][Next]_vars

\* A request goes on until it is answered; every key of Redis and every token has a
\* time to live.  Nobody need call.
FairSpec ==
  /\ Spec
  /\ \A p \in Requests : WF_vars(Step(p))
  /\ \A u \in Users : WF_vars(ExpireMembership(u))
  /\ \A u \in Clients : WF_vars(ExpireSnapshot(u)) /\ WF_vars(ExpireToken(u))

-----------------------------------------------------------------------------
(* Properties.                                                             *)

\* The organization has one owner, who outranks everybody else, custom roles and edits
\* of them included: assertCanInviteRole, assertCanUpdateRole and updateRoleService
\* compare levels that may be up to 300 seconds old, of an actor who may have been
\* demoted and of a target who may have been promoted since.
OwnerOutranks ==
  org = "open" =>
    /\ role[founder] = "OWNER"
    /\ \A u \in Users \ {founder} : View(u).level < View(founder).level

\* Whoever changes what a membership says tells both caches of everyone it concerns.
\* So an entry differs from the database only while the request that changed it is on
\* its way, or if Redis failed it, or the entry was read before the change and stored
\* after it, or the member joined unseen by the transaction that made the change.
StaleNeedsRace ==
  \A u \in Users :
    /\ Present(cached[u]) /\ cached[u].view # View(u) =>
         cached[u].excused \/ \E p \in Requests : OwesMembership(p, u)
    /\ snapshot[u].present /\ snapshot[u].view # View(u) =>
         snapshot[u].excused \/ \E p \in Requests : OwesSnapshot(p, u)

\* Whatever was raced or lost, the caches and the token come to agree with
\* the database once nobody changes it: nothing stale is stored again and again.
AccessSettles ==
  <>[](\A u \in Users :
    /\ Present(cached[u]) => cached[u].view = View(u)
    /\ snapshot[u].present => snapshot[u].view = View(u)
    /\ token[u] \in {Expired, {}, View(u).perms})
=============================================================================
