--------------------------- MODULE AutoAssignment ---------------------------
(***************************************************************************)
(* Automatic assignment of tickets to agents (modules/tickets of the API   *)
(* gateway: ticket.autoAssign.js and the part of ticket.service.js and     *)
(* ticket.repo.js it uses), in one organization.                           *)
(*                                                                         *)
(* A request that creates a ticket without an assignee, or that asks for   *)
(* auto-assignment, reads the available agents and the workload rows (two  *)
(* parallel queries), chooses the least loaded agent below its limits, and *)
(* assigns the ticket in a transaction.  Nothing is locked between the     *)
(* reads and the transaction, so requests choose from what others are      *)
(* about to change.                                                        *)
(*                                                                         *)
(* A workload row is created by the agent's first assignment with          *)
(* lastDailyReset = lastWeeklyReset = now; no code writes these again, so  *)
(* one field, since, stands for both.  db.read and db.write are the same   *)
(* database (DATABASE_READ_URL unset).  What the request may do at all     *)
(* (membership, permissions) and the ticket's status are left out.         *)
(***************************************************************************)
EXTENDS Integers, FiniteSets

CONSTANTS
  Agents,      \* members of the organization with the role AGENT
  Tickets,
  Requests,    \* requests the gateway serves at the same time
  DailyLimit,  \* Membership.maxTicketsPerDay
  WeekLimit,   \* Membership.maxTicketsPerWeek
  Mondays,     \* the days a week starts on
  MaxDay,      \* bound of the model: days that pass
  MaxSearches  \* bound of the model: searches for an agent

N == Cardinality(Requests)
Days == 0..MaxDay

ASSUME AssignmentAssumption ==
  /\ IsFiniteSet(Requests)
  /\ DailyLimit \in Nat \ {0}
  /\ WeekLimit \in Nat \ {0}
  /\ Mondays \in SUBSET Nat
  /\ MaxDay \in Nat
  /\ MaxSearches \in Nat

VARIABLES
  day,        \* the date
  available,  \* agents with Membership.isAvailable
  load,       \* agent -> its AgentWorkload row
  assignee,   \* ticket -> assignedToId
  pc,         \* request -> what it awaits
  target,     \* request -> the ticket it searches an agent for
  sawAgents,  \* request -> result of getOrganizationAvailableAgents
  sawLoads,   \* request -> result of getOrganizationAgentWorkloads
  choice,     \* request -> autoAssignedUserId
  searches,   \* searches so far
  given,      \* history: agent -> auto-assignments to it this day
  steady,     \* history: agents that have been available all along
  missed,     \* history: request -> agents it could not have since it began
  excused     \* history: tickets without assignee whose search failed or had nobody to find

searchVars == <<pc, target, sawAgents, sawLoads, choice, searches>>
vars == <<day, available, load, assignee, searchVars, given, steady, missed, excused>>

Nobody == "nobody"
Unborn == "unborn"   \* the ticket does not exist yet
NoTicket == "none"   \* target of an idle request
Never == -1          \* since of an agent without a row

NoRow == [today |-> 0, week |-> 0, since |-> Never]
Rows == [today : Nat, week : Nat, since : Days \cup {Never}]
Awaits == {"idle", "both", "loads", "agents", "commit"}

TypeOK ==
  /\ day \in Days
  /\ available \in SUBSET Agents
  /\ load \in [Agents -> Rows]
  /\ assignee \in [Tickets -> Agents \cup {Nobody, Unborn}]
  /\ pc \in [Requests -> Awaits]
  /\ target \in [Requests -> Tickets \cup {NoTicket}]
  /\ sawAgents \in [Requests -> SUBSET Agents]
  /\ sawLoads \in [Requests -> [Agents -> Rows]]
  /\ choice \in [Requests -> Agents \cup {Nobody}]
  /\ searches \in 0..MaxSearches
  /\ given \in [Agents -> Nat]
  /\ steady \in SUBSET Agents
  /\ missed \in [Requests -> SUBSET Agents]
  /\ excused \in SUBSET Tickets
  /\ \A r \in Requests :
       /\ pc[r] # "idle" => target[r] \in Tickets
       /\ pc[r] = "commit" => choice[r] \in Agents

NoLoads == [a \in Agents |-> NoRow]

Init ==
  /\ day = 0
  /\ available \in SUBSET Agents
  /\ load = NoLoads
  /\ assignee = [t \in Tickets |-> Unborn]
  /\ pc = [r \in Requests |-> "idle"]
  /\ target = [r \in Requests |-> NoTicket]
  /\ sawAgents = [r \in Requests |-> {}]
  /\ sawLoads = [r \in Requests |-> NoLoads]
  /\ choice = [r \in Requests |-> Nobody]
  /\ searches = 0
  /\ given = [a \in Agents |-> 0]
  /\ steady = available
  /\ missed = [r \in Requests |-> {}]
  /\ excused = {}

-----------------------------------------------------------------------------
(* getEffectiveWorkload, isEligibleForAutoAssignment, findBestAutoAssign.  *)

\* lastDailyReset >= startOfDay(now).
CountsToday(row, now) == row.since >= now

\* lastWeeklyReset >= startOfWeek(now).
CountsThisWeek(row, now) ==
  row.since # Never /\ \A m \in Mondays : m <= now => m <= row.since

\* getEffectiveWorkload().assignedToday
EffectiveToday(row, now) == IF CountsToday(row, now) THEN row.today ELSE 0

\* getEffectiveWorkload().assignedThisWeek
EffectiveWeek(row, now) == IF CountsThisWeek(row, now) THEN row.week ELSE 0

\* Mutant: the limit itself is still accepted.
BelowLimitsOrAt(row, now) ==
  /\ EffectiveToday(row, now) <= DailyLimit
  /\ EffectiveWeek(row, now) <= WeekLimit

\* Mutant: the last place under the limit is never given.
WellBelowLimits(row, now) ==
  /\ EffectiveToday(row, now) + 1 < DailyLimit
  /\ EffectiveWeek(row, now) + 1 < WeekLimit

BelowLimits(row, now) ==
  /\ EffectiveToday(row, now) < DailyLimit
  /\ EffectiveWeek(row, now) < WeekLimit

\* eligibleAgents
Eligible(agents, loads, now) == {a \in agents : BelowLimits(loads[a], now)}

\* The order of the sort: assignedToday, then assignedThisWeek.
NoMoreLoaded(left, right, now) ==
  \/ EffectiveToday(left, now) < EffectiveToday(right, now)
  \/ /\ EffectiveToday(left, now) = EffectiveToday(right, now)
     /\ EffectiveWeek(left, now) <= EffectiveWeek(right, now)

\* Mutant: the first eligible agent, in no order.
AnyEligible(agents, loads, now) == Eligible(agents, loads, now)

\* leastLoadedAgent; among equals the older membership, left open here.
LeastLoaded(agents, loads, now) ==
  LET eligible == Eligible(agents, loads, now)
  IN  {a \in eligible : \A b \in eligible : NoMoreLoaded(loads[a], loads[b], now)}

-----------------------------------------------------------------------------
(* Searches.                                                               *)

\* The agents an assignment could not go to now.
OutOfReach ==
  {a \in Agents :
     \/ a \notin available
     \/ load[a].since = day /\ load[a].today >= DailyLimit
     \/ CountsThisWeek(load[a], day) /\ load[a].week >= WeekLimit}

\* While a request looks for an agent, the agents out of reach are remembered.
Remember ==
  missed' = [r \in Requests |->
               IF pc'[r] \in {"idle", "commit"} THEN {}
               ELSE missed[r] \cup OutOfReach']

Searching(r) == pc[r] # "idle"

StartSearch(r, t) ==
  /\ ~Searching(r)
  /\ searches < MaxSearches
  /\ searches' = searches + 1
  /\ pc' = [pc EXCEPT ![r] = "both"]
  /\ target' = [target EXCEPT ![r] = t]
  /\ excused' = excused \ {t}
  /\ UNCHANGED <<day, available, load, sawAgents, sawLoads, choice, given, steady>>
  /\ Remember

\* createTicketService with an assignee: validateTicketAssignee has passed.
CreateAssigned(t, a) ==
  /\ assignee[t] = Unborn
  /\ assignee' = [assignee EXCEPT ![t] = a]
  /\ UNCHANGED <<day, available, load, searchVars, given, steady, excused>>
  /\ Remember

\* createTicketService without one: the ticket is stored, then the search begins.
CreateTicket(r, t) ==
  /\ assignee[t] = Unborn
  /\ assignee' = [assignee EXCEPT ![t] = Nobody]
  /\ StartSearch(r, t)

\* autoAssignTicketService; that the ticket has an assignee does not matter.
AutoAssign(r, t) ==
  /\ assignee[t] # Unborn
  /\ StartSearch(r, t)
  /\ UNCHANGED assignee

\* The search of r is over, successful or not.
EndSearch(r) ==
  /\ pc' = [pc EXCEPT ![r] = "idle"]
  /\ sawAgents' = [sawAgents EXCEPT ![r] = {}]
  /\ sawLoads' = [sawLoads EXCEPT ![r] = NoLoads]
  /\ choice' = [choice EXCEPT ![r] = Nobody]
  /\ target' = [target EXCEPT ![r] = NoTicket]
  /\ UNCHANGED searches

\* The first of the two answers of Promise.all.
ReadAgentsFirst(r) ==
  /\ pc[r] = "both"
  /\ pc' = [pc EXCEPT ![r] = "loads"]
  /\ sawAgents' = [sawAgents EXCEPT ![r] = available]
  /\ UNCHANGED <<day, available, load, assignee, target, sawLoads, choice, searches,
                 given, steady, excused>>
  /\ Remember

ReadLoadsFirst(r) ==
  /\ pc[r] = "both"
  /\ pc' = [pc EXCEPT ![r] = "agents"]
  /\ sawLoads' = [sawLoads EXCEPT ![r] = load]
  /\ UNCHANGED <<day, available, load, assignee, target, sawAgents, choice, searches,
                 given, steady, excused>>
  /\ Remember

\* The second answer is in; what the request has now read of both.
AgentsRead(r) == IF pc[r] = "agents" THEN available ELSE sawAgents[r]
LoadsRead(r) == IF pc[r] = "loads" THEN load ELSE sawLoads[r]
BothRead(r) == pc[r] \in {"agents", "loads"}

\* There is a reason why the ticket has nobody.
Excuse(t) == excused' = IF assignee[t] = Nobody THEN excused \cup {t} ELSE excused

\* findBestAutoAssignAgent returns a user: autoAssignTicket is called.
ChooseAgent(r) ==
  /\ BothRead(r)
  /\ \E a \in LeastLoaded(AgentsRead(r), LoadsRead(r), day) :
       choice' = [choice EXCEPT ![r] = a]
  /\ pc' = [pc EXCEPT ![r] = "commit"]
  /\ sawAgents' = [sawAgents EXCEPT ![r] = {}]
  /\ sawLoads' = [sawLoads EXCEPT ![r] = LoadsRead(r)]
  /\ UNCHANGED <<day, available, load, assignee, target, searches, given, steady, excused>>
  /\ Remember

\* It returns null: NO_AGENT_AVAILABLE, which leaves the ticket as it is.
NoAgentAvailable(r) ==
  /\ BothRead(r)
  /\ Eligible(AgentsRead(r), LoadsRead(r), day) = {}
  /\ EndSearch(r)
  /\ IF missed[r] = Agents THEN Excuse(target[r]) ELSE UNCHANGED excused
  /\ UNCHANGED <<day, available, load, assignee, given, steady>>
  /\ Remember

\* ticket.assignedToId is written, over whatever it holds.
Assign(t, a) ==
  /\ assignee' = [assignee EXCEPT ![t] = a]
  /\ excused' = excused \ {t}

\* The upsert of the agent's workload row.
Increment(row) ==
  IF row.since = Never
  THEN [today |-> 1, week |-> 1, since |-> day]
  ELSE [row EXCEPT !.today = @ + 1, !.week = @ + 1]

\* Mutant: the transaction forgets the ticket.
CommitCountsOnly(r) ==
  /\ pc[r] = "commit"
  /\ load' = [load EXCEPT ![choice[r]] = Increment(@)]
  /\ given' = [given EXCEPT ![choice[r]] = @ + 1]
  /\ EndSearch(r)
  /\ UNCHANGED <<day, available, assignee, steady, excused>>
  /\ Remember

\* The transaction of autoAssignTicket, whoever the ticket belongs to by now.
Commit(r) ==
  /\ pc[r] = "commit"
  /\ load' = [load EXCEPT ![choice[r]] = Increment(@)]
  /\ given' = [given EXCEPT ![choice[r]] = @ + 1]
  /\ Assign(target[r], choice[r])
  /\ EndSearch(r)
  /\ UNCHANGED <<day, available, steady>>
  /\ Remember

\* A query or the transaction fails, or the process dies: what the search has
\* changed so far (nothing but the ticket it was created with) stays.
SearchFails(r) ==
  /\ Searching(r)
  /\ EndSearch(r)
  /\ Excuse(target[r])
  /\ UNCHANGED <<day, available, load, assignee, given, steady>>
  /\ Remember

-----------------------------------------------------------------------------
(* What goes on beside the searches.                                       *)

\* assignTicketService, and updateTicketService with an assignedToId: no
\* workload row changes, and an assignee cannot be taken back.
AssignTicket(t, a) ==
  /\ assignee[t] # Unborn
  /\ Assign(t, a)
  /\ UNCHANGED <<day, available, load, searchVars, given, steady>>
  /\ Remember

\* updateMyAgentAvailabilityService; losing the role or the membership looks the
\* same to a search.
SetAvailability(a) ==
  /\ available' = IF a \in available THEN available \ {a} ELSE available \cup {a}
  /\ steady' = steady \ {a}
  /\ UNCHANGED <<day, load, assignee, searchVars, given, excused>>
  /\ Remember

\* Midnight.  No row is touched: nothing resets the counters.
DayPasses ==
  /\ day < MaxDay
  /\ day' = day + 1
  /\ given' = [a \in Agents |-> 0]
  /\ UNCHANGED <<available, load, assignee, searchVars, steady, excused>>
  /\ Remember

SearchStep(r) ==
  \/ ReadAgentsFirst(r)
  \/ ReadLoadsFirst(r)
  \/ ChooseAgent(r)
  \/ NoAgentAvailable(r)
  \/ Commit(r)
  \/ SearchFails(r)

Next ==
  \/ \E r \in Requests :
       \/ \E t \in Tickets : CreateTicket(r, t) \/ AutoAssign(r, t)
       \/ SearchStep(r)
  \/ \E t \in Tickets, a \in Agents : CreateAssigned(t, a) \/ AssignTicket(t, a)
  \/ \E a \in Agents : SetAvailability(a)
  \/ DayPasses

Spec == Init /\ [][Next]_vars

\* Every query and transaction of a request is answered or times out.
Fairness == \A r \in Requests : WF_vars(SearchStep(r))

FairSpec == Spec /\ Fairness

-----------------------------------------------------------------------------
(* Properties.                                                             *)

\* While an agent's row counts, the limits are exceeded by less than the number
\* of requests served at once: each may have read the row below the limit before
\* the others' transactions (findBestAutoAssignAgent against autoAssignTicket).
LimitsHeld ==
  \A a \in Agents :
    /\ load[a].since = day => given[a] <= DailyLimit + N - 1
    /\ CountsThisWeek(load[a], day) => load[a].week <= WeekLimit + N - 1

\* The row of an agent counts, or there is none yet.
InFirstDay(a) == load[a].since \in {day, Never}

\* On the first day of their rows, an agent gets at most as many assignments more
\* than one that has been available all along as there are requests at once
\* ("least-loaded first", the sort of findBestAutoAssignAgent on stale reads).
Balanced ==
  \A a \in Agents, b \in steady :
    InFirstDay(a) /\ InFirstDay(b) => given[a] <= given[b] + N

\* A search that finds nobody could not have found anybody at one moment: each
\* agent was away or at a limit some time since it began, although agents and
\* workloads are read at different times (NO_AGENT_AVAILABLE).
NobodyMeansAllMissed ==
  [][\A r \in Requests : NoAgentAvailable(r) => missed[r] = Agents]_vars

\* A ticket without an assignee a search runs for gets one in the end, unless the
\* search fails or every agent was out of reach during it (createTicketService).
TicketsGetAgents ==
  \A t \in Tickets :
    (assignee[t] = Nobody /\ \E r \in Requests : Searching(r) /\ target[r] = t)
      ~> (assignee[t] \in Agents \/ t \in excused)
=============================================================================
