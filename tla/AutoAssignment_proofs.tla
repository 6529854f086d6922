------------------------ MODULE AutoAssignment_proofs -----------------------
(***************************************************************************)
(* The safety properties of AutoAssignment, for any agents, tickets,       *)
(* requests, limits and calendar.                                          *)
(*                                                                         *)
(* The limits and the balance rest on one idea: a request that has read    *)
(* the workloads and found the agent below its limit (a taker) holds a     *)
(* claim to one more assignment.  What an agent has got plus the claims on *)
(* it stays bounded: a transaction turns a claim into an assignment, and a *)
(* new claim is only made on an agent that is below the limit.             *)
(***************************************************************************)
EXTENDS AutoAssignment, FiniteSetTheorems, TLAPS

\* The request has read the workloads and may act on them.
HasLoads(r) == pc[r] \in {"agents", "commit"}

\* Requests that saw the agent below a limit, or no more loaded than another.
DayTakers(a) == {r \in Requests : HasLoads(r) /\ sawLoads[r][a].today < DailyLimit}
WeekTakers(a) == {r \in Requests : HasLoads(r) /\ sawLoads[r][a].week < WeekLimit}
EvenTakers(a, b) ==
  {r \in Requests : HasLoads(r) /\ sawLoads[r][a].today <= sawLoads[r][b].today}

\* The two counters of a row never differ, as nothing resets either, and they count
\* what the agent was given on the row's first day.
RowInv ==
  \A a \in Agents :
    /\ load[a].today = load[a].week
    /\ load[a].since <= day
    /\ load[a].since = Never => load[a].today = 0 /\ given[a] = 0
    /\ load[a].since = day => given[a] = load[a].today

\* What a request has read of a row is the row of then: absent, or of the same date.
SawInv ==
  \A r \in Requests, a \in Agents : HasLoads(r) =>
    /\ sawLoads[r][a].today = sawLoads[r][a].week
    /\ sawLoads[r][a].since = Never => sawLoads[r][a].today = 0
    /\ sawLoads[r][a].since \in {Never, load[a].since}

\* An agent that was always available is in every answer that lists the agents.
SteadyInv ==
  /\ steady \subseteq available
  /\ \A r \in Requests : pc[r] = "loads" => steady \subseteq sawAgents[r]

\* A request about to assign to an agent holds a claim to it, while its row counts.
ClaimInv ==
  \A r \in Requests : pc[r] = "commit" =>
    /\ InFirstDay(choice[r]) => r \in DayTakers(choice[r])
    /\ CountsThisWeek(load[choice[r]], day) \/ load[choice[r]].since = Never
         => r \in WeekTakers(choice[r])
    /\ \A b \in steady : InFirstDay(choice[r]) /\ InFirstDay(b)
         => r \in EvenTakers(choice[r], b)

\* Assignments and claims together.
DaySlack ==
  \A a \in Agents : load[a].since = day =>
    load[a].today + Cardinality(DayTakers(a)) <= DailyLimit + N - 1

WeekSlack ==
  \A a \in Agents : CountsThisWeek(load[a], day) =>
    load[a].week + Cardinality(WeekTakers(a)) <= WeekLimit + N - 1

EvenSlack ==
  \A a \in Agents, b \in steady : InFirstDay(a) /\ InFirstDay(b) =>
    given[a] + Cardinality(EvenTakers(a, b)) <= given[b] + N

\* A search remembers every agent out of reach, and those it saw at a limit.
MissInv ==
  \A r \in Requests :
    /\ pc[r] \in {"both", "loads", "agents"} => OutOfReach \subseteq missed[r]
    /\ pc[r] = "loads" => Agents \ sawAgents[r] \subseteq missed[r]
    /\ pc[r] = "agents" =>
         \A a \in Agents : ~BelowLimits(sawLoads[r][a], day) => a \in missed[r]

IInv ==
  /\ TypeOK
  /\ RowInv
  /\ SawInv
  /\ SteadyInv
  /\ ClaimInv
  /\ DaySlack
  /\ WeekSlack
  /\ EvenSlack
  /\ MissInv

-----------------------------------------------------------------------------
(* Lemmas about counting and about rows.                                   *)

\* A set of requests is finite and no larger than N, a part of it no larger than
\* it, and a part without one of its elements smaller.
LEMMA CountRequests ==
  ASSUME NEW S \in SUBSET Requests
  PROVE  /\ IsFiniteSet(S) /\ Cardinality(S) \in Nat
         /\ N \in Nat /\ Cardinality(S) <= N
         /\ \A T \in SUBSET S : Cardinality(T) \in Nat /\ Cardinality(T) <= Cardinality(S)
         /\ \A r \in S : \A T \in SUBSET (S \ {r}) :
              Cardinality(T) \in Nat /\ Cardinality(T) + 1 <= Cardinality(S)
<1>1. IsFiniteSet(Requests) /\ N \in Nat
  BY AssignmentAssumption, FS_CardinalityType DEF N
<1>2. IsFiniteSet(S) /\ Cardinality(S) <= N
  BY <1>1, FS_Subset DEF N
<1>3. Cardinality(S) \in Nat
  BY <1>2, FS_CardinalityType
<1>4. ASSUME NEW T \in SUBSET S
      PROVE  Cardinality(T) \in Nat /\ Cardinality(T) <= Cardinality(S)
  <2>1. IsFiniteSet(T) /\ Cardinality(T) <= Cardinality(S)
    BY <1>2, FS_Subset
  <2> QED BY <2>1, FS_CardinalityType
<1>5. ASSUME NEW r \in S, NEW T \in SUBSET (S \ {r})
      PROVE  Cardinality(T) \in Nat /\ Cardinality(T) + 1 <= Cardinality(S)
  <2>1. IsFiniteSet(S \ {r}) /\ Cardinality(S \ {r}) = Cardinality(S) - 1
    BY <1>2, FS_RemoveElement
  <2>2. IsFiniteSet(T) /\ Cardinality(T) <= Cardinality(S \ {r})
    BY <2>1, FS_Subset
  <2>3. Cardinality(T) \in Nat
    BY <2>2, FS_CardinalityType
  <2> QED BY <1>3, <2>1, <2>2, <2>3
<1> QED BY <1>1, <1>2, <1>3, <1>4, <1>5

\* The takers are requests.
LEMMA TakersAreRequests ==
  ASSUME NEW a, NEW b
  PROVE  /\ DayTakers(a) \in SUBSET Requests
         /\ WeekTakers(a) \in SUBSET Requests
         /\ EvenTakers(a, b) \in SUBSET Requests
BY DEF DayTakers, WeekTakers, EvenTakers

\* One assignment more keeps a row a row, and adds one to both counters.
LEMMA IncrementRow ==
  ASSUME day \in Days, NEW row \in Rows
  PROVE  /\ Increment(row) \in Rows
         /\ row.since # Never => /\ Increment(row).today = row.today + 1
                                 /\ Increment(row).week = row.week + 1
                                 /\ Increment(row).since = row.since
         /\ row.since = Never => /\ Increment(row).today = 1
                                 /\ Increment(row).week = 1
                                 /\ Increment(row).since = day
<1>1. CASE row.since = Never
  BY <1>1 DEF Increment, Rows
<1>2. CASE row.since # Never
  <2>1. Increment(row) = [row EXCEPT !.today = row.today + 1, !.week = row.week + 1]
    BY <1>2 DEF Increment
  <2>2. row.today + 1 \in Nat /\ row.week + 1 \in Nat
    BY DEF Rows
  <2> QED BY <1>2, <2>1, <2>2 DEF Rows
<1> QED BY <1>1, <1>2

-----------------------------------------------------------------------------
(* Type correctness.                                                       *)

\* The variables have their types before anything is stored.
LEMMA TypeInit == Init => TypeOK
BY AssignmentAssumption
   DEF Init, TypeOK, NoLoads, NoRow, Rows, Days, Awaits

\* Every step keeps the types.
LEMMA TypeStep == TypeOK /\ [Next]_vars => TypeOK'
<1> SUFFICES ASSUME TypeOK, [Next]_vars PROVE TypeOK'
  OBVIOUS
<1> USE DEF TypeOK, Awaits, Remember, OutOfReach, Searching
<1>0. NoLoads \in [Agents -> Rows]
  BY DEF NoLoads, NoRow, Rows
<1>1. ASSUME NEW r \in Requests, NEW t \in Tickets, StartSearch(r, t), assignee' \in [Tickets -> Agents \cup {Nobody, Unborn}]
      PROVE  TypeOK'
  BY <1>1, AssignmentAssumption DEF StartSearch
<1>2. ASSUME NEW r \in Requests, NEW t \in Tickets, CreateTicket(r, t) PROVE TypeOK'
  BY <1>1, <1>2 DEF CreateTicket
<1>3. ASSUME NEW r \in Requests, NEW t \in Tickets, AutoAssign(r, t) PROVE TypeOK'
  BY <1>1, <1>3 DEF AutoAssign
<1>4. ASSUME NEW r \in Requests, ReadAgentsFirst(r) PROVE TypeOK'
  BY <1>4 DEF ReadAgentsFirst
<1>5. ASSUME NEW r \in Requests, ReadLoadsFirst(r) PROVE TypeOK'
  BY <1>5 DEF ReadLoadsFirst
<1>6. ASSUME NEW r \in Requests, ChooseAgent(r) PROVE TypeOK'
  <2>1. LoadsRead(r) \in [Agents -> Rows] /\ AgentsRead(r) \in SUBSET Agents
    BY DEF LoadsRead, AgentsRead
  <2>2. PICK a \in Agents : choice' = [choice EXCEPT ![r] = a]
    BY <1>6, <2>1 DEF ChooseAgent, LeastLoaded, Eligible
  <2>3. choice' \in [Requests -> Agents \cup {Nobody}] /\ choice'[r] \in Agents
    BY <2>2
  <2>4. sawLoads' \in [Requests -> [Agents -> Rows]]
    BY <1>6, <2>1 DEF ChooseAgent
  <2>5. \A q \in Requests : q # r => choice'[q] = choice[q] /\ pc'[q] = pc[q]
    BY <1>6, <2>2 DEF ChooseAgent
  <2>6. pc[r] # "idle"
    BY <1>6 DEF ChooseAgent, BothRead
  <2>7. target[r] \in Tickets
    BY <2>6
  <2> QED BY <1>6, <2>3, <2>4, <2>5, <2>7 DEF ChooseAgent
<1>7. ASSUME NEW r \in Requests, EndSearch(r)
      PROVE  /\ pc' \in [Requests -> Awaits]
             /\ target' \in [Requests -> Tickets \cup {NoTicket}]
             /\ sawAgents' \in [Requests -> SUBSET Agents]
             /\ sawLoads' \in [Requests -> [Agents -> Rows]]
             /\ choice' \in [Requests -> Agents \cup {Nobody}]
             /\ searches' \in 0..MaxSearches
             /\ \A q \in Requests :
                  /\ pc'[q] # "idle" => target'[q] \in Tickets
                  /\ pc'[q] = "commit" => choice'[q] \in Agents
  BY <1>0, <1>7 DEF EndSearch
<1>8. ASSUME NEW r \in Requests, NoAgentAvailable(r) PROVE TypeOK'
  BY <1>7, <1>8 DEF NoAgentAvailable, Excuse, BothRead
<1>9. ASSUME NEW r \in Requests, Commit(r) PROVE TypeOK'
  <2>1. choice[r] \in Agents
    BY <1>9 DEF Commit
  <2>2. load' \in [Agents -> Rows] /\ given' \in [Agents -> Nat]
    BY <1>9, <2>1, IncrementRow DEF Commit
  <2> QED BY <1>7, <1>9, <2>1, <2>2 DEF Commit, Assign
<1>10. ASSUME NEW r \in Requests, SearchFails(r) PROVE TypeOK'
  BY <1>7, <1>10 DEF SearchFails, Excuse
<1>11. ASSUME NEW t \in Tickets, NEW a \in Agents, CreateAssigned(t, a) PROVE TypeOK'
  BY <1>11 DEF CreateAssigned, searchVars
<1>12. ASSUME NEW t \in Tickets, NEW a \in Agents, AssignTicket(t, a) PROVE TypeOK'
  BY <1>12 DEF AssignTicket, Assign, searchVars
<1>13. ASSUME NEW a \in Agents, SetAvailability(a) PROVE TypeOK'
  BY <1>13 DEF SetAvailability, searchVars
<1>14. CASE DayPasses
  BY <1>14, AssignmentAssumption DEF DayPasses, searchVars, Days
<1>15. CASE UNCHANGED vars
  BY <1>15 DEF vars, searchVars
<1> QED
  BY <1>2, <1>3, <1>4, <1>5, <1>6, <1>8, <1>9, <1>10, <1>11, <1>12, <1>13, <1>14, <1>15
  DEF Next, SearchStep

\* Every variable keeps its type: the rows and tickets of the database, and what each
\* request has read, chosen and is about to assign.
THEOREM TypeCorrect == Spec => []TypeOK
BY TypeInit, TypeStep, PTL DEF Spec

-----------------------------------------------------------------------------
(* What a step can do to rows, counts and readings.                        *)

\* The rows and the counts change by a transaction and at midnight only.
LEMMA RowsChange ==
  ASSUME [Next]_vars
  PROVE  \/ load' = load /\ given' = given /\ day' = day
         \/ \E r \in Requests : Commit(r)
         \/ DayPasses
<1>1. ASSUME NEW r \in Requests, SearchStep(r)
      PROVE  (load' = load /\ given' = given /\ day' = day) \/ Commit(r)
  BY <1>1 DEF SearchStep, ReadAgentsFirst, ReadLoadsFirst, ChooseAgent, NoAgentAvailable, SearchFails
<1> QED
  BY <1>1 DEF Next, vars, CreateTicket, AutoAssign, StartSearch, CreateAssigned, AssignTicket,
              SetAvailability

\* An agent that is not steady never becomes so.
LEMMA SteadyShrinks == [Next]_vars => steady' \subseteq steady
BY DEF Next, vars, SearchStep, ReadAgentsFirst, ReadLoadsFirst, ChooseAgent, NoAgentAvailable,
       Commit, SearchFails, CreateTicket, AutoAssign, StartSearch, CreateAssigned, AssignTicket,
       SetAvailability, DayPasses

\* What a request holds of the workloads after a step, it held before, or it has just
\* read it from rows that the step leaves alone.
LEMMA KeptOrRead ==
  ASSUME TypeOK, [Next]_vars, NEW r \in Requests, HasLoads(r)'
  PROVE  \/ HasLoads(r) /\ sawLoads'[r] = sawLoads[r]
         \/ sawLoads'[r] = load /\ load' = load /\ given' = given /\ day' = day
<1> USE DEF HasLoads, TypeOK
<1>1. ASSUME NEW q \in Requests, NEW t \in Tickets, StartSearch(q, t)
      PROVE  HasLoads(r) /\ sawLoads'[r] = sawLoads[r]
  BY <1>1 DEF StartSearch
<1>2. ASSUME NEW q \in Requests, ReadAgentsFirst(q)
      PROVE  HasLoads(r) /\ sawLoads'[r] = sawLoads[r]
  BY <1>2 DEF ReadAgentsFirst
<1>3. ASSUME NEW q \in Requests, ReadLoadsFirst(q)
      PROVE  \/ HasLoads(r) /\ sawLoads'[r] = sawLoads[r]
             \/ sawLoads'[r] = load /\ load' = load /\ given' = given /\ day' = day
  BY <1>3 DEF ReadLoadsFirst
<1>4. ASSUME NEW q \in Requests, ChooseAgent(q)
      PROVE  \/ HasLoads(r) /\ sawLoads'[r] = sawLoads[r]
             \/ sawLoads'[r] = load /\ load' = load /\ given' = given /\ day' = day
  BY <1>4 DEF ChooseAgent, BothRead, LoadsRead
<1>5. ASSUME NEW q \in Requests, EndSearch(q)
      PROVE  HasLoads(r) /\ sawLoads'[r] = sawLoads[r] /\ r # q
  BY <1>5 DEF EndSearch
<1>6. ASSUME UNCHANGED <<pc, sawLoads>>
      PROVE  HasLoads(r) /\ sawLoads'[r] = sawLoads[r]
  BY <1>6
<1> QED
  BY <1>1, <1>2, <1>3, <1>4, <1>5, <1>6
  DEF Next, SearchStep, CreateTicket, AutoAssign, NoAgentAvailable, Commit, SearchFails,
      CreateAssigned, AssignTicket, SetAvailability, DayPasses, vars, searchVars

\* The request that commits has no claim afterwards.
LEMMA CommitEndsClaim ==
  ASSUME TypeOK, NEW r \in Requests, Commit(r)
  PROVE  ~HasLoads(r)'
BY DEF Commit, EndSearch, HasLoads, TypeOK

\* A transaction adds one assignment to the chosen agent and to nobody else.
LEMMA CommitEffect ==
  ASSUME TypeOK, NEW r \in Requests, Commit(r)
  PROVE  /\ choice[r] \in Agents
         /\ load'[choice[r]] = Increment(load[choice[r]])
         /\ given'[choice[r]] = given[choice[r]] + 1
         /\ \A a \in Agents : a # choice[r] => load'[a] = load[a] /\ given'[a] = given[a]
         /\ day' = day
BY DEF Commit, TypeOK

\* A row of this day is a row of this week, and a row of this week was one yesterday.
LEMMA WeekFacts ==
  ASSUME NEW row \in Rows, NEW d \in Days
  PROVE  /\ row.since = d => CountsThisWeek(row, d)
         /\ CountsThisWeek(row, d + 1) => CountsThisWeek(row, d)
BY AssignmentAssumption DEF CountsThisWeek, Rows, Days, Never

-----------------------------------------------------------------------------
(* The parts of the inductive invariant.                                   *)

\* The rows and the readings agree with the calendar and with what was given.
LEMMA RowStep ==
  ASSUME TypeOK, RowInv, [Next]_vars
  PROVE  RowInv'
<1> USE DEF RowInv
<1>1. CASE load' = load /\ given' = given /\ day' = day
  BY <1>1
<1>2. ASSUME NEW r \in Requests, Commit(r) PROVE RowInv'
  <2> SUFFICES ASSUME NEW a \in Agents
               PROVE  /\ load'[a].today = load'[a].week
                      /\ load'[a].since <= day'
                      /\ load'[a].since = Never => load'[a].today = 0 /\ given'[a] = 0
                      /\ load'[a].since = day' => given'[a] = load'[a].today
    OBVIOUS
  <2>1. CASE a # choice[r]
    BY <1>2, <2>1, CommitEffect
  <2>2. CASE a = choice[r]
    <3>1. load[a] \in Rows /\ day \in Days /\ given[a] \in Nat
      BY DEF TypeOK
    <3>2. load'[a] = Increment(load[a]) /\ given'[a] = given[a] + 1 /\ day' = day
      BY <1>2, <2>2, CommitEffect
    <3>3. CASE load[a].since = Never
      BY <3>1, <3>2, <3>3, IncrementRow DEF Days, Never
    <3>4. CASE load[a].since # Never
      BY <3>1, <3>2, <3>4, IncrementRow
    <3> QED BY <3>3, <3>4
  <2> QED BY <2>1, <2>2
<1>3. CASE DayPasses
  BY <1>3 DEF DayPasses, TypeOK, Days, Rows, Never
<1> QED BY <1>1, <1>2, <1>3, RowsChange

\* What was read stays the row of then: a row once made keeps its date.
LEMMA SawStep ==
  ASSUME TypeOK, RowInv, SawInv, [Next]_vars
  PROVE  SawInv'
<1> SUFFICES ASSUME NEW r \in Requests, NEW a \in Agents, HasLoads(r)'
             PROVE  /\ sawLoads'[r][a].today = sawLoads'[r][a].week
                    /\ sawLoads'[r][a].since = Never => sawLoads'[r][a].today = 0
                    /\ sawLoads'[r][a].since \in {Never, load'[a].since}
  BY DEF SawInv
<1>1. CASE sawLoads'[r] = load /\ load' = load
  BY <1>1 DEF RowInv
<1>2. CASE HasLoads(r) /\ sawLoads'[r] = sawLoads[r]
  <2>1. /\ sawLoads[r][a].today = sawLoads[r][a].week
        /\ sawLoads[r][a].since = Never => sawLoads[r][a].today = 0
        /\ sawLoads[r][a].since \in {Never, load[a].since}
    BY <1>2 DEF SawInv
  <2>2. load'[a].since = load[a].since \/ load[a].since = Never
    <3>1. ASSUME NEW q \in Requests, Commit(q)
          PROVE  load'[a].since = load[a].since \/ load[a].since = Never
      <4>1. load[a] \in Rows /\ day \in Days
        BY DEF TypeOK
      <4> QED BY <3>1, <4>1, CommitEffect, IncrementRow
    <3>2. CASE DayPasses
      BY <3>2 DEF DayPasses
    <3> QED BY <3>1, <3>2, RowsChange
  <2> QED BY <1>2, <2>1, <2>2
<1> QED BY <1>1, <1>2, KeptOrRead

\* An agent always available is in every list of agents read since.
LEMMA SteadyStep ==
  ASSUME TypeOK, SteadyInv, [Next]_vars
  PROVE  SteadyInv'
<1> USE DEF SteadyInv, TypeOK
<1>1. ASSUME NEW q \in Requests, NEW t \in Tickets, StartSearch(q, t) PROVE SteadyInv'
  BY <1>1 DEF StartSearch
<1>2. ASSUME NEW q \in Requests, ReadAgentsFirst(q) PROVE SteadyInv'
  BY <1>2 DEF ReadAgentsFirst
<1>3. ASSUME NEW q \in Requests, ReadLoadsFirst(q) PROVE SteadyInv'
  BY <1>3 DEF ReadLoadsFirst
<1>4. ASSUME NEW q \in Requests, ChooseAgent(q) PROVE SteadyInv'
  BY <1>4 DEF ChooseAgent
<1>5. ASSUME NEW q \in Requests, EndSearch(q), UNCHANGED <<available, steady>> PROVE SteadyInv'
  BY <1>5 DEF EndSearch
<1>6. ASSUME NEW a \in Agents, SetAvailability(a) PROVE SteadyInv'
  BY <1>6 DEF SetAvailability, searchVars
<1>7. CASE UNCHANGED <<available, steady, pc, sawAgents>>
  BY <1>7
<1> QED
  BY <1>1, <1>2, <1>3, <1>4, <1>5, <1>6, <1>7
  DEF Next, SearchStep, CreateTicket, AutoAssign, NoAgentAvailable, Commit, SearchFails,
      CreateAssigned, AssignTicket, DayPasses, vars, searchVars

\* A row that counts after a step, or is still missing, did or was so before it.
LEMMA CountedBefore ==
  ASSUME TypeOK, RowInv, [Next]_vars, NEW a \in Agents
  PROVE  /\ InFirstDay(a)' => InFirstDay(a)
         /\ CountsThisWeek(load[a], day)' \/ load'[a].since = Never
              => CountsThisWeek(load[a], day) \/ load[a].since = Never
<1>0. load[a] \in Rows /\ day \in Days
  BY DEF TypeOK
<1>1. CASE load' = load /\ given' = given /\ day' = day
  BY <1>1 DEF InFirstDay
<1>2. ASSUME NEW r \in Requests, Commit(r)
      PROVE  load[a].since = Never \/ (load'[a].since = load[a].since /\ day' = day)
  BY <1>0, <1>2, CommitEffect, IncrementRow
<1>3. CASE DayPasses
  BY <1>0, <1>3, WeekFacts DEF DayPasses, InFirstDay, RowInv, Days, Rows, Never
<1> QED BY <1>1, <1>2, <1>3, RowsChange DEF InFirstDay, CountsThisWeek

\* On its first day a row's counters are what the choice compares.
LEMMA FreshRow ==
  ASSUME TypeOK, NEW row \in Rows, row.today = row.week, row.since \in {day, Never},
         row.since = Never => row.today = 0
  PROVE  EffectiveToday(row, day) = row.today /\ EffectiveWeek(row, day) = row.today
<1>1. day \in Days /\ row.since \in Days \cup {Never}
  BY DEF TypeOK, Rows
<1>2. CASE row.since = day
  BY <1>1, <1>2, WeekFacts DEF EffectiveToday, EffectiveWeek, CountsToday, Days
<1>3. CASE row.since = Never
  BY <1>1, <1>3 DEF EffectiveToday, EffectiveWeek, CountsToday, CountsThisWeek, Days, Never
<1> QED BY <1>2, <1>3

\* The agent that is chosen was seen below its limits, and no more loaded than any
\* agent that must have been in the list.
LEMMA ChosenIsClaimed ==
  ASSUME TypeOK, RowInv, SawInv, SteadyInv, NEW r \in Requests, ChooseAgent(r),
         NEW a \in Agents, a \in LeastLoaded(AgentsRead(r), LoadsRead(r), day)
  PROVE  /\ InFirstDay(a) => LoadsRead(r)[a].today < DailyLimit
         /\ CountsThisWeek(load[a], day) \/ load[a].since = Never
              => LoadsRead(r)[a].week < WeekLimit
         /\ \A b \in steady : InFirstDay(a) /\ InFirstDay(b)
              => LoadsRead(r)[a].today <= LoadsRead(r)[b].today
<1> DEFINE L == LoadsRead(r)
<1>1. /\ L \in [Agents -> Rows] /\ day \in Days
      /\ \A b \in Agents : /\ L[b].today = L[b].week
                           /\ L[b].since = Never => L[b].today = 0
                           /\ L[b].since \in {Never, load[b].since}
  <2>1. CASE pc[r] = "loads"
    BY <2>1 DEF LoadsRead, TypeOK, RowInv
  <2>2. CASE pc[r] = "agents"
    BY <2>2 DEF LoadsRead, TypeOK, SawInv, HasLoads
  <2> QED BY <2>1, <2>2 DEF ChooseAgent, BothRead
<1>2. steady \subseteq AgentsRead(r) /\ steady \subseteq Agents
  BY DEF ChooseAgent, BothRead, AgentsRead, SteadyInv, TypeOK
<1>3. BelowLimits(L[a], day)
  BY DEF LeastLoaded, Eligible
<1>4. \A b \in Agents : L[b] \in Rows
  BY <1>1
<1>5. ASSUME NEW b \in Agents, InFirstDay(b)
      PROVE  EffectiveToday(L[b], day) = L[b].today /\ EffectiveWeek(L[b], day) = L[b].today
  <2>1. L[b].since \in {day, Never}
    BY <1>1, <1>5 DEF InFirstDay
  <2> QED BY <1>1, <1>4, <2>1, FreshRow
<1>6. InFirstDay(a) => L[a].today < DailyLimit
  BY <1>3, <1>5 DEF BelowLimits
<1>7. ASSUME CountsThisWeek(load[a], day) \/ load[a].since = Never
      PROVE  L[a].week < WeekLimit
  <2>1. CASE L[a].since = Never
    BY <1>1, <2>1, AssignmentAssumption
  <2>2. CASE L[a].since # Never
    <3>1. CountsThisWeek(L[a], day)
      BY <1>1, <1>7, <2>2 DEF CountsThisWeek
    <3> QED BY <1>3, <3>1 DEF BelowLimits, EffectiveWeek
  <2> QED BY <2>1, <2>2
<1>8. ASSUME NEW b \in steady, InFirstDay(a), InFirstDay(b)
      PROVE  L[a].today <= L[b].today
  <2>1. /\ EffectiveToday(L[a], day) = L[a].today /\ EffectiveWeek(L[a], day) = L[a].today
        /\ EffectiveToday(L[b], day) = L[b].today /\ EffectiveWeek(L[b], day) = L[b].today
        /\ L[a].today \in Nat /\ L[b].today \in Nat
    BY <1>2, <1>4, <1>5, <1>8 DEF Rows
  <2>2. CASE BelowLimits(L[b], day)
    <3>1. NoMoreLoaded(L[a], L[b], day)
      BY <1>2, <2>2 DEF LeastLoaded, Eligible
    <3> QED BY <2>1, <3>1 DEF NoMoreLoaded
  <2>3. CASE ~BelowLimits(L[b], day)
    BY <1>3, <2>1, <2>3, AssignmentAssumption DEF BelowLimits
  <2> QED BY <2>2, <2>3
<1> QED BY <1>6, <1>7, <1>8

\* A request about to assign was so before the step, or has just chosen.
LEMMA KeptOrChosen ==
  ASSUME TypeOK, [Next]_vars, NEW r \in Requests, pc'[r] = "commit"
  PROVE  \/ pc[r] = "commit" /\ sawLoads'[r] = sawLoads[r] /\ choice'[r] = choice[r]
         \/ ChooseAgent(r)
<1> USE DEF TypeOK
<1>1. ASSUME NEW q \in Requests, q # r, ChooseAgent(q)
      PROVE  pc[r] = "commit" /\ sawLoads'[r] = sawLoads[r] /\ choice'[r] = choice[r]
  BY <1>1 DEF ChooseAgent
<1>2. ASSUME NEW q \in Requests, EndSearch(q)
      PROVE  pc[r] = "commit" /\ sawLoads'[r] = sawLoads[r] /\ choice'[r] = choice[r]
  BY <1>2 DEF EndSearch
<1> QED
  BY <1>1, <1>2
  DEF Next, SearchStep, CreateTicket, AutoAssign, StartSearch, ReadAgentsFirst, ReadLoadsFirst,
      NoAgentAvailable, Commit, SearchFails, CreateAssigned, AssignTicket, SetAvailability,
      DayPasses, vars, searchVars

\* A claim is made by choosing and lasts until the transaction, or until the row it
\* is a claim to counts no longer.
LEMMA ClaimStep ==
  ASSUME TypeOK, RowInv, SawInv, SteadyInv, ClaimInv, [Next]_vars
  PROVE  ClaimInv'
<1> SUFFICES
      ASSUME NEW r \in Requests, pc'[r] = "commit"
      PROVE  /\ InFirstDay(choice[r])' => (r \in DayTakers(choice[r]))'
             /\ (CountsThisWeek(load[choice[r]], day) \/ load[choice[r]].since = Never)'
                  => (r \in WeekTakers(choice[r]))'
             /\ \A b \in steady' : InFirstDay(choice[r])' /\ InFirstDay(b)'
                  => (r \in EvenTakers(choice[r], b))'
  BY DEF ClaimInv
<1> USE DEF DayTakers, WeekTakers, EvenTakers, HasLoads
<1>1. choice'[r] \in Agents /\ steady' \subseteq Agents /\ steady' \subseteq steady
  BY TypeStep, SteadyShrinks DEF TypeOK
<1>2. \A a \in Agents :
        /\ InFirstDay(a)' => InFirstDay(a)
        /\ CountsThisWeek(load[a], day)' \/ load'[a].since = Never
             => CountsThisWeek(load[a], day) \/ load[a].since = Never
  BY CountedBefore
<1>3. CASE pc[r] = "commit" /\ sawLoads'[r] = sawLoads[r] /\ choice'[r] = choice[r]
  <2>1. /\ InFirstDay(choice[r]) => r \in DayTakers(choice[r])
        /\ CountsThisWeek(load[choice[r]], day) \/ load[choice[r]].since = Never
             => r \in WeekTakers(choice[r])
        /\ \A b \in steady : InFirstDay(choice[r]) /\ InFirstDay(b)
             => r \in EvenTakers(choice[r], b)
    BY <1>3 DEF ClaimInv
  <2> QED BY <1>1, <1>2, <1>3, <2>1 DEF InFirstDay
<1>4. CASE ChooseAgent(r)
  <2>1. /\ choice'[r] \in LeastLoaded(AgentsRead(r), LoadsRead(r), day)
        /\ sawLoads'[r] = LoadsRead(r)
    BY <1>4 DEF ChooseAgent, TypeOK
  <2>2. UNCHANGED <<load, day, steady>>
    BY <1>4 DEF ChooseAgent
  <2>3. /\ InFirstDay(choice'[r]) => LoadsRead(r)[choice'[r]].today < DailyLimit
        /\ CountsThisWeek(load[choice'[r]], day) \/ load[choice'[r]].since = Never
             => LoadsRead(r)[choice'[r]].week < WeekLimit
        /\ \A b \in steady : InFirstDay(choice'[r]) /\ InFirstDay(b)
             => LoadsRead(r)[choice'[r]].today <= LoadsRead(r)[b].today
    BY <1>1, <1>4, <2>1, ChosenIsClaimed
  <2> QED BY <1>1, <2>1, <2>2, <2>3 DEF InFirstDay, CountsThisWeek
<1> QED BY <1>3, <1>4, KeptOrChosen

\* A transaction ends a claim and makes none.
LEMMA CommitTakers ==
  ASSUME TypeOK, NEW r \in Requests, Commit(r), NEW a \in Agents, NEW b \in Agents
  PROVE  /\ DayTakers(a)' \in SUBSET (DayTakers(a) \ {r})
         /\ WeekTakers(a)' \in SUBSET (WeekTakers(a) \ {r})
         /\ EvenTakers(a, b)' \in SUBSET (EvenTakers(a, b) \ {r})
<1>1. [Next]_vars
  BY DEF Next, SearchStep
<1>2. given' # given
  BY CommitEffect DEF TypeOK
<1>3. ASSUME NEW q \in Requests, HasLoads(q)'
      PROVE  q # r /\ HasLoads(q) /\ sawLoads'[q] = sawLoads[q]
  BY <1>1, <1>2, <1>3, KeptOrRead, CommitEndsClaim
<1> QED BY <1>3 DEF DayTakers, WeekTakers, EvenTakers

\* Midnight makes and ends no claim.
LEMMA MidnightTakers ==
  ASSUME DayPasses, NEW a, NEW b
  PROVE  /\ DayTakers(a)' = DayTakers(a)
         /\ WeekTakers(a)' = WeekTakers(a)
         /\ EvenTakers(a, b)' = EvenTakers(a, b)
BY DEF DayPasses, searchVars, DayTakers, WeekTakers, EvenTakers, HasLoads

\* Today's assignments and the claims to more of them stay bounded.
LEMMA DaySlackStep ==
  ASSUME TypeOK, RowInv, ClaimInv, DaySlack, [Next]_vars
  PROVE  DaySlack'
<1> SUFFICES ASSUME NEW a \in Agents, load'[a].since = day'
             PROVE  load'[a].today + Cardinality(DayTakers(a)') <= DailyLimit + N - 1
  BY DEF DaySlack
<1>0. /\ load[a] \in Rows /\ load[a].today \in Nat /\ day \in Days /\ DailyLimit \in Nat \ {0}
      /\ DayTakers(a) \in SUBSET Requests /\ DayTakers(a)' \in SUBSET Requests
  BY AssignmentAssumption, TakersAreRequests DEF TypeOK, Rows, DayTakers
<1>1. Cardinality(DayTakers(a)') \in Nat /\ N \in Nat /\ Cardinality(DayTakers(a)') <= N
  BY <1>0, CountRequests
<1>2. CASE load' = load /\ given' = given /\ day' = day
  <2>1. CASE load[a].today < DailyLimit
    BY <1>0, <1>1, <1>2, <2>1
  <2>2. CASE ~(load[a].today < DailyLimit)
    <3>1. DayTakers(a)' \in SUBSET DayTakers(a)
      BY <2>2, KeptOrRead DEF DayTakers, HasLoads
    <3>2. Cardinality(DayTakers(a)') <= Cardinality(DayTakers(a)) /\ Cardinality(DayTakers(a)) \in Nat
      BY <1>0, <3>1, CountRequests
    <3>3. load[a].today + Cardinality(DayTakers(a)) <= DailyLimit + N - 1
      BY <1>2 DEF DaySlack
    <3> QED BY <1>0, <1>1, <1>2, <3>2, <3>3
  <2> QED BY <2>1, <2>2
<1>3. ASSUME NEW r \in Requests, Commit(r)
      PROVE  load'[a].today + Cardinality(DayTakers(a)') <= DailyLimit + N - 1
  <2>1. DayTakers(a)' \in SUBSET (DayTakers(a) \ {r}) /\ day' = day
    BY <1>3, CommitTakers, CommitEffect
  <2>2. CASE a # choice[r]
    <3>1. load'[a] = load[a]
      BY <1>3, <2>2, CommitEffect
    <3>2. load[a].today + Cardinality(DayTakers(a)) <= DailyLimit + N - 1
      BY <2>1, <3>1 DEF DaySlack
    <3>3. DayTakers(a)' \in SUBSET DayTakers(a)
      BY <2>1
    <3>4. Cardinality(DayTakers(a)') <= Cardinality(DayTakers(a)) /\ Cardinality(DayTakers(a)) \in Nat
      BY <1>0, <3>3, CountRequests
    <3> QED BY <1>0, <1>1, <3>1, <3>2, <3>4
  <2>3. CASE a = choice[r] /\ load[a].since = Never
    <3>1. load'[a].today = 1
      BY <1>0, <1>3, <2>3, CommitEffect, IncrementRow
    <3>2. DayTakers(a)' \in SUBSET (Requests \ {r})
      BY <1>0, <2>1
    <3>3. Cardinality(DayTakers(a)') + 1 <= N
      BY <3>2, CountRequests DEF N
    <3> QED BY <1>0, <1>1, <3>1, <3>3
  <2>4. CASE a = choice[r] /\ load[a].since # Never
    <3>1. load'[a].today = load[a].today + 1 /\ load[a].since = day
      BY <1>0, <1>3, <2>1, <2>4, CommitEffect, IncrementRow
    <3>2. r \in DayTakers(a)
      BY <1>3, <2>4, <3>1 DEF ClaimInv, InFirstDay, Commit
    <3>3. Cardinality(DayTakers(a)') + 1 <= Cardinality(DayTakers(a)) /\ Cardinality(DayTakers(a)) \in Nat
      BY <1>0, <2>1, <3>2, CountRequests
    <3>4. load[a].today + Cardinality(DayTakers(a)) <= DailyLimit + N - 1
      BY <3>1 DEF DaySlack
    <3> QED BY <1>0, <1>1, <3>1, <3>3, <3>4
  <2> QED BY <2>2, <2>3, <2>4
<1>4. CASE DayPasses
  BY <1>0, <1>4 DEF DayPasses, RowInv, Rows, Days, Never
<1> QED BY <1>2, <1>3, <1>4, RowsChange

\* The same for the week.
LEMMA WeekSlackStep ==
  ASSUME TypeOK, RowInv, ClaimInv, WeekSlack, [Next]_vars
  PROVE  WeekSlack'
<1> SUFFICES ASSUME NEW a \in Agents, CountsThisWeek(load[a], day)'
             PROVE  load'[a].week + Cardinality(WeekTakers(a)') <= WeekLimit + N - 1
  BY DEF WeekSlack
<1>0. /\ load[a] \in Rows /\ load[a].week \in Nat /\ day \in Days /\ WeekLimit \in Nat \ {0}
      /\ WeekTakers(a) \in SUBSET Requests /\ WeekTakers(a)' \in SUBSET Requests
  BY AssignmentAssumption, TakersAreRequests DEF TypeOK, Rows, WeekTakers
<1>1. /\ Cardinality(WeekTakers(a)') \in Nat /\ Cardinality(WeekTakers(a)) \in Nat
      /\ N \in Nat /\ Cardinality(WeekTakers(a)') <= N
  BY <1>0, CountRequests
<1>2. CountsThisWeek(load[a], day) =>
        load[a].week + Cardinality(WeekTakers(a)) <= WeekLimit + N - 1
  BY DEF WeekSlack
<1>3. CASE load' = load /\ given' = given /\ day' = day
  <2>1. CASE load[a].week < WeekLimit
    BY <1>0, <1>1, <1>3, <2>1
  <2>2. CASE ~(load[a].week < WeekLimit)
    <3>1. WeekTakers(a)' \in SUBSET WeekTakers(a)
      BY <2>2, KeptOrRead DEF WeekTakers, HasLoads
    <3>2. Cardinality(WeekTakers(a)') <= Cardinality(WeekTakers(a))
      BY <1>0, <3>1, CountRequests
    <3>3. CountsThisWeek(load[a], day)
      BY <1>3 DEF CountsThisWeek
    <3> QED BY <1>0, <1>1, <1>2, <1>3, <3>2, <3>3
  <2> QED BY <2>1, <2>2
<1>4. ASSUME NEW r \in Requests, Commit(r)
      PROVE  load'[a].week + Cardinality(WeekTakers(a)') <= WeekLimit + N - 1
  <2>1. WeekTakers(a)' \in SUBSET (WeekTakers(a) \ {r}) /\ day' = day
    BY <1>4, CommitTakers, CommitEffect
  <2>2. CASE a # choice[r]
    <3>1. load'[a] = load[a]
      BY <1>4, <2>2, CommitEffect
    <3>2. CountsThisWeek(load[a], day)
      BY <2>1, <3>1 DEF CountsThisWeek
    <3>3. WeekTakers(a)' \in SUBSET WeekTakers(a)
      BY <2>1
    <3>4. Cardinality(WeekTakers(a)') <= Cardinality(WeekTakers(a))
      BY <1>0, <3>3, CountRequests
    <3> QED BY <1>0, <1>1, <1>2, <3>1, <3>2, <3>4
  <2>3. CASE a = choice[r] /\ load[a].since = Never
    <3>1. load'[a].week = 1
      BY <1>0, <1>4, <2>3, CommitEffect, IncrementRow
    <3>2. WeekTakers(a)' \in SUBSET (Requests \ {r})
      BY <1>0, <2>1
    <3>3. Cardinality(WeekTakers(a)') + 1 <= N
      BY <3>2, CountRequests DEF N
    <3> QED BY <1>0, <1>1, <3>1, <3>3
  <2>4. CASE a = choice[r] /\ load[a].since # Never
    <3>1. load'[a].week = load[a].week + 1 /\ load'[a].since = load[a].since
      BY <1>0, <1>4, <2>4, CommitEffect, IncrementRow
    <3>2. CountsThisWeek(load[a], day)
      BY <2>1, <3>1 DEF CountsThisWeek
    <3>3. r \in WeekTakers(a)
      BY <1>4, <2>4, <3>2 DEF ClaimInv, Commit
    <3>4. Cardinality(WeekTakers(a)') + 1 <= Cardinality(WeekTakers(a))
      BY <1>0, <2>1, <3>3, CountRequests
    <3> QED BY <1>0, <1>1, <1>2, <3>1, <3>2, <3>4
  <2> QED BY <2>2, <2>3, <2>4
<1>5. CASE DayPasses
  <2>1. load' = load /\ day' = day + 1 /\ WeekTakers(a)' = WeekTakers(a)
    BY <1>5, MidnightTakers DEF DayPasses
  <2>2. CountsThisWeek(load[a], day)
    BY <1>0, <2>1, WeekFacts DEF CountsThisWeek
  <2> QED BY <1>2, <2>1, <2>2
<1> QED BY <1>3, <1>4, <1>5, RowsChange

\* An agent's lead over one that was always available, with the claims to widen it.
LEMMA EvenSlackStep ==
  ASSUME TypeOK, RowInv, ClaimInv, EvenSlack, [Next]_vars
  PROVE  EvenSlack'
<1> SUFFICES ASSUME NEW a \in Agents, NEW b \in steady', InFirstDay(a)', InFirstDay(b)'
             PROVE  given'[a] + Cardinality(EvenTakers(a, b)') <= given'[b] + N
  BY DEF EvenSlack
<1>0. /\ b \in steady /\ b \in Agents /\ InFirstDay(a) /\ InFirstDay(b)
      /\ given[a] \in Nat /\ given[b] \in Nat
      /\ EvenTakers(a, b) \in SUBSET Requests /\ EvenTakers(a, b)' \in SUBSET Requests
  <2>1. b \in steady /\ b \in Agents
    BY SteadyShrinks DEF TypeOK
  <2>2. InFirstDay(a) /\ InFirstDay(b)
    BY <2>1, CountedBefore
  <2> QED BY <2>1, <2>2 DEF TypeOK, EvenTakers
<1>1. /\ Cardinality(EvenTakers(a, b)') \in Nat /\ Cardinality(EvenTakers(a, b)) \in Nat
      /\ N \in Nat /\ Cardinality(EvenTakers(a, b)') <= N
  BY <1>0, CountRequests
<1>2. given[a] + Cardinality(EvenTakers(a, b)) <= given[b] + N
  BY <1>0 DEF EvenSlack
<1>3. CASE load' = load /\ given' = given /\ day' = day
  <2>1. CASE given[a] <= given[b]
    BY <1>0, <1>1, <1>3, <2>1
  <2>2. CASE ~(given[a] <= given[b])
    <3>1. given[a] = load[a].today /\ given[b] = load[b].today
      BY <1>0 DEF RowInv, InFirstDay
    <3>2. EvenTakers(a, b)' \in SUBSET EvenTakers(a, b)
      BY <2>2, <3>1, KeptOrRead DEF EvenTakers, HasLoads
    <3>3. Cardinality(EvenTakers(a, b)') <= Cardinality(EvenTakers(a, b))
      BY <1>0, <3>2, CountRequests
    <3> QED BY <1>0, <1>1, <1>2, <1>3, <3>3
  <2> QED BY <2>1, <2>2
<1>4. ASSUME NEW r \in Requests, Commit(r)
      PROVE  given'[a] + Cardinality(EvenTakers(a, b)') <= given'[b] + N
  <2>1. EvenTakers(a, b)' \in SUBSET (EvenTakers(a, b) \ {r})
    BY <1>0, <1>4, CommitTakers
  <2>2. EvenTakers(a, b)' \in SUBSET EvenTakers(a, b)
    BY <2>1
  <2>3. Cardinality(EvenTakers(a, b)') <= Cardinality(EvenTakers(a, b))
    BY <1>0, <2>2, CountRequests
  <2>4. given'[b] \in {given[b], given[b] + 1}
    BY <1>0, <1>4, CommitEffect
  <2>5. CASE a = b
    BY <1>0, <1>1, <2>4, <2>5
  <2>6. CASE a # b /\ a # choice[r]
    <3>1. given'[a] = given[a]
      BY <1>4, <2>6, CommitEffect
    <3> QED BY <1>0, <1>1, <1>2, <2>3, <2>4, <3>1
  <2>7. CASE a # b /\ a = choice[r]
    <3>1. given'[a] = given[a] + 1 /\ given'[b] = given[b]
      BY <1>0, <1>4, <2>7, CommitEffect
    <3>2. r \in EvenTakers(a, b)
      BY <1>0, <1>4, <2>7 DEF ClaimInv, Commit
    <3>3. Cardinality(EvenTakers(a, b)') + 1 <= Cardinality(EvenTakers(a, b))
      BY <1>0, <2>1, <3>2, CountRequests
    <3> QED BY <1>0, <1>1, <1>2, <3>1, <3>3
  <2> QED BY <2>5, <2>6, <2>7
<1>5. CASE DayPasses
  <2>1. given'[a] = 0 /\ given'[b] = 0
    BY <1>0, <1>5 DEF DayPasses
  <2> QED BY <1>1, <2>1
<1> QED BY <1>3, <1>4, <1>5, RowsChange

\* Every step of the program has the searches remember who is out of reach.
LEMMA RememberEachStep == [Next]_vars => Remember \/ UNCHANGED vars
BY DEF Next, SearchStep, CreateTicket, AutoAssign, StartSearch, ReadAgentsFirst,
       ReadLoadsFirst, ChooseAgent, NoAgentAvailable, Commit, SearchFails, CreateAssigned,
       AssignTicket, SetAvailability, DayPasses

\* A row that is not below the limits counts and is at one.
LEMMA AtLimit ==
  ASSUME TypeOK, RowInv, NEW a \in Agents, ~BelowLimits(load[a], day)
  PROVE  \/ load[a].since = day /\ load[a].today >= DailyLimit
         \/ CountsThisWeek(load[a], day) /\ load[a].week >= WeekLimit
<1>1. /\ load[a].today \in Nat /\ load[a].week \in Nat /\ day \in Nat
      /\ load[a].since \in Int /\ load[a].since <= day
      /\ DailyLimit \in Nat /\ DailyLimit > 0 /\ WeekLimit \in Nat /\ WeekLimit > 0
  BY AssignmentAssumption DEF RowInv, TypeOK, Rows, Days, Never
<1>2. CASE ~(EffectiveToday(load[a], day) < DailyLimit)
  BY <1>1, <1>2 DEF EffectiveToday, CountsToday
<1>3. CASE ~(EffectiveWeek(load[a], day) < WeekLimit)
  BY <1>1, <1>3 DEF EffectiveWeek
<1> QED BY <1>2, <1>3 DEF BelowLimits

\* A reading at a limit today was at it before.
LEMMA AtLimitBefore ==
  ASSUME TypeOK, [Next]_vars, NEW row \in Rows, ~BelowLimits(row, day')
  PROVE  ~BelowLimits(row, day)
<1>1. day \in Days /\ day' \in {day, day + 1}
  BY RowsChange, CommitEffect DEF TypeOK, DayPasses
<1>2. CASE day' = day
  BY <1>2
<1>3. CASE day' = day + 1
  <2>1. CountsThisWeek(row, day') => CountsThisWeek(row, day)
    BY <1>1, <1>3, WeekFacts
  <2>2. CountsToday(row, day') => CountsToday(row, day)
    BY <1>1, <1>3 DEF CountsToday, Rows, Days, Never
  <2> QED BY <2>1, <2>2, AssignmentAssumption
          DEF BelowLimits, EffectiveToday, EffectiveWeek
<1> QED BY <1>1, <1>2, <1>3

\* What a request holds of either reading before the second answer, it held before the
\* step or has just read.
LEMMA ReadingKept ==
  ASSUME TypeOK, [Next]_vars, NEW r \in Requests
  PROVE  /\ pc'[r] = "loads" =>
              \/ pc[r] = "loads" /\ sawAgents'[r] = sawAgents[r]
              \/ sawAgents'[r] = available /\ available' = available
         /\ pc'[r] = "agents" =>
              \/ pc[r] = "agents" /\ sawLoads'[r] = sawLoads[r]
              \/ sawLoads'[r] = load /\ load' = load /\ day' = day
<1> USE DEF TypeOK
<1> DEFINE Goal ==
      /\ pc'[r] = "loads" =>
           \/ pc[r] = "loads" /\ sawAgents'[r] = sawAgents[r]
           \/ sawAgents'[r] = available /\ available' = available
      /\ pc'[r] = "agents" =>
           \/ pc[r] = "agents" /\ sawLoads'[r] = sawLoads[r]
           \/ sawLoads'[r] = load /\ load' = load /\ day' = day
<1>1. ASSUME NEW q \in Requests, NEW t \in Tickets, StartSearch(q, t) PROVE Goal
  BY <1>1 DEF StartSearch
<1>2. ASSUME NEW q \in Requests, ReadAgentsFirst(q) PROVE Goal
  BY <1>2 DEF ReadAgentsFirst
<1>3. ASSUME NEW q \in Requests, ReadLoadsFirst(q) PROVE Goal
  BY <1>3 DEF ReadLoadsFirst
<1>4. ASSUME NEW q \in Requests, ChooseAgent(q) PROVE Goal
  BY <1>4 DEF ChooseAgent
<1>5. ASSUME NEW q \in Requests, EndSearch(q) PROVE Goal
  BY <1>5 DEF EndSearch
<1>6. CASE UNCHANGED searchVars
  BY <1>6 DEF searchVars
<1> QED
  BY <1>1, <1>2, <1>3, <1>4, <1>5, <1>6
  DEF Next, SearchStep, CreateTicket, AutoAssign, NoAgentAvailable, Commit, SearchFails,
      CreateAssigned, AssignTicket, SetAvailability, DayPasses, vars

\* Who a search could not have is remembered while it lasts.
LEMMA MissStep ==
  ASSUME TypeOK, RowInv, MissInv, [Next]_vars
  PROVE  MissInv'
<1>1. CASE UNCHANGED vars
  BY <1>1 DEF vars, searchVars, MissInv, OutOfReach, CountsThisWeek
<1>2. CASE Remember
  <2> SUFFICES
        ASSUME NEW r \in Requests, pc'[r] \in {"both", "loads", "agents"}
        PROVE  /\ OutOfReach' \subseteq missed'[r]
               /\ pc'[r] = "loads" => Agents \ sawAgents'[r] \subseteq missed'[r]
               /\ pc'[r] = "agents" =>
                    \A a \in Agents : ~BelowLimits(sawLoads'[r][a], day') => a \in missed'[r]
    BY DEF MissInv
  <2>1. missed'[r] = missed[r] \cup OutOfReach'
    BY <1>2 DEF Remember
  <2>2. ASSUME pc'[r] = "loads" PROVE Agents \ sawAgents'[r] \subseteq missed'[r]
    <3>1. CASE pc[r] = "loads" /\ sawAgents'[r] = sawAgents[r]
      BY <2>1, <3>1 DEF MissInv
    <3>2. CASE sawAgents'[r] = available /\ available' = available
      BY <2>1, <3>2 DEF OutOfReach
    <3> QED BY <2>2, <3>1, <3>2, ReadingKept
  <2>3. ASSUME pc'[r] = "agents", NEW a \in Agents, ~BelowLimits(sawLoads'[r][a], day')
        PROVE  a \in missed'[r]
    <3>1. CASE pc[r] = "agents" /\ sawLoads'[r] = sawLoads[r]
      <4>1. sawLoads[r][a] \in Rows
        BY DEF TypeOK
      <4>2. ~BelowLimits(sawLoads[r][a], day)
        BY <2>3, <3>1, <4>1, AtLimitBefore
      <4> QED BY <2>1, <3>1, <4>2 DEF MissInv
    <3>2. CASE sawLoads'[r] = load /\ load' = load /\ day' = day
      <4>1. a \in OutOfReach'
        <5>1. ~BelowLimits(load[a], day)
          BY <2>3, <3>2
        <5>2. \/ load[a].since = day /\ load[a].today >= DailyLimit
              \/ CountsThisWeek(load[a], day) /\ load[a].week >= WeekLimit
          BY <5>1, AtLimit
        <5> QED BY <3>2, <5>2 DEF OutOfReach, CountsThisWeek
      <4> QED BY <2>1, <4>1
    <3> QED BY <2>3, <3>1, <3>2, ReadingKept
  <2> QED BY <2>1, <2>2, <2>3
<1> QED BY <1>1, <1>2, RememberEachStep

-----------------------------------------------------------------------------
(* The theorems.                                                           *)

\* Before the first request nobody has been given anything and nobody has a claim.
LEMMA IInit == Init => IInv
<1> SUFFICES ASSUME Init PROVE IInv
  OBVIOUS
<1>1. TypeOK
  BY TypeInit
<1>2. RowInv /\ SawInv /\ SteadyInv /\ ClaimInv /\ MissInv
  BY DEF Init, NoLoads, NoRow, Never, RowInv, SawInv, SteadyInv, ClaimInv, MissInv, HasLoads
<1>3. ASSUME NEW a \in Agents
      PROVE  load[a].since # day /\ ~CountsThisWeek(load[a], day)
  BY DEF Init, NoLoads, NoRow, Never, CountsThisWeek
<1>4. EvenSlack
  <2> SUFFICES ASSUME NEW a \in Agents, NEW b \in steady
               PROVE  given[a] + Cardinality(EvenTakers(a, b)) <= given[b] + N
    BY DEF EvenSlack
  <2>1. /\ Cardinality(EvenTakers(a, b)) \in Nat /\ N \in Nat
        /\ Cardinality(EvenTakers(a, b)) <= N
    BY TakersAreRequests, CountRequests
  <2>2. given[a] = 0 /\ given[b] = 0
    BY <1>1 DEF Init, TypeOK
  <2> QED BY <2>1, <2>2
<1> QED BY <1>1, <1>2, <1>3, <1>4 DEF IInv, DaySlack, WeekSlack

\* Every step keeps the inductive invariant.
LEMMA IStep == IInv /\ [Next]_vars => IInv'
BY TypeStep, RowStep, SawStep, SteadyStep, ClaimStep, DaySlackStep, WeekSlackStep,
   EvenSlackStep, MissStep DEF IInv

\* The inductive invariant: rows, readings, claims, and what they add up to.
THEOREM InvCorrect == Spec => []IInv
BY IInit, IStep, PTL DEF Spec

\* The limits are exceeded by less than the number of requests served at once, however
\* the reads of findBestAutoAssignAgent and the transactions of autoAssignTicket interleave.
THEOREM LimitsCorrect == Spec => []LimitsHeld
<1>1. ASSUME IInv PROVE LimitsHeld
  <2> SUFFICES
        ASSUME NEW a \in Agents
        PROVE  /\ load[a].since = day => given[a] <= DailyLimit + N - 1
               /\ CountsThisWeek(load[a], day) => load[a].week <= WeekLimit + N - 1
    BY DEF LimitsHeld
  <2>1. /\ load[a].today \in Nat /\ load[a].week \in Nat
        /\ N \in Nat /\ DailyLimit \in Nat /\ WeekLimit \in Nat
        /\ Cardinality(DayTakers(a)) \in Nat /\ Cardinality(WeekTakers(a)) \in Nat
    BY <1>1, AssignmentAssumption, TakersAreRequests, CountRequests DEF IInv, TypeOK, Rows
  <2>2. load[a].since = day =>
          /\ given[a] = load[a].today
          /\ load[a].today + Cardinality(DayTakers(a)) <= DailyLimit + N - 1
    BY <1>1 DEF IInv, RowInv, DaySlack
  <2>3. CountsThisWeek(load[a], day) =>
          load[a].week + Cardinality(WeekTakers(a)) <= WeekLimit + N - 1
    BY <1>1 DEF IInv, WeekSlack
  <2> QED BY <2>1, <2>2, <2>3
<1> QED BY <1>1, InvCorrect, PTL

\* On the first day of their rows, no agent leads one that was always available by more
\* than the number of requests served at once.
THEOREM BalancedCorrect == Spec => []Balanced
<1>1. ASSUME IInv PROVE Balanced
  <2> SUFFICES ASSUME NEW a \in Agents, NEW b \in steady, InFirstDay(a), InFirstDay(b)
               PROVE  given[a] <= given[b] + N
    BY DEF Balanced
  <2>1. /\ given[a] \in Nat /\ given[b] \in Nat
        /\ N \in Nat /\ Cardinality(EvenTakers(a, b)) \in Nat
    BY <1>1, TakersAreRequests, CountRequests DEF IInv, TypeOK
  <2>2. given[a] + Cardinality(EvenTakers(a, b)) <= given[b] + N
    BY <1>1 DEF IInv, EvenSlack
  <2> QED BY <2>1, <2>2
<1> QED BY <1>1, InvCorrect, PTL

\* NO_AGENT_AVAILABLE is the truth about some moment of the search for each agent,
\* although agents and workloads are read at different times.
THEOREM NobodyCorrect == Spec => NobodyMeansAllMissed
<1>1. ASSUME IInv, NEW r \in Requests, NoAgentAvailable(r) PROVE missed[r] = Agents
  <2>1. missed[r] \subseteq Agents /\ OutOfReach \subseteq missed[r]
    BY <1>1 DEF IInv, TypeOK, MissInv, NoAgentAvailable, BothRead
  <2>2. ASSUME NEW a \in Agents PROVE a \in missed[r]
    <3>1. a \notin AgentsRead(r) \/ ~BelowLimits(LoadsRead(r)[a], day)
      BY <1>1 DEF NoAgentAvailable, Eligible
    <3>2. CASE pc[r] = "agents"
      <4>1. a \notin available \/ ~BelowLimits(sawLoads[r][a], day)
        BY <3>1, <3>2 DEF AgentsRead, LoadsRead
      <4> QED BY <1>1, <2>1, <3>2, <4>1 DEF OutOfReach, IInv, MissInv
    <3>3. CASE pc[r] = "loads"
      <4>1. a \notin sawAgents[r] \/ ~BelowLimits(load[a], day)
        BY <3>1, <3>3 DEF AgentsRead, LoadsRead
      <4>2. ~BelowLimits(load[a], day) => a \in OutOfReach
        BY <1>1, AtLimit DEF IInv, OutOfReach
      <4> QED BY <1>1, <2>1, <3>3, <4>1, <4>2 DEF IInv, MissInv
    <3> QED BY <1>1, <3>2, <3>3 DEF NoAgentAvailable, BothRead
  <2> QED BY <2>1, <2>2
<1>2. IInv /\ [Next]_vars =>
        [\A r \in Requests : NoAgentAvailable(r) => missed[r] = Agents]_vars
  BY <1>1
<1> QED BY <1>2, InvCorrect, PTL DEF Spec, NobodyMeansAllMissed
=============================================================================
