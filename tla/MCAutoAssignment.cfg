SPECIFICATION FairSpec
CONSTANTS
  Agents = {a1, a2}
  Tickets = {t1}
  Requests = {r1, r2}
  DailyLimit = 2
  WeekLimit = 3
  Mondays = {2}
  MaxDay = 2
  MaxSearches = 4
INVARIANTS LimitsHeld Balanced
PROPERTIES NobodyMeansAllMissed TicketsGetAgents
