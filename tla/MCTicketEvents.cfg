SPECIFICATION EventsSpec
CONSTANTS
  Users = {c, s, m}
  Creator = c
  Staff = {s}
  NoUser = NoUser
  Events = {e1}
  NoEvent = NoEvent
  Comments = {p1}
  Attachments = {}
  Tags = {}
  NoItem = NoItem
  Requests = {r1}
  Choosers = {c}
  Choices <- SomeChoices
  Default <- Usual
  Attempts = 2
  MaxStalls = 1
CHECK_DEADLOCK FALSE
INVARIANTS OnlyWatchersNotified SteadyWatchersNotified ToldHaveRows
PROPERTIES JobsSettle
