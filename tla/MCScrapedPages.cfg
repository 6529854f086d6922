SPECIFICATION Spec
CONSTANTS
  Versions = {v1, v2}
  NoVersion = NoVersion
  Requests = {r1}
  MaxAttempts = 2
  MaxStalls = 0
  Ages = {"month"}
  Slots = {s1, s2}
SYMMETRY Symmetry
CONSTRAINT CalmBound
INVARIANTS TypeOK CompletedWasHandedOver StaleWasHandedOver QuietPageIsEmbedded
