SPECIFICATION FairSpec
CONSTANTS
  Versions = {v1}
  NoVersion = NoVersion
  Requests = {r1}
  MaxAttempts = 1
  MaxStalls = 0
  Ages = {"month"}
  Slots = {s1}
PROPERTY StaleIsPurged
