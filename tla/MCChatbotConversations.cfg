SPECIFICATION ConversationsSpec
CONSTANTS
  Requests = {p1, p2}
  MaxTroubles = 1
  MaxTurns = 3
  Addresses = {ip1, ip2}
  OrgKey = OrgKey
  OrgLimit = 2
  IpLimit = 1
  Cap = 4
  Threshold = 4
  Keep = 2
SYMMETRY Symmetric
INVARIANTS ConversationsTypeOK WindowsHold TurnsToldOnce MemoryTellsAll
PROPERTIES StageAdvances
CHECK_DEADLOCK FALSE
