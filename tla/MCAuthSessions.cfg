SPECIFICATION FairSpec
CONSTANTS
  Grants = {g1, g2}
  First = g1
  NoGrant = NoGrant
  Requests = {r1, r2}
  MaxNow = 1
INVARIANTS ChainsDoNotFork EndedStayEnded
PROPERTIES RevokedNeedsOldUser RevokedTokensDie
