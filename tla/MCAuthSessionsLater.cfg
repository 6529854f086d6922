SPECIFICATION Spec
CONSTANTS
  Grants = {g1, g2}
  First = g1
  NoGrant = NoGrant
  Requests = {r1}
  MaxNow = 1
PROPERTY LaterTokensAccepted
