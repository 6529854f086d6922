SPECIFICATION Spec
CONSTANTS
  Users = {c, s}
  Creator = c
  Staff = {s}
  NoUser = NoUser
  Events = {e1, e2}
  NoEvent = NoEvent
  Comments = {p1}
  Attachments = {p2}
  Tags = {t}
  NoItem = NoItem
  Requests = {r1, r2}
SYMMETRY Symmetry
CHECK_DEADLOCK FALSE
INVARIANTS LogTellsItems
