SPECIFICATION FairSpec
CONSTANTS
  Users = {u1, u2}
  Founders = {u1}
  Clients = {u2}
  NoUser = NoUser
  Customs <- Supervisor
  Edits <- Promotion
  Given = {"ADMIN", "CUSTOM"}
  Requests = {p1, p2}
  Others = {p2}
  MaxWrites = 3
INVARIANTS OwnerOutranks StaleNeedsRace
PROPERTIES AccessSettles
