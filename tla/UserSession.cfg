CONSTANTS
  r1 = r1
  r2 = r2
  guest = guest
  member = member
  v1 = v1
  Null = Null
  Absent = Absent
  None = None
  NoKeys = NoKeys
  Guest = guest
  Request = {r1, r2}
  Role = {guest}
  KeyValue = {}
  MaxLogout = 1
SYMMETRY Symmetry
SPECIFICATION SessionSpec
INVARIANTS
  SavedIsHeld
  LogoutHolds
