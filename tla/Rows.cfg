CONSTANTS
  v = v
  Key = Key
  NULL = NULL
  Absent = Absent
  Gone = Gone
  Row = {r1, r2}
  Ids = {k1, k2}
  Cols = {a, b}
  Vals = {v}
  Inputs <- NoKeyAndWhole
  Assigned <- AnyValueOrKey
  Removed = {Key}
  MaxDiffer = 2
SPECIFICATION Spec
INVARIANTS BeliefIsTrue
PROPERTY OnlyWhatWasGiven
SYMMETRY Exchanges
