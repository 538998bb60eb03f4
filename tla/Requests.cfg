CONSTANTS
  r1 = r1
  r2 = r2
  a = a
  b = b
  m = m
  n = n
  Route = {r1, r2}
  Class = {a, b}
  Method = {m, n}
  Tables <- SmallTables
  NoRoute = NoRoute
  NoName = NoName
  Closure = Closure
  MaxNest = 2
SPECIFICATION Spec
INVARIANTS OneBody EndsInAnswer RunsItsRoute RolesHold
