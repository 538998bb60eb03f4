CONSTANTS
  x = x
  y = y
  Default = d
  Name = {d, x, y}
  Lists <- AllOfThem
  Unset = Unset
  NoName = NoName
  NoEntry = NoEntry
  Null = Null
  Error = Error
  MaxDepth = 9
SPECIFICATION Spec
INVARIANTS
  DispatchedIsActive
  RequiredAreLoaded
  CrashHasCause
  MadeOnce
PROPERTIES
  SetEnds
