CONSTANTS
  a = a
  b = b
  m = m
  s = s
  v1 = v1
  v2 = v2
  Name = {a, b, m}
  Files = {a, b}
  View = {v1, v2}
  ViewLists <- Pages
  Section = {s}
  Content = Content
  None = None
  Raw = Raw
  Missing = Missing
  MaxCalls = 4
  MaxPlates = 4
  MaxDepth = 5
SYMMETRY Views
SPECIFICATION PlatesSpec
CHECK_DEADLOCK FALSE
INVARIANTS
    LevelsInOrder
PROPERTIES
  SectionIsOwn
