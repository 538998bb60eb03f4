CONSTANTS
  svc = svc
  fn = fn
  cls = cls
  obj = obj
  Null = Null
  Absent = Absent
  Name = {svc}
  Class = {cls}
  Factory = {fn}
  Value = {obj}
  ClassOf <- ObjectOfC
  MaxStack = 6
  MaxResets = 2
  Kinds <- BothKinds
  MaxRows = 5
  MaxBatch = 2
  home = home
  show = show
  pair = pair
  twin = twin
  bad = bad
  Words <- AllWords
  Empty = ""
  Blank = " "
  Raw = "{}"
  Fillable <- KnownNames
  Lower <- LowerOf
  Decode <- DecodeOf
  Route = {home, show, pair, twin, bad}
  Declared <- Table
  PrefixWords = {"p"}
  Asks <- Wishes
  None = None
  OwnCompile = {show}
  OwnChoice = {pair}
  Given = {"", "a+b"}
  MaxAdds = 3
  MaxTimes = 1
  MaxLength = 3
  MaxRequests = 2
SPECIFICATION ScriptsSpec
INVARIANTS
  CountDrift LimitUntilFailure
  OpenIsMine Kept
  ArgsStandWhereDeclared MissingNameIsLater UrlLeadsBack
PROPERTIES
  RefusedHasCause FindsTheFirst
