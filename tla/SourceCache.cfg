CONSTANTS
  w1 = w1
  w2 = w2
  Worker = {w1, w2}
  MaxVer = 2
  MaxTime = 3
  Slack = 1
  MaxRun = 1
  Options <- AllOptions
  None = None
SPECIFICATION Spec
INVARIANTS BoundedStaleness StaleHasCause OwnNotOlder
SYMMETRY Workers
