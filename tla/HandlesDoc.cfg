CONSTANTS
  Handle = {h1, h2}
  Val = {v1, v2}
  Writer = {w1, w2}
  Table = {t1, t2}
  Ref = {r}
  Nothing = Nothing
  Wrapped = Wrapped
  Content = {Nothing, Wrapped}
  Shared = Shared
  Null = Null
  Scalar = Scalar
SPECIFICATION HandlesSpec
INVARIANT LentIsSole
SYMMETRY Exchanges
CHECK_DEADLOCK FALSE
