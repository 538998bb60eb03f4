SPECIFICATION Spec
CONSTANTS
  w1 = w1
  w2 = w2
  k1 = k1
  k2 = k2
  f1 = f1
  f2 = f2
  f3 = f3
  Worker = {w1, w2}
  Key = {k1, k2}
  SessionKey = {k2}
  MayWrite <- SoleWriter
  Options <- SoleOptions
  Ttl = {1}
  Inode = {f1, f2, f3}
  RootDir = RootDir
  None = None
  MaxTime = 2
  MaxVer = 2
INVARIANTS
  TypeOK
  FileWhole
  NoExpiredRead
PROPERTIES
  NeverGoesBack
