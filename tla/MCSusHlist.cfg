SPECIFICATION Spec
CONSTRAINT OneOrTwoPaths
SYMMETRY TaskSymmetry
CONSTANTS
  Inos = {1, 2}
  InoOf <- MCInoOf
  FsOf <- MCFsOf
  HomeOf <- MCHomeOf
  Bucket <- MCBucket
  NoData = NoData
  Real = Real
  Unset = Unset
  NoInode = NoInode
  NoEntry = NoEntry
  NoArg = NoArg
  p1 = p1
  p2 = p2
  n1 = n1
  n2 = n2
  n3 = n3
  d1 = d1
  d2 = d2
  Tasks = {t1, t2}
  Paths = {p1, p2}
  Inodes = {n1, n2, n3}
  Movable = {p1}
  Evictable = {n1}
  Tables = {"path", "kstat", "redirect"}
  Data = {NoData, d1, d2}
  Sizes = {0, 1}
INVARIANTS TypeOK DuplicatesBounded RegisteredUntilError LastCommandEffective FlagPrecedesEntry
