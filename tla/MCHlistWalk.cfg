CONSTANTS
  a = a
  b = b
  Issued <- IssuedDef
  Names = {a, b}
  Keys = {1, 2}
  MaxNodes = 3
  Writers = {w1, w2}
  Readers = {r1}
  NULL = NULL
  NoTask = NoTask
SPECIFICATION HWFairSpec
INVARIANTS BucketSound FoundWasThere NeverMissed
PROPERTIES WalkEnds
