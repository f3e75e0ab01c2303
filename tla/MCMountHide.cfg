CONSTANTS
  r = r
  m1 = m1
  m2 = m2
  Mounts = {r, m1, m2}
  Root = r
  Apps = {a1}
  Tools = {t1}
  DEFAULT_SUS_MNT_GROUP_ID = 2
  MaxGroupId = 3
  MaxMoves = 1
  MaxRefused = 1
  None = None
SPECIFICATION FairSpec
INVARIANTS GroupsSound
PROPERTIES StatfsNearest StatfsEnds UnmountedFreed
