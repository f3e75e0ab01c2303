CONSTANTS
  Apps = {app}
  Others = {root}
  Inodes = {i1, i2}
  Dentries = {d1, d2}
  None = None
  MaxMet = 1
SPECIFICATION FairSpec
INVARIANTS LocksSound HiddenFromApp OthersUnaffected
PROPERTY LockGranted
CHECK_DEADLOCK FALSE
