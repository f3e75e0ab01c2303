CONSTANTS
  vendor = vendor
  vendor_lib = vendor_lib
  Paths = {vendor, vendor_lib}
  Over <- OverDef
  LegitMounts <- LegitDef
  Requests <- RequestsDef
  Mounters = {m1}
  Tools = {t1}
  Apps = {a1}
  InitNs = InitNs
  NoTask = NoTask
  NoInfo = NoInfo
  MaxMounts = 2
  MaxEntries = 3
SPECIFICATION FairSpec
INVARIANTS TypeOK DuplicatesBounded HiddenFromApp
PROPERTIES WalkEnds
CHECK_DEADLOCK FALSE
