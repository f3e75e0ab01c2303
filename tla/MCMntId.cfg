CONSTANTS
  m0 = m0
  m1 = m1
  m2 = m2
  m3 = m3
  ksu = ksu
  zygote = zygote
  app = app
  init_ns = init_ns
  ns1 = ns1
  ns2 = ns2
  Mounts = {m0, m1, m2, m3}
  Root = m0
  Tasks = {ksu, zygote, app}
  Domain <- MCDomain
  Nss = {init_ns, ns1, ns2}
  InitNs = init_ns
  DEFAULT_SUS_MNT_ID = 4
  DEFAULT_SUS_MNT_ID_FOR_KSU_PROC_UNSHARE = 100
  MaxSusId = 5
  NoMount = NoMount
  NoTask = NoTask
  NoId = NoId
  NoCopy = NoCopy
SPECIFICATION Spec
SYMMETRY MCSymmetry
INVARIANTS IdsSound FreesOwnId FakeIdsDistinct
PROPERTY CopyKeepsHidden
