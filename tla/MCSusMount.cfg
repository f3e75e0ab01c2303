CONSTANTS
  vendor = vendor
  debug_ramdisk = debug_ramdisk
  rootfs = rootfs
  vendor_mnt = vendor_mnt
  dir_inode = dir_inode
  mnt_inode = mnt_inode
  dev1 = dev1
  dev2 = dev2
  Paths = {vendor, debug_ramdisk}
  Rootfs = rootfs
  Boot <- BootDef
  KsuMounts = {k1}
  Inodes = {dir_inode, mnt_inode}
  Dir <- DirDef
  BootRoot <- BootRootDef
  Tools = {t1, t2}
  Requests <- RequestsDef
  Mounters = {m1, m2}
  NoHolder = NoHolder
  None = None
  MaxEntries = 2
SPECIFICATION SMSpec
INVARIANTS SMTypeOK SearchFindsAcked
PROPERTY LegitNotFlagged
CONSTRAINT Races
SYMMETRY Symmetry
