----------------------------- MODULE MCSusMount ------------------------------
(* Instances of SusMount for TLC: a path with a mount made at boot, and one   *)
(* without.                                                                 *)
EXTENDS SusMount, TLC

CONSTANTS vendor, debug_ramdisk, rootfs, vendor_mnt, dir_inode, mnt_inode,
          dev1, dev2

BootDef == [p \in Paths |-> IF p = vendor THEN <<vendor_mnt>> ELSE <<>>]
DirDef == [p \in Paths |-> dir_inode]
BootRootDef == [m \in LegitMounts |-> IF m = rootfs THEN dir_inode ELSE mnt_inode]

RequestsDef == [path : {vendor}, dev : {dev1, dev2}]

AtBoot == mounted = Boot /\ \A m \in LegitMounts : mnt_group_id[m] = "legit"

\* Bounds: two tools race about the list, over the mounts made at boot; a tool and
\* a mounter, or whoever unmounts or changes a group, race about the mounts, with
\* one entry in the list, and two mounters do, with none.
Races ==
  /\ Cardinality({t \in KsuTasks : pc[t] # "idle"}) <= 2
  /\ AtBoot \/ (Len(LH_SUS_MOUNT) <= 1 /\ \E t \in Tools : pc[t] = "idle")
  /\ LH_SUS_MOUNT = <<>> \/ \E t \in Mounters : pc[t] = "idle"

Symmetry ==
  Permutations(Tools) \cup Permutations(Mounters) \cup Permutations({dev1, dev2})
=============================================================================
