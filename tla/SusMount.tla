------------------------------ MODULE SusMount ------------------------------
(***************************************************************************)
(* What KernelSU marks as its own mounts: LH_SUS_MOUNT, the list that        *)
(* CMD_SUSFS_ADD_SUS_MOUNT keeps, and INODE_STATE_SUS_MOUNT on the inodes    *)
(* that pathnames lead to, which the command, do_loopback and do_mount set.  *)
(*                                                                         *)
(* A pathname leads to the mount that lies on top there, or else to its      *)
(* directory in the root file system.  A path that was looked up stays what  *)
(* it is although the mount table goes on.  MountHide has the references.    *)
(***************************************************************************)
EXTENDS Integers, SequencesExt, FiniteSets

CONSTANTS
  Paths,
  Rootfs,     \* the mount that the paths are in
  Boot,       \* Boot[p]: the mounts made on p at boot, the lowest first
  KsuMounts,  \* memory for the mounts that KernelSU makes
  Inodes, Dir, BootRoot, \* Dir[p]: the inode of p in Rootfs; the roots of boot mounts
  Tools,      \* KernelSU processes that issue the command
  Requests,   \* what they pass, a path and a device
  Mounters,   \* KernelSU processes that mount
  NoHolder, None,
  MaxEntries  \* bound

LegitMounts == {Rootfs} \cup UNION {ToSet(Boot[p]) : p \in Paths}
AllMounts   == LegitMounts \cup KsuMounts
KsuTasks    == Tools \cup Mounters

ASSUME SusMountAssumption ==
  /\ Boot \in [Paths -> Seq(LegitMounts)]
  /\ \A p, q \in Paths : \A i \in DOMAIN Boot[p], j \in DOMAIN Boot[q] :
       Boot[p][i] = Boot[q][j] => p = q /\ i = j
  /\ Dir \in [Paths -> Inodes] /\ BootRoot \in [LegitMounts -> Inodes]
  /\ \A r \in Requests : r.path \in Paths
  /\ Tools \cap Mounters = {} /\ NoHolder \notin KsuTasks
  /\ LegitMounts \cap KsuMounts = {}
  /\ None \notin AllMounts \cup [mnt : AllMounts, inode : Inodes, steady : BOOLEAN]
                 \cup [path : Paths, made : KsuMounts \cup {None}]

VARIABLES
  LH_SUS_MOUNT,
  susfs_spin_lock,
  flagged,       \* the inodes with INODE_STATE_SUS_MOUNT
  mounted, root, \* the mounts on a path, the top one last; the inode of a mount's root
  mnt_group_id,  \* of a mount: "none", "legit" (below DEFAULT_SUS_MNT_GROUP_ID), "sus"
  pc, info,      \* of a task: its step, what it was called with and the mount it has
                 \* made (history), as long as that stays mounted
  reached,       \* of a task: the mount and the inode its pathname has led to, and
                 \* (history) whether the mount has kept its group and place since
  acked, recent  \* history, of a path: the devices of the commands that have returned 0
                 \* since the path was last at rest; no command has done so yet

registry == <<LH_SUS_MOUNT, acked, recent>>
table    == <<mounted, root, mnt_group_id>>
task     == <<pc, info, reached>>
SMvars   == <<registry, table, task, susfs_spin_lock, flagged>>

SMInit ==
  /\ LH_SUS_MOUNT = <<>> /\ susfs_spin_lock = NoHolder /\ flagged = {}
  /\ mounted = Boot
  /\ root = [m \in AllMounts |-> IF m \in LegitMounts THEN BootRoot[m] ELSE None]
  /\ mnt_group_id = [m \in AllMounts |-> IF m \in LegitMounts THEN "legit" ELSE "none"]
  /\ pc = [t \in KsuTasks |-> "idle"] /\ info = [t \in KsuTasks |-> None]
  /\ reached = [t \in KsuTasks |-> None]
  /\ acked = [p \in Paths |-> {}] /\ recent = [p \in Paths |-> FALSE]

Goto(t, step) == pc' = [pc EXCEPT ![t] = step]

Return(t) ==
  /\ Goto(t, "idle")
  /\ info' = [info EXCEPT ![t] = None] /\ reached' = [reached EXCEPT ![t] = None]

\* What a pathname leads to.
Leads(p) ==
  IF mounted[p] = <<>> THEN [mnt |-> Rootfs, inode |-> Dir[p], steady |-> TRUE]
  ELSE [mnt |-> Last(mounted[p]), inode |-> root[Last(mounted[p])], steady |-> TRUE]

\* The group of m changes while a task may still hold what its pathname has led to.
Unsteady(m) ==
  reached' = [t \in KsuTasks |-> IF reached[t] # None /\ reached[t].mnt = m
                             THEN [reached[t] EXCEPT !.steady = FALSE] ELSE reached[t]]

EntriesOf(p) == {i \in DOMAIN LH_SUS_MOUNT : LH_SUS_MOUNT[i].path = p}
Busy(p)   == {t \in Tools : pc[t] # "idle" /\ info[t].path = p}

-----------------------------------------------------------------------------
(* susfs_add_sus_mount.                                                     *)
Call(t, r) ==
  /\ t \in Tools /\ pc[t] = "idle"
  /\ Goto(t, "search")
  /\ info' = [info EXCEPT ![t] = r]
  /\ recent' = [recent EXCEPT ![r.path] = @ \/ Busy(r.path) = {}]
  /\ UNCHANGED <<LH_SUS_MOUNT, acked, reached, table, susfs_spin_lock, flagged>>

\* The entry that the search of the list, which takes no lock, finds.
First(p) == {i \in EntriesOf(p) : \A j \in EntriesOf(p) : i <= j}

\* Mutant: the entry that is found is left as it is.
memcpy_not(t) ==
  /\ t \in Tools /\ pc[t] = "search" /\ susfs_spin_lock = NoHolder
  /\ First(info[t].path) # {}
  /\ susfs_spin_lock' = t
  /\ Goto(t, "lookup")
  /\ UNCHANGED <<registry, table, info, reached, flagged>>

\* An entry is never removed, and the first one stays the first.
memcpy(t) ==
  /\ t \in Tools /\ pc[t] = "search" /\ susfs_spin_lock = NoHolder
  /\ \E i \in First(info[t].path) : LH_SUS_MOUNT' = [LH_SUS_MOUNT EXCEPT ![i] = info[t]]
  /\ susfs_spin_lock' = t
  /\ Goto(t, "lookup")
  /\ UNCHANGED <<acked, recent, table, info, reached, flagged>>

not_found(t) ==
  /\ t \in Tools /\ pc[t] = "search" /\ First(info[t].path) = {}
  /\ \/ /\ Len(LH_SUS_MOUNT) + Cardinality({u \in Tools : pc[u] # "idle"}) <= MaxEntries
        /\ Goto(t, "lookup")
        /\ UNCHANGED <<info, reached>>
     \/ Return(t)  \* kmalloc has failed
  /\ UNCHANGED <<registry, table, susfs_spin_lock, flagged>>

-----------------------------------------------------------------------------
(* susfs_update_sus_mount_inode: for an entry that was found with the lock   *)
(* held, for a new one before it is in the list.  It returns nothing, so     *)
(* that the command goes on as if it had succeeded.                         *)
Updated(t) == IF susfs_spin_lock = t THEN "unlock" ELSE "add"

kern_path(t) ==
  /\ t \in Tools /\ pc[t] = "lookup"
  /\ \/ /\ reached' = [reached EXCEPT ![t] = Leads(info[t].path)]
        /\ Goto(t, "test")
     \/ Goto(t, Updated(t)) /\ UNCHANGED reached
  /\ UNCHANGED <<registry, table, info, susfs_spin_lock, flagged>>

IsLegit(m) == mnt_group_id[m] = "legit"

\* Mutant: the group of the mount is not asked for.
test_not(t) ==
  /\ t \in Tools /\ pc[t] = "test"
  /\ Goto(t, "flag")
  /\ UNCHANGED <<registry, table, info, reached, susfs_spin_lock, flagged>>

test(t) ==
  /\ t \in Tools /\ pc[t] = "test"
  /\ Goto(t, IF IsLegit(reached[t].mnt) THEN Updated(t) ELSE "flag")
  /\ UNCHANGED <<registry, table, info, reached, susfs_spin_lock, flagged>>

set_flag(t) ==
  /\ pc[t] = "flag"
  /\ flagged' = flagged \cup {reached[t].inode}
  /\ IF t \in Tools THEN Goto(t, Updated(t)) /\ UNCHANGED <<info, reached>> ELSE Return(t)
  /\ UNCHANGED <<registry, table, susfs_spin_lock>>

Acked(t) ==
  LET p == info[t].path
  IN /\ acked' = [acked EXCEPT ![p] = IF recent[p] THEN {info[t].dev} ELSE @ \cup {info[t].dev}]
     /\ recent' = [recent EXCEPT ![p] = FALSE]

list_add_tail(t) ==
  /\ pc[t] = "add" /\ susfs_spin_lock = NoHolder
  /\ LH_SUS_MOUNT' = Append(LH_SUS_MOUNT, info[t])
  /\ Acked(t)
  /\ Return(t)
  /\ UNCHANGED <<table, susfs_spin_lock, flagged>>

\* Mutant: an update whose path has no mount to be flagged returns with the lock.
spin_unlock_unflagged(t) ==
  /\ pc[t] = "unlock"
  /\ susfs_spin_lock' = IF reached[t] = None THEN t ELSE NoHolder
  /\ Acked(t)
  /\ Return(t)
  /\ UNCHANGED <<LH_SUS_MOUNT, table, flagged>>

spin_unlock(t) ==
  /\ pc[t] = "unlock"
  /\ susfs_spin_lock' = NoHolder
  /\ Acked(t)
  /\ Return(t)
  /\ UNCHANGED <<LH_SUS_MOUNT, table, flagged>>

susfs_add_sus_mount(t) ==
  memcpy(t) \/ not_found(t) \/ kern_path(t) \/ test(t) \/ (t \in Tools /\ set_flag(t))
  \/ list_add_tail(t) \/ spin_unlock(t)

-----------------------------------------------------------------------------
(* The mounts of KernelSU, and the hooks behind them.                        *)
Unused == {m \in KsuMounts : /\ \A p \in Paths : m \notin ToSet(mounted[p])
                             /\ \A t \in KsuTasks : reached[t] = None \/ reached[t].mnt # m}

\* The mount that one on p would have as its parent.
ParentAt(p) == IF Len(mounted[p]) < 2 THEN Rootfs ELSE mounted[p][Len(mounted[p]) - 1]

\* do_mount makes a new mount at p, which is in a sus group if its parent is shared,
\* or moves one there, which is allowed from a private parent; bound: to one as well.
do_new_mount(t, p) ==
  /\ t \in Mounters /\ pc[t] = "idle"
  /\ \E m \in Unused, i \in Inodes :
       /\ mounted' = [mounted EXCEPT ![p] = Append(@, m)]
       /\ root' = [root EXCEPT ![m] = i]
       /\ mnt_group_id' =
            [mnt_group_id EXCEPT ![m] = IF mnt_group_id[Leads(p).mnt] = "none" THEN "none" ELSE "sus"]
       /\ info' = [info EXCEPT ![t] = [path |-> p, made |-> m]]
  /\ Goto(t, "hook")
  /\ UNCHANGED <<registry, reached, susfs_spin_lock, flagged>>

do_move_mount(t, p, q) ==
  /\ t \in Mounters /\ pc[t] = "idle" /\ p # q /\ mounted[p] # <<>>
  /\ mnt_group_id[ParentAt(p)] = "none" /\ mnt_group_id[Leads(q).mnt] = "none"
  /\ mounted' = [mounted EXCEPT ![p] = Front(@), ![q] = Append(@, Last(mounted[p]))]
  /\ Goto(t, "hook") /\ info' = [info EXCEPT ![t] = [path |-> q, made |-> None]]
  /\ UNCHANGED <<registry, reached, root, mnt_group_id, susfs_spin_lock, flagged>>

\* susfs_auto_add_sus_ksu_default_mount looks the pathname up again, namespace_sem
\* is free by now, and asks for no group; it may also fail, or ignore the path.
susfs_auto_add_sus_ksu_default_mount(t) ==
  /\ pc[t] = "hook"
  /\ \/ /\ reached' = [reached EXCEPT ![t] = Leads(info[t].path)]
        /\ Goto(t, "flag")
        /\ UNCHANGED info
     \/ Return(t)
  /\ UNCHANGED <<registry, table, susfs_spin_lock, flagged>>

\* do_loopback looks its source up, ...
do_loopback_lookup(t, p) ==
  /\ t \in Mounters /\ pc[t] = "idle"
  /\ reached' = [reached EXCEPT ![t] = Leads(p)]
  /\ Goto(t, "loopback")
  /\ UNCHANGED <<registry, table, info, susfs_spin_lock, flagged>>

\* ... grafts a clone of it or fails to, and calls susfs_auto_add_sus_bind_mount,
\* all with namespace_sem held.
susfs_auto_add_sus_bind_mount(t) ==
  /\ pc[t] = "loopback"
  /\ \/ \E m \in Unused, q \in Paths :
          /\ mounted' = [mounted EXCEPT ![q] = Append(@, m)]
          /\ root' = [root EXCEPT ![m] = reached[t].inode]
          /\ mnt_group_id' = [mnt_group_id EXCEPT ![m] = mnt_group_id[reached[t].mnt]]
     \/ UNCHANGED table
  /\ flagged' = IF IsLegit(reached[t].mnt) THEN flagged ELSE flagged \cup {reached[t].inode}
  /\ Return(t)
  /\ UNCHANGED <<registry, susfs_spin_lock>>

hook(t) ==
  susfs_auto_add_sus_ksu_default_mount(t) \/ susfs_auto_add_sus_bind_mount(t)
  \/ (t \in Mounters /\ set_flag(t))

-----------------------------------------------------------------------------
(* The rest of the kernel.                                                  *)
\* The memory of m is free: a mount found there is not the one a task has made.
Unmade(m) ==
  info' = [t \in KsuTasks |-> IF t \in Mounters /\ info[t] # None /\ info[t].made = m
                             THEN [info[t] EXCEPT !.made = None] ELSE info[t]]

do_umount(p) ==
  /\ mounted[p] # <<>>
  /\ mounted' = [mounted EXCEPT ![p] = Front(@)]
  /\ mnt_group_id' = [mnt_group_id EXCEPT ![Last(mounted[p])] = "none"]
  /\ root' = [root EXCEPT ![Last(mounted[p])] = None]
  /\ Unsteady(Last(mounted[p]))
  /\ Unmade(Last(mounted[p]))
  /\ UNCHANGED <<registry, pc, susfs_spin_lock, flagged>>

do_change_type(m) ==
  /\ m = Rootfs \/ \E p \in Paths : m \in ToSet(mounted[p])
  /\ mnt_group_id' = [mnt_group_id EXCEPT ![m] =
                        CASE @ # "none" -> "none"
                          [] @ = "none" /\ m \in LegitMounts -> "legit"
                          [] OTHER -> "sus"]
  /\ Unsteady(m)
  /\ UNCHANGED <<registry, mounted, root, pc, info, susfs_spin_lock, flagged>>

SMNext ==
  \/ \E t \in Tools : susfs_add_sus_mount(t) \/ \E r \in Requests : Call(t, r)
  \/ \E t \in Mounters : hook(t) \/ \E p \in Paths : do_new_mount(t, p) \/ do_loopback_lookup(t, p)
  \/ \E t \in Mounters, p, q \in Paths : do_move_mount(t, p, q)
  \/ \E p \in Paths : do_umount(p)
  \/ \E m \in AllMounts : do_change_type(m)

SMSpec == SMInit /\ [][SMNext]_SMvars

-----------------------------------------------------------------------------
\* The type of the state; who is in the kernel knows what it was called with, and
\* only a command that updates an entry holds the lock across its steps, those of the
\* path lookup, and gives it back whatever the lookup has come to.
SMTypeOK ==
  /\ LH_SUS_MOUNT \in Seq(Requests) /\ flagged \subseteq Inodes
  /\ mounted \in [Paths -> Seq(AllMounts)] /\ root \in [AllMounts -> Inodes \cup {None}]
  /\ mnt_group_id \in [AllMounts -> {"none", "legit", "sus"}]
  /\ pc \in [KsuTasks -> {"idle", "search", "lookup", "test", "flag", "add", "unlock", "hook", "loopback"}]
  /\ \A t \in Tools : IF pc[t] = "idle" THEN info[t] = None ELSE info[t] \in Requests
  /\ \A t \in Mounters : info[t] \in [path : Paths, made : KsuMounts \cup {None}] \cup {None}
  /\ reached \in [KsuTasks -> [mnt : AllMounts, inode : Inodes, steady : BOOLEAN] \cup {None}]
  /\ \A t \in KsuTasks : pc[t] \in {"test", "flag", "loopback"} => reached[t] # None
  /\ susfs_spin_lock \in Tools \cup {NoHolder}
  /\ \A t \in Tools : susfs_spin_lock = t => pc[t] \in {"lookup", "test", "flag", "unlock"}
  /\ DOMAIN acked = Paths /\ recent \in [Paths -> BOOLEAN]

\* When no command for a path is under way, the entry that a search finds is that
\* of a command that has returned 0, one of those that overlapped last: neither
\* an older entry nor a duplicate comes before it, and a command that failed has
\* left no trace.
SearchFindsAcked ==
  \A p \in Paths : Busy(p) = {} /\ acked[p] # {} =>
    \E i \in First(p) : LH_SUS_MOUNT[i].dev \in acked[p]

\* What the comment in susfs_update_sus_mount_inode asks for, as far as the code
\* keeps it: no inode is flagged through a legit mount, unless the mount got its
\* group after it was looked up, or the hook behind do_mount, which does not ask,
\* has come to another mount than one its task has just made: then the one it made
\* was unmounted or covered meanwhile, or it only moved one.
LegitNotFlagged ==
  [][\A i \in flagged' \ flagged :
       \E t \in KsuTasks : /\ reached[t] # None /\ reached[t].inode = i
                       /\ \/ ~IsLegit(reached[t].mnt)
                          \/ ~reached[t].steady
                          \/ t \in Mounters /\ pc[t] = "flag" /\ reached[t].mnt # info[t].made]_SMvars
=============================================================================
