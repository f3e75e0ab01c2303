# Verification of the susfs kernel patches and their build

The repository builds an Android 4.14 kernel with KernelSU and susfs v1.5.5. Its own program logic
is `patches/susfs-kernel-4.14`: `fs/susfs.c`, `fs/sus_su.c`, two headers and the patch
`0001-simonpunk-susfs4ksu.patch` ("the patch" below) that hooks them into the kernel. susfs hides
files, mounts and attributes from app processes. The scripts that fetch, patch, build and package
the kernel are the other part. The modules here are translated from that code; the configuration is
the one of `scripts/3-configure.sh`.

## Inventory

| component | state | operations | hard behaviour | what makes it correct | modelled in |
|---|---|---|---|---|---|
| path registries (`susfs.c` 36-138, 304-521, 750-842) | three hash tables by inode number; `INODE_STATE_*` bits of in-core inodes | add, update; lookups in readdir, stat, maps, open | add = delete, unlocked work, insert; readers without lock or RCU; a path is resolved twice; inode eviction | nothing that was acknowledged is lost or shadowed by an older entry; entries do not pile up; a walk misses and invents nothing | `SusHlist`, `HlistWalk` |
| mount ids (patch 334-420, 459-594, 640-690) | `mnt_id_ida`, `susfs_mnt_id_ida`, their hints; `mnt_id`, `susfs_mnt_id_backup` per mount; `susfs_last_fake_mnt_id` per task | mount, bind, propagate, unshare, umount, free | ids shared by copies, fake ids over real ones, long sequences of clones and copies before a free | each id goes back once, to its own allocator; hidden mounts stay hidden; fake ids are distinct | `MntId` |
| mount group ids (patch 334-337, 421-458, 700-718) | two more allocators with hints | alloc, release, privatisation before the umount walk | allocator chosen by mount id on one side and by group id on the other, while hidden and ordinary mounts may be peers | each allocator holds exactly the ids of its groups | `MountHide` |
| sus_mount list (`susfs.c` 140-302) | list of mount points, inode bits | add, automatic additions from `do_loopback` and `do_mount` | search without the lock, append under it; path lookup under a spinlock; a pathname looked up again after the mount; the path of a refused mount is not put | a search finds the last command's entry; the lock is given back; only KernelSU's mounts are flagged; references balanced | `SusMount`, `MountHide` |
| try_umount list (`susfs.c` 523-652) | list of paths to unmount | add, automatic addition, reverse walk | check and append in different critical sections; walk without lock; a half-linked entry | nested mounts are unmounted before what they sit on; the walk ends | `TryUmount` |
| spoofed uname (`susfs.c` 654-693, patch 1340-1351) | two buffers, a lock | set, read in `newuname` | unlocked reader that only tests whether the lock is held | a read that no command overlaps is exact; never an unset name | `SpoofUname` |
| spoofed cmdline (`susfs.c` 709-748, patch 937-949) | one buffer, allocated at first use | set, read in `/proc/cmdline` | allocation outside the lock, pointer stored before the memory is cleared, two first callers | the same | `ToolCommands` |
| log switch (`susfs.c` 695-707) | one boolean, under the lock of the others | set | shares the lock | - | `ToolCommands` |
| sus_su mode (`susfs.c` 844-902) | mode, hook switch, KernelSU's own hooks | switch, query | mode read before the copy from user | mode and hooks agree | `ToolCommands` |
| path hiding (patch 28-268, 1262-1278) | locks and references inside namei and super.c | early returns for hidden inodes | return with a lock or a reference held; second dentries | the app learns nothing, the others lose nothing, locks and references balanced | `PathHide` |
| mount hiding (patch 980-993, 1058-1085, 1208-1221) | none of its own | tests of `mnt_id` in procfs and inotify; climb of `mnt_parent` in statfs and fdinfo | climb without lock or reference while the tree changes | the nearest ordinary mount answers; the climb ends | `MountHide` |
| build pipeline (`scripts/`, `.github/`) | working tree, toolchains | nine steps | "already done" checks after an interruption | a finished build contains every patch | `BuildPipeline` |
| sus_su fifo (`sus_su.c`) | character device, shared buffer | init, exit, read, write | - | - | not modelled: never compiled |
| overlayfs, kallsyms, KernelSU hooks, AnyKernel3 | - | - | - | - | not modelled |

Interaction: `do_loopback` and `do_mount` call the automatic additions of the sus_mount and
try_umount lists when the caller is in KernelSU's SELinux domain; the sus_mount test of a mount's
legitimacy reads the group id; the hiding of mounts reads the mount id; readdir, stat, maps and
open read inode bits that the registries set and then look into the registries; before the
try_umount walk the hidden mounts of the app's namespace leave their peer groups. All lists and the
three tables share `susfs_spin_lock` with the command line and the log switch; the uname has a lock
of its own, the sus_su mode none.

## Modules

| module | what it is |
|---|---|
| `SusHlist`, `MCSusHlist` | the three path registries, with their readers |
| `HlistWalk`, `MCHlistWalk` | one bucket of a registry, pointer by pointer, under a walk without lock |
| `SusHlistProofs` | theorems about `SusHlist` and `HlistWalk` |
| `MntId`, `MCMntId` | the life of mount ids |
| `MountHide`, `MCMountHide`, `MountHideProofs` | group ids, the climb of statfs, references of the sus_mount command |
| `SusMount`, `MCSusMount` | the sus_mount list and the three ways to flag an inode as a mount of KernelSU |
| `MntIdProofs` | theorems about `MntId` and `SusMount` |
| `TryUmount`, `MCTryUmount`, `TryUmountProofs` | the try_umount list, bind mounts and the walk for an app |
| `PathHide`, `MCPathHide`, `PathHideProofs` | the early returns for hidden names in the path lookup |
| `SafeRegister` | abstract: a setting that is written under a lock and read without |
| `SpoofUname`, `MCSpoofUname`, `SpoofUnameProofs` | the spoofed uname, which implements `SafeRegister` |
| `ToolCommands`, `MCToolCommands`, `ToolCommandsProofs` | the spoofed command line, which implements it too, the log switch and sus_su |
| `BuildPipeline`, `MCBuildPipeline`, `BuildPipelineProofs` | the scripts, on one checkout |

Two proof modules hold the theorems of two components each. Names that both components would use
(`Init`, `Next`, `Spec`, `TypeOK`) have the prefix `HW` in `HlistWalk` and `SM` in `SusMount`.

### SusHlist

`hlist[tbl]` holds the entries of a table from the oldest to the newest; `hash_add` pushes at the
head of a bucket, so the walk of a bucket is from newest to oldest, and the walk of a table bucket
by bucket (`VisitedFirst`, `Lookup`). A task that issues a command goes through the points where
the code holds no lock: `Call` (copy from user), `delete_old` (first critical section),
`kmalloc_fails`, `update_inode_fails` or `update_inode` (kern_path and the flag), `add_entry`
(second critical section). `susfs_update_sus_kstat` keeps the lock throughout and is one step. The
readers are operators on the state. `Relink` and `Evict` are the rest of the kernel: a pathname
comes to lead elsewhere or nowhere; an inode leaves the cache and comes back without the bits.
`acked` and `evicted` are history variables: `acked` is the entry that the last command for a
pathname made, or none after an add that failed; an update that fails, or finds no entry, leaves it
as it was. Attributes are atoms: one value for the spoofed
attributes, one for size and blocks, which the update may leave alone. The string copies, the
decoding of the device number and the log lines are abstracted away.

### HlistWalk

The same commands once more, on one bucket whose nodes and pointers are the state: the search
(`hash_for_each`), the two stores of `hash_del` (`bypass`, `init_node`), `kfree`, and the stores of
`hash_add` (`set_next`, `publish`). A reader takes the bucket node by node (`compare`, `go_next`,
`use`) with no lock. `kmalloc` and the marking of the inode are one step here, as `SusHlist` has
them apart. Memory that was freed, and a node whose stores only `spin_unlock` orders, are `Foreign`:
what a walk does that reads them is undefined, so that it may end with anything or never
(`Undefined`). `had` and `stable` record which nodes with the wanted inode number were in the bucket
at some moment of the walk, and all through it; `cut` are the walks that left a node which was being
removed.

### MntId

A mount is `free`, `new` (created or copied, not attached), `attached` or `dead` (unmounted, not
yet freed). `list[n]` is the mount list of namespace n. `vfs_kern_mount` and `do_add_mount` are a
mount, in two steps since only the second needs `namespace_sem`; `do_loopback` a bind mount;
`propagate_one` a clone into another namespace; `StartCopy`, `CopyOne`, `CopyFails` and
`FinishCopy` are `copy_mnt_ns`, whose copies take their ids one at a time while other tasks create
and free mounts; `umount` and `put_mnt_ns` make mounts dead and `free_mount` gives the id back. The
domain of a task (KernelSU, zygote or other) is fixed. `owned` records which id an allocator handed
out for a mount, `namer` which task gave it a fake id. The initial state is a kernel whose only
mount is rootfs with id 0.

### MountHide

A mount is `free`, `attached` or `detached` (unmounted, perhaps still in use); whether it is hidden
is a bit, as `MntId` has the ids. The tree and the groups change under `namespace_sem`, one action
each: `do_mount` (new or bind), `do_move_mount`, `do_umount`, `do_make_shared`, `do_make_private`,
`susfs_run_try_umount_for_current_mnt_ns`. The copies that propagation adds or unmounts at the peers
of a mount are further steps of `do_mount` and `do_umount`. `mnt_alloc_group_id` takes the first id
that is free from its hint on; `make_private` releases the ids of groups that have lost their last
peer. `vfs_statfs` starts a climb at the mount of the file, which the file keeps alive; `go_up` takes
one parent at a time with no lock and no reference, and a climb that stands on a mount when it is
freed is `stray`: what it does is undefined. `Up` is the way up from a mount, over all mounts or over
the hidden ones, and `Below` what such a way leads through; they are sets, defined without recursion,
so that they can be reasoned about. `nearest` collects, during a climb, the ordinary mounts that a
climb from the file's mount would have ended at, and `moved` counts what happened to the tree
meanwhile that can lead the climb elsewhere: a mount was moved, or the file's own was unmounted. After
one such event the climb still ends at a mount that `nearest` has; after two it may not, as when the
file's hidden mount is unmounted while the climb stands on its parent and the parent is moved then.
`kern_path`, `refuse` and `path_put` are the part of
the sus_mount command that holds a reference.

### SusMount

A pathname leads to the mount that lies on top there, or else to its directory in the root file
system; a path that was looked up stays what it is (`reached`) while the mount table goes on.
`susfs_add_sus_mount` searches the list without the lock: `memcpy` overwrites the entry it finds and
keeps the lock during the path lookup (`kern_path`, `test`, `set_flag`, each with its early return,
up to `spin_unlock`), `not_found` allocates one, looks its path up without the lock and appends it
(`list_add_tail`). `do_loopback` looks its source's path up (`do_loopback_lookup`) and
`susfs_auto_add_sus_bind_mount`, under the same namespace lock, grafts and flags the source unless
its mount has a legit group.
`do_new_mount` and `do_move_mount` are followed by `susfs_auto_add_sus_ksu_default_mount`, which
looks the pathname up again, a step later. `do_umount` and `do_change_type` are anybody's. The
histories `acked` and `recent` say whose command may be the last one for a path, `made` and `steady`
which mount a task has made and whether the one it reached has kept its group and place. A mount that
a task has made is forgotten when it is unmounted (`Unmade`): its memory may be taken for another
mount, also by another task.

### TryUmount

The mount tree of a namespace is a sequence of mounts in the order they were made; a later mount at
a path covers an earlier one there, and a mount cannot be unmounted (mode 0) while another is on it.
`do_loopback` makes a bind mount, or fails to, and runs the hook that adds its target to the list,
all with `namespace_sem` held; the tool adds paths by command. Both look for the path first
(`already_created`, `not_created`) and append in a later critical section of two stores:
`list_add_prev` lets the head's prev lead to the entry, whose own prev still leads to itself, and
`list_add_tail` completes the links. A walk that begins in between meets the half-linked entry
first, and may visit it more than once. `start_walk`, `visit` and `end_walk` are `susfs_try_umount`
for an app, from the tail to the first entry. `graft_tree` and the propagation of mounts into app
namespaces, `ksu_try_umount`, `umount` and the copy of a namespace at a fork are the rest of the
kernel and of KernelSU; whether a mount propagates, and whether the automatic addition skips a path
that is in the kstat table, is left open. Histories say what no property may hold against the walk:
`excused` are, for an app, the paths at which no umount could be expected to succeed (the mount came
in by propagation after the namespace was copied, was covered by another mount, or was tried with
mode 0 while it was in use or while something was mounted below it that the walk leaves alone or
has not come to), `tried` the paths the walk has tried, and `skipped` those an automatic addition
gave up on.

### PathHide

One name of one directory, with the inode it leads to on disk, its dentries in the dcache, the
directory's lock and that of the superblock. An operation is looked up without the lock if it may
(`lookup_fast`), waits for the lock, looks up with it (`lookup`, `d_alloc_fails`), and takes the path
of its kind through `lookup_slow`, `filename_lookup`, `lookup_open`, `may_open`, `may_create`,
`may_delete` or `vfs_ustat`; an early return releases exactly what the code releases. `d_lookup`
skips the dentries of a hidden inode for an app, so the app adds another. `hide` sets the flags at
any moment, `shrink_dcache` is reclaim. `met` counts the early returns that leave something behind,
`sure` records that the name has been hidden to an app all through its operation. `leaked` is a
sequence with one entry for each path that is never put, so that two references to one dentry are two.

### SafeRegister, SpoofUname and ToolCommands

`SafeRegister` is what a setting promises that is written under a lock and read without one: a read
that no write overlaps returns the value; any other may return anything, and the value may take any
intermediate form during a write.

In `SpoofUname`, `my_uname` has two strings, each written and read in two pieces. A writer takes the
lock, copies each string (the one of the command, the kernel's own for "default") and releases it. A
reader tests `release` for the empty string, then whether the lock is held, and copies without
taking the lock; the model keeps the order of the two tests and of the pieces. `spin_is_locked` on
arm64 starts with a full barrier, so steps are taken in program order.

In `ToolCommands`, `susfs_set_cmdline_or_bootconfig` tests the pointer, allocates and stores the
pointer without the lock (`test_buffer`, `kmalloc`, `kmalloc_fails`), and clears and fills the buffer
under it (`memset`, `strncpy_from_user`, which may fault half way). The reader of `/proc/cmdline`
tests the pointer and prints the buffer in two pieces. A task that follows a NULL pointer is `dead`;
`lost` records that a failed `kmalloc` has overwritten a pointer in use. `susfs_sus_su` reads the mode
before it copies the request, and the two switches store the hooks of KernelSU, the mode and
susfs's own hooks one after the other, in the order of the code, without a lock.

### BuildPipeline

One checkout, on which the scripts are run one at a time from a shell, in any order. `at` is the
next step of the running script. A step is a command or a few that cannot leave a state in between;
an action whose name ends in `_stopped` is the step cut short, and `Stop` a command that fails or is
stopped without a trace. `tree` says what of KernelSU, the hooks, the susfs patch and the sources is
in the source tree, `out` which configuration and images there are and what the images were built
from, `toolchain` how much of each toolchain was extracted. The kernel's sources, the toolchains and
KernelSU are fetched from outside: whether the kernel's Makefile sets `EXTRAVERSION` and whether the
base DTB gets built are left open. `5-verify-symbols.sh` changes nothing. The workflow runs the
scripts in one of the orders, on a runner that starts empty.

## Runs

| run | shows | bounds |
|---|---|---|
| `registries` | type invariant, `DuplicatesBounded`, `RegisteredUntilError`, `LastCommandEffective`, `FlagPrecedesEntry` | two tasks (a race on one pathname needs two); the constraint `OneOrTwoPaths` joins two instances: in the kstat table, where add and update mix, one pathname that moves between two inodes with different numbers and hence buckets, or to nothing, one inode evicted, sizes 0 and 1; in the path and redirect tables two pathnames whose inodes have one number on two filesystems, with two targets of a redirection, so that it shows whose claim a reader follows |
| `hlist_walk` | `BucketSound` (the bucket holds its entries and nothing else whenever the lock is free), `FoundWasThere`, `NeverMissed` (a file that stays registered is missed only by a walk that left a node under removal), `WalkEnds` | two commands at a time out of two adds and an update that moves a pathname to another number, one reader, memory for three entries: a node is removed before, at and behind the reader, and reused |
| `mnt_id` | `IdsSound` (type, exact allocators, hints that pass no released id), `FreesOwnId` (what `mnt_free_id` gives back for each mount, those included whose sus id is lost), `FakeIdsDistinct`, `CopyKeepsHidden` | one task of each domain, four mounts (two in a namespace and their two copies), two namespaces besides the initial one, four ordinary ids (0 to 3) and two sus ids, so that ids are reused |
| `mnt_id_spoofed` | finding: what a comment of `mnt_free_id` says fails | as `mnt_id` |
| `mount_hiding` | `GroupsSound` (type, exact allocators), `StatfsNearest`, `StatfsEnds`, `UnmountedFreed` | three mounts (a hidden mount on a hidden mount on the root), one climb, one tool, one ordinary group id and two sus ones, one move during a climb, one refused mount; the two safety properties are proved for any number of mounts and moves |
| `sus_mount` | type invariant (who holds the lock is at a step that will give it back), `SearchFindsAcked`, `LegitNotFlagged` | two tools (a race on one path needs two), one path with a mount made at boot and two devices for the commands, a second path to move to, two mounters with memory for one mount (what one has made may be unmounted and its memory reused by the other), two entries, two inodes; the constraint `Races`: two tasks in the kernel at a time; two tools race over the mounts made at boot, a tool and anybody who changes the mounts with one entry, two mounters with an empty list; tools, mounters and devices are symmetric |
| `try_umount` | type invariant, `DuplicatesBounded`, `HiddenFromApp`, `WalkEnds` | one bind mounter, one tool, one app, a path and one below it, two mounts, three list entries, modes 0 and an unknown one (2) from the tool, detach from the hook: enough for nested mounts added in either order, covered mounts and an entry half linked or added during the walk |
| `path_hide` | `LocksSound`, `HiddenFromApp`, `OthersUnaffected`, `LockGranted` | one app and one other task, two inodes (a file and its successor), memory for two dentries, one early return of each kind that leaves something behind |
| `uname` | `NeverUnset`, `ImplementsRegister` | two writers (two to overlap), one reader (readers do not affect one another), one string besides "default" and the empty one |
| `commands` | type invariant, `QuietExact`, `NoOopsUnlessLost`, `BuffersBounded`, `SusSuAgree`, `ImplementsRegister` | two tasks that issue any of the three commands, one reader, three buffers (one more than can be leaked), one text besides the empty one |
| `build` | type invariant, `AppliedIsWhole`, `ImagesMatchConfig`, `SuccessIsThisBuild` | all scripts in any order, two hooks (one to be stopped between them), two successful builds (an old image and a new one), one stopped script |
| `build_corrupt` | finding: `CorruptIsNotCopied` fails | five hooks, nothing stopped |

Fairness. `try_umount`, `path_hide`, `mount_hiding` and `hlist_walk` have liveness properties under
`FairSpec`; the other runs use none. A thread inside the kernel goes on (weak fairness on its steps).
An rwsem (`namespace_sem`, the directory's lock, `s_umount`) is handed to its waiters in turn (strong
fairness on the step that needs it). An unused mount is freed although it is taken into use again
now and then (strong fairness on `free_vfsmnt`, whose last reference is put by whoever drops it). Of
`hlist_walk` only the reader is fair: a walk ends whatever the commands do, also if they stop half
way. Nobody is assumed to issue a command, to mount, to look up or to be forked.

Deadlock is not checked in three runs: in `path_hide` an early return may leave the directory locked
for good, in `commands` a task can die on a NULL pointer with the lock held, and `try_umount` comes
to rest at its bounds on mounts and entries once the app's walk is over.

### Findings

* `mnt_id_spoofed`: `mnt_free_id` takes a backup to be the original id of `mnt_id_ida` (patch
  404-409); a hidden mount cloned by zygote has its sus id as the backup (557-564, 586-589). The
  clone is also shown, as its visible id is ordinary.
* `build_corrupt`: `2-apply-patches.sh` looks for `DEFAULT_SUS_MNT_ID` in `susfs.h` (line 105); the
  name is defined in `susfs_def.h`. Every run of the script ends with "susfs.h corrupt", and the
  workflow stops there.

### Seen while modelling

What the models reach and no text of the repository speaks about clearly enough to call it a
divergence; properties name these cases as exceptions where they bear on them.

* Registries: inode numbers are compared across filesystems, so a file of a tmpfs with the number
  of a registered file is hidden too, although tmpfs paths are refused (`susfs.c` 48-50, 133); of
  two pathnames with one number the newest entry counts for both. A flagged inode has no entry while
  it is registered again, and none after a registration that failed: an app's stat then returns fields
  that nothing has set (patch 1181). A walk whose node is removed under it misses the rest of the bucket, as `hash_del` clears the
  node's pointer; `kfree` without a grace period lets it read freed memory.
* Mounts: the mounts of an unshare by KernelSU own no id, except a mount of visible id 0, which
  gets one that nothing ever gives back (patch 475 against 391-392); nor does the sus id of a mount
  that zygote has numbered come back, as the finding shows. `FreesOwnId` states both, and that there
  is no third case. A bind mount that failed
  registers its target all the same (599-617), and the walk for an app unmounts whatever was
  mounted there, as it does whatever has been mounted at the path of an entry whose bind mount is
  gone. A climb of statfs on a hidden mount that is its own parent does not end. An
  ordinary mount on a hidden one shows the hidden parent's id in mountinfo (1075). A walk that meets
  a half-linked entry may unmount its path more than once.
* Flags: the hook behind `do_mount` looks the pathname up again (`susfs.c` 280) and flags what it
  finds, with no test of the group. When the new mount has been unmounted or covered in between, or
  was only moved there, that may be a legit mount, which the comment at 155 wants left alone; so it
  may when a mount becomes shared between test and flag. `LegitNotFlagged` shows that these are the
  only cases.
* Path lookup: the early return of `lookup_slow` keeps the directory's lock, that of
  `filename_lookup` a reference to the path, that of `vfs_ustat` the superblock's lock; an app's
  open with O_CREAT and O_EXCL of a hidden file says EEXIST, and so does its mkdir if the name was
  hidden between `d_lookup` and the test of `filename_create`; an app's lookup of a hidden name adds a
  second dentry, by which the name may still be found after it was unlinked.
* Commands: a first caller of the command line whose `kmalloc` fails overwrites the pointer of
  another, and who follows it then oopses; a copy from user space that faults leaves the shown text
  wiped or cut; switches of sus_su that overlap may leave mode and hooks in disagreement until the
  next lone switch.
* Scripts: step 5 of `2-apply-patches.sh` never adds `sus_su.o`, as the susfs patch has already added
  `susfs.o` (line 85, against the comment at line 12); a toolchain whose extraction was stopped after
  the compiler counts as extracted (`0b-fetch-clang.sh` 14, `0c-fetch-gcc.sh` 23); the build tag is
  only appended to a Makefile without `EXTRAVERSION` (`4-build.sh` 76, against README.md 86).

## Proofs

TLAPS checks every proof; each theorem is about the specification of its module and holds for all
values of the constants that satisfy the module's named assumption.

* **`SusHlistProofs`** (any tasks, pathnames, inodes, numbers, hash function): `TypeCorrect`,
  `DuplicatesBoundedCorrect`, `RegisteredCorrect`, `FlagPrecedesEntryCorrect`,
  `LastCommandEffectiveCorrect`. The bound on
  duplicates is not inductive alone: the invariant counts the entries of a pathname together with
  the tasks that are past their deletion and will insert, which a removal and an insertion keep below
  the number of tasks; the first lemmas have the facts about positions in a sequence this needs. A
  registered pathname has an entry or a task that is about to insert one, whatever updates of it
  fail. The inode of an entry, and
  of every entry about to be made, is flagged or was evicted. `LastCommandEffective` is not
  inductive, as it is silent about an inode that was evicted or whose number is claimed by a command
  under way, and both may end; `NewestAcked` always holds: once nobody is between a deletion and an
  insertion, the newest entry of a pathname is that of the command that returned 0 last. The newest
  entry of a number that only pathnames at rest claim is therefore the one acknowledged for one of
  them (`FirstClaim`).
* **`SusHlistProofs`**, on `HlistWalk` (any commands, readers, nodes and keys): `BucketSoundCorrect`,
  `FoundWasThereCorrect`, `NeverMissedCorrect`, from one invariant, `HWInv`. What a walk can reach
  would ask for induction along the pointers. Instead the invariant claims a rank for every node, such
  that the head points to the highest node of the chain and each node to the next lower one
  (`Ordered`): a push gives the new node a rank above all others, a removal keeps the ranks of the rest,
  though for two stores the removed node's own pointer leads into the chain or nowhere
  (`PointersInv`). That a walk from the head meets the whole chain follows with the least element of
  the ranks. A walk that read no foreign memory stands on a linked node and has in `had` every node
  with its number that it could meet (`ReadersInv`); one that left no node under removal has all that
  stayed below it in rank (`Ahead`), so that at its end nothing stayed (`MissedInv`).
* **`MntIdProofs`** (any mounts, namespaces, tasks, ids): everything the run `mnt_id` checks.
  `Invariance` rests on two parts. `Places` says where mounts are, whatever their ids: listed mounts
  are attached and listed once, the copies made so far and the mounts waiting to be attached are new
  and distinct, and every task's namespace keeps a mount. `Names` says what the ids of a mount tell
  about the id it owns: the allocators hold exactly what is owned, the hints pass over nothing that is
  free, and what `mnt_free_id` concludes from the visible id, the backup and the unshare mark is what
  the allocation was, but for the sus ids of marked mounts and of those zygote has numbered, for which
  `Tells` says what it concludes instead. They give `IdsSoundCorrect` and `FreesOwnIdCorrect`. `Numbers`, on top, says
  that the counter of a zygote is above every number in its namespace and among its copies, which
  gives `FakeIdsDistinctCorrect`; `Mirror`, that the copies made so far are hidden where their
  originals are, gives `CopyKeepsHiddenCorrect`.
* **`MntIdProofs`**, on `SusMount` (any paths, mounts, inodes, tools, mounters and requests; no mount
  is made twice at boot): `SMTypeCorrect`, `SearchFindsAckedCorrect`, `LegitNotFlaggedCorrect`,
  from `SMInv`. `SMTyped` has the types, and that the lock is only held at steps that lead to its
  release. `FirstTells` is about the first entry of a path, which no append changes: it has the device
  of the command that holds the lock or, if none does, of one that returned 0 since the path was last
  at rest; a command that appends beside the first one to return can only have started when there was
  no entry at all. `SMGroups` says that the mount a command has tested is not legit unless its group or
  place has changed since, and that a mount a task has made is mounted and not legit. An earlier form
  of the model kept `made` after the unmount; the last part was not inductive then, and with two
  mounters `LegitNotFlagged` itself failed, through the reuse of a mount's memory.
* **`MountHideProofs`** (any mounts, apps, tools, group ids): `GroupsSoundCorrect`. Only mounts in
  the tree have a group (`NoGroupOutside`), and each allocator holds exactly the ids of its groups, with a
  hint that stays within its range (`GroupsInv`); without the first, an unmounted mount could keep
  alive an id that its group has given back. `StatfsNearestCorrect`, the property of the climb: each
  step of the kernel is one of four kinds of change of the tree (`Mounted`, `Moved`, `Unmounted`,
  `Freed`) or leaves it alone, and one lemma per kind says what it does to the ways up (`UpIn`, the
  least set that holds a mount and the parents of its hidden members). The tree stays `Rooted` and
  `Acyclic`; the second is what a move needs: if the mount that is moved is above a climb, the climb
  stays on the way of the file's mount. `WalkOK` is the invariant of a climb: it is on the way up from
  the file's mount while nothing has moved, and after one event at a mount from which the way up ends at
  mounts that the history has.
* **`TryUmountProofs`** (any paths, mounters, tools, apps): `TypeCorrect`, `ListsCorrect`,
  `DuplicatesBoundedCorrect`, `HiddenFromAppCorrect`. The invariant again counts the entries of a path
  and those about to append it; it is inductive with `ListsOK`, by which only the holder of
  `namespace_sem` is in the hook of `do_loopback`, so all mounters together add one. That an app is
  left no bind mount follows from `HiddenInv`: every bind mount of the mounters' namespace has an entry or
  a mounter still in its hook, so that a copy has an entry for each mount it must lose; a walk that has
  not tried a path yet has the path's entry before it, half-linked entries included; and an attempt that
  finds the mount takes it away or excuses it.
* **`PathHideProofs`** (any apps, other tasks, inodes, dentries): `LocksSoundCorrect`,
  `HiddenFromAppCorrect`, `OthersUnaffectedCorrect`. Every step acquires a lock, releases it, abandons it
  with one more early return counted, or leaves the locks alone (`LockKinds`), so that the count of a lock
  is that of the tasks under it and of the early returns (`LocksInv`). The dentries of the name are of
  the file, of hidden inodes or, if there is no file, negative (`ChainInv`); while the name is hidden
  an app comes by no dentry but one it makes itself, of the hidden inode (`SureInv`), and each operation
  tests that inode before it tells of it. That nobody else is looking the name up under the lock while a task changes the directory
  (`Excludes`) keeps what was looked up in the chain. Apps add second dentries only for a hidden file, so
  that all dentries agree until that file is unlinked (`AliasInv`).
* **`SpoofUnameProofs`** (any writers, readers, strings): `TypeCorrect`, `NeverUnsetCorrect`,
  `QuietReadExactCorrect`, `RegisterImplemented`. The second rests on three parts: once `release` is
  set a piece is unset only while the lock is held; the first writer sets the pieces in order; a
  reader that saw the lock free after a set `release` knows that all pieces are set. The third says
  that what a reader has copied is what `my_uname` holds as long as no writer has had the lock since
  it began. With it every step maps to a step of `SafeRegister` or to a stutter.
* **`ToolCommandsProofs`** (any tasks, readers, buffers, texts): `TypeCorrect`, `QuietExactCorrect`,
  `NoOopsCorrect`, `BuffersBoundedCorrect`, `SusSuAgreeCorrect`, `RegisterImplemented`. As long as no
  failed `kmalloc` has dropped the buffer, a task that is past its allocation keeps the pointer set,
  nobody is dead, and a buffer that was replaced before it was written has a command that will write
  its successor; with that, what is shown between commands is what was committed. The number of
  buffers and of tasks about to allocate one stays below the number of tasks, since a task that has
  allocated finds the pointer set ever after. A lone switch of sus_su has seen the mode that it
  changes, and every store of it brings one of the three variables to the new mode.
* **`BuildPipelineProofs`** (any hooks, builds, stops, choice of scripts): `TypeCorrect`,
  `AppliedIsWholeCorrect`, `ImagesMatchConfigCorrect`, `SuccessIsThisBuildCorrect`,
  `OneImageInZipCorrect` (proved only, like the type invariant of `SpoofUname`: no run repeats it). Each
  invariant says what holds at the points of a script that lead to the
  property (`Applying`, `Imaged`, `Building`, `Packing`); `Arrivals` says from which step a point is
  reached, `Frames` what each script leaves alone.

## What is only model-checked, and what is not modelled

Only model-checked: all liveness, which is beyond the prover (`WalkEnds` of two modules,
`StatfsEnds`, `UnmountedFreed`, `LockGranted`). Every safety property of a passing run is a theorem.

Abstracted: a walk of a hash bucket is one step of `SusHlist`; memory is sequentially consistent,
but for the two cases that `HlistWalk` takes as undefined; the error path of `alloc_vfsmnt` is not
in the repository; ordinary mount ids stay below 100000, and what ordinary group ids above 999 do is
excepted from `GroupsSound` (`overflowed`); that a sleeping call under a spinlock may hang is about
the scheduler and not in the models, which have the lock held throughout; names and attributes are
atoms; in `BuildPipeline`, the loop of `scripts/config` is one step, and files that `.rej` leftovers
of older trees would add are not kept. Who reads the sus_mount list is not in the repository: nothing
but its own command does, and `SearchFindsAcked` is about what its search finds.

Not modelled: `link_path_walk`'s test in the middle of a path, and the tests of `may_follow_link`,
`may_linkat` and `may_create_in_sticky`, at which nothing is held; the three show functions of
`/proc/pid/mounts` and the inotify fdinfo, stateless tests and formatting; `sus_su.c`, which is
never compiled (its object is not in the Makefile, the header it includes is not in the repository,
nothing calls it); overlayfs hiding (compiled out); kallsyms hiding (stateless); the KernelSU call
sites (their handlers are fetched at build time); the AnyKernel3 installer (vendored).

## Plan

1. A refinement from `HlistWalk` to the one-step walks of `SusHlist`, for walks that are not cut short.
2. A bound on duplicates in the sus_mount list: at most one entry of a path for each tool.
3. A composition of `MntId` and `TryUmount`: what an app forked by zygote sees of a hidden mount.
