------------------------------ MODULE MountHide ------------------------------
(***************************************************************************)
(* Hidden mounts, those with an mnt_id from DEFAULT_SUS_MNT_ID up, in the    *)
(* mount tree: the peer group ids they get and give back, the walk up the   *)
(* tree by which statfs and /proc/<pid>/fdinfo answer an app, and the       *)
(* command that registers a mount point.                                    *)
(*                                                                         *)
(* The tree and the groups change under namespace_sem, one action each.     *)
(* The walk takes no lock, and no reference to the mounts it passes.  What   *)
(* ids the mounts have is MntId's subject; here a mount is hidden or not.    *)
(***************************************************************************)
EXTENDS Integers, FiniteSets

CONSTANTS
  Mounts,   \* struct mount objects
  Root,     \* the root of the namespace
  Apps,     \* tasks marked TASK_STRUCT_NON_ROOT_USER_APP_PROC
  Tools,    \* KernelSU processes that issue CMD_SUSFS_ADD_SUS_MOUNT
  DEFAULT_SUS_MNT_GROUP_ID,
  MaxGroupId, \* bound on the group ids
  MaxMoves,   \* bound on the mounts moved during a walk
  MaxRefused, \* bound on the mounts refused
  None

ASSUME MountHideAssumption ==
  /\ Root \in Mounts /\ None \notin Mounts
  /\ DEFAULT_SUS_MNT_GROUP_ID \in Nat \ {0, 1} /\ MaxGroupId \in Nat
  /\ DEFAULT_SUS_MNT_GROUP_ID < MaxGroupId

GroupIds == 1..MaxGroupId

VARIABLES
  stage, mnt_parent, \* of a mount: where it is in its life, and its parent
  sus,               \* the mounts with mnt_id >= DEFAULT_SUS_MNT_ID
  mnt_group_id,      \* 0: no peer group
  mnt_group_ida, mnt_group_start,
  susfs_mnt_group_ida, susfs_mnt_group_start,
  file,         \* of an app: the mount its statfs is about
  at,           \* of an app: the mount that its walk is at
  path,         \* of a tool: the mount it has a reference to
  pinned,       \* the mounts with a reference that nobody will put
  overflowed,   \* history: mnt_group_ida has handed out a sus group id
  refused,      \* history: the mounts the command refused
  nearest,      \* history, of an app: the nearest ordinary ancestors that the
                \* file's mount has had during the walk
  moved,        \* history, of an app: how often a mount was moved meanwhile, or
                \* the file's one unmounted
  stray         \* history: the apps whose walk stood on a mount that was freed

tree   == <<stage, mnt_parent, sus>>
idas   == <<mnt_group_ida, mnt_group_start, susfs_mnt_group_ida, susfs_mnt_group_start>>
groups == <<mnt_group_id, idas, overflowed>>
walks  == <<file, at, stray>>
past   == <<nearest, moved>>
tools  == <<path, pinned, refused>>
vars   == <<tree, groups, walks, past, tools>>

Attached == {m \in Mounts : stage[m] = "attached"}
Free     == {m \in Mounts : stage[m] = "free"}

Init ==
  /\ stage = [m \in Mounts |-> IF m = Root THEN "attached" ELSE "free"]
  /\ mnt_parent = [m \in Mounts |-> m] /\ sus = {}
  /\ mnt_group_id = [m \in Mounts |-> 0]
  /\ mnt_group_ida = {} /\ mnt_group_start = 1
  /\ susfs_mnt_group_ida = {} /\ susfs_mnt_group_start = DEFAULT_SUS_MNT_GROUP_ID
  /\ file = [a \in Apps |-> None] /\ at = [a \in Apps |-> None]
  /\ stray = {}
  /\ path = [t \in Tools |-> None]
  /\ pinned = {} /\ refused = {} /\ overflowed = FALSE
  /\ nearest = [a \in Apps |-> {}] /\ moved = [a \in Apps |-> 0]

-----------------------------------------------------------------------------
(* The tree as a whole: what leads up from a mount.                          *)

\* m, and with each of some mounts on the way its parent.
Up(m, some) ==
  {x \in Mounts : \A S \in SUBSET Mounts :
                    m \in S /\ (\A y \in S \cap some : mnt_parent[y] \in S) => x \in S}

\* The mounts whose way up leads through m, and m itself.
Below(m) == {x \in Mounts : m \in Up(x, Mounts)}

\* The walk sees the parents one by one.  For the history: where one that began at
\* m would end, none if hidden mounts are all that is above m.
NearestOrdinary(m) == Up(m, sus) \ sus

Watched ==
  nearest' = [a \in Apps |-> IF at[a] = None THEN nearest[a]
                             ELSE nearest[a] \cup NearestOrdinary(file[a])']

-----------------------------------------------------------------------------
(* Peer group ids.                                                          *)

FirstFree(ida, start, id) ==
  id >= start /\ id \notin ida /\ \A j \in start..(id - 1) : j \in ida

(* mnt_alloc_group_id chooses the allocator by the mount's id.  Bound: of    *)
(* the ordinary ids only one goes beyond the proper ones.                    *)
mnt_alloc_group_id(hidden, id) ==
  \/ /\ hidden /\ FirstFree(susfs_mnt_group_ida, susfs_mnt_group_start, id)
     /\ susfs_mnt_group_ida' = susfs_mnt_group_ida \cup {id}
     /\ susfs_mnt_group_start' = id + 1
     /\ UNCHANGED <<mnt_group_ida, mnt_group_start, overflowed>>
  \/ /\ ~hidden /\ id <= DEFAULT_SUS_MNT_GROUP_ID /\ FirstFree(mnt_group_ida, mnt_group_start, id)
     /\ mnt_group_ida' = mnt_group_ida \cup {id}
     /\ mnt_group_start' = id + 1
     /\ overflowed' = (overflowed \/ id >= DEFAULT_SUS_MNT_GROUP_ID)
     /\ UNCHANGED <<susfs_mnt_group_ida, susfs_mnt_group_start>>

\* Mutant: an id goes back to the allocator that the mount's id names.
IsSusGroup_by_mount(id) == \E m \in sus : mnt_group_id[m] = id

\* mnt_release_group_id chooses it by the group's id.
IsSusGroup(id) == id >= DEFAULT_SUS_MNT_GROUP_ID

\* Each id that is released lowers the hint from start if it is below it.
Lowered(start, ids, hint) ==
  /\ hint \in {start} \cup ids
  /\ \A id \in {start} \cup ids : hint <= id

(* change_mnt_propagation(m, MS_PRIVATE) for each of some mounts: the last   *)
(* peer of a group releases its id.                                          *)
make_private(some) ==
  LET left     == {mnt_group_id[m] : m \in Mounts \ some}
      released == {mnt_group_id[m] : m \in some} \ (left \cup {0})
      susIds   == {id \in released : IsSusGroup(id)}
  IN /\ mnt_group_id' = [m \in Mounts |-> IF m \in some THEN 0 ELSE mnt_group_id[m]]
     /\ susfs_mnt_group_ida' = susfs_mnt_group_ida \ susIds
     /\ Lowered(susfs_mnt_group_start, susIds, susfs_mnt_group_start')
     /\ mnt_group_ida' = mnt_group_ida \ (released \ susIds)
     /\ Lowered(mnt_group_start, released \ susIds, mnt_group_start')
     /\ UNCHANGED overflowed

IsShared(m) == mnt_group_id[m] # 0

\* do_change_type(MS_SHARED); without memory for the id nothing changes.
do_make_shared(m) ==
  /\ m \in Attached /\ ~IsShared(m)
  /\ \E id \in GroupIds :
       /\ mnt_alloc_group_id(m \in sus, id)
       /\ mnt_group_id' = [mnt_group_id EXCEPT ![m] = id]
  /\ UNCHANGED <<tree, walks, past, tools>>

do_make_private(m) ==
  /\ m \in Attached /\ IsShared(m)
  /\ make_private({m})
  /\ UNCHANGED <<tree, walks, past, tools>>

\* Before the walk of the list of paths to unmount, the hidden mounts of the
\* app's namespace become private: any of the attached ones may be there.
susfs_run_try_umount_for_current_mnt_ns ==
  /\ \E here \in SUBSET (Attached \cap sus) :
       /\ \E m \in here : IsShared(m)
       /\ make_private(here)
  /\ UNCHANGED <<tree, walks, past, tools>>

-----------------------------------------------------------------------------
(* The tree.                                                                *)

(* do_mount: a new mount, or with MS_BIND a clone of an old one, goes on p.  *)
(* A KernelSU process makes hidden mounts.  A clone is a peer of its         *)
(* original; what goes on a shared mount gets a group if it has none.  The   *)
(* copies for the peers of p are clones that are mounted there, and so are   *)
(* further steps of this kind, as is the umount of such copies below.        *)
do_mount(ksu, old, p) ==
  /\ p \in Attached /\ old \in Attached \cup {None} /\ Free # {}
  /\ LET m         == CHOOSE free \in Free : TRUE
         inherited == IF old = None THEN 0 ELSE mnt_group_id[old]
         invent    == IsShared(p) /\ inherited = 0
     IN /\ \/ /\ invent
              /\ \E id \in GroupIds :
                   /\ mnt_alloc_group_id(ksu, id)
                   /\ mnt_group_id' = [mnt_group_id EXCEPT ![m] = id]
           \/ /\ ~invent
              /\ mnt_group_id' = [mnt_group_id EXCEPT ![m] = inherited]
              /\ UNCHANGED <<idas, overflowed>>
        /\ stage' = [stage EXCEPT ![m] = "attached"]
        /\ mnt_parent' = [mnt_parent EXCEPT ![m] = p]
        /\ sus' = IF ksu THEN sus \cup {m} ELSE sus
  /\ UNCHANGED <<walks, past, tools>>

\* A mount that is moved comes from a private mount.  Bound: it goes to one.
do_move_mount(m, p) ==
  /\ \A a \in Apps : moved[a] < MaxMoves
  /\ m \in Attached \ {Root} /\ p \in Attached \ Below(m) /\ p # mnt_parent[m]
  /\ ~IsShared(mnt_parent[m]) /\ ~IsShared(p)
  /\ mnt_parent' = [mnt_parent EXCEPT ![m] = p]
  /\ moved' = [a \in Apps |-> IF at[a] = None THEN 0 ELSE moved[a] + 1]
  /\ UNCHANGED <<stage, sus, groups, walks, tools>>
  /\ Watched

IsBusy(m) ==
  \/ m \in pinned
  \/ \E a \in Apps : file[a] = m
  \/ \E t \in Tools : path[t] = m

\* umount_tree takes a mount and what is below it apart.  Without MNT_DETACH
\* the mount must not be in use.
do_umount(m, detach) ==
  /\ m \in Attached \ {Root}
  /\ LET gone == Below(m)
     IN /\ detach \/ (~IsBusy(m) /\ gone = {m})
        /\ stage' = [x \in Mounts |-> IF x \in gone THEN "detached" ELSE stage[x]]
        /\ mnt_parent' = [x \in Mounts |-> IF x \in gone THEN x ELSE mnt_parent[x]]
        /\ make_private(gone)
        /\ moved' = [a \in Apps |-> IF at[a] # None /\ file[a] \in gone THEN moved[a] + 1 ELSE moved[a]]
  /\ UNCHANGED <<sus, walks, tools>>
  /\ Watched

\* The last reference to a mount outside the tree is put.
free_vfsmnt(m) ==
  /\ stage[m] = "detached" /\ ~IsBusy(m)
  /\ stage' = [stage EXCEPT ![m] = "free"]
  /\ sus' = sus \ {m}
  /\ stray' = stray \cup {a \in Apps : at[a] = m}
  /\ refused' = refused \ {m}
  /\ UNCHANGED <<mnt_parent, groups, file, at, moved, tools>>
  /\ Watched

-----------------------------------------------------------------------------
(* vfs_statfs and seq_show: from the mount of the file upwards to one with   *)
(* an ordinary id.  An open file may be on a mount that is unmounted.        *)

\* Mutant: the walk begins at the parent.
vfs_statfs_above(a, m) ==
  /\ at[a] = None /\ stage[m] # "free"
  /\ file' = [file EXCEPT ![a] = m]
  /\ at' = [at EXCEPT ![a] = mnt_parent[m]]
  /\ nearest' = [nearest EXCEPT ![a] = NearestOrdinary(m)]
  /\ UNCHANGED <<tree, groups, stray, moved, tools>>

vfs_statfs(a, m) ==
  /\ at[a] = None /\ stage[m] # "free"
  /\ file' = [file EXCEPT ![a] = m]
  /\ at' = [at EXCEPT ![a] = m]
  /\ nearest' = [nearest EXCEPT ![a] = NearestOrdinary(m)]
  /\ UNCHANGED <<tree, groups, stray, moved, tools>>

\* The answer is about the mount that the walk is at when it returns.
Return(a) ==
  /\ at' = [at EXCEPT ![a] = None]
  /\ nearest' = [nearest EXCEPT ![a] = {}]
  /\ moved' = [moved EXCEPT ![a] = 0]
  /\ stray' = stray \ {a}
  /\ file' = [file EXCEPT ![a] = None]
  /\ UNCHANGED <<tree, groups, tools>>

\* Mutant: the loop stays at a mount that another hidden one is the parent of.
go_up_stuck(a) ==
  /\ at[a] # None /\ a \notin stray /\ at[a] \in sus
  /\ at' = [at EXCEPT ![a] = IF mnt_parent[@] \in sus THEN @ ELSE mnt_parent[@]]
  /\ UNCHANGED <<tree, groups, file, stray, past, tools>>

go_up(a) ==
  /\ at[a] # None /\ a \notin stray /\ at[a] \in sus
  /\ at' = [at EXCEPT ![a] = mnt_parent[@]]
  /\ UNCHANGED <<tree, groups, file, stray, past, tools>>

found(a) ==
  /\ at[a] # None /\ a \notin stray /\ at[a] \notin sus
  /\ Return(a)

\* What a walk does that reads freed memory is undefined: it may go on for
\* ever, or return with anything.
use_after_free(a) == a \in stray /\ Return(a)

walk(a) == go_up(a) \/ found(a)

-----------------------------------------------------------------------------
(* susfs_update_sus_mount_inode, the part of CMD_SUSFS_ADD_SUS_MOUNT that    *)
(* touches mounts.  The flag it sets is read by ustat alone (see PathHide),   *)
(* the list of the command by nothing but the command.                       *)
kern_path(t) ==
  /\ path[t] = None /\ Cardinality(refused) < MaxRefused
  /\ \E m \in Attached : path' = [path EXCEPT ![t] = m]
  /\ UNCHANGED <<tree, groups, walks, past, pinned, refused>>

IsLegit(m) == mnt_group_id[m] > 0 /\ mnt_group_id[m] < DEFAULT_SUS_MNT_GROUP_ID

\* A mount in an ordinary peer group is refused, and keeps the reference.
refuse(t) ==
  /\ path[t] # None /\ IsLegit(path[t])
  /\ pinned' = pinned \cup {path[t]}
  /\ refused' = refused \cup {path[t]}
  /\ path' = [path EXCEPT ![t] = None]
  /\ UNCHANGED <<tree, groups, walks, past>>

\* Mutant: the reference is kept on this way out as well.
path_put_forgotten(t) ==
  /\ path[t] # None /\ ~IsLegit(path[t])
  /\ pinned' = pinned \cup {path[t]}
  /\ path' = [path EXCEPT ![t] = None]
  /\ UNCHANGED <<tree, groups, walks, past, refused>>

path_put(t) ==
  /\ path[t] # None /\ ~IsLegit(path[t])
  /\ path' = [path EXCEPT ![t] = None]
  /\ UNCHANGED <<tree, groups, walks, past, pinned, refused>>

-----------------------------------------------------------------------------
Next ==
  \/ \E m \in Mounts : do_make_shared(m) \/ do_make_private(m) \/ free_vfsmnt(m)
  \/ susfs_run_try_umount_for_current_mnt_ns
  \/ \E ksu \in BOOLEAN, old \in Mounts \cup {None}, p \in Mounts : do_mount(ksu, old, p)
  \/ \E m, p \in Mounts : do_move_mount(m, p)
  \/ \E m \in Mounts, detach \in BOOLEAN : do_umount(m, detach)
  \/ \E a \in Apps : walk(a) \/ use_after_free(a)
  \/ \E a \in Apps, m \in Mounts : vfs_statfs(a, m)
  \/ \E t \in Tools : kern_path(t) \/ refuse(t) \/ path_put(t)

Spec == Init /\ [][Next]_vars

\* Whoever is inside the kernel goes on, and unused mounts are freed.
FairSpec ==
  /\ Spec
  /\ \A a \in Apps : WF_vars(walk(a))
  /\ \A t \in Tools : WF_vars(refuse(t) \/ path_put(t))
  /\ \A m \in Mounts : SF_vars(free_vfsmnt(m))

-----------------------------------------------------------------------------
\* The type of the state.
TypeOK ==
  /\ stage \in [Mounts -> {"free", "attached", "detached"}]
  /\ mnt_parent \in [Mounts -> Mounts] /\ sus \subseteq Mounts
  /\ mnt_group_id \in [Mounts -> GroupIds \cup {0}]
  /\ mnt_group_ida \subseteq GroupIds /\ mnt_group_start \in 1..(MaxGroupId + 1)
  /\ susfs_mnt_group_ida \subseteq GroupIds
  /\ susfs_mnt_group_start \in DEFAULT_SUS_MNT_GROUP_ID..(MaxGroupId + 1)
  /\ file \in [Apps -> Mounts \cup {None}] /\ at \in [Apps -> Mounts \cup {None}]
  /\ path \in [Tools -> Mounts \cup {None}]
  /\ refused \subseteq pinned /\ pinned \subseteq Mounts

InUse(ids) == {mnt_group_id[m] : m \in Mounts} \cap ids

\* As long as the ordinary group ids stay below DEFAULT_SUS_MNT_GROUP_ID, each
\* allocator holds exactly the ids of its groups, although a group is allocated
\* by what its first mount is and released by its id, and hidden and ordinary
\* mounts may be peers: no id leaks, and no two groups have the same one.
GroupIdsExact ==
  ~overflowed =>
    /\ mnt_group_ida = InUse(1..(DEFAULT_SUS_MNT_GROUP_ID - 1))
    /\ susfs_mnt_group_ida = InUse(DEFAULT_SUS_MNT_GROUP_ID..MaxGroupId)

\* The group ids, with the type of the state: the hint of the sus group ids is
\* never pulled down among the ordinary ones.
GroupsSound == TypeOK /\ GroupIdsExact

\* The mount an app's statfs describes was the nearest ordinary ancestor of the
\* file's mount at some moment of the call, unless two things happened meanwhile,
\* each the move of a mount or the unmounting of the file's own, or the walk stood
\* on a mount that was freed.
StatfsNearest ==
  [][\A a \in Apps :
       at[a] # None /\ at'[a] = None /\ a \notin stray /\ moved[a] < 2
         => at[a] \in nearest[a]]_vars

\* A walk comes to its end, unless a hidden mount is its own parent.
StatfsEnds ==
  \A a \in Apps :
    (at[a] # None) ~>
      \/ at[a] = None \/ a \in stray
      \/ at[a] \in sus /\ mnt_parent[at[a]] = at[a]

\* What has been unmounted and no statfs is about is freed in the end, unless the
\* command refused the mount for its peer group.
UnmountedFreed ==
  \A m \in Mounts :
    (stage[m] = "detached") ~>
      (stage[m] = "free" \/ m \in refused \/ \E a \in Apps : file[a] = m)
=============================================================================
