---------------------------- MODULE MountHideProofs ----------------------------
(***************************************************************************)
(* Theorems about MountHide.                                                *)
(*                                                                         *)
(* As long as mnt_group_ida has not handed out an id of the hidden groups,  *)
(* both allocators hold exactly the ids that the groups of the mounts have.  *)
(* What makes GroupsSound inductive is that a mount outside the tree has no  *)
(* group, so that a new mount joins one once.                                *)
(*                                                                         *)
(* The mount that an app's statfs describes was the nearest ordinary one.    *)
(* The invariant is that the walk of an app is on the way up from the file's *)
(* mount as long as nothing has moved, and on a way with the same end, or    *)
(* one that the file's has got since, after the first move.  It rests on a   *)
(* tree without circles, and on lemmas about what each kind of change of the *)
(* tree does to the ways up in it.                                           *)
(***************************************************************************)
EXTENDS MountHide, TLAPS

\* The ids of the two allocators.
OrdinaryGroupIds == 1..(DEFAULT_SUS_MNT_GROUP_ID - 1)
SusGroupIds      == DEFAULT_SUS_MNT_GROUP_ID..MaxGroupId

\* The part of the type of the state that is about groups.
GroupsType ==
  /\ mnt_group_id \in [Mounts -> GroupIds \cup {0}]
  /\ mnt_group_ida \subseteq GroupIds /\ mnt_group_start \in 1..(MaxGroupId + 1)
  /\ susfs_mnt_group_ida \subseteq GroupIds
  /\ susfs_mnt_group_start \in DEFAULT_SUS_MNT_GROUP_ID..(MaxGroupId + 1)

\* And the part that is about the tree, the walks and the command.
TreeType ==
  /\ stage \in [Mounts -> {"free", "attached", "detached"}]
  /\ mnt_parent \in [Mounts -> Mounts] /\ sus \subseteq Mounts
  /\ file \in [Apps -> Mounts \cup {None}] /\ at \in [Apps -> Mounts \cup {None}]
  /\ path \in [Tools -> Mounts \cup {None}]
  /\ refused \subseteq pinned /\ pinned \subseteq Mounts

\* The invariant of the groups, and its parts.
GroupsInv == GroupsType /\ GroupIdsExact

NoGroupOutside == \A m \in Mounts : stage[m] # "attached" => mnt_group_id[m] = 0

IInv == TreeType /\ NoGroupOutside /\ GroupsInv

\* GroupsSound is what the two parts of the type and GroupIdsExact say.
LEMMA Parts == GroupsSound <=> TreeType /\ GroupsInv
  BY DEF GroupsSound, GroupsInv, TypeOK, TreeType, GroupsType

-----------------------------------------------------------------------------
\* An allocation gives an id that is not in use, from the allocator's range.
LEMMA Allocated ==
  ASSUME GroupsInv, NEW hidden \in BOOLEAN, NEW id \in GroupIds, mnt_alloc_group_id(hidden, id)
  PROVE  /\ hidden => /\ id \in SusGroupIds \ susfs_mnt_group_ida
                      /\ susfs_mnt_group_ida' = susfs_mnt_group_ida \cup {id}
                      /\ UNCHANGED <<mnt_group_ida, overflowed>>
         /\ ~hidden => /\ mnt_group_ida' = mnt_group_ida \cup {id}
                       /\ id \notin mnt_group_ida
                       /\ UNCHANGED susfs_mnt_group_ida
                       /\ ~overflowed' => ~overflowed /\ id \in OrdinaryGroupIds
         /\ mnt_group_start' \in 1..(MaxGroupId + 1)
         /\ susfs_mnt_group_start' \in DEFAULT_SUS_MNT_GROUP_ID..(MaxGroupId + 1)
  <1> USE MountHideAssumption
          DEF GroupIds, GroupsInv, GroupsType, FirstFree, OrdinaryGroupIds, SusGroupIds
  <1>1. CASE hidden
    BY <1>1 DEF mnt_alloc_group_id
  <1>2. CASE ~hidden
    <2>1. /\ mnt_group_ida' = mnt_group_ida \cup {id} /\ mnt_group_start' = id + 1
          /\ id >= mnt_group_start /\ id \notin mnt_group_ida
          /\ UNCHANGED <<susfs_mnt_group_ida, susfs_mnt_group_start>>
      BY <1>2 DEF mnt_alloc_group_id
    <2>2. overflowed' = (overflowed \/ id >= DEFAULT_SUS_MNT_GROUP_ID)
      BY <1>2 DEF mnt_alloc_group_id
    <2>3. ~overflowed' => ~overflowed /\ ~(id >= DEFAULT_SUS_MNT_GROUP_ID)
      BY <2>2, Zenon
    <2> QED BY <1>2, <2>1, <2>3
  <1> QED BY <1>1, <1>2

\* A new group with one more member keeps the allocators exact.
LEMMA NewGroup ==
  ASSUME GroupsInv, NEW hidden \in BOOLEAN, NEW id \in GroupIds, NEW m \in Mounts,
         mnt_alloc_group_id(hidden, id),
         mnt_group_id[m] = 0,
         mnt_group_id' = [mnt_group_id EXCEPT ![m] = id]
  PROVE  GroupsInv'
  <1>1. GroupsType'
    BY Allocated DEF GroupsInv, GroupsType, mnt_alloc_group_id
  <1>2. ASSUME ~overflowed', NEW range, 0 \notin range
        PROVE  InUse(range)' = IF id \in range THEN InUse(range) \cup {id} ELSE InUse(range)
    BY <1>2 DEF GroupsInv, GroupsType, InUse
  <1>3. 0 \notin OrdinaryGroupIds /\ 0 \notin SusGroupIds
        /\ \A x \in GroupIds : x \in OrdinaryGroupIds <=> x \notin SusGroupIds
    BY MountHideAssumption DEF OrdinaryGroupIds, SusGroupIds, GroupIds
  <1>4. ASSUME ~overflowed'
        PROVE  /\ mnt_group_ida' = InUse(OrdinaryGroupIds)'
               /\ susfs_mnt_group_ida' = InUse(SusGroupIds)'
    <2>1. ~overflowed
      BY <1>4, Allocated
    <2>2. mnt_group_ida = InUse(OrdinaryGroupIds) /\ susfs_mnt_group_ida = InUse(SusGroupIds)
      BY <2>1 DEF GroupsInv, GroupIdsExact, OrdinaryGroupIds, SusGroupIds
    <2>3. InUse(OrdinaryGroupIds)' = IF id \in OrdinaryGroupIds
                                     THEN InUse(OrdinaryGroupIds) \cup {id}
                                     ELSE InUse(OrdinaryGroupIds)
      BY <1>2, <1>3, <1>4 DEF InUse, OrdinaryGroupIds
    <2>4. InUse(SusGroupIds)' = IF id \in SusGroupIds
                                THEN InUse(SusGroupIds) \cup {id} ELSE InUse(SusGroupIds)
      BY <1>2, <1>3, <1>4 DEF InUse, SusGroupIds
    <2>5. CASE hidden
      <3>1. id \in SusGroupIds /\ susfs_mnt_group_ida' = susfs_mnt_group_ida \cup {id}
            /\ UNCHANGED mnt_group_ida
        BY <2>5, Allocated
      <3>2. id \notin OrdinaryGroupIds
        BY <3>1, <1>3
      <3> QED BY <2>2, <2>3, <2>4, <3>1, <3>2
    <2>6. CASE ~hidden
      <3>1. id \in OrdinaryGroupIds /\ mnt_group_ida' = mnt_group_ida \cup {id}
            /\ UNCHANGED susfs_mnt_group_ida
        BY <2>6, <1>4, Allocated
      <3>2. id \notin SusGroupIds
        BY <3>1, <1>3
      <3> QED BY <2>2, <2>3, <2>4, <3>1, <3>2
    <2> QED BY <2>5, <2>6
  <1> QED BY <1>1, <1>4 DEF GroupsInv, GroupIdsExact, OrdinaryGroupIds, SusGroupIds

\* A mount that joins its original's group, or none, disturbs nothing.
LEMMA OldGroup ==
  ASSUME GroupsInv, NEW m \in Mounts, NEW g \in {mnt_group_id[x] : x \in Mounts} \cup {0},
         mnt_group_id[m] = 0,
         mnt_group_id' = [mnt_group_id EXCEPT ![m] = g],
         UNCHANGED <<idas, overflowed>>
  PROVE  GroupsInv'
  <1>1. g \in GroupIds \cup {0}
    BY DEF GroupsInv, GroupsType
  <1>2. GroupsType'
    BY <1>1 DEF GroupsInv, GroupsType, idas
  <1>3. ASSUME NEW range, 0 \notin range PROVE InUse(range)' = InUse(range)
    BY <1>3, <1>1 DEF GroupsInv, GroupsType, InUse
  <1>4. 0 \notin OrdinaryGroupIds /\ 0 \notin SusGroupIds
    BY MountHideAssumption DEF OrdinaryGroupIds, SusGroupIds
  <1>5. InUse(OrdinaryGroupIds)' = InUse(OrdinaryGroupIds) /\ InUse(SusGroupIds)' = InUse(SusGroupIds)
    BY <1>3, <1>4 DEF InUse, OrdinaryGroupIds, SusGroupIds
  <1> QED BY <1>2, <1>5 DEF GroupsInv, GroupIdsExact, OrdinaryGroupIds, SusGroupIds, idas

\* When mounts become private, the ids that nobody has any more, and no others,
\* go back, each to the allocator that it came from.
LEMMA Released ==
  ASSUME GroupsInv, NEW some \in SUBSET Mounts, make_private(some)
  PROVE  GroupsInv'
  <1> DEFINE left     == {mnt_group_id[m] : m \in Mounts \ some}
             released == {mnt_group_id[m] : m \in some} \ (left \cup {0})
             susIds   == {id \in released : IsSusGroup(id)}
  <1>1. /\ mnt_group_id' = [m \in Mounts |-> IF m \in some THEN 0 ELSE mnt_group_id[m]]
        /\ susfs_mnt_group_ida' = susfs_mnt_group_ida \ susIds
        /\ Lowered(susfs_mnt_group_start, susIds, susfs_mnt_group_start')
        /\ mnt_group_ida' = mnt_group_ida \ (released \ susIds)
        /\ Lowered(mnt_group_start, released \ susIds, mnt_group_start')
        /\ UNCHANGED overflowed
    BY DEF make_private
  <1>2. /\ left \subseteq GroupIds \cup {0} /\ released \subseteq GroupIds
        /\ released \subseteq {mnt_group_id[m] : m \in some}
        /\ {mnt_group_id[m] : m \in Mounts} = left \cup {mnt_group_id[m] : m \in some}
        /\ \A g \in {mnt_group_id[m] : m \in some} : g = 0 \/ g \in left \/ g \in released
        /\ \A g \in released : g # 0 /\ g \notin left
    BY DEF GroupsInv, GroupsType
  <1>3. /\ susIds \subseteq SusGroupIds
        /\ released \ susIds \subseteq OrdinaryGroupIds
        /\ 0 \notin OrdinaryGroupIds /\ 0 \notin SusGroupIds
    BY <1>2, MountHideAssumption DEF IsSusGroup, GroupIds, OrdinaryGroupIds, SusGroupIds
  <1>4. {mnt_group_id'[m] : m \in Mounts} \cup {0} = left \cup {0}
    BY <1>1
  <1> HIDE DEF left, released, susIds
  <1>5. susfs_mnt_group_start' \in DEFAULT_SUS_MNT_GROUP_ID..(MaxGroupId + 1)
        /\ mnt_group_start' \in 1..(MaxGroupId + 1)
    BY <1>1, <1>3, MountHideAssumption
       DEF Lowered, GroupsInv, GroupsType, OrdinaryGroupIds, SusGroupIds
  <1>6. mnt_group_id' \in [Mounts -> GroupIds \cup {0}]
    BY <1>1 DEF GroupsInv, GroupsType
  <1>7. GroupsType'
    BY <1>1, <1>5, <1>6 DEF GroupsInv, GroupsType
  <1>8. ASSUME ~overflowed'
        PROVE  /\ mnt_group_ida' = InUse(OrdinaryGroupIds)'
               /\ susfs_mnt_group_ida' = InUse(SusGroupIds)'
    <2>1. mnt_group_ida = InUse(OrdinaryGroupIds) /\ susfs_mnt_group_ida = InUse(SusGroupIds)
      BY <1>1, <1>8 DEF GroupsInv, GroupIdsExact, OrdinaryGroupIds, SusGroupIds
    <2>2. mnt_group_ida = (left \cup {mnt_group_id[m] : m \in some}) \cap OrdinaryGroupIds
          /\ susfs_mnt_group_ida = (left \cup {mnt_group_id[m] : m \in some}) \cap SusGroupIds
      BY <2>1, <1>2 DEF InUse
    <2>3. InUse(OrdinaryGroupIds)' = left \cap OrdinaryGroupIds
      <3>1. InUse(OrdinaryGroupIds)' = {mnt_group_id'[m] : m \in Mounts} \cap OrdinaryGroupIds
        BY DEF InUse, OrdinaryGroupIds
      <3> QED BY <3>1, <1>3, <1>4
    <2>4. InUse(SusGroupIds)' = left \cap SusGroupIds
      <3>1. InUse(SusGroupIds)' = {mnt_group_id'[m] : m \in Mounts} \cap SusGroupIds
        BY DEF InUse, SusGroupIds
      <3> QED BY <3>1, <1>3, <1>4
    <2>5. susIds \subseteq released /\ \A g \in released : g \in susIds \/ g \in OrdinaryGroupIds
      BY <1>3 DEF susIds
    <2>6. \A g \in released : g \in SusGroupIds => g \in susIds
      BY <1>2, <1>3, MountHideAssumption
         DEF susIds, IsSusGroup, SusGroupIds
    <2>7. mnt_group_ida' = left \cap OrdinaryGroupIds
      <3>1. OrdinaryGroupIds \cap SusGroupIds = {}
        BY MountHideAssumption DEF OrdinaryGroupIds, SusGroupIds
      <3>2. \A g \in OrdinaryGroupIds : g \in released \ susIds <=> g \in released
        BY <1>3, <3>1
      <3> QED BY <1>1, <1>2, <1>3, <2>2, <3>2
    <2>8. susfs_mnt_group_ida' = left \cap SusGroupIds
      BY <1>1, <1>2, <1>3, <2>2, <2>5, <2>6
    <2> QED BY <2>3, <2>4, <2>7, <2>8
  <1> QED BY <1>7, <1>8 DEF GroupsInv, GroupIdsExact, OrdinaryGroupIds, SusGroupIds

-----------------------------------------------------------------------------
LEMMA InitInv == Init => IInv
  <1> SUFFICES ASSUME Init PROVE IInv
    OBVIOUS
  <1>1. TreeType /\ GroupsType /\ NoGroupOutside
    BY MountHideAssumption DEF Init, TreeType, GroupsType, NoGroupOutside, GroupIds
  <1>2. InUse(OrdinaryGroupIds) = {} /\ InUse(SusGroupIds) = {}
    BY MountHideAssumption DEF Init, InUse, OrdinaryGroupIds, SusGroupIds
  <1> QED BY <1>1, <1>2 DEF Init, IInv, GroupsInv, GroupIdsExact, OrdinaryGroupIds, SusGroupIds

\* A step that leaves the groups alone.
LEMMA GroupsFrame == ASSUME GroupsInv, UNCHANGED groups PROVE GroupsInv'
  BY DEF GroupsInv, GroupsType, GroupIdsExact, InUse, groups, idas

\* A step that leaves the tree, the walks and the command alone.
LEMMA TreeFrame == ASSUME TreeType, UNCHANGED <<tree, walks, tools>> PROVE TreeType'
  BY DEF TreeType, tree, walks, tools

\* Mounts that become private, and what leaves the tree with them, have no group.
LEMMA PrivateOutside ==
  ASSUME NoGroupOutside, NEW some \in SUBSET Mounts, make_private(some),
         \A m \in Mounts \ some : stage'[m] = "attached" <=> stage[m] = "attached"
  PROVE  NoGroupOutside'
  BY DEF NoGroupOutside, make_private

\* Every step keeps the invariant of the groups.
LEMMA NextInv == IInv /\ [Next]_vars => IInv'
  <1> SUFFICES ASSUME TreeType, NoGroupOutside, GroupsInv, [Next]_vars
               PROVE  TreeType' /\ NoGroupOutside' /\ GroupsInv'
    BY DEF IInv
  <1>g. mnt_group_id \in [Mounts -> GroupIds \cup {0}]
    BY DEF GroupsInv, GroupsType
  <1>s. stage \in [Mounts -> {"free", "attached", "detached"}]
    BY DEF TreeType
  <1>1. ASSUME NEW m \in Mounts, do_make_shared(m)
        PROVE  TreeType' /\ NoGroupOutside' /\ GroupsInv'
    <2>1. PICK id \in GroupIds : /\ mnt_alloc_group_id(m \in sus, id)
                                 /\ mnt_group_id' = [mnt_group_id EXCEPT ![m] = id]
      BY <1>1 DEF do_make_shared
    <2>2. mnt_group_id[m] = 0 /\ stage[m] = "attached" /\ UNCHANGED <<tree, walks, tools>>
      BY <1>1 DEF do_make_shared, IsShared, Attached
    <2>3. GroupsInv'
      <3>1. CASE m \in sus
        <4>1. mnt_alloc_group_id(TRUE, id)
          BY <2>1, <3>1 DEF mnt_alloc_group_id
        <4> QED BY <4>1, <2>1, <2>2, NewGroup
      <3>2. CASE m \notin sus
        <4>1. mnt_alloc_group_id(FALSE, id)
          BY <2>1, <3>2 DEF mnt_alloc_group_id
        <4> QED BY <4>1, <2>1, <2>2, NewGroup
      <3> QED BY <3>1, <3>2
    <2>4. NoGroupOutside'
      BY <2>1, <2>2, <1>g DEF NoGroupOutside, tree
    <2> QED BY <2>2, <2>3, <2>4, TreeFrame
  <1>2. ASSUME NEW m \in Mounts, do_make_private(m)
        PROVE  TreeType' /\ NoGroupOutside' /\ GroupsInv'
    <2>1. {m} \in SUBSET Mounts /\ make_private({m}) /\ UNCHANGED <<tree, walks, tools>>
      BY <1>2 DEF do_make_private
    <2> QED BY <2>1, Released, TreeFrame, PrivateOutside DEF tree
  <1>3. ASSUME susfs_run_try_umount_for_current_mnt_ns
        PROVE  TreeType' /\ NoGroupOutside' /\ GroupsInv'
    <2>1. PICK here \in SUBSET (Attached \cap sus) : make_private(here)
      BY <1>3 DEF susfs_run_try_umount_for_current_mnt_ns
    <2>2. here \in SUBSET Mounts /\ UNCHANGED <<tree, walks, tools>>
      BY <1>3, <2>1 DEF Attached, susfs_run_try_umount_for_current_mnt_ns
    <2> QED BY <2>1, <2>2, Released, TreeFrame, PrivateOutside DEF tree
  <1>4. ASSUME NEW ksu \in BOOLEAN, NEW old \in Mounts \cup {None}, NEW p \in Mounts,
               do_mount(ksu, old, p)
        PROVE  TreeType' /\ NoGroupOutside' /\ GroupsInv'
    <2> DEFINE m         == CHOOSE free \in Free : TRUE
               inherited == IF old = None THEN 0 ELSE mnt_group_id[old]
               invent    == IsShared(p) /\ inherited = 0
    <2>1. m \in Free /\ m \in Mounts
      BY <1>4 DEF do_mount, Free
    <2>2. mnt_group_id[m] = 0
      BY <2>1 DEF NoGroupOutside, Free
    <2>3. /\ \/ /\ invent
                /\ \E id \in GroupIds :
                     /\ mnt_alloc_group_id(ksu, id)
                     /\ mnt_group_id' = [mnt_group_id EXCEPT ![m] = id]
             \/ /\ ~invent
                /\ mnt_group_id' = [mnt_group_id EXCEPT ![m] = inherited]
                /\ UNCHANGED <<idas, overflowed>>
          /\ stage' = [stage EXCEPT ![m] = "attached"]
          /\ mnt_parent' = [mnt_parent EXCEPT ![m] = p]
          /\ sus' = IF ksu THEN sus \cup {m} ELSE sus
          /\ UNCHANGED <<walks, tools>>
      BY <1>4 DEF do_mount
    <2>4. inherited \in {mnt_group_id[x] : x \in Mounts} \cup {0}
      OBVIOUS
    <2> HIDE DEF m, inherited, invent
    <2>5. GroupsInv'
      <3>1. CASE \E id \in GroupIds : /\ mnt_alloc_group_id(ksu, id)
                                      /\ mnt_group_id' = [mnt_group_id EXCEPT ![m] = id]
        BY <3>1, <2>1, <2>2, NewGroup
      <3>2. CASE /\ mnt_group_id' = [mnt_group_id EXCEPT ![m] = inherited]
                 /\ UNCHANGED <<idas, overflowed>>
        BY <3>2, <2>1, <2>2, <2>4, OldGroup
      <3> QED BY <2>3, <3>1, <3>2
    <2>6. TreeType'
      BY <2>1, <2>3 DEF TreeType, walks, tools
    <2>7. NoGroupOutside'
      BY <2>1, <2>3, <1>g, <1>s DEF NoGroupOutside
    <2> QED BY <2>5, <2>6, <2>7
  <1>5. ASSUME NEW m \in Mounts, NEW p \in Mounts, do_move_mount(m, p)
        PROVE  TreeType' /\ NoGroupOutside' /\ GroupsInv'
    <2>1. TreeType'
      BY <1>5 DEF do_move_mount, TreeType, walks, tools
    <2>2. UNCHANGED <<stage, groups>>
      BY <1>5 DEF do_move_mount
    <2> QED BY <2>1, <2>2, GroupsFrame DEF NoGroupOutside, groups
  <1>6. ASSUME NEW m \in Mounts, NEW detach \in BOOLEAN, do_umount(m, detach)
        PROVE  TreeType' /\ NoGroupOutside' /\ GroupsInv'
    <2>1. Below(m) \in SUBSET Mounts
      BY DEF Below
    <2>2. /\ stage' = [x \in Mounts |-> IF x \in Below(m) THEN "detached" ELSE stage[x]]
          /\ mnt_parent' = [x \in Mounts |-> IF x \in Below(m) THEN x ELSE mnt_parent[x]]
          /\ make_private(Below(m)) /\ UNCHANGED <<sus, walks, tools>>
      BY <1>6 DEF do_umount
    <2>3. TreeType'
      BY <2>2 DEF TreeType, walks, tools
    <2>4. NoGroupOutside'
      BY <2>1, <2>2, PrivateOutside
    <2> QED BY <2>1, <2>2, <2>3, <2>4, Released
  <1>7. ASSUME NEW m \in Mounts, free_vfsmnt(m)
        PROVE  TreeType' /\ NoGroupOutside' /\ GroupsInv'
    <2>1. /\ stage[m] = "detached" /\ stage' = [stage EXCEPT ![m] = "free"]
          /\ sus' = sus \ {m} /\ refused' = refused \ {m}
          /\ UNCHANGED <<mnt_parent, groups, file, at, path, pinned>>
      BY <1>7 DEF free_vfsmnt, tools
    <2>2. TreeType'
      BY <2>1 DEF TreeType
    <2>3. NoGroupOutside'
      BY <2>1, <1>s DEF NoGroupOutside, groups
    <2> QED BY <2>1, <2>2, <2>3, GroupsFrame
  \* The walks and the command leave the tree and the groups alone.
  <1>8. ASSUME UNCHANGED <<tree, groups>>, TreeType'
        PROVE  TreeType' /\ NoGroupOutside' /\ GroupsInv'
    BY <1>8, GroupsFrame DEF NoGroupOutside, tree, groups
  <1>9. ASSUME NEW a \in Apps, walk(a) \/ use_after_free(a) \/ \E m \in Mounts : vfs_statfs(a, m)
        PROVE  TreeType' /\ NoGroupOutside' /\ GroupsInv'
    <2>1. UNCHANGED <<tree, groups, tools>>
      BY <1>9 DEF walk, use_after_free, vfs_statfs, go_up, found, Return
    <2>2. file' \in [Apps -> Mounts \cup {None}] /\ at' \in [Apps -> Mounts \cup {None}]
      BY <1>9, MountHideAssumption
         DEF TreeType, walk, use_after_free, vfs_statfs, go_up, found, Return
    <2>3. TreeType'
      BY <2>1, <2>2 DEF TreeType, tree, tools
    <2> QED BY <2>1, <2>3, <1>8
  <1>10. ASSUME NEW t \in Tools, kern_path(t) \/ refuse(t) \/ path_put(t)
         PROVE  TreeType' /\ NoGroupOutside' /\ GroupsInv'
    <2>1. UNCHANGED <<tree, groups, walks>>
      BY <1>10 DEF kern_path, refuse, path_put
    <2>2. /\ path' \in [Tools -> Mounts \cup {None}]
          /\ refused' \subseteq pinned' /\ pinned' \subseteq Mounts
      BY <1>10 DEF TreeType, kern_path, refuse, path_put, Attached
    <2>3. TreeType'
      BY <2>1, <2>2 DEF TreeType, tree, walks
    <2> QED BY <2>1, <2>3, <1>8
  <1>11. CASE UNCHANGED vars
    BY <1>11, <1>8, TreeFrame DEF vars
  <1> QED BY <1>1, <1>2, <1>3, <1>4, <1>5, <1>6, <1>7, <1>9, <1>10, <1>11 DEF Next

\* Each of the two allocators of group ids holds exactly the ids of its groups,
\* whoever joins them, as long as the ordinary ones stay below
\* DEFAULT_SUS_MNT_GROUP_ID, and the state is well typed.
THEOREM GroupsSoundCorrect == Spec => []GroupsSound
  <1>1. IInv => GroupsSound
    BY Parts DEF IInv
  <1> QED BY <1>1, InitInv, NextInv, PTL DEF Spec

-----------------------------------------------------------------------------
(* The way up from a mount.                                                  *)

\* The way up for any parents.
UpIn(par, x, some) ==
  {y \in Mounts : \A S \in SUBSET Mounts : x \in S /\ (\A z \in S \cap some : par[z] \in S) => y \in S}

\* A set of mounts that no way leaves.
Closed(par, some, S) == \A z \in S \cap some : par[z] \in S

\* The model's way up, with the parents of this state and of the next.
LEMMA UpIsUpIn ==
  ASSUME NEW x
  PROVE  /\ Up(x, sus) = UpIn(mnt_parent, x, sus)
         /\ Up(x, sus)' = UpIn(mnt_parent', x, sus')
         /\ Up(x, Mounts) = UpIn(mnt_parent, x, Mounts)
         /\ Up(x, Mounts)' = UpIn(mnt_parent', x, Mounts)
  BY DEF Up, UpIn

\* A way up begins where it begins.
LEMMA UpReflexive ==
  ASSUME NEW par, NEW some, NEW x \in Mounts
  PROVE  x \in UpIn(par, x, some)
  BY DEF UpIn

\* It stays in every set that it cannot leave.
LEMMA UpLeast ==
  ASSUME NEW par, NEW some, NEW x, NEW S \in SUBSET Mounts, x \in S, Closed(par, some, S)
  PROVE  UpIn(par, x, some) \subseteq S
  BY DEF UpIn, Closed

\* It is such a set itself.
LEMMA UpClosed ==
  ASSUME NEW par \in [Mounts -> Mounts], NEW some, NEW x
  PROVE  UpIn(par, x, some) \in SUBSET Mounts /\ Closed(par, some, UpIn(par, x, some))
  <1>1. ASSUME NEW y \in UpIn(par, x, some) \cap some PROVE par[y] \in UpIn(par, x, some)
    <2>1. y \in Mounts /\ par[y] \in Mounts
      BY DEF UpIn
    <2>2. ASSUME NEW S \in SUBSET Mounts, x \in S, \A z \in S \cap some : par[z] \in S PROVE par[y] \in S
      <3>1. y \in S
        BY <2>2 DEF UpIn
      <3> QED BY <3>1, <2>2
    <2> QED BY <2>1, <2>2 DEF UpIn
  <1> QED BY <1>1 DEF Closed, UpIn

\* The way from a mount on the way is a part of it.
LEMMA UpFurther ==
  ASSUME NEW par \in [Mounts -> Mounts], NEW some, NEW x, NEW y \in UpIn(par, x, some)
  PROVE  UpIn(par, y, some) \subseteq UpIn(par, x, some)
  BY UpClosed, UpLeast

\* What changes elsewhere does not change a way.
LEMMA UpSame ==
  ASSUME NEW par, NEW some, NEW par2, NEW some2, NEW N \in SUBSET Mounts, NEW x \in N,
         Closed(par, some, N),
         \A y \in N : par2[y] = par[y] /\ (y \in some2 <=> y \in some)
  PROVE  UpIn(par2, x, some2) = UpIn(par, x, some) /\ UpIn(par, x, some) \subseteq N
  <1>1. Closed(par2, some2, N)
    BY DEF Closed
  <1>2. ASSUME NEW S \in SUBSET Mounts, x \in S, Closed(par2, some2, S) PROVE UpIn(par, x, some) \subseteq S
    <2>1. Closed(par, some, S \cap N) /\ x \in S \cap N /\ S \cap N \in SUBSET Mounts
      BY <1>2 DEF Closed
    <2>2. UpIn(par, x, some) \subseteq S \cap N
      BY <2>1, UpLeast
    <2> QED BY <2>2
  <1>3. ASSUME NEW S \in SUBSET Mounts, x \in S, Closed(par, some, S) PROVE UpIn(par2, x, some2) \subseteq S
    <2>1. Closed(par2, some2, S \cap N) /\ x \in S \cap N /\ S \cap N \in SUBSET Mounts
      BY <1>3, <1>1 DEF Closed
    <2>2. UpIn(par2, x, some2) \subseteq S \cap N
      BY <2>1, UpLeast
    <2> QED BY <2>2
  <1>4. UpIn(par, x, some) \subseteq UpIn(par2, x, some2)
    <2>1. ASSUME NEW y \in UpIn(par, x, some) PROVE y \in UpIn(par2, x, some2)
      <3>1. y \in Mounts
        BY DEF UpIn
      <3>2. ASSUME NEW S \in SUBSET Mounts, x \in S, \A z \in S \cap some2 : par2[z] \in S PROVE y \in S
        BY <3>2, <1>2 DEF Closed
      <3> QED BY <3>1, <3>2 DEF UpIn
    <2> QED BY <2>1
  <1>5. UpIn(par2, x, some2) \subseteq UpIn(par, x, some)
    <2>1. ASSUME NEW y \in UpIn(par2, x, some2) PROVE y \in UpIn(par, x, some)
      <3>1. y \in Mounts
        BY DEF UpIn
      <3>2. ASSUME NEW S \in SUBSET Mounts, x \in S, \A z \in S \cap some : par[z] \in S PROVE y \in S
        BY <3>2, <1>3 DEF Closed
      <3> QED BY <3>1, <3>2 DEF UpIn
    <2> QED BY <2>1
  <1>6. UpIn(par, x, some) \subseteq N
    BY UpLeast
  <1> QED BY <1>4, <1>5, <1>6

\* The same for the whole way to the top.
LEMMA UpSameAll ==
  ASSUME NEW par, NEW par2, NEW N \in SUBSET Mounts, NEW x \in N,
         Closed(par, Mounts, N), \A y \in N : par2[y] = par[y]
  PROVE  UpIn(par2, x, Mounts) = UpIn(par, x, Mounts) /\ UpIn(par, x, Mounts) \subseteq N
  <1>1. PICK some : some = Mounts
    OBVIOUS
  <1>2. PICK some2 : some2 = Mounts
    OBVIOUS
  <1>3. Closed(par, some, N)
    BY <1>1
  <1>4. \A y \in N : par2[y] = par[y] /\ (y \in some2 <=> y \in some)
    BY <1>1, <1>2
  <1>5. UpIn(par2, x, some2) = UpIn(par, x, some) /\ UpIn(par, x, some) \subseteq N
    BY ONLY <1>3, <1>4, UpSame, N \in SUBSET Mounts, x \in N
  <1> QED BY <1>1, <1>2, <1>5

-----------------------------------------------------------------------------
(* The tree.                                                                *)

\* What is in the tree has its parent there, what is not is on its own.
Rooted ==
  \A x \in Mounts : /\ stage[x] = "attached" => stage[mnt_parent[x]] = "attached"
                    /\ stage[x] # "attached" => mnt_parent[x] = x
\* The ways up have no circle but a mount that is its own parent.
Acyclic == \A x \in Mounts : mnt_parent[x] = x \/ x \notin UpIn(mnt_parent, mnt_parent[x], Mounts)

\* The kinds of changes of the tree.
Mounted(m, p) ==
  /\ stage[m] = "free" /\ stage[p] = "attached" /\ stage' = [stage EXCEPT ![m] = "attached"]
  /\ mnt_parent' = [mnt_parent EXCEPT ![m] = p] /\ \A x \in Mounts : x # m => (x \in sus' <=> x \in sus)
Moved(m, p) ==
  /\ stage[m] = "attached" /\ stage[p] = "attached" /\ p \notin Below(m)
  /\ mnt_parent' = [mnt_parent EXCEPT ![m] = p] /\ UNCHANGED <<stage, sus>>
Unmounted(m) ==
  /\ stage' = [x \in Mounts |-> IF x \in Below(m) THEN "detached" ELSE stage[x]]
  /\ mnt_parent' = [x \in Mounts |-> IF x \in Below(m) THEN x ELSE mnt_parent[x]]
  /\ UNCHANGED sus
Freed(m) ==
  /\ stage[m] = "detached" /\ stage' = [stage EXCEPT ![m] = "free"] /\ sus' = sus \ {m}
  /\ UNCHANGED mnt_parent

\* do_mount mounts a fresh mount on p.
LEMMA MountedBy ==
  ASSUME NEW ksu \in BOOLEAN, NEW old \in Mounts \cup {None}, NEW p \in Mounts, do_mount(ksu, old, p)
  PROVE  \E m \in Mounts : Mounted(m, p)
  <1>1. PICK m : m = CHOOSE free \in Free : TRUE
    OBVIOUS
  <1>2. /\ p \in Attached /\ Free # {} /\ stage' = [stage EXCEPT ![m] = "attached"]
        /\ mnt_parent' = [mnt_parent EXCEPT ![m] = p] /\ sus' = IF ksu THEN sus \cup {m} ELSE sus
    BY <1>1 DEF do_mount
  <1>3. m \in Free
    BY <1>1, <1>2
  <1> QED BY <1>2, <1>3 DEF Mounted, Free, Attached

\* do_move_mount moves m with all that is below it.
LEMMA MovedBy ==
  ASSUME NEW m \in Mounts, NEW p \in Mounts, do_move_mount(m, p)
  PROVE  Moved(m, p)
  BY DEF do_move_mount, Moved, Attached

\* do_umount takes what is below m apart.
LEMMA UnmountedBy ==
  ASSUME NEW m \in Mounts, NEW detach \in BOOLEAN, do_umount(m, detach)
  PROVE  Unmounted(m)
  BY DEF do_umount, Unmounted

\* free_vfsmnt frees a mount outside the tree.
LEMMA FreedBy ==
  ASSUME NEW m \in Mounts, free_vfsmnt(m)
  PROVE  Freed(m)
  BY DEF free_vfsmnt, Freed

\* A mount is below another if its parent is.
LEMMA AboveBelow ==
  ASSUME TreeType, NEW m \in Mounts
  PROVE  /\ m \in Below(m) /\ Below(m) \in SUBSET Mounts
         /\ Mounts \ Below(m) \in SUBSET Mounts
         /\ Closed(mnt_parent, Mounts, Mounts \ Below(m))
  <1>0. mnt_parent \in [Mounts -> Mounts]
    BY DEF TreeType
  <1>1. m \in Below(m)
    BY UpReflexive, UpIsUpIn DEF Below
  <1>2. ASSUME NEW x \in Mounts, mnt_parent[x] \in Below(m) PROVE x \in Below(m)
    <2>1. m \in UpIn(mnt_parent, mnt_parent[x], Mounts)
      BY <1>2, UpIsUpIn DEF Below
    <2>2. x \in UpIn(mnt_parent, x, Mounts)
      BY UpReflexive
    <2>3. mnt_parent[x] \in UpIn(mnt_parent, x, Mounts)
      BY <1>0, <2>2, UpClosed DEF Closed
    <2>4. m \in UpIn(mnt_parent, x, Mounts)
      BY <1>0, <2>1, <2>3, UpFurther
    <2> QED BY <2>4, UpIsUpIn DEF Below
  <1>3. Closed(mnt_parent, Mounts, Mounts \ Below(m))
    BY <1>0, <1>2 DEF Closed
  <1> QED BY <1>1, <1>3 DEF Below

\* A closed set for all is one for the hidden mounts.
LEMMA ClosedForSus ==
  ASSUME TreeType, NEW par, NEW S \in SUBSET Mounts, Closed(par, Mounts, S)
  PROVE  Closed(par, sus, S)
  BY DEF Closed, TreeType

\* A fresh mount is on nobody's way.
LEMMA InUseClosed ==
  ASSUME TreeType, Rooted, NEW N, N = {x \in Mounts : stage[x] # "free"}
  PROVE  N \in SUBSET Mounts /\ Closed(mnt_parent, Mounts, N)
  <1>1. ASSUME NEW y \in Mounts, stage[y] # "free"
        PROVE  mnt_parent[y] \in Mounts /\ stage[mnt_parent[y]] # "free"
    <2>1. CASE stage[y] = "attached"
      BY <2>1 DEF TreeType, Rooted
    <2>2. CASE stage[y] # "attached"
      BY <1>1, <2>2 DEF Rooted
    <2> QED BY <2>1, <2>2
  <1>2. N \in SUBSET Mounts /\ \A y \in N : mnt_parent[y] \in N
    BY <1>1
  <1> QED BY ONLY <1>2 DEF Closed

\* The ways of the mounts in use are the same after a mount.
LEMMA MountedWays ==
  ASSUME TreeType, Rooted, NEW m \in Mounts, NEW p \in Mounts, Mounted(m, p),
         NEW x \in Mounts, stage[x] # "free"
  PROVE  /\ Up(x, sus)' = Up(x, sus) /\ Up(x, Mounts)' = Up(x, Mounts) /\ m \notin Up(x, Mounts)
         /\ NearestOrdinary(x)' = NearestOrdinary(x)
  <1>0. PICK N : N = {y \in Mounts : stage[y] # "free"}
    OBVIOUS
  <1>1. N \in SUBSET Mounts /\ Closed(mnt_parent, Mounts, N) /\ Closed(mnt_parent, sus, N)
    BY <1>0, InUseClosed, ClosedForSus
  <1>2. m \notin N /\ x \in N
    BY <1>0 DEF Mounted
  <1>3. \A y \in N : mnt_parent'[y] = mnt_parent[y] /\ (y \in sus' <=> y \in sus)
    BY <1>0, <1>2 DEF Mounted, TreeType
  <1>4. UpIn(mnt_parent', x, sus') = UpIn(mnt_parent, x, sus) /\ UpIn(mnt_parent, x, sus) \subseteq N
    BY ONLY <1>1, <1>2, <1>3, UpSame
  <1>5. \A y \in N : mnt_parent'[y] = mnt_parent[y]
    BY <1>3
  <1>6. UpIn(mnt_parent', x, Mounts) = UpIn(mnt_parent, x, Mounts) /\ UpIn(mnt_parent, x, Mounts) \subseteq N
    BY ONLY <1>1, <1>2, <1>5, UpSameAll
  <1>7. Up(x, sus)' = Up(x, sus) /\ Up(x, Mounts)' = Up(x, Mounts) /\ m \notin Up(x, Mounts)
    BY <1>2, <1>4, <1>6, UpIsUpIn
  <1>8. Up(x, sus) \subseteq N
    BY <1>4, UpIsUpIn
  <1>9. Up(x, sus) \ sus' = Up(x, sus) \ sus
    BY <1>3, <1>8
  <1> QED BY <1>7, <1>9 DEF NearestOrdinary

\* Freeing a mount changes nobody else's way.
LEMMA FreedWays ==
  ASSUME TreeType, Rooted, NEW m \in Mounts, Freed(m), NEW x \in Mounts, x # m
  PROVE  /\ Up(x, sus)' = Up(x, sus)
         /\ NearestOrdinary(x)' = NearestOrdinary(x)
  <1> DEFINE N == Mounts \ {m}
  <1>1. \A y \in N : mnt_parent[y] \in N
    BY DEF Freed, Rooted, TreeType
  <1>2. N \in SUBSET Mounts /\ Closed(mnt_parent, sus, N) /\ x \in N /\ m \notin N
    BY <1>1 DEF Closed, TreeType
  <1>3. \A y \in N : mnt_parent'[y] = mnt_parent[y] /\ (y \in sus' <=> y \in sus)
    BY <1>2 DEF Freed, TreeType
  <1> HIDE DEF N
  <1>4. UpIn(mnt_parent', x, sus') = UpIn(mnt_parent, x, sus) /\ UpIn(mnt_parent, x, sus) \subseteq N
    BY ONLY <1>2, <1>3, UpSame
  <1>5. Up(x, sus)' = Up(x, sus) /\ Up(x, sus) \subseteq N
    BY <1>4, UpIsUpIn
  <1>6. Up(x, sus) \ sus' = Up(x, sus) \ sus
    BY <1>3, <1>5
  <1> QED BY <1>5, <1>6 DEF NearestOrdinary

\* An umount can only shorten a way, and only from a mount below m.
LEMMA UnmountedWays ==
  ASSUME TreeType, NEW m \in Mounts, Unmounted(m), NEW x \in Mounts
  PROVE  /\ NearestOrdinary(x)' \subseteq NearestOrdinary(x)
         /\ x \notin Below(m) => Up(x, sus)' = Up(x, sus) /\ Up(x, Mounts)' = Up(x, Mounts)
  <1>0. mnt_parent \in [Mounts -> Mounts] /\ sus \subseteq Mounts /\ sus' = sus
    BY DEF TreeType, Unmounted
  <1>1. /\ \A y \in Mounts : y \notin Below(m) => mnt_parent'[y] = mnt_parent[y]
        /\ \A y \in Mounts : mnt_parent'[y] = y \/ mnt_parent'[y] = mnt_parent[y]
    BY DEF Unmounted
  <1>2. Up(x, sus)' \subseteq Up(x, sus)
    <2>1. PICK S : S = UpIn(mnt_parent, x, sus)
      OBVIOUS
    <2>2. S \in SUBSET Mounts /\ Closed(mnt_parent, sus, S) /\ x \in S
      BY <1>0, <2>1, UpClosed, UpReflexive
    <2>3. Closed(mnt_parent', sus, S)
      BY <1>1, <2>2 DEF Closed
    <2>4. UpIn(mnt_parent', x, sus) \subseteq S
      BY <2>2, <2>3, UpLeast
    <2> QED BY <2>1, <2>4, <1>0, UpIsUpIn
  <1>3. NearestOrdinary(x)' \subseteq NearestOrdinary(x)
    BY <1>0, <1>2 DEF NearestOrdinary
  <1>4. ASSUME x \notin Below(m) PROVE Up(x, sus)' = Up(x, sus) /\ Up(x, Mounts)' = Up(x, Mounts)
    <2>1. PICK N : N = Mounts \ Below(m)
      OBVIOUS
    <2>2. N \in SUBSET Mounts /\ Closed(mnt_parent, Mounts, N) /\ Closed(mnt_parent, sus, N) /\ x \in N
      BY <1>4, <2>1, AboveBelow, ClosedForSus
    <2>3. \A y \in N : mnt_parent'[y] = mnt_parent[y] /\ (y \in sus' <=> y \in sus)
      BY <1>0, <1>1, <2>1
    <2>4. UpIn(mnt_parent', x, sus') = UpIn(mnt_parent, x, sus)
      BY ONLY <2>2, <2>3, UpSame
    <2>5. \A y \in N : mnt_parent'[y] = mnt_parent[y]
      BY <2>3
    <2>6. UpIn(mnt_parent', x, Mounts) = UpIn(mnt_parent, x, Mounts)
      BY ONLY <2>2, <2>5, UpSameAll
    <2> QED BY <2>4, <2>6, UpIsUpIn
  <1> QED BY <1>3, <1>4

\* The way over hidden mounts is a part of the way to the top.
LEMMA SusAmongAll ==
  ASSUME TreeType, NEW x \in Mounts
  PROVE  UpIn(mnt_parent, x, sus) \subseteq UpIn(mnt_parent, x, Mounts)
  <1>1. PICK S : S = UpIn(mnt_parent, x, Mounts)
    OBVIOUS
  <1>2. S \in SUBSET Mounts /\ Closed(mnt_parent, Mounts, S) /\ x \in S
    BY <1>1, UpClosed, UpReflexive DEF TreeType
  <1>3. Closed(mnt_parent, sus, S)
    BY <1>2, ClosedForSus
  <1>4. UpIn(mnt_parent, x, sus) \subseteq S
    BY ONLY <1>2, <1>3, UpLeast
  <1> QED BY <1>1, <1>4

\* Only what is below m is moved with it.
LEMMA MovedElsewhere ==
  ASSUME TreeType, NEW m \in Mounts, NEW p \in Mounts, Moved(m, p), NEW x \in Mounts, x \notin Below(m)
  PROVE  Up(x, sus)' = Up(x, sus) /\ Up(x, Mounts)' = Up(x, Mounts)
  <1>0. sus' = sus /\ mnt_parent' = [mnt_parent EXCEPT ![m] = p] /\ mnt_parent \in [Mounts -> Mounts]
    BY DEF Moved, TreeType
  <1>1. PICK N : N = Mounts \ Below(m)
    OBVIOUS
  <1>2. /\ N \in SUBSET Mounts /\ Closed(mnt_parent, Mounts, N) /\ Closed(mnt_parent, sus, N)
        /\ x \in N /\ m \notin N
    BY <1>1, AboveBelow, ClosedForSus
  <1>3. \A y \in N : mnt_parent'[y] = mnt_parent[y] /\ (y \in sus' <=> y \in sus)
    BY ONLY <1>0, <1>2
  <1>4. UpIn(mnt_parent', x, sus') = UpIn(mnt_parent, x, sus)
    BY ONLY <1>2, <1>3, UpSame
  <1>5. \A y \in N : mnt_parent'[y] = mnt_parent[y]
    BY <1>3
  <1>6. UpIn(mnt_parent', x, Mounts) = UpIn(mnt_parent, x, Mounts)
    BY ONLY <1>2, <1>5, UpSameAll
  <1> QED BY <1>4, <1>6, UpIsUpIn

\* What is above a mount after the move was above it before or is above p.
LEMMA MovedAbove ==
  ASSUME TreeType, NEW m \in Mounts, NEW p \in Mounts, Moved(m, p), NEW x \in Mounts
  PROVE  Up(x, Mounts)' \subseteq Up(x, Mounts) \cup Up(p, Mounts)
  <1>0. mnt_parent' = [mnt_parent EXCEPT ![m] = p] /\ mnt_parent \in [Mounts -> Mounts]
    BY DEF Moved, TreeType
  <1>1. PICK S : S = UpIn(mnt_parent, x, Mounts)
    OBVIOUS
  <1>2. PICK R : R = UpIn(mnt_parent, p, Mounts)
    OBVIOUS
  <1>3. S \in SUBSET Mounts /\ Closed(mnt_parent, Mounts, S) /\ x \in S
    BY <1>0, <1>1, UpClosed, UpReflexive
  <1>4. R \in SUBSET Mounts /\ Closed(mnt_parent, Mounts, R) /\ p \in R
    BY <1>0, <1>2, UpClosed, UpReflexive
  <1>5. PICK T : T = S \cup R
    OBVIOUS
  <1>6. \A y \in T : mnt_parent'[y] \in T
    BY ONLY <1>0, <1>3, <1>4, <1>5 DEF Closed
  <1>7. T \in SUBSET Mounts /\ x \in T
    BY ONLY <1>3, <1>4, <1>5
  <1>8. Closed(mnt_parent', Mounts, T)
    BY ONLY <1>6 DEF Closed
  <1>9. UpIn(mnt_parent', x, Mounts) \subseteq T
    BY ONLY <1>7, <1>8, UpLeast
  <1> QED BY <1>1, <1>2, <1>5, <1>9, UpIsUpIn

\* What the walk from x can reach stands after a move for what it would reach
\* itself or for what x now leads to.
LEMMA MovedWays ==
  ASSUME TreeType, Acyclic, NEW m \in Mounts, NEW p \in Mounts, Moved(m, p),
         NEW x \in Mounts, NEW c \in Up(x, sus)
  PROVE  NearestOrdinary(c)' \subseteq NearestOrdinary(c) \cup NearestOrdinary(x)'
  <1>0. /\ sus' = sus /\ mnt_parent' = [mnt_parent EXCEPT ![m] = p] /\ mnt_parent \in [Mounts -> Mounts]
        /\ mnt_parent' \in [Mounts -> Mounts]
    BY DEF Moved, TreeType
  <1>c. c \in Mounts /\ c \in UpIn(mnt_parent, x, sus)
    BY UpIsUpIn DEF Up
  <1>1. CASE m \notin Up(c, sus)
    <2>1. PICK N : N = UpIn(mnt_parent, c, sus)
      OBVIOUS
    <2>2. N \in SUBSET Mounts /\ Closed(mnt_parent, sus, N) /\ c \in N /\ m \notin N
      BY <1>0, <1>1, <1>c, <2>1, UpClosed, UpReflexive, UpIsUpIn
    <2>3. \A y \in N : mnt_parent'[y] = mnt_parent[y] /\ (y \in sus' <=> y \in sus)
      BY ONLY <1>0, <2>2
    <2>4. UpIn(mnt_parent', c, sus') = UpIn(mnt_parent, c, sus)
      BY ONLY <2>2, <2>3, UpSame
    <2>5. Up(c, sus)' = Up(c, sus)
      BY <2>4, UpIsUpIn
    <2> QED BY <1>0, <2>5 DEF NearestOrdinary
  <1>2. CASE m \in Up(c, sus)
    <2>0. m \in UpIn(mnt_parent, c, sus)
      BY <1>2, UpIsUpIn
    <2>1. ASSUME NEW S \in SUBSET Mounts, x \in S, Closed(mnt_parent', sus, S) PROVE c \in S
      <3>1. CASE m \notin S
        <4>1. Closed(mnt_parent, sus, S)
          BY <1>0, <2>1, <3>1 DEF Closed
        <4>2. UpIn(mnt_parent, x, sus) \subseteq S
          BY <2>1, <4>1, UpLeast
        <4> QED BY <1>c, <4>2
      <3>2. CASE m \in S
        <4>1. PICK q : q = mnt_parent[m]
          OBVIOUS
        <4>2. PICK R : R = UpIn(mnt_parent, q, sus)
          OBVIOUS
        <4>3. q \in Mounts
          BY <1>0, <4>1
        <4>4. R \in SUBSET Mounts /\ Closed(mnt_parent, sus, R) /\ q \in R
          BY <1>0, <4>2, <4>3, UpClosed, UpReflexive
        <4>5. PICK T : T = S \cup R
          OBVIOUS
        <4>6. T \in SUBSET Mounts /\ x \in T
          BY <2>1, <4>4, <4>5
        <4>7. ASSUME NEW y \in T \cap sus PROVE mnt_parent[y] \in T
          <5>1. CASE y = m
            BY ONLY <5>1, <4>1, <4>4, <4>5
          <5>2. CASE y \in S /\ y # m
            <6>1. mnt_parent[y] = mnt_parent'[y]
              BY <1>0, <5>2
            <6> QED BY <2>1, <4>5, <4>7, <5>2, <6>1 DEF Closed
          <5>3. CASE y \in R
            BY ONLY <5>3, <4>4, <4>5, <4>7 DEF Closed
          <5> QED BY ONLY <4>5, <4>7, <5>1, <5>2, <5>3
        <4>8. Closed(mnt_parent, sus, T)
          BY ONLY <4>7 DEF Closed
        <4>9. UpIn(mnt_parent, x, sus) \subseteq T
          BY ONLY <4>6, <4>8, UpLeast
        <4>10. CASE c \in R
          <5>1. UpIn(mnt_parent, c, sus) \subseteq R
            BY <1>0, <4>10, <4>2, UpFurther
          <5>2. m \in UpIn(mnt_parent, q, Mounts)
            BY <2>0, <5>1, <4>2, <4>3, SusAmongAll
          <5>3. q = m
            BY <5>2, <4>1, UpIsUpIn DEF Acyclic
          <5>4. {m} \in SUBSET Mounts /\ m \in {m} /\ Closed(mnt_parent, sus, {m})
            BY ONLY <4>1, <5>3, m \in Mounts DEF Closed
          <5>5. UpIn(mnt_parent, m, sus) \subseteq {m}
            BY ONLY <5>4, UpLeast
          <5> QED BY <3>2, <4>2, <4>10, <5>3, <5>5
        <4> QED BY <1>c, <4>5, <4>9, <4>10
      <3> QED BY <3>1, <3>2
    <2>2. c \in UpIn(mnt_parent', x, sus)
      <3>1. ASSUME NEW S \in SUBSET Mounts, x \in S, \A z \in S \cap sus : mnt_parent'[z] \in S PROVE c \in S
        <4>1. Closed(mnt_parent', sus, S)
          BY ONLY <3>1 DEF Closed
        <4> QED BY ONLY <2>1, <3>1, <4>1
      <3> QED BY ONLY <1>c, <3>1 DEF UpIn
    <2>3. UpIn(mnt_parent', c, sus) \subseteq UpIn(mnt_parent', x, sus)
      BY ONLY <1>0, <2>2, UpFurther
    <2>4. Up(c, sus)' \subseteq Up(x, sus)'
      <3>1. Up(c, sus)' = UpIn(mnt_parent', c, sus')
        BY UpIsUpIn
      <3>2. Up(x, sus)' = UpIn(mnt_parent', x, sus')
        BY UpIsUpIn
      <3>3. sus' = sus
        BY <1>0
      <3> QED BY ONLY <2>3, <3>1, <3>2, <3>3
    <2> QED BY <2>4 DEF NearestOrdinary
  <1> QED BY <1>1, <1>2

\* Each kind of change keeps the tree: a mount,
LEMMA MountedTree ==
  ASSUME TreeType, Rooted, Acyclic, NEW m \in Mounts, NEW p \in Mounts, Mounted(m, p)
  PROVE  Rooted' /\ Acyclic'
  <1>0. /\ stage \in [Mounts -> {"free", "attached", "detached"}] /\ mnt_parent \in [Mounts -> Mounts]
        /\ stage[m] = "free" /\ stage[p] = "attached" /\ stage' = [stage EXCEPT ![m] = "attached"]
        /\ mnt_parent' = [mnt_parent EXCEPT ![m] = p]
    BY DEF TreeType, Mounted
  <1>1. ASSUME NEW x \in Mounts
        PROVE  /\ stage'[x] = "attached" => stage'[mnt_parent'[x]] = "attached"
               /\ stage'[x] # "attached" => mnt_parent'[x] = x
    <2>1. CASE x = m
      BY ONLY <1>0, <2>1, m \in Mounts, p \in Mounts
    <2>2. CASE x # m
      <3>1. stage'[x] = stage[x] /\ mnt_parent'[x] = mnt_parent[x] /\ mnt_parent[x] \in Mounts
        BY ONLY <1>0, <1>1, <2>2
      <3>2. /\ stage[x] = "attached" => stage[mnt_parent[x]] = "attached"
            /\ stage[x] # "attached" => mnt_parent[x] = x
        BY <1>1 DEF Rooted
      <3>3. stage[mnt_parent[x]] = "attached" => stage'[mnt_parent[x]] = "attached"
        BY ONLY <1>0, <3>1
      <3> QED BY ONLY <3>1, <3>2, <3>3
    <2> QED BY <2>1, <2>2
  <1>2. ASSUME NEW x \in Mounts, mnt_parent'[x] # x PROVE x \notin UpIn(mnt_parent', mnt_parent'[x], Mounts)
    <2>1. CASE x = m
      <3>1. mnt_parent'[x] = p /\ stage[p] # "free"
        BY <1>0, <2>1
      <3>2. UpIn(mnt_parent', p, Mounts) = UpIn(mnt_parent, p, Mounts) /\ m \notin UpIn(mnt_parent, p, Mounts)
        BY <3>1, MountedWays, UpIsUpIn
      <3> QED BY <2>1, <3>1, <3>2
    <2>2. CASE x # m
      <3>1. PICK q \in Mounts : q = mnt_parent[x] /\ q = mnt_parent'[x]
        BY <1>0, <2>2
      <3>2. stage[x] = "attached" /\ stage[q] = "attached"
        BY <1>2, <3>1 DEF Rooted
      <3>3. UpIn(mnt_parent', q, Mounts) = UpIn(mnt_parent, q, Mounts)
        BY <3>2, MountedWays, UpIsUpIn
      <3>4. x \notin UpIn(mnt_parent, q, Mounts)
        BY <1>2, <3>1 DEF Acyclic
      <3> QED BY <3>1, <3>3, <3>4
    <2> QED BY <2>1, <2>2
  <1>3. Rooted'
    BY <1>1 DEF Rooted
  <1>4. Acyclic'
    BY <1>2 DEF Acyclic
  <1> QED BY <1>3, <1>4

\* a move, since m does not go below itself,
LEMMA MovedTree ==
  ASSUME TreeType, Rooted, Acyclic, NEW m \in Mounts, NEW p \in Mounts, Moved(m, p)
  PROVE  Rooted' /\ Acyclic'
  <1>0. /\ mnt_parent \in [Mounts -> Mounts] /\ stage[m] = "attached" /\ stage[p] = "attached"
        /\ stage' = stage /\ mnt_parent' = [mnt_parent EXCEPT ![m] = p]
    BY DEF TreeType, Moved
  <1>1. ASSUME NEW x \in Mounts
        PROVE  /\ stage'[x] = "attached" => stage'[mnt_parent'[x]] = "attached"
               /\ stage'[x] # "attached" => mnt_parent'[x] = x
    <2>1. CASE x = m
      BY ONLY <1>0, <2>1, m \in Mounts, p \in Mounts
    <2>2. CASE x # m
      <3>1. mnt_parent'[x] = mnt_parent[x]
        BY ONLY <1>0, <1>1, <2>2
      <3> QED BY <1>0, <1>1, <3>1 DEF Rooted
    <2> QED BY <2>1, <2>2
  <1>2. p \notin Below(m)
    BY DEF Moved
  <1>3. m \notin UpIn(mnt_parent, p, Mounts)
    BY <1>2, UpIsUpIn DEF Below
  <1>4. ASSUME NEW x \in Mounts, mnt_parent'[x] # x PROVE x \notin UpIn(mnt_parent', mnt_parent'[x], Mounts)
    <2>1. CASE x = m
      <3>1. mnt_parent'[x] = p
        BY <1>0, <2>1
      <3>2. UpIn(mnt_parent', p, Mounts) = UpIn(mnt_parent, p, Mounts)
        BY <1>2, MovedElsewhere, UpIsUpIn
      <3> QED BY <1>3, <2>1, <3>1, <3>2
    <2>2. CASE x # m
      <3>1. PICK q \in Mounts : q = mnt_parent[x] /\ q = mnt_parent'[x]
        BY <1>0, <2>2
      <3>2. x \notin UpIn(mnt_parent, q, Mounts)
        BY <1>4, <3>1 DEF Acyclic
      <3>3. CASE q \notin Below(m)
        <4>1. UpIn(mnt_parent', q, Mounts) = UpIn(mnt_parent, q, Mounts)
          BY <3>3, MovedElsewhere, UpIsUpIn
        <4> QED BY <3>1, <3>2, <4>1
      <3>4. CASE q \in Below(m)
        <4>1. x \in Below(m)
          <5>1. Closed(mnt_parent, Mounts, Mounts \ Below(m))
            BY AboveBelow
          <5> QED BY <3>1, <3>4, <5>1 DEF Closed
        <4>2. m \in UpIn(mnt_parent, x, Mounts)
          BY <4>1, UpIsUpIn DEF Below
        <4>3. x \notin UpIn(mnt_parent, p, Mounts)
          <5>1. SUFFICES ASSUME x \in UpIn(mnt_parent, p, Mounts) PROVE FALSE
            OBVIOUS
          <5>2. UpIn(mnt_parent, x, Mounts) \subseteq UpIn(mnt_parent, p, Mounts)
            BY <1>0, <5>1, UpFurther
          <5> QED BY <1>3, <4>2, <5>2
        <4>4. UpIn(mnt_parent', q, Mounts)
                \subseteq UpIn(mnt_parent, q, Mounts) \cup UpIn(mnt_parent, p, Mounts)
          BY MovedAbove, UpIsUpIn
        <4> QED BY <3>1, <3>2, <4>3, <4>4
      <3> QED BY <3>3, <3>4
    <2> QED BY <2>1, <2>2
  <1>5. Rooted'
    BY <1>1 DEF Rooted
  <1>6. Acyclic'
    BY <1>4 DEF Acyclic
  <1> QED BY <1>5, <1>6

\* an umount,
LEMMA UnmountedTree ==
  ASSUME TreeType, Rooted, Acyclic, NEW m \in Mounts, Unmounted(m)
  PROVE  Rooted' /\ Acyclic'
  <1>0. mnt_parent \in [Mounts -> Mounts]
    BY DEF TreeType
  <1>1. ASSUME NEW x \in Mounts, x \in Below(m) PROVE stage'[x] = "detached" /\ mnt_parent'[x] = x
    BY <1>1 DEF Unmounted
  <1>2. ASSUME NEW x \in Mounts, x \notin Below(m)
        PROVE  /\ stage'[x] = stage[x] /\ mnt_parent'[x] = mnt_parent[x]
               /\ mnt_parent[x] \in Mounts /\ mnt_parent[x] \notin Below(m)
    <2>1. mnt_parent[x] \in Mounts \ Below(m)
      BY <1>2, AboveBelow DEF Closed
    <2> QED BY <1>2, <2>1 DEF Unmounted
  <1>3. ASSUME NEW x \in Mounts
        PROVE  /\ stage'[x] = "attached" => stage'[mnt_parent'[x]] = "attached"
               /\ stage'[x] # "attached" => mnt_parent'[x] = x
    <2>1. CASE x \in Below(m)
      BY <1>1, <2>1
    <2>2. CASE x \notin Below(m)
      <3>1. stage'[mnt_parent[x]] = stage[mnt_parent[x]]
        BY <1>2, <2>2
      <3> QED BY <1>2, <2>2, <3>1 DEF Rooted
    <2> QED BY <2>1, <2>2
  <1>4. ASSUME NEW x \in Mounts, mnt_parent'[x] # x PROVE x \notin UpIn(mnt_parent', mnt_parent'[x], Mounts)
    <2>1. x \notin Below(m)
      BY <1>1, <1>4
    <2>2. PICK q \in Mounts : q = mnt_parent[x] /\ q = mnt_parent'[x] /\ q \notin Below(m)
      BY <1>2, <2>1
    <2>3. UpIn(mnt_parent', q, Mounts) = UpIn(mnt_parent, q, Mounts)
      BY <2>2, UnmountedWays, UpIsUpIn
    <2>4. x \notin UpIn(mnt_parent, q, Mounts)
      BY <1>4, <2>2 DEF Acyclic
    <2> QED BY <2>2, <2>3, <2>4
  <1>5. Rooted'
    BY <1>3 DEF Rooted
  <1>6. Acyclic'
    BY <1>4 DEF Acyclic
  <1> QED BY <1>5, <1>6

\* and the end of a mount.
LEMMA FreedTree ==
  ASSUME TreeType, Rooted, Acyclic, NEW m \in Mounts, Freed(m)
  PROVE  Rooted' /\ Acyclic'
  <1>0. /\ stage \in [Mounts -> {"free", "attached", "detached"}] /\ mnt_parent \in [Mounts -> Mounts]
        /\ mnt_parent' = mnt_parent
        /\ stage[m] = "detached" /\ stage' = [stage EXCEPT ![m] = "free"]
    BY DEF TreeType, Freed
  <1>1. \A x \in Mounts : stage'[x] = "attached" <=> stage[x] = "attached"
    BY <1>0
  <1>2. Rooted'
    BY <1>0, <1>1 DEF Rooted
  <1>3. Acyclic'
    BY <1>0 DEF Acyclic
  <1> QED BY <1>2, <1>3

\* The other steps do not touch it.
LEMMA SameTree ==
  ASSUME Rooted, Acyclic, UNCHANGED tree
  PROVE  Rooted' /\ Acyclic'
  BY DEF Rooted, Acyclic, tree

-----------------------------------------------------------------------------
(* The walks.                                                               *)

\* Where a walk that begins at x would end.
Ordinary(par, some, x) == UpIn(par, x, some) \ some

\* The type of the history of the walks.
PastType == nearest \in [Apps -> SUBSET Mounts] /\ moved \in [Apps -> Nat]

\* What is known about the walk of an app.
WalkOK(a) ==
  at[a] # None =>
    /\ file[a] \in Mounts /\ stage[file[a]] # "free"
    /\ Ordinary(mnt_parent, sus, file[a]) \subseteq nearest[a]
    /\ a \notin stray =>
         /\ stage[at[a]] # "free"
         /\ moved[a] = 0 => at[a] \in UpIn(mnt_parent, file[a], sus)
         /\ moved[a] < 2 => Ordinary(mnt_parent, sus, at[a]) \subseteq nearest[a]

\* The model's operator, with the tree of this state and of the next.
LEMMA OrdinaryIs ==
  ASSUME NEW x
  PROVE  /\ NearestOrdinary(x) = Ordinary(mnt_parent, sus, x)
         /\ NearestOrdinary(x)' = Ordinary(mnt_parent', sus', x)
  BY DEF NearestOrdinary, Ordinary, Up, UpIn

\* What the history of a walk adds.
LEMMA WatchedBy ==
  ASSUME Watched, PastType, NEW a \in Apps, at[a] # None
  PROVE  nearest'[a] = nearest[a] \cup Ordinary(mnt_parent', sus', file'[a])
  <1>1. NearestOrdinary(file[a])' = Ordinary(mnt_parent', sus', file'[a])
    BY DEF NearestOrdinary, Ordinary, Up, UpIn
  <1> QED BY <1>1 DEF Watched

\* What a step that does not concern the app leaves known about its walk.
LEMMA WalkSame ==
  ASSUME NEW a \in Apps, WalkOK(a), UNCHANGED tree, at'[a] = at[a], file'[a] = file[a],
         nearest'[a] = nearest[a], moved'[a] = moved[a], a \in stray' <=> a \in stray
  PROVE  WalkOK(a)'
  <1>1. stage' = stage /\ mnt_parent' = mnt_parent /\ sus' = sus
    BY DEF tree
  <1> QED BY <1>1 DEF WalkOK

\* A mount during a walk.
LEMMA WalkMounted ==
  ASSUME TreeType, Rooted, NEW m \in Mounts, NEW p \in Mounts, Mounted(m, p), UNCHANGED <<walks, past>>,
         NEW a \in Apps, WalkOK(a)
  PROVE  WalkOK(a)'
  <1>0. UNCHANGED <<at, file, stray, nearest, moved>>
    BY DEF walks, past
  <1>1. SUFFICES ASSUME at[a] # None PROVE WalkOK(a)'
    BY <1>0 DEF WalkOK
  <1>2. PICK f \in Mounts : f = file[a]
    BY <1>1 DEF WalkOK
  <1>3. PICK c \in Mounts : c = at[a]
    BY <1>1 DEF TreeType
  <1>4. ASSUME NEW x \in Mounts, stage[x] # "free"
        PROVE  /\ stage'[x] # "free" /\ UpIn(mnt_parent', x, sus') = UpIn(mnt_parent, x, sus)
               /\ Ordinary(mnt_parent', sus', x) = Ordinary(mnt_parent, sus, x)
    <2>1. stage'[x] # "free"
      BY <1>4 DEF Mounted, TreeType
    <2> QED BY <1>4, <2>1, MountedWays, UpIsUpIn, OrdinaryIs
  <1>5. /\ stage[f] # "free" /\ Ordinary(mnt_parent, sus, f) \subseteq nearest[a]
        /\ a \notin stray => /\ stage[c] # "free"
                             /\ moved[a] = 0 => c \in UpIn(mnt_parent, f, sus)
                             /\ moved[a] < 2 => Ordinary(mnt_parent, sus, c) \subseteq nearest[a]
    BY <1>1, <1>2, <1>3 DEF WalkOK
  <1> QED BY <1>0, <1>2, <1>3, <1>4, <1>5 DEF WalkOK

\* A move during a walk: after the first one the walk may be on the old way, whose
\* end the history has; after the second nothing is known.
LEMMA WalkMoved ==
  ASSUME TreeType, PastType, Rooted, Acyclic, NEW m \in Mounts, NEW p \in Mounts, Moved(m, p),
         UNCHANGED walks, Watched,
         NEW a \in Apps, moved'[a] = IF at[a] = None THEN 0 ELSE moved[a] + 1, WalkOK(a)
  PROVE  WalkOK(a)'
  <1>0. UNCHANGED <<at, file, stray>> /\ stage' = stage
    BY DEF walks, Moved
  <1>1. SUFFICES ASSUME at[a] # None PROVE WalkOK(a)'
    BY <1>0 DEF WalkOK
  <1>2. PICK f \in Mounts : f = file[a]
    BY <1>1 DEF WalkOK
  <1>3. PICK c \in Mounts : c = at[a]
    BY <1>1 DEF TreeType
  <1>4. /\ stage[f] # "free" /\ Ordinary(mnt_parent, sus, f) \subseteq nearest[a]
        /\ a \notin stray => /\ stage[c] # "free"
                             /\ moved[a] = 0 => c \in UpIn(mnt_parent, f, sus)
                             /\ moved[a] < 2 => Ordinary(mnt_parent, sus, c) \subseteq nearest[a]
    BY <1>1, <1>2, <1>3 DEF WalkOK
  <1>5. nearest'[a] = nearest[a] \cup Ordinary(mnt_parent', sus', f)
    BY <1>0, <1>1, <1>2, WatchedBy
  <1>6. moved[a] \in Nat /\ moved'[a] = moved[a] + 1
    BY <1>1 DEF PastType
  <1>7. ASSUME a \notin stray, moved'[a] < 2 PROVE Ordinary(mnt_parent', sus', c) \subseteq nearest'[a]
    <2>1. moved[a] = 0
      BY <1>6, <1>7
    <2>2. c \in Up(f, sus)
      BY <1>4, <1>7, <2>1, UpIsUpIn
    <2>3. NearestOrdinary(c)' \subseteq NearestOrdinary(c) \cup NearestOrdinary(f)'
      BY <2>2, MovedWays
    <2>4. Ordinary(mnt_parent', sus', c)
            \subseteq Ordinary(mnt_parent, sus, c) \cup Ordinary(mnt_parent', sus', f)
      BY <2>3, OrdinaryIs
    <2> QED BY <1>4, <1>5, <1>7, <2>1, <2>4
  <1>8. moved'[a] # 0
    BY <1>6
  <1> QED BY <1>0, <1>2, <1>3, <1>4, <1>5, <1>7, <1>8 DEF WalkOK

\* An umount during a walk; that of the file's own mount counts as a move.
LEMMA WalkUnmounted ==
  ASSUME TreeType, PastType, NEW m \in Mounts, Unmounted(m), UNCHANGED walks, Watched, NEW a \in Apps,
         moved'[a] = IF at[a] # None /\ file[a] \in Below(m) THEN moved[a] + 1 ELSE moved[a], WalkOK(a)
  PROVE  WalkOK(a)'
  <1>0. UNCHANGED <<at, file, stray>>
    BY DEF walks
  <1>1. SUFFICES ASSUME at[a] # None PROVE WalkOK(a)'
    BY <1>0 DEF WalkOK
  <1>2. PICK f \in Mounts : f = file[a]
    BY <1>1 DEF WalkOK
  <1>3. PICK c \in Mounts : c = at[a]
    BY <1>1 DEF TreeType
  <1>4. /\ stage[f] # "free" /\ Ordinary(mnt_parent, sus, f) \subseteq nearest[a]
        /\ a \notin stray => /\ stage[c] # "free"
                             /\ moved[a] = 0 => c \in UpIn(mnt_parent, f, sus)
                             /\ moved[a] < 2 => Ordinary(mnt_parent, sus, c) \subseteq nearest[a]
    BY <1>1, <1>2, <1>3 DEF WalkOK
  <1>5. nearest'[a] = nearest[a] \cup Ordinary(mnt_parent', sus', f)
    BY <1>0, <1>1, <1>2, WatchedBy
  <1>6. moved[a] \in Nat /\ moved'[a] = IF f \in Below(m) THEN moved[a] + 1 ELSE moved[a]
    BY <1>1, <1>2 DEF PastType
  <1>7. ASSUME NEW x \in Mounts, stage[x] # "free" PROVE stage'[x] # "free"
    BY <1>7 DEF Unmounted
  <1>8. ASSUME a \notin stray, moved'[a] < 2 PROVE Ordinary(mnt_parent', sus', c) \subseteq nearest'[a]
    <2>1. moved[a] < 2
      BY <1>6, <1>8
    <2>2. NearestOrdinary(c)' \subseteq NearestOrdinary(c)
      BY UnmountedWays
    <2>3. Ordinary(mnt_parent', sus', c) \subseteq Ordinary(mnt_parent, sus, c)
      BY <2>2, OrdinaryIs
    <2> QED BY <1>4, <1>5, <1>8, <2>1, <2>3
  <1>9. ASSUME a \notin stray, moved'[a] = 0 PROVE c \in UpIn(mnt_parent', f, sus')
    <2>1. moved[a] = 0 /\ f \notin Below(m)
      BY <1>6, <1>9
    <2>2. Up(f, sus)' = Up(f, sus)
      BY <2>1, UnmountedWays
    <2>3. UpIn(mnt_parent', f, sus') = UpIn(mnt_parent, f, sus)
      BY <2>2, UpIsUpIn
    <2> QED BY <1>4, <1>9, <2>1, <2>3
  <1> QED BY <1>0, <1>2, <1>3, <1>4, <1>5, <1>7, <1>8, <1>9 DEF WalkOK

\* A mount freed during a walk: not the file's, which is busy, and if it is the one
\* that the walk is at, the walk has strayed.
LEMMA WalkFreed ==
  ASSUME TreeType, PastType, Rooted, NEW m \in Mounts, Freed(m), UNCHANGED <<at, file, moved>>, Watched,
         NEW a \in Apps, file[a] # m, stray' = stray \cup {b \in Apps : at[b] = m}, WalkOK(a)
  PROVE  WalkOK(a)'
  <1>1. SUFFICES ASSUME at[a] # None PROVE WalkOK(a)'
    BY DEF WalkOK
  <1>2. PICK f \in Mounts : f = file[a] /\ f # m
    BY <1>1 DEF WalkOK
  <1>3. PICK c \in Mounts : c = at[a]
    BY <1>1 DEF TreeType
  <1>4. /\ stage[f] # "free" /\ Ordinary(mnt_parent, sus, f) \subseteq nearest[a]
        /\ a \notin stray => /\ stage[c] # "free"
                             /\ moved[a] = 0 => c \in UpIn(mnt_parent, f, sus)
                             /\ moved[a] < 2 => Ordinary(mnt_parent, sus, c) \subseteq nearest[a]
    BY <1>1, <1>2, <1>3 DEF WalkOK
  <1>5. nearest'[a] = nearest[a] \cup Ordinary(mnt_parent', sus', f)
    BY <1>1, <1>2, WatchedBy
  <1>6. ASSUME NEW x \in Mounts, x # m
        PROVE  /\ stage[x] # "free" => stage'[x] # "free"
               /\ UpIn(mnt_parent', x, sus') = UpIn(mnt_parent, x, sus)
               /\ Ordinary(mnt_parent', sus', x) = Ordinary(mnt_parent, sus, x)
    <2>1. stage[x] # "free" => stage'[x] # "free"
      BY <1>6 DEF Freed, TreeType
    <2> QED BY <1>6, <2>1, FreedWays, UpIsUpIn, OrdinaryIs
  <1>7. a \notin stray' => a \notin stray /\ c # m
    BY <1>3
  <1> QED BY <1>2, <1>3, <1>4, <1>5, <1>6, <1>7 DEF WalkOK

\* The walk begins at the file's mount.
LEMMA WalkBegins ==
  ASSUME TreeType, PastType, NEW m \in Mounts, NEW a \in Apps, vfs_statfs(a, m)
  PROVE  WalkOK(a)'
  <1>1. /\ stage[m] # "free" /\ file'[a] = m /\ at'[a] = m /\ nearest'[a] = NearestOrdinary(m)
        /\ stage' = stage /\ mnt_parent' = mnt_parent /\ sus' = sus
    BY DEF vfs_statfs, TreeType, PastType, tree
  <1>2. m \in UpIn(mnt_parent, m, sus)
    BY UpReflexive
  <1>3. Ordinary(mnt_parent, sus, m) = nearest'[a]
    BY <1>1, OrdinaryIs
  <1> QED BY <1>1, <1>2, <1>3 DEF WalkOK

\* A step up stays on the way.
LEMMA WalkGoesUp ==
  ASSUME TreeType, PastType, Rooted, NEW a \in Apps, go_up(a), WalkOK(a)
  PROVE  WalkOK(a)'
  <1>1. /\ at[a] # None /\ a \notin stray /\ at[a] \in sus /\ at'[a] = mnt_parent[at[a]]
        /\ stage' = stage /\ mnt_parent' = mnt_parent /\ sus' = sus /\ file' = file /\ stray' = stray
        /\ nearest' = nearest /\ moved' = moved
    BY DEF go_up, TreeType, tree, past
  <1>2. PICK f \in Mounts : f = file[a]
    BY <1>1 DEF WalkOK
  <1>3. PICK c \in Mounts : c = at[a]
    BY <1>1 DEF TreeType
  <1>4. PICK q \in Mounts : q = mnt_parent[c]
    BY DEF TreeType
  <1>5. /\ stage[f] # "free" /\ Ordinary(mnt_parent, sus, f) \subseteq nearest[a] /\ stage[c] # "free"
        /\ moved[a] = 0 => c \in UpIn(mnt_parent, f, sus)
        /\ moved[a] < 2 => Ordinary(mnt_parent, sus, c) \subseteq nearest[a]
    BY <1>1, <1>2, <1>3 DEF WalkOK
  <1>6. stage[q] # "free"
    BY <1>4, <1>5 DEF Rooted
  <1>7. mnt_parent \in [Mounts -> Mounts]
    BY DEF TreeType
  <1>8. ASSUME NEW x \in Mounts, c \in UpIn(mnt_parent, x, sus) PROVE q \in UpIn(mnt_parent, x, sus)
    BY <1>1, <1>3, <1>4, <1>7, <1>8, UpClosed DEF Closed
  <1>9. q \in UpIn(mnt_parent, c, sus)
    BY <1>8, UpReflexive
  <1>10. UpIn(mnt_parent, q, sus) \subseteq UpIn(mnt_parent, c, sus)
    BY <1>7, <1>9, UpFurther
  <1>11. Ordinary(mnt_parent, sus, q) \subseteq Ordinary(mnt_parent, sus, c)
    BY <1>10 DEF Ordinary
  <1> QED BY <1>1, <1>2, <1>3, <1>4, <1>5, <1>6, <1>8, <1>11 DEF WalkOK

\* The invariant of the walks.
WalksInv == Rooted /\ Acyclic /\ PastType /\ \A a \in Apps : WalkOK(a)

\* The invariant holds at the start.
LEMMA InitWalks == Init => WalksInv
  <1> SUFFICES ASSUME Init PROVE WalksInv
    OBVIOUS
  <1>1. /\ stage = [m \in Mounts |-> IF m = Root THEN "attached" ELSE "free"]
        /\ mnt_parent = [m \in Mounts |-> m]
    BY DEF Init
  <1>2. Rooted /\ Acyclic
    BY ONLY <1>1 DEF Rooted, Acyclic
  <1>3. PastType /\ \A a \in Apps : WalkOK(a)
    BY DEF Init, PastType, WalkOK
  <1> QED BY <1>2, <1>3 DEF WalksInv

\* The history stays a set of mounts.
LEMMA WatchedType ==
  ASSUME TreeType, PastType, Watched
  PROVE  nearest' \in [Apps -> SUBSET Mounts]
  <1>1. nearest' = [a \in Apps |-> nearest'[a]]
    BY DEF Watched
  <1>2. ASSUME NEW a \in Apps PROVE nearest'[a] \in SUBSET Mounts
    <2>1. nearest[a] \in SUBSET Mounts
      BY DEF PastType
    <2>2. CASE at[a] = None
      BY <2>1, <2>2 DEF Watched
    <2>3. CASE at[a] # None
      <3>1. nearest'[a] = nearest[a] \cup Ordinary(mnt_parent', sus', file'[a])
        BY <2>3, WatchedBy
      <3>2. Ordinary(mnt_parent', sus', file'[a]) \subseteq Mounts
        BY DEF Ordinary, UpIn
      <3> QED BY <2>1, <3>1, <3>2
    <2> QED BY <2>2, <2>3
  <1> QED BY ONLY <1>1, <1>2

\* Every step keeps it.
LEMMA NextWalks == TreeType /\ WalksInv /\ [Next]_vars => WalksInv'
  <1> SUFFICES ASSUME TreeType, Rooted, Acyclic, PastType, \A a \in Apps : WalkOK(a), [Next]_vars
               PROVE  WalksInv'
    BY DEF WalksInv
  <1>p. nearest \in [Apps -> SUBSET Mounts] /\ moved \in [Apps -> Nat]
    BY DEF PastType
  <1>0. ASSUME UNCHANGED <<tree, walks, past>> PROVE WalksInv'
    <2>1. Rooted' /\ Acyclic' /\ PastType'
      BY <1>0, SameTree DEF PastType, past
    <2>2. \A a \in Apps : WalkOK(a)'
      BY <1>0, WalkSame DEF walks, past
    <2> QED BY <2>1, <2>2 DEF WalksInv
  <1>1. ASSUME NEW m \in Mounts, do_make_shared(m) \/ do_make_private(m) PROVE WalksInv'
    BY <1>0, <1>1 DEF do_make_shared, do_make_private
  <1>2. ASSUME susfs_run_try_umount_for_current_mnt_ns PROVE WalksInv'
    BY <1>0, <1>2 DEF susfs_run_try_umount_for_current_mnt_ns
  <1>3. ASSUME NEW ksu \in BOOLEAN, NEW old \in Mounts \cup {None}, NEW p \in Mounts, do_mount(ksu, old, p)
        PROVE  WalksInv'
    <2>1. PICK m \in Mounts : Mounted(m, p)
      BY <1>3, MountedBy
    <2>2. UNCHANGED <<walks, past>>
      BY <1>3 DEF do_mount
    <2>3. Rooted' /\ Acyclic'
      BY <2>1, MountedTree
    <2>4. \A a \in Apps : WalkOK(a)'
      BY <2>1, <2>2, WalkMounted
    <2> QED BY <1>p, <2>2, <2>3, <2>4 DEF WalksInv, PastType, past
  <1>4. ASSUME NEW m \in Mounts, NEW p \in Mounts, do_move_mount(m, p) PROVE WalksInv'
    <2>1. Moved(m, p)
      BY <1>4, MovedBy
    <2>2. /\ UNCHANGED walks /\ Watched
          /\ moved' = [a \in Apps |-> IF at[a] = None THEN 0 ELSE moved[a] + 1]
      BY <1>4 DEF do_move_mount
    <2>3. Rooted' /\ Acyclic'
      BY <2>1, MovedTree
    <2>4. ASSUME NEW a \in Apps PROVE WalkOK(a)'
      <3>1. moved'[a] = IF at[a] = None THEN 0 ELSE moved[a] + 1
        BY <2>2
      <3> QED BY <2>1, <2>2, <3>1, WalkMoved
    <2>5. moved' \in [Apps -> Nat]
      BY <1>p, <2>2
    <2>6. PastType'
      BY <2>2, <2>5, WatchedType DEF PastType
    <2> QED BY <2>3, <2>4, <2>6 DEF WalksInv
  <1>5. ASSUME NEW m \in Mounts, NEW detach \in BOOLEAN, do_umount(m, detach) PROVE WalksInv'
    <2>1. Unmounted(m)
      BY <1>5, UnmountedBy
    <2>2. /\ UNCHANGED walks /\ Watched
          /\ moved' = [a \in Apps |-> IF at[a] # None /\ file[a] \in Below(m) THEN moved[a] + 1 ELSE moved[a]]
      BY <1>5 DEF do_umount
    <2>3. Rooted' /\ Acyclic'
      BY <2>1, UnmountedTree
    <2>4. ASSUME NEW a \in Apps PROVE WalkOK(a)'
      <3>1. moved'[a] = IF at[a] # None /\ file[a] \in Below(m) THEN moved[a] + 1 ELSE moved[a]
        BY <2>2
      <3> QED BY <2>1, <2>2, <3>1, WalkUnmounted
    <2>5. moved' \in [Apps -> Nat]
      BY <1>p, <2>2
    <2>6. PastType'
      BY <2>2, <2>5, WatchedType DEF PastType
    <2> QED BY <2>3, <2>4, <2>6 DEF WalksInv
  <1>6. ASSUME NEW m \in Mounts, free_vfsmnt(m) PROVE WalksInv'
    <2>1. Freed(m)
      BY <1>6, FreedBy
    <2>2. /\ UNCHANGED <<at, file, moved>> /\ Watched /\ stray' = stray \cup {b \in Apps : at[b] = m}
          /\ \A a \in Apps : file[a] # m
      BY <1>6 DEF free_vfsmnt, IsBusy
    <2>3. Rooted' /\ Acyclic'
      BY <2>1, FreedTree
    <2>4. ASSUME NEW a \in Apps PROVE WalkOK(a)'
      BY <2>1, <2>2, WalkFreed
    <2>5. PastType'
      BY <2>2, <1>p, WatchedType DEF PastType
    <2> QED BY <2>3, <2>4, <2>5 DEF WalksInv
  <1>7. ASSUME NEW a \in Apps, NEW m \in Mounts, vfs_statfs(a, m) PROVE WalksInv'
    <2>1. /\ UNCHANGED <<tree, stray, moved>> /\ file' = [file EXCEPT ![a] = m] /\ at' = [at EXCEPT ![a] = m]
          /\ nearest' = [nearest EXCEPT ![a] = NearestOrdinary(m)]
      BY <1>7 DEF vfs_statfs
    <2>2. NearestOrdinary(m) \in SUBSET Mounts
      BY DEF NearestOrdinary, Up
    <2>3. PastType'
      BY <1>p, <2>1, <2>2 DEF PastType
    <2>4. ASSUME NEW b \in Apps PROVE WalkOK(b)'
      <3>1. CASE b = a
        BY <1>7, <3>1, WalkBegins
      <3>2. CASE b # a
        <4>1. at'[b] = at[b] /\ file'[b] = file[b] /\ nearest'[b] = nearest[b] /\ moved'[b] = moved[b]
          BY <1>p, <2>1, <3>2 DEF TreeType
        <4> QED BY <2>1, <4>1, WalkSame
      <3> QED BY <3>1, <3>2
    <2> QED BY <2>1, <2>3, <2>4, SameTree DEF WalksInv
  <1>8. ASSUME NEW a \in Apps, go_up(a) PROVE WalksInv'
    <2>1. UNCHANGED <<tree, file, stray, past>> /\ at' = [at EXCEPT ![a] = mnt_parent[at[a]]]
      BY <1>8 DEF go_up
    <2>2. ASSUME NEW b \in Apps PROVE WalkOK(b)'
      <3>1. CASE b = a
        BY <1>8, <3>1, WalkGoesUp
      <3>2. CASE b # a
        <4>1. at'[b] = at[b]
          BY <2>1, <3>2 DEF TreeType
        <4> QED BY <2>1, <4>1, WalkSame DEF past
      <3> QED BY <3>1, <3>2
    <2> QED BY <2>1, <2>2, SameTree DEF WalksInv, PastType, past
  <1>9. ASSUME NEW a \in Apps, Return(a) PROVE WalksInv'
    <2>1. /\ UNCHANGED tree /\ at' = [at EXCEPT ![a] = None] /\ nearest' = [nearest EXCEPT ![a] = {}]
          /\ moved' = [moved EXCEPT ![a] = 0] /\ stray' = stray \ {a} /\ file' = [file EXCEPT ![a] = None]
      BY <1>9 DEF Return
    <2>2. PastType'
      BY <1>p, <2>1 DEF PastType
    <2>3. ASSUME NEW b \in Apps PROVE WalkOK(b)'
      <3>1. CASE b = a
        BY <2>1, <3>1 DEF WalkOK, TreeType
      <3>2. CASE b # a
        <4>1. /\ at'[b] = at[b] /\ file'[b] = file[b] /\ nearest'[b] = nearest[b] /\ moved'[b] = moved[b]
              /\ b \in stray' <=> b \in stray
          BY <1>p, <2>1, <3>2 DEF TreeType
        <4> QED BY <2>1, <4>1, WalkSame
      <3> QED BY <3>1, <3>2
    <2> QED BY <2>1, <2>2, <2>3, SameTree DEF WalksInv
  <1>10. ASSUME NEW t \in Tools, kern_path(t) \/ refuse(t) \/ path_put(t) PROVE WalksInv'
    BY <1>0, <1>10 DEF kern_path, refuse, path_put
  <1>11. CASE UNCHANGED vars
    BY <1>0, <1>11 DEF vars
  <1>12. ASSUME NEW a \in Apps, walk(a) \/ use_after_free(a) PROVE WalksInv'
    BY <1>8, <1>9, <1>12 DEF walk, found, use_after_free
  <1> QED BY <1>1, <1>2, <1>3, <1>4, <1>5, <1>6, <1>7, <1>10, <1>11, <1>12 DEF Next

\* Only found ends a walk that has not strayed, at a mount that is ordinary.
LEMMA EndsNearest ==
  ASSUME TreeType, WalksInv, [Next]_vars,
         NEW a \in Apps, at[a] # None, at'[a] = None, a \notin stray, moved[a] < 2
  PROVE  at[a] \in nearest[a]
  <1>1. at[a] \in Ordinary(mnt_parent, sus, at[a]) \/ at[a] \in sus
    <2>1. at[a] \in Mounts
      BY DEF TreeType
    <2> QED BY <2>1, UpReflexive DEF Ordinary
  <1>2. Ordinary(mnt_parent, sus, at[a]) \subseteq nearest[a]
    BY DEF WalksInv, WalkOK
  <1>3. ASSUME at[a] \in sus PROVE FALSE
    <2>1. at' # at
      OBVIOUS
    <2>2. ASSUME UNCHANGED walks PROVE FALSE
      BY <2>1, <2>2 DEF walks
    <2>3. ASSUME NEW b \in Apps, walk(b) \/ use_after_free(b) PROVE FALSE
      <3>1. CASE b = a
        <4>1. CASE go_up(a)
          BY <4>1, <1>3, MountHideAssumption DEF go_up, TreeType
        <4> QED BY <2>3, <3>1, <4>1, <1>3 DEF walk, found, use_after_free
      <3>2. CASE b # a
        BY <2>3, <3>2 DEF walk, go_up, found, use_after_free, Return, TreeType
      <3> QED BY <3>1, <3>2
    <2>4. ASSUME NEW b \in Apps, NEW m \in Mounts, vfs_statfs(b, m) PROVE FALSE
      BY <2>4, MountHideAssumption DEF vfs_statfs, TreeType
    <2>5. ASSUME NEW m \in Mounts, free_vfsmnt(m) PROVE FALSE
      BY <2>1, <2>5 DEF free_vfsmnt
    <2>6. ASSUME NEW m \in Mounts, do_make_shared(m) \/ do_make_private(m) PROVE FALSE
      BY <2>2, <2>6 DEF do_make_shared, do_make_private
    <2>7. ASSUME susfs_run_try_umount_for_current_mnt_ns PROVE FALSE
      BY <2>2, <2>7 DEF susfs_run_try_umount_for_current_mnt_ns
    <2>8. ASSUME NEW ksu \in BOOLEAN, NEW old \in Mounts \cup {None}, NEW p \in Mounts,
                 do_mount(ksu, old, p)
          PROVE  FALSE
      BY <2>2, <2>8 DEF do_mount
    <2>9. ASSUME NEW m \in Mounts, NEW p \in Mounts, do_move_mount(m, p) PROVE FALSE
      BY <2>2, <2>9 DEF do_move_mount
    <2>10. ASSUME NEW m \in Mounts, NEW detach \in BOOLEAN, do_umount(m, detach) PROVE FALSE
      BY <2>2, <2>10 DEF do_umount
    <2>11. ASSUME NEW t \in Tools, kern_path(t) \/ refuse(t) \/ path_put(t) PROVE FALSE
      BY <2>2, <2>11 DEF kern_path, refuse, path_put
    <2>12. CASE UNCHANGED vars
      BY <2>2, <2>12 DEF vars
    <2> QED BY <2>3, <2>4, <2>5, <2>6, <2>7, <2>8, <2>9, <2>10, <2>11, <2>12 DEF Next
  <1> QED BY <1>1, <1>2, <1>3

\* So no step breaks the property.
LEMMA NearestStep ==
  ASSUME TreeType, WalksInv, [Next]_vars
  PROVE  [\A a \in Apps :
            at[a] # None /\ at'[a] = None /\ a \notin stray /\ moved[a] < 2 => at[a] \in nearest[a]]_vars
  BY EndsNearest

\* An app's statfs describes a mount that was the nearest ordinary ancestor of the
\* file's mount at some moment of the call, however the tree changed meanwhile, unless
\* two moves of mounts or the unmounting of the file's own came between, or the walk
\* stood on a mount that was freed.
THEOREM StatfsNearestCorrect == Spec => StatfsNearest
  <1>1. IInv /\ WalksInv /\ [Next]_vars => IInv' /\ WalksInv'
    BY NextInv, NextWalks DEF IInv
  <1>2. IInv /\ WalksInv /\ [Next]_vars
          => [\A a \in Apps :
                at[a] # None /\ at'[a] = None /\ a \notin stray /\ moved[a] < 2 => at[a] \in nearest[a]]_vars
    BY NearestStep DEF IInv
  <1> QED BY <1>1, <1>2, InitInv, InitWalks, PTL DEF Spec, StatfsNearest
=============================================================================
