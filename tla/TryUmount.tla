------------------------------ MODULE TryUmount ------------------------------
(***************************************************************************)
(* LH_TRY_UMOUNT_PATH: the paths that are unmounted in the mount namespace  *)
(* of an app before the app's own code runs.  KernelSU's tool registers     *)
(* paths with a command, and do_loopback registers the target of every bind *)
(* mount that a KernelSU process makes.  susfs_try_umount walks the list    *)
(* backwards for the app.                                                   *)
(*                                                                         *)
(* A namespace's mount tree is the sequence of its mounts in the order they *)
(* were made: a mount lies on what was on top at its path at that time, so  *)
(* it covers the earlier mounts at its path and below, and the later ones   *)
(* there are its descendants.                                               *)
(***************************************************************************)
EXTENDS Integers, FiniteSets, SequencesExt

CONSTANTS
  Paths,
  Over,        \* Over[p]: the paths at or above p
  LegitMounts, \* the mounts made at boot, as a sequence of paths
  Requests,    \* the paths and modes the tool passes
  Mounters,    \* KernelSU processes that bind mount
  Tools,       \* KernelSU processes that issue CMD_SUSFS_ADD_TRY_UMOUNT
  Apps,
  InitNs,      \* the namespace of the mounters
  NoTask, NoInfo,
  MaxMounts, MaxEntries \* bounds

TRY_UMOUNT_DEFAULT == 0
TRY_UMOUNT_DETACH  == 1

ASSUME PathsAssumption ==
  /\ Over \in [Paths -> SUBSET Paths] /\ \A p \in Paths : p \in Over[p]
  /\ LegitMounts \in Seq(Paths)
  /\ \A r \in Requests : r.path \in Paths
ASSUME TasksAssumption ==
  /\ IsFiniteSet(Tools) /\ Mounters \cap Tools = {} /\ NoTask \notin Mounters /\ InitNs \notin Apps

Callers == Mounters \cup Tools

VARIABLES
  LH_TRY_UMOUNT_PATH,
  tree,          \* the mounts of a namespace
  namespace_sem, \* the mounter that holds it across its steps
  pc, info,      \* of a caller: where it is, and what it registers
  walk,          \* of an app: where its susfs_try_umount is
  cursor,        \* of an app: the position in the list still to be visited
  skipped,       \* history: the paths that an automatic addition gave up on
  tried,         \* history: for an app, the paths its walk has tried to unmount
  excused        \* history: for an app, the paths no umount can be expected at

lists == <<LH_TRY_UMOUNT_PATH, pc, info, skipped>>
apps  == <<walk, cursor>>
mnts  == <<tree, excused, tried>>
vars  == <<lists, apps, mnts, namespace_sem>>

Mount(p, ksu) == [at |-> p, ksu |-> ksu]

Covers(s, j, k)     == j > k /\ s[j].at \in Over[s[k].at]
Descendant(s, k, i) == i > k /\ s[k].at \in Over[s[i].at]

\* The mount a lookup of p ends in is mounted at p.
IsTopAt(s, k, p) == s[k].at = p /\ \A j \in DOMAIN s : ~Covers(s, j, k)

Init ==
  /\ LH_TRY_UMOUNT_PATH = <<>>
  /\ tree = [n \in {InitNs} \cup Apps |->
               IF n = InitNs THEN [k \in DOMAIN LegitMounts |-> Mount(LegitMounts[k], FALSE)]
               ELSE <<>>]
  /\ namespace_sem = NoTask
  /\ pc = [t \in Callers |-> "idle"]
  /\ info = [t \in Callers |-> NoInfo]
  /\ walk = [a \in Apps |-> "unborn"]
  /\ cursor = [a \in Apps |-> 0]
  /\ skipped = {} /\ tried = [a \in Apps |-> {}] /\ excused = [a \in Apps |-> {}]

-----------------------------------------------------------------------------
(* susfs_add_try_umount, up to its search of the list.                      *)
Call(t) ==
  /\ t \in Tools /\ pc[t] = "idle"
  /\ \E r \in Requests : info' = [info EXCEPT ![t] = r]
  /\ pc' = [pc EXCEPT ![t] = "search"]
  /\ UNCHANGED <<LH_TRY_UMOUNT_PATH, skipped, apps, mnts, namespace_sem>>

\* The clone is mounted here and in some namespaces that it propagates to,
\* where an umount may now meet it instead of what it was to meet, or fail
\* because of it.
graft_tree(p) == \E into \in SUBSET {a \in Apps : walk[a] \in {"copied", "walking"}} :
  /\ \A n \in {InitNs} \cup into : Len(tree[n]) < MaxMounts
  /\ tree' = [n \in DOMAIN tree |->
                IF n = InitNs \/ n \in into THEN Append(tree[n], Mount(p, TRUE)) ELSE tree[n]]
  /\ excused' = [a \in Apps |->
                   IF a \in into THEN excused[a] \cup {q \in Paths : p \in Over[q] \/ q \in Over[p]}
                   ELSE excused[a]]
  /\ UNCHANGED tried

\* Mutant: the hook runs after unlock_mount.
do_loopback_unlocked(t, p) ==
  /\ pc[t] = "idle" /\ namespace_sem = NoTask
  /\ pc' = [pc EXCEPT ![t] = "search"]
  /\ info' = [info EXCEPT ![t] = [path |-> p, mode |-> TRY_UMOUNT_DETACH]]
  /\ graft_tree(p) \/ UNCHANGED mnts
  /\ UNCHANGED <<LH_TRY_UMOUNT_PATH, skipped, apps, namespace_sem>>

(* do_loopback takes namespace_sem and grafts the clone, or fails to; either *)
(* way it comes to the hook, which registers the target.                    *)
do_loopback(t, p) ==
  /\ pc[t] = "idle" /\ namespace_sem = NoTask
  /\ namespace_sem' = t
  /\ pc' = [pc EXCEPT ![t] = "search"]
  /\ info' = [info EXCEPT ![t] = [path |-> p, mode |-> TRY_UMOUNT_DETACH]]
  /\ graft_tree(p) \/ UNCHANGED mnts
  /\ UNCHANGED <<LH_TRY_UMOUNT_PATH, skipped, apps>>

\* The caller is finished; do_loopback releases namespace_sem behind the hook.
Return(t) ==
  /\ pc' = [pc EXCEPT ![t] = "idle"]
  /\ namespace_sem' = IF namespace_sem = t THEN NoTask ELSE namespace_sem
  /\ info' = [info EXCEPT ![t] = NoInfo]
  /\ UNCHANGED <<apps, mnts>>

\* An automatic addition ends without an entry for its path.
GiveUp(t) ==
  /\ Return(t)
  /\ skipped' = IF t \in Mounters THEN skipped \cup {info[t].path} ELSE skipped
  /\ UNCHANGED LH_TRY_UMOUNT_PATH

\* The target's inode has INODE_STATE_SUS_KSTAT, which the tool may set at any
\* time.
skip_sus_kstat(t) ==
  /\ t \in Mounters /\ pc[t] = "search"
  /\ GiveUp(t)

kmalloc_fails(t) ==
  /\ pc[t] = "search"
  /\ GiveUp(t)

\* Mutant: the search stops before the last entry.
IsCreated_short(p) ==
  \E i \in 1..(Len(LH_TRY_UMOUNT_PATH) - 1) : LH_TRY_UMOUNT_PATH[i].path = p

\* The search takes no lock, but entries are only ever appended.
IsCreated(p) == \E i \in DOMAIN LH_TRY_UMOUNT_PATH : LH_TRY_UMOUNT_PATH[i].path = p

already_created(t) ==
  /\ pc[t] = "search"
  /\ IsCreated(info[t].path)
  /\ Return(t)
  /\ UNCHANGED <<LH_TRY_UMOUNT_PATH, skipped>>

not_created(t) ==
  /\ pc[t] = "search"
  /\ ~IsCreated(info[t].path)
  /\ Len(LH_TRY_UMOUNT_PATH) + Cardinality({u \in Callers : pc[u] \in {"append", "link"}}) < MaxEntries
  /\ pc' = [pc EXCEPT ![t] = "append"]
  /\ UNCHANGED <<LH_TRY_UMOUNT_PATH, skipped, info, apps, mnts, namespace_sem>>

\* The critical section of susfs_spin_lock.  __list_add first lets the head's
\* prev point at the entry, whose own prev still points at itself, ...
list_add_prev(t) ==
  /\ pc[t] = "append" /\ \A u \in Callers : pc[u] # "link"
  /\ pc' = [pc EXCEPT ![t] = "link"]
  /\ UNCHANGED <<LH_TRY_UMOUNT_PATH, skipped, info, apps, mnts, namespace_sem>>

\* ... and then sets the entry's pointers and its predecessor's next.
list_add_tail(t) ==
  /\ pc[t] = "link"
  /\ LH_TRY_UMOUNT_PATH' = Append(LH_TRY_UMOUNT_PATH, info[t])
  /\ Return(t)
  /\ UNCHANGED skipped

-----------------------------------------------------------------------------
(* The mount table outside the list: a mount is detached in the mounters'    *)
(* namespace, and zygote forks an app into a copy of it.                     *)
\* What is left of s at the positions in K, in its order.
Nth(K, i)  == CHOOSE k \in K : Cardinality({j \in K : j <= k}) = i
Kept(s, K) == [i \in 1..Cardinality(K) |-> s[Nth(K, i)]]

Detach(s, k) == Kept(s, {i \in DOMAIN s : i # k /\ ~Descendant(s, k, i)})

umount(p) ==
  /\ namespace_sem = NoTask
  /\ \E k \in DOMAIN tree[InitNs] :
       /\ IsTopAt(tree[InitNs], k, p) /\ tree[InitNs][k].ksu
       /\ tree' = [tree EXCEPT ![InitNs] = Detach(@, k)]
  /\ UNCHANGED <<lists, apps, namespace_sem, excused, tried>>

copy_mnt_ns(a) ==
  /\ walk[a] = "unborn" /\ namespace_sem = NoTask
  /\ tree' = [tree EXCEPT ![a] = tree[InitNs]]
  /\ excused' = [excused EXCEPT ![a] =
                   {tree[InitNs][k].at : k \in {i \in DOMAIN tree[InitNs] :
                      /\ tree[InitNs][i].ksu
                      /\ \E j \in DOMAIN tree[InitNs] : Covers(tree[InitNs], j, i)}}]
  /\ walk' = [walk EXCEPT ![a] = "copied"]
  /\ UNCHANGED <<lists, cursor, namespace_sem, tried>>

-----------------------------------------------------------------------------
(* susfs_try_umount.  ksu_try_umount does nothing when no mount is at the    *)
(* path, and umount without MNT_DETACH fails when the mount is in use or     *)
(* has mounts on it.                                                         *)
\* The list as it is from the tail: with the entry that is being linked.
Backward ==
  LH_TRY_UMOUNT_PATH
    \o SetToSeq({info[t] : t \in {u \in Callers : pc[u] = "link"}})

start_walk(a) ==
  /\ walk[a] = "copied"
  /\ walk' = [walk EXCEPT ![a] = "walking"]
  /\ cursor' = [cursor EXCEPT ![a] = Len(Backward)]
  /\ UNCHANGED <<lists, mnts, namespace_sem>>

IsSupported(mode) == mode \in {TRY_UMOUNT_DEFAULT, TRY_UMOUNT_DETACH}

\* A descendant that the walk need not have unmounted before.
Blocks(a, k, i) ==
  /\ Descendant(tree[a], k, i)
  /\ ~tree[a][i].ksu \/ tree[a][i].at \in excused[a] \/ tree[a][i].at \notin tried[a]

ksu_try_umount(a, p, detach) ==
  \/ /\ \A k \in DOMAIN tree[a] : ~IsTopAt(tree[a], k, p)
     /\ UNCHANGED <<tree, excused>>
  \/ \E k \in DOMAIN tree[a] :
       /\ IsTopAt(tree[a], k, p)
       /\ detach \/ \A i \in DOMAIN tree[a] : ~Descendant(tree[a], k, i)
       /\ tree' = [tree EXCEPT ![a] = Detach(@, k)]
       /\ UNCHANGED excused
  \/ \E k \in DOMAIN tree[a] :
       /\ IsTopAt(tree[a], k, p) /\ ~detach
       /\ \/ /\ \E i \in DOMAIN tree[a] : Descendant(tree[a], k, i)
             /\ excused' = [excused EXCEPT ![a] =
                   IF \E i \in DOMAIN tree[a] : Blocks(a, k, i) THEN @ \cup {p} ELSE @]
          \/ excused' = [excused EXCEPT ![a] = @ \cup {p}]  \* in use
       /\ UNCHANGED tree

\* Mutant: the walk goes from the head to the tail.
Visited_forward(a) == Backward[Len(Backward) + 1 - cursor[a]]

\* The entry the walk is at.
Visited(a) == Backward[cursor[a]]

\* Mutant: list_add_tail would never set the entry's own prev.
Previous_self(a) == IF cursor[a] = Len(Backward) THEN cursor[a] ELSE cursor[a] - 1

\* Where the entry's prev leads: to itself as long as it is being linked.
Previous(a) == IF cursor[a] > Len(LH_TRY_UMOUNT_PATH) THEN cursor[a] ELSE cursor[a] - 1

visit(a) ==
  /\ walk[a] = "walking" /\ cursor[a] > 0
  /\ LET e == Visited(a)
     IN  \/ /\ IsSupported(e.mode) /\ namespace_sem = NoTask
            /\ ksu_try_umount(a, e.path, e.mode = TRY_UMOUNT_DETACH)
            /\ tried' = [tried EXCEPT ![a] = @ \cup {e.path}]
         \/ ~IsSupported(e.mode) /\ UNCHANGED mnts
  /\ cursor' = [cursor EXCEPT ![a] = Previous(a)]
  /\ UNCHANGED <<lists, walk, namespace_sem>>

end_walk(a) ==
  /\ walk[a] = "walking" /\ cursor[a] = 0
  /\ walk' = [walk EXCEPT ![a] = "done"]
  /\ UNCHANGED <<lists, cursor, mnts, namespace_sem>>

-----------------------------------------------------------------------------
add(t) ==
  \/ skip_sus_kstat(t) \/ kmalloc_fails(t) \/ already_created(t)
  \/ not_created(t) \/ list_add_prev(t) \/ list_add_tail(t)

susfs_try_umount(a) == start_walk(a) \/ visit(a) \/ end_walk(a)

Next ==
  \/ \E t \in Callers : Call(t) \/ add(t)
  \/ \E t \in Mounters, p \in Paths : do_loopback(t, p)
  \/ \E p \in Paths : umount(p)
  \/ \E a \in Apps : copy_mnt_ns(a) \/ susfs_try_umount(a)

Spec == Init /\ [][Next]_vars

\* A caller inside the kernel goes on, and so does a walk; namespace_sem is
\* handed to its waiters in turn, so that a walk is not passed over for ever.
FairSpec ==
  /\ Spec
  /\ \A t \in Callers : WF_vars(add(t))
  /\ \A a \in Apps : SF_vars(visit(a) \/ end_walk(a))

-----------------------------------------------------------------------------
Infos == Requests \cup [path : Paths, mode : {TRY_UMOUNT_DETACH}]

\* The list and its callers: who is in the kernel knows what it registers, and
\* namespace_sem is held exactly across a mounter's hook.
ListsOK ==
  /\ LH_TRY_UMOUNT_PATH \in Seq(Infos)
  /\ pc \in [Callers -> {"idle", "search", "append", "link"}]
  /\ DOMAIN info = Callers
  /\ \A t \in Callers : IF pc[t] = "idle" THEN info[t] = NoInfo ELSE info[t] \in Infos
  /\ \A t \in Mounters : namespace_sem = t <=> pc[t] # "idle"

AppsOK ==
  /\ tree \in [{InitNs} \cup Apps -> Seq([at : Paths, ksu : BOOLEAN])]
  /\ walk \in [Apps -> {"unborn", "copied", "walking", "done"}]
  /\ DOMAIN cursor = Apps /\ \A a \in Apps : cursor[a] \in 0..Len(Backward)
  /\ skipped \subseteq Paths
  /\ excused \in [Apps -> SUBSET Paths] /\ tried \in [Apps -> SUBSET Paths]

\* The type of the state; a walk stays within the list.
TypeOK == ListsOK /\ AppsOK

Entries(p) == {i \in DOMAIN LH_TRY_UMOUNT_PATH : LH_TRY_UMOUNT_PATH[i].path = p}
Adders(p)  == {t \in Callers : pc[t] \in {"append", "link"} /\ info[t].path = p}

\* Although the search and the append are not one critical section, a path has
\* no more entries than callers can search at the same time: the tools, and the
\* one mounter that holds namespace_sem.
DuplicatesBounded ==
  \A p \in Paths : Cardinality(Entries(p)) + Cardinality(Adders(p)) <= Cardinality(Tools) + 1

\* When the walk for an app is over, the app's namespace has no bind mount of
\* KernelSU left, unless it came after the copy, was covered by another mount,
\* could not be unmounted with mode 0, or has no entry because the automatic
\* addition gave up or the tool had registered the path with an unknown mode.
HiddenFromApp ==
  \A a \in Apps : walk[a] = "done" =>
    \A k \in DOMAIN tree[a] : tree[a][k].ksu =>
      LET p == tree[a][k].at
      IN  \/ p \in excused[a] \cup skipped
          \/ \E i \in DOMAIN LH_TRY_UMOUNT_PATH :
               LH_TRY_UMOUNT_PATH[i].path = p /\ ~IsSupported(LH_TRY_UMOUNT_PATH[i].mode)

\* A walk that has begun comes to its end, however many paths are added
\* meanwhile: what is appended at the tail is behind it, and an entry that it
\* finds half linked leads on as soon as the critical section goes on.
WalkEnds == \A a \in Apps : (walk[a] = "walking") ~> (walk[a] = "done")
=============================================================================
