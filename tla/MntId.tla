------------------------------- MODULE MntId --------------------------------
(***************************************************************************)
(* The life of a mount id in the patched fs/namespace.c.  Two id           *)
(* allocators hand out ids: mnt_id_ida for ordinary mounts and             *)
(* susfs_mnt_id_ida, from DEFAULT_SUS_MNT_ID upwards, for mounts that are  *)
(* to be hidden.  On top of that the visible mnt_id may be replaced by a   *)
(* fake one: a KernelSU process that unshares shares the ids of the mounts *)
(* it copies, and zygote numbers its mounts without gaps.  When the mount  *)
(* is freed, mnt_free_id must find out from mnt_id and susfs_mnt_id_backup *)
(* alone which id goes back to which allocator.                            *)
(*                                                                         *)
(* copy_mnt_ns holds namespace_sem from StartCopy to FinishCopy, so no     *)
(* mount is attached, cloned or unmounted meanwhile; but the two id        *)
(* allocators have a lock of their own, and new mounts are created and     *)
(* dead ones freed in between.                                             *)
(***************************************************************************)
EXTENDS Integers, FiniteSets, SequencesExt

CONSTANTS
  Mounts,   \* struct mount objects
  Root,     \* the rootfs mount, the first mount of the kernel
  Tasks,
  Domain,   \* the SELinux domain of a task: "ksu", "zygote" or "other"
  Nss,      \* mount namespaces
  InitNs,   \* the initial one
  DEFAULT_SUS_MNT_ID,
  DEFAULT_SUS_MNT_ID_FOR_KSU_PROC_UNSHARE,
  MaxSusId, \* bound: susfs_mnt_id_ida hands out ids up to this one
  NoMount, NoTask, NoId, NoCopy

ASSUME IdsAssumption ==
  /\ DEFAULT_SUS_MNT_ID \in Nat \ {0} /\ MaxSusId \in Nat
  /\ DEFAULT_SUS_MNT_ID_FOR_KSU_PROC_UNSHARE \in Nat
  /\ DEFAULT_SUS_MNT_ID <= MaxSusId
  /\ MaxSusId < DEFAULT_SUS_MNT_ID_FOR_KSU_PROC_UNSHARE
ASSUME MountsAssumption ==
  /\ Root \in Mounts /\ InitNs \in Nss
  /\ NoMount \notin Mounts /\ NoTask \notin Tasks
  /\ Domain \in [Tasks -> {"ksu", "zygote", "other"}]

\* Bound: the ordinary and the fake ids stay below DEFAULT_SUS_MNT_ID.
OrdinaryIds == 0..(DEFAULT_SUS_MNT_ID - 1)
SusIds      == DEFAULT_SUS_MNT_ID..MaxSusId

VARIABLES
  mnt_id_ida, mnt_id_start,              \* allocated ids, and the search hint
  susfs_mnt_id_ida, susfs_mnt_id_start,
  mnt_id,                 \* mnt->mnt_id, the id that is visible
  susfs_mnt_id_backup,    \* mnt->mnt.susfs_mnt_id_backup
  stage,                  \* where a mount is in its life
  list,                   \* ns->list
  ns,                     \* the mount namespace of a task
  pending,                \* the mount a task has created and not yet attached
  susfs_last_fake_mnt_id, \* current->susfs_last_fake_mnt_id
  copying,                \* the copy_mnt_ns that holds namespace_sem
  owned,                  \* history: the allocated id a mount has to give back
  namer                   \* history: the task that gave a mount its fake id

idas  == <<mnt_id_ida, mnt_id_start, susfs_mnt_id_ida, susfs_mnt_id_start>>
names == <<mnt_id, susfs_mnt_id_backup, owned, namer>>
vars  == <<idas, names, stage, list, ns, pending, susfs_last_fake_mnt_id, copying>>

IsSus(m) == mnt_id[m] >= DEFAULT_SUS_MNT_ID

FromIda(ida, id) == [ida |-> ida, id |-> id]
AllocatedIds     == [ida : {"mnt"}, id : OrdinaryIds] \cup [ida : {"susfs"}, id : SusIds]
Owns(id)         == {FromIda("mnt", id), FromIda("susfs", id), NoId}

ASSUME NoIdAssumption == NoId \notin [ida : {"mnt", "susfs"}, id : Nat]

-----------------------------------------------------------------------------
(* ida_get_new_above(ida, start): the first id from start on that is free.  *)
FirstFree(ida, start, id) ==
  id >= start /\ id \notin ida /\ \A j \in start..(id - 1) : j \in ida

mnt_alloc_id(id) ==
  /\ id \in OrdinaryIds /\ FirstFree(mnt_id_ida, mnt_id_start, id)
  /\ mnt_id_ida' = mnt_id_ida \cup {id}
  /\ mnt_id_start' = id + 1
  /\ UNCHANGED <<susfs_mnt_id_ida, susfs_mnt_id_start>>

susfs_mnt_alloc_id(id) ==
  /\ id \in SusIds /\ FirstFree(susfs_mnt_id_ida, susfs_mnt_id_start, id)
  /\ susfs_mnt_id_ida' = susfs_mnt_id_ida \cup {id}
  /\ susfs_mnt_id_start' = id + 1
  /\ UNCHANGED <<mnt_id_ida, mnt_id_start>>

(* alloc_vfsmnt: a custom id of 0 means that there is none.                 *)
alloc_vfsmnt(should_spoof, custom_mnt_id, id, own) ==
  \/ ~should_spoof /\ mnt_alloc_id(id) /\ own = FromIda("mnt", id)
  \/ /\ should_spoof /\ custom_mnt_id = 0
     /\ susfs_mnt_alloc_id(id) /\ own = FromIda("susfs", id)
  \/ /\ should_spoof /\ custom_mnt_id # 0
     /\ id = custom_mnt_id /\ own = NoId /\ UNCHANGED idas

\* Mutant: the early return for the copies of an unshare is missing.
Released_unmarked(m) ==
  CASE IsSus(m)                                  -> FromIda("susfs", mnt_id[m])
    [] ~IsSus(m) /\ susfs_mnt_id_backup[m] # 0   -> FromIda("mnt", susfs_mnt_id_backup[m])
    [] ~IsSus(m) /\ susfs_mnt_id_backup[m] = 0   -> FromIda("mnt", mnt_id[m])

(* The allocator and the id mnt_free_id takes a mount's id to be.           *)
Released(m) ==
  LET backup   == susfs_mnt_id_backup[m]
      unshared == backup = DEFAULT_SUS_MNT_ID_FOR_KSU_PROC_UNSHARE
  IN  CASE unshared                             -> NoId
        [] ~unshared /\ IsSus(m)                -> FromIda("susfs", mnt_id[m])
        [] ~unshared /\ ~IsSus(m) /\ backup # 0 -> FromIda("mnt", backup)
        [] ~unshared /\ ~IsSus(m) /\ backup = 0 -> FromIda("mnt", mnt_id[m])

Lower(start, id) == IF start > id THEN id ELSE start

mnt_free_id(m) ==
  LET r == Released(m)
  IN  \/ r = NoId /\ UNCHANGED idas
      \/ /\ r # NoId /\ r.ida = "susfs"
         /\ susfs_mnt_id_ida' = susfs_mnt_id_ida \ {r.id}
         /\ susfs_mnt_id_start' = Lower(susfs_mnt_id_start, r.id)
         /\ UNCHANGED <<mnt_id_ida, mnt_id_start>>
      \/ /\ r # NoId /\ r.ida = "mnt"
         /\ mnt_id_ida' = mnt_id_ida \ {r.id}
         /\ mnt_id_start' = Lower(mnt_id_start, r.id)
         /\ UNCHANGED <<susfs_mnt_id_ida, susfs_mnt_id_start>>

-----------------------------------------------------------------------------
\* Mutant: zygote's fake id is given without a backup of the real one.
Name_unsaved(t, m, id, own, backup, fake) ==
  /\ owned' = [owned EXCEPT ![m] = own]
  /\ susfs_mnt_id_backup' = [susfs_mnt_id_backup EXCEPT ![m] = backup]
  /\ IF fake
     THEN /\ susfs_last_fake_mnt_id[t] \in OrdinaryIds
          /\ mnt_id' = [mnt_id EXCEPT ![m] = susfs_last_fake_mnt_id[t]]
          /\ susfs_last_fake_mnt_id' = [susfs_last_fake_mnt_id EXCEPT ![t] = @ + 1]
          /\ namer' = [namer EXCEPT ![m] = t]
     ELSE /\ mnt_id' = [mnt_id EXCEPT ![m] = id]
          /\ namer' = [namer EXCEPT ![m] = NoTask]
          /\ UNCHANGED susfs_last_fake_mnt_id

(* A mount gets the id it was allocated, or zygote's next fake one with the *)
(* allocated one kept as the backup.                                        *)
Name(t, m, id, own, backup, fake) ==
  /\ owned' = [owned EXCEPT ![m] = own]
  /\ IF fake
     THEN /\ susfs_last_fake_mnt_id[t] \in OrdinaryIds
          /\ mnt_id' = [mnt_id EXCEPT ![m] = susfs_last_fake_mnt_id[t]]
          /\ susfs_mnt_id_backup' = [susfs_mnt_id_backup EXCEPT ![m] = id]
          /\ susfs_last_fake_mnt_id' = [susfs_last_fake_mnt_id EXCEPT ![t] = @ + 1]
          /\ namer' = [namer EXCEPT ![m] = t]
     ELSE /\ mnt_id' = [mnt_id EXCEPT ![m] = id]
          /\ susfs_mnt_id_backup' = [susfs_mnt_id_backup EXCEPT ![m] = backup]
          /\ namer' = [namer EXCEPT ![m] = NoTask]
          /\ UNCHANGED susfs_last_fake_mnt_id

\* Outside the critical section of copy_mnt_ns, a task that does one thing.
Idle(t) == pending[t] = NoMount /\ (copying # NoCopy => copying.task # t)

Unlocked == copying = NoCopy

(* vfs_kern_mount, without namespace_sem: KernelSU gets an id from susfs's  *)
(* allocator, zygote a fake id.  When mount_fs fails the mount is freed     *)
(* before it is renumbered.                                                 *)
vfs_kern_mount(t, m) ==
  /\ stage[m] = "free" /\ Idle(t)
  /\ \E id \in OrdinaryIds \cup SusIds : \E own \in Owns(id) :
       /\ alloc_vfsmnt(Domain[t] = "ksu", 0, id, own)
       /\ \/ /\ Name(t, m, id, own, 0, Domain[t] = "zygote")
             /\ stage' = [stage EXCEPT ![m] = "new"]
             /\ pending' = [pending EXCEPT ![t] = m]
          \/ /\ Name(t, m, id, own, 0, FALSE)
             /\ stage' = [stage EXCEPT ![m] = "dead"]
             /\ UNCHANGED pending
  /\ UNCHANGED <<list, ns, copying>>

\* do_add_mount attaches the new mount, or fails and drops it.
do_add_mount(t) ==
  /\ pending[t] # NoMount
  /\ \/ /\ Unlocked
        /\ stage' = [stage EXCEPT ![pending[t]] = "attached"]
        /\ list' = [list EXCEPT ![ns[t]] = Append(@, pending[t])]
     \/ /\ stage' = [stage EXCEPT ![pending[t]] = "dead"]
        /\ UNCHANGED list
  /\ pending' = [pending EXCEPT ![t] = NoMount]
  /\ UNCHANGED <<idas, names, ns, susfs_last_fake_mnt_id, copying>>

\* Mutant: only KernelSU's and zygote's copies of sus mounts stay sus.
should_spoof_zygote_only(t, old, copyNs) ==
  Domain[t] = "ksu" \/ (IsSus(old) /\ Domain[t] = "zygote")

(* clone_mnt: which of the copies get an id from susfs's allocator, and the *)
(* id that a copy made for KernelSU's unshare shares with its original.     *)
should_spoof(t, old, copyNs) ==
  \/ Domain[t] = "ksu"
  \/ IsSus(old) /\ (Domain[t] = "zygote" \/ copyNs)

custom_mnt_id(t, old, copyNs) ==
  IF Domain[t] = "ksu" /\ copyNs THEN mnt_id[old] ELSE 0

clone_mnt(t, old, m, copyNs) ==
  /\ stage[m] = "free"
  /\ \E id \in OrdinaryIds \cup SusIds : \E own \in Owns(id) :
       /\ alloc_vfsmnt(should_spoof(t, old, copyNs), custom_mnt_id(t, old, copyNs), id, own)
       /\ Name(t, m, id, own,
               IF Domain[t] = "ksu" /\ copyNs
               THEN DEFAULT_SUS_MNT_ID_FOR_KSU_PROC_UNSHARE ELSE 0,
               Domain[t] = "zygote" /\ ~copyNs)

\* do_loopback: a bind mount clones one mount of the namespace and attaches
\* the clone there, or fails to and drops it.
do_loopback(t, m) ==
  /\ Idle(t) /\ Unlocked
  /\ \E k \in DOMAIN list[ns[t]] : clone_mnt(t, list[ns[t]][k], m, FALSE)
  /\ \/ /\ stage' = [stage EXCEPT ![m] = "attached"]
        /\ list' = [list EXCEPT ![ns[t]] = Append(@, m)]
     \/ /\ stage' = [stage EXCEPT ![m] = "dead"]
        /\ UNCHANGED list
  /\ UNCHANGED <<ns, pending, copying>>

(* Mount propagation clones a mount of the task's namespace into another    *)
(* one, on behalf of the task that mounts.                                  *)
propagate_one(t, n, m) ==
  /\ Idle(t) /\ Unlocked /\ n # ns[t] /\ list[n] # <<>>
  /\ \E k \in DOMAIN list[ns[t]] : clone_mnt(t, list[ns[t]][k], m, FALSE)
  /\ stage' = [stage EXCEPT ![m] = "attached"]
  /\ list' = [list EXCEPT ![n] = Append(@, m)]
  /\ UNCHANGED <<ns, pending, copying>>

-----------------------------------------------------------------------------
(* copy_mnt_ns: copy_tree clones the mounts one by one.                     *)
StartCopy(t, n) ==
  /\ Idle(t) /\ Unlocked
  /\ list[n] = <<>>
  /\ copying' = [task |-> t, to |-> n, done |-> <<>>]
  /\ UNCHANGED <<idas, names, stage, list, ns, pending, susfs_last_fake_mnt_id>>

CopyOne(m) ==
  /\ copying # NoCopy
  /\ LET t == copying.task
     IN  /\ Len(copying.done) < Len(list[ns[t]])
         /\ clone_mnt(t, list[ns[t]][Len(copying.done) + 1], m, TRUE)
  /\ stage' = [stage EXCEPT ![m] = "new"]
  /\ copying' = [copying EXCEPT !.done = Append(@, m)]
  /\ UNCHANGED <<list, ns, pending>>

\* copy_tree fails: what has been copied is unmounted.
CopyFails ==
  /\ copying # NoCopy
  /\ stage' = [m \in Mounts |-> IF m \in Range(copying.done) THEN "dead" ELSE stage[m]]
  /\ copying' = NoCopy
  /\ UNCHANGED <<idas, names, list, ns, pending, susfs_last_fake_mnt_id>>

\* Mutant: the first mount does not use up a number.
Rank_first_free(s, k) == Cardinality({j \in 2..(k - 1) : ~IsSus(s[j])})

\* The k-th mount of s among those that zygote renumbers.
Rank(s, k) == Cardinality({j \in 1..(k - 1) : ~IsSus(s[j])})

(* zygote numbers the copies that are not sus without gaps from the id of   *)
(* the first one, and remembers where it stopped.  Any other task that      *)
(* unshares remembers 0.                                                    *)
Renumber(t, s) ==
  LET base   == mnt_id[s[1]]
      count  == Rank(s, Len(s) + 1)
      fresh  == {k \in DOMAIN s : ~IsSus(s[k])}
      pos(m) == CHOOSE k \in fresh : s[k] = m
      faked  == {s[k] : k \in fresh}
  IN  /\ base < DEFAULT_SUS_MNT_ID => base + count <= DEFAULT_SUS_MNT_ID
      /\ mnt_id' = [m \in Mounts |-> IF m \in faked THEN base + Rank(s, pos(m)) ELSE mnt_id[m]]
      /\ susfs_mnt_id_backup' =
           [m \in Mounts |-> IF m \in faked THEN mnt_id[m] ELSE susfs_mnt_id_backup[m]]
      /\ susfs_last_fake_mnt_id' = [susfs_last_fake_mnt_id EXCEPT ![t] = base + count]
      /\ namer' = [m \in Mounts |-> IF m \in faked THEN t ELSE namer[m]]
      /\ UNCHANGED owned

FinishCopy ==
  /\ copying # NoCopy
  /\ LET t == copying.task
         s == copying.done
     IN  /\ Len(s) = Len(list[ns[t]])
         /\ \/ Domain[t] = "zygote" /\ Renumber(t, s)
            \/ /\ Domain[t] # "zygote"
               /\ susfs_last_fake_mnt_id' = [susfs_last_fake_mnt_id EXCEPT ![t] = 0]
               /\ UNCHANGED names
         /\ stage' = [m \in Mounts |-> IF m \in Range(s) THEN "attached" ELSE stage[m]]
         /\ list' = [list EXCEPT ![copying.to] = s]
         /\ ns' = [ns EXCEPT ![t] = copying.to]
  /\ copying' = NoCopy
  /\ UNCHANGED <<idas, pending>>

-----------------------------------------------------------------------------
\* The root of a namespace is not unmounted while the namespace lives.
umount(n) ==
  /\ Unlocked
  /\ \E k \in 2..Len(list[n]) :
       /\ stage' = [stage EXCEPT ![list[n][k]] = "dead"]
       /\ list' = [list EXCEPT ![n] = RemoveAt(@, k)]
  /\ UNCHANGED <<idas, names, ns, pending, susfs_last_fake_mnt_id, copying>>

\* The last task of a namespace has left it.
put_mnt_ns(n) ==
  /\ Unlocked
  /\ n # InitNs /\ list[n] # <<>> /\ \A t \in Tasks : ns[t] # n
  /\ stage' = [m \in Mounts |-> IF m \in Range(list[n]) THEN "dead" ELSE stage[m]]
  /\ list' = [list EXCEPT ![n] = <<>>]
  /\ UNCHANGED <<idas, names, ns, pending, susfs_last_fake_mnt_id, copying>>

\* The last reference to a dead mount is put, at any later time.
free_mount(m) ==
  /\ stage[m] = "dead"
  /\ mnt_free_id(m)
  /\ stage' = [stage EXCEPT ![m] = "free"]
  /\ owned' = [owned EXCEPT ![m] = NoId]
  /\ mnt_id' = [mnt_id EXCEPT ![m] = 0]
  /\ susfs_mnt_id_backup' = [susfs_mnt_id_backup EXCEPT ![m] = 0]
  /\ namer' = [namer EXCEPT ![m] = NoTask]
  /\ UNCHANGED <<list, ns, pending, susfs_last_fake_mnt_id, copying>>

-----------------------------------------------------------------------------
(* The kernel's first mount, rootfs, got id 0.                              *)
Init ==
  /\ mnt_id_ida = {0} /\ mnt_id_start = 1
  /\ susfs_mnt_id_ida = {} /\ susfs_mnt_id_start = DEFAULT_SUS_MNT_ID
  /\ mnt_id = [m \in Mounts |-> 0]
  /\ susfs_mnt_id_backup = [m \in Mounts |-> 0]
  /\ stage = [m \in Mounts |-> IF m = Root THEN "attached" ELSE "free"]
  /\ list = [n \in Nss |-> IF n = InitNs THEN <<Root>> ELSE <<>>]
  /\ ns = [t \in Tasks |-> InitNs]
  /\ pending = [t \in Tasks |-> NoMount]
  /\ susfs_last_fake_mnt_id = [t \in Tasks |-> 0]
  /\ copying = NoCopy
  /\ owned = [m \in Mounts |-> IF m = Root THEN FromIda("mnt", 0) ELSE NoId]
  /\ namer = [m \in Mounts |-> NoTask]

Next ==
  \/ \E t \in Tasks, m \in Mounts : vfs_kern_mount(t, m) \/ do_loopback(t, m)
  \/ \E t \in Tasks, m \in Mounts, n \in Nss : propagate_one(t, n, m)
  \/ \E t \in Tasks : do_add_mount(t)
  \/ \E t \in Tasks, n \in Nss : StartCopy(t, n)
  \/ \E m \in Mounts : CopyOne(m) \/ free_mount(m)
  \/ CopyFails
  \/ FinishCopy
  \/ \E n \in Nss : umount(n) \/ put_mnt_ns(n)

Spec == Init /\ [][Next]_vars

-----------------------------------------------------------------------------
Copyings == [task : Tasks, to : Nss, done : Seq(Mounts)]

\* Type correctness of fs/namespace.c's id bookkeeping.
TypeOK ==
  /\ mnt_id_ida \subseteq OrdinaryIds /\ susfs_mnt_id_ida \subseteq SusIds
  /\ mnt_id_start \in 0..DEFAULT_SUS_MNT_ID
  /\ susfs_mnt_id_start \in DEFAULT_SUS_MNT_ID..(MaxSusId + 1)
  /\ mnt_id \in [Mounts -> OrdinaryIds \cup SusIds]
  /\ susfs_mnt_id_backup \in
       [Mounts -> OrdinaryIds \cup SusIds \cup {DEFAULT_SUS_MNT_ID_FOR_KSU_PROC_UNSHARE}]
  /\ stage \in [Mounts -> {"free", "new", "attached", "dead"}]
  /\ list \in [Nss -> Seq(Mounts)]
  /\ ns \in [Tasks -> Nss]
  /\ pending \in [Tasks -> Mounts \cup {NoMount}]
  /\ susfs_last_fake_mnt_id \in [Tasks -> 0..DEFAULT_SUS_MNT_ID]
  /\ copying \in Copyings \cup {NoCopy}
  /\ owned \in [Mounts -> AllocatedIds \cup {NoId}]
  /\ namer \in [Mounts -> Tasks \cup {NoTask}]

Holders(ida) == {m \in Mounts : owned[m] # NoId /\ owned[m].ida = ida}

(* mnt_id_ida holds exactly the ids of the live mounts: none is leaked and  *)
(* none is released early, whatever fake id the mount shows.  The sus ids   *)
(* in use are held too.  No id is allocated to two mounts.                  *)
AllocatorsExact ==
  /\ mnt_id_ida = {owned[m].id : m \in Holders("mnt")}
  /\ {owned[m].id : m \in Holders("susfs")} \subseteq susfs_mnt_id_ida
  /\ \A m1, m2 \in Mounts : owned[m1] = owned[m2] /\ owned[m1] # NoId => m1 = m2

\* The copies that KernelSU's unshare makes, as mnt_free_id knows them.
Unshared(m) == susfs_mnt_id_backup[m] = DEFAULT_SUS_MNT_ID_FOR_KSU_PROC_UNSHARE

(* What mnt_free_id gives back.  A mount with an ordinary id gives back that *)
(* very id, although zygote may have hidden it behind a fake one; a copy     *)
(* that shares its original's id gives nothing back; and a mount with a sus  *)
(* id gives that id back to susfs's allocator, but for the two kinds of      *)
(* mounts for which the code loses the id: a copy KernelSU makes of a mount  *)
(* whose visible id is 0 gives nothing back, and a sus mount that zygote has *)
(* numbered gives its sus id to the ordinary allocator.  No mount gives back *)
(* what another one owns.                                                    *)
FreesOwnId ==
  \A m \in Mounts : stage[m] # "free" =>
    /\ m \notin Holders("susfs") => Released(m) = owned[m]
    /\ m \in Holders("susfs") =>
         Released(m) = CASE Unshared(m)                           -> NoId
                         [] ~Unshared(m) /\ namer[m] = NoTask     -> owned[m]
                         [] ~Unshared(m) /\ namer[m] \in Tasks    -> FromIda("mnt", owned[m].id)
    /\ \A other \in Mounts \ {m} : Released(m) # NoId => Released(m) # owned[other]

(* Every id below a search hint is in use, so that the search from the hint *)
(* on never passes over a released id.                                      *)
HintSound ==
  /\ 0..(mnt_id_start - 1) \subseteq mnt_id_ida
  /\ DEFAULT_SUS_MNT_ID..(susfs_mnt_id_start - 1) \subseteq susfs_mnt_id_ida

(* The two allocators and their hints, with the type of the state: as long  *)
(* as this holds, an id is handed out again if and only if it is free.      *)
IdsSound == TypeOK /\ AllocatorsExact /\ HintSound

(* /proc/self/mountinfo of a zygote shows no id twice among the mounts it   *)
(* has numbered itself: those of the copied tree and those added later by   *)
(* mount, bind mount or propagation count on from one number.               *)
FakeIdsDistinct ==
  \A t \in Tasks : \A j, k \in DOMAIN list[ns[t]] :
    LET a == list[ns[t]][j]
        b == list[ns[t]][k]
    IN  namer[a] = t /\ namer[b] = t /\ mnt_id[a] = mnt_id[b] => j = k

(* When a namespace has been copied, the hidden mounts of the copy are the  *)
(* copies of the hidden mounts and no others: the id decides at show_vfsmnt *)
(* and show_mountinfo whether a mount is shown.  The exception is a copy    *)
(* that KernelSU makes of a mount whose visible id is 0.                    *)
CopyKeepsHidden ==
  [][copying # NoCopy /\ copying' = NoCopy /\ stage # stage' =>
       LET t == copying.task
           n == copying.to
       IN  \A k \in DOMAIN list'[n] :
             (Domain[t] = "ksu" => mnt_id[list[ns[t]][k]] # 0)
             => (mnt_id'[list'[n][k]] >= DEFAULT_SUS_MNT_ID <=> IsSus(list[ns[t]][k]))]_vars

(* What the comment in mnt_free_id says: a backup other than 0 and the      *)
(* unshare mark is the original mnt_id, and is what is freed.               *)
SpoofedReturnsOriginal ==
  \A m \in Mounts :
    stage[m] # "free"
    /\ susfs_mnt_id_backup[m] \notin {0, DEFAULT_SUS_MNT_ID_FOR_KSU_PROC_UNSHARE}
      => Released(m) = owned[m]

=============================================================================
