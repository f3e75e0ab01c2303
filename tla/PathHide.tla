------------------------------- MODULE PathHide -------------------------------
(***************************************************************************)
(* How a name that is registered as a sus path disappears for apps inside   *)
(* the path lookup of the kernel, and what the early returns leave behind.  *)
(*                                                                         *)
(* One name of one directory.  The directory's lock is an rwsem: lookups    *)
(* share it, what changes the directory holds it alone.  The dcache has the *)
(* dentries of the name, the newest first, as the hash chain has them; an   *)
(* app skips those of a hidden inode, and so may add another one for the    *)
(* same inode.  ustat is here too: it leaves the lock of a superblock as    *)
(* lookup_slow leaves that of a directory.                                  *)
(***************************************************************************)
EXTENDS Integers, FiniteSets, SequencesExt

CONSTANTS
  Apps,      \* tasks marked TASK_STRUCT_NON_ROOT_USER_APP_PROC
  Others,    \* the other tasks
  Inodes,    \* what the name may lead to; each is created once
  Dentries,  \* memory for dentries of the name
  None,
  MaxMet     \* bound on the early returns that leave something behind

ASSUME PathHideAssumption ==
  /\ None \notin Inodes \cup Dentries \cup Apps \cup Others
  /\ IsFiniteSet(Apps) /\ IsFiniteSet(Others) /\ Inodes # {}
  /\ MaxMet \in Nat

Tasks == Apps \cup Others
Locks == {"i_rwsem", "s_umount"}

\* What the directory's lock is shared for, and what it is taken alone for.
Lookups == {"stat", "open"}
Changes == {"creat", "creat_excl", "mkdir", "unlink"}
Opens   == {"open", "creat", "creat_excl"}
Ops     == Lookups \cup Changes \cup {"ustat", "remount"}
Sharing == Lookups \cup {"ustat"}
LockOf(o) == IF o \in {"ustat", "remount"} THEN "s_umount" ELSE "i_rwsem"

VARIABLES
  file,       \* what the name leads to in the directory on disk, or None
  created,    \* the inodes that have existed
  sus,        \* the inodes with INODE_STATE_SUS_PATH
  sus_mount,  \* whether the superblock's root has INODE_STATE_SUS_MOUNT
  cached,     \* the hashed dentries, the newest first
  d_inode,    \* of a dentry: its inode, or None if it is negative
  leaked,     \* the dentries with a reference that nobody will put, once for each
  shared, owner,              \* of a lock
  pc, op, held, fresh,  \* of a task: its step and operation, its dentry and
                        \* whether it has just made it
  answer,  \* of an app: what it got
  sure,  \* history, of an app: the name has led to a hidden inode all through an
         \* operation other than an open that must create
  met,   \* history: how many early returns for something hidden there were
  aliased, undead  \* history: an app has looked a hidden name up on disk; and
                   \* the name has been unlinked thereafter

disk   == <<file, created, sus, sus_mount>>
dcache == <<cached, d_inode, leaked>>
locks  == <<shared, owner>>
past   == <<sure, met, aliased, undead>>
task   == <<pc, op, held, fresh, answer>>
vars   == <<disk, dcache, locks, task, past>>

Init ==
  /\ file \in {None, CHOOSE i \in Inodes : TRUE} /\ created = {file} \ {None}
  /\ sus = {} /\ sus_mount = FALSE
  /\ cached = <<>> /\ d_inode = [d \in Dentries |-> None] /\ leaked = <<>>
  /\ shared = [l \in Locks |-> 0] /\ owner = [l \in Locks |-> None]
  /\ pc = [t \in Tasks |-> "idle"] /\ op = [t \in Tasks |-> "stat"]
  /\ held = [t \in Tasks |-> None] /\ fresh = [t \in Tasks |-> FALSE]
  /\ answer = [a \in Apps |-> "none"]
  /\ sure = [a \in Apps |-> FALSE]
  /\ met = [slow |-> 0, lookup |-> 0, ustat |-> 0]
  /\ aliased = FALSE /\ undead = FALSE

-----------------------------------------------------------------------------
(* The test of the early returns: the inode is hidden and the task an app.   *)

Hides(t, inode) == inode \in sus /\ t \in Apps

Hidden(t) == Hides(t, d_inode[held[t]])

IsNegative(t) == d_inode[held[t]] = None

\* The first of the dentries at some places of the chain.
FirstAt(K) == IF K = {} THEN None ELSE cached[CHOOSE k \in K : \A j \in K : k <= j]

\* Mutant: hidden dentries are skipped for everybody.
d_lookup_for_all(t) == FirstAt({k \in DOMAIN cached : d_inode[cached[k]] \notin sus})

\* __d_lookup and __d_lookup_rcu: the first dentry of the chain the task may see.
d_lookup(t) == FirstAt({k \in DOMAIN cached : ~Hides(t, d_inode[cached[k]])})

\* A dentry leaves the chain, if it is in it.
d_drop(d) ==
  \/ d \notin ToSet(cached) /\ UNCHANGED cached
  \/ \E k \in DOMAIN cached : cached[k] = d /\ cached' = RemoveAt(cached, k)

Goto(t, step) == pc' = [pc EXCEPT ![t] = step] /\ UNCHANGED <<op, answer>>

\* A task that returns puts the reference to its dentry, and its locals are gone.
Return(t, result) ==
  /\ pc' = [pc EXCEPT ![t] = "idle"]
  /\ answer' = [a \in Apps |-> IF a = t THEN result ELSE answer[a]]
  /\ held' = [held EXCEPT ![t] = None]
  /\ op' = [op EXCEPT ![t] = "stat"]
  /\ fresh' = [fresh EXCEPT ![t] = FALSE]

Unlock(t) ==
  LET l == LockOf(op[t])
  IN IF op[t] \in Sharing
       THEN shared' = [shared EXCEPT ![l] = @ - 1] /\ UNCHANGED owner
       ELSE owner' = [owner EXCEPT ![l] = None] /\ UNCHANGED shared

-----------------------------------------------------------------------------
(* Every operation on the name looks it up, without the lock if it may.     *)

Start(t) ==
  /\ pc[t] = "idle" /\ \A k \in DOMAIN met : met[k] < MaxMet
  /\ \E o \in Ops :
       /\ op' = [op EXCEPT ![t] = o]
       /\ pc' = [pc EXCEPT ![t] = IF o \in Lookups THEN "fast" ELSE "want"]
  /\ answer' = [a \in Apps |-> IF a = t THEN "none" ELSE answer[a]]
  /\ sure' = [a \in Apps |-> IF a # t THEN sure[a]
                            ELSE file \in sus /\ op'[t] \notin {"creat_excl", "ustat", "remount"}]
  /\ UNCHANGED <<held, fresh, disk, dcache, locks, met, aliased, undead>>

lookup_fast(t) ==
  /\ pc[t] = "fast"
  /\ LET d == d_lookup(t)
     IN \/ d = None /\ Goto(t, "want") /\ UNCHANGED <<held, fresh>>
        \/ d # None /\ d_inode[d] = None /\ Return(t, "ENOENT")
        \/ /\ d # None /\ d_inode[d] # None
           /\ Goto(t, "complete")
           /\ held' = [held EXCEPT ![t] = d]
           /\ UNCHANGED fresh
  /\ UNCHANGED <<disk, dcache, locks, past>>

\* inode_lock, inode_lock_shared, and down_read or down_write of s_umount.
lock(t) ==
  /\ pc[t] = "want"
  /\ LET l == LockOf(op[t])
     IN /\ owner[l] = None
        /\ \/ op[t] \in Sharing /\ shared' = [shared EXCEPT ![l] = @ + 1] /\ UNCHANGED owner
           \/ /\ op[t] \notin Sharing /\ shared[l] = 0
              /\ owner' = [owner EXCEPT ![l] = t] /\ UNCHANGED shared
        /\ Goto(t, IF l = "i_rwsem" THEN "lookup" ELSE op[t])
  /\ UNCHANGED <<held, fresh, disk, dcache, past>>

Unused == {d \in Dentries \ ToSet(leaked \o cached) : \A t \in Tasks : held[t] # d}

\* Mutant: the error path returns with the lock.
d_alloc_fails_kept(t) ==
  /\ pc[t] = "lookup" /\ d_lookup(t) = None /\ Unused = {}
  /\ Return(t, "ENOMEM")
  /\ UNCHANGED <<disk, dcache, locks, past>>

\* No memory for a new dentry.
d_alloc_fails(t) ==
  /\ pc[t] = "lookup" /\ d_lookup(t) = None /\ Unused = {}
  /\ Unlock(t)
  /\ Return(t, "ENOMEM")
  /\ UNCHANGED <<disk, dcache, past>>

\* With the lock held: a dentry that can be seen, or a new one for what the
\* directory has.  A file that has a dentry already gets another one.
lookup(t) ==
  /\ pc[t] = "lookup"
  /\ \/ /\ d_lookup(t) # None
        /\ held' = [held EXCEPT ![t] = d_lookup(t)]
        /\ fresh' = [fresh EXCEPT ![t] = FALSE]
        /\ UNCHANGED <<dcache, aliased>>
     \/ /\ d_lookup(t) = None
        /\ Unused # {}
        /\ LET d == CHOOSE e \in Unused : TRUE
           IN /\ cached' = <<d>> \o cached
              /\ d_inode' = [d_inode EXCEPT ![d] = file]
              /\ held' = [held EXCEPT ![t] = d]
        /\ fresh' = [fresh EXCEPT ![t] = TRUE]
        /\ aliased' = (aliased \/ Hides(t, file))
        /\ UNCHANGED leaked
  /\ Goto(t, "looked")
  /\ UNCHANGED <<disk, locks, sure, met, undead>>

-----------------------------------------------------------------------------
(* stat and the like: lookup_slow, then the end of filename_lookup.         *)

\* The return for a hidden inode is ahead of the label that unlocks.
lookup_slow_hidden(t) ==
  /\ pc[t] = "looked" /\ op[t] = "stat" /\ Hidden(t)
  /\ Return(t, "ENOENT")
  /\ met' = [met EXCEPT !.slow = @ + 1]
  /\ UNCHANGED <<disk, dcache, locks, sure, aliased, undead>>

lookup_slow(t) ==
  /\ pc[t] = "looked" /\ op[t] = "stat" /\ ~Hidden(t)
  /\ Unlock(t)
  /\ IF IsNegative(t) THEN Return(t, "ENOENT") ELSE Goto(t, "complete") /\ UNCHANGED <<held, fresh>>
  /\ UNCHANGED <<disk, dcache, past>>

\* The path that was found is not put when its inode turns out to be hidden.
filename_lookup(t) ==
  /\ pc[t] = "complete" /\ op[t] = "stat"
  /\ \/ /\ ~Hidden(t)
        /\ Return(t, "ok")
        /\ UNCHANGED <<leaked, met>>
     \/ /\ Hidden(t)
        /\ Return(t, "ENOENT")
        /\ leaked' = Append(leaked, held[t])
        /\ met' = [met EXCEPT !.lookup = @ + 1]
  /\ UNCHANGED <<disk, cached, d_inode, locks, sure, aliased, undead>>

-----------------------------------------------------------------------------
(* open, mkdir and unlink.                                                  *)

\* The directory gets an entry for a new inode, and the dentry leads to it, unless
\* the disk is full.
Create(t) ==
  \/ /\ created # Inodes
     /\ LET i == CHOOSE j \in Inodes \ created : TRUE
        IN /\ file' = i /\ created' = created \cup {i}
           /\ d_inode' = [d_inode EXCEPT ![held[t]] = i]
     /\ sure' = [a \in Apps |-> FALSE]
     /\ Return(t, "ok")
     /\ UNCHANGED <<sus, sus_mount, cached, leaked>>
  \/ created = Inodes /\ Return(t, "ENOSPC") /\ UNCHANGED <<disk, dcache, sure>>

\* Mutant: the return for a cached dentry forgets the lock.
lookup_open_kept(t) ==
  /\ pc[t] = "looked" /\ op[t] \in Opens
  /\ IF Hidden(t) /\ ~fresh[t] THEN UNCHANGED locks ELSE Unlock(t)
  /\ \/ Hidden(t) /\ ~fresh[t] /\ Return(t, "ENOENT") /\ UNCHANGED <<disk, dcache, sure>>
     \/ ~IsNegative(t) /\ ~(Hidden(t) /\ ~fresh[t])
        /\ Goto(t, "complete") /\ UNCHANGED <<held, fresh, disk, dcache, sure>>
     \/ IsNegative(t) /\ op[t] = "open" /\ Return(t, "ENOENT") /\ UNCHANGED <<disk, dcache, sure>>
     \/ IsNegative(t) /\ op[t] # "open" /\ Create(t)
  /\ UNCHANGED <<met, aliased, undead>>

\* The caller unlocks.  A cached dentry of a hidden inode ends the open here; one
\* that the filesystem has just filled in is only tested when it was replaced.
lookup_open(t) ==
  /\ pc[t] = "looked" /\ op[t] \in Opens
  /\ Unlock(t)
  /\ \/ Hidden(t) /\ ~fresh[t] /\ Return(t, "ENOENT") /\ UNCHANGED <<disk, dcache, sure>>
     \/ ~IsNegative(t) /\ ~(Hidden(t) /\ ~fresh[t])
        /\ Goto(t, "complete") /\ UNCHANGED <<held, fresh, disk, dcache, sure>>
     \/ IsNegative(t) /\ op[t] = "open" /\ Return(t, "ENOENT") /\ UNCHANGED <<disk, dcache, sure>>
     \/ IsNegative(t) /\ op[t] # "open" /\ Create(t)
  /\ UNCHANGED <<met, aliased, undead>>

\* Mutant: the file that is opened is not tested.
may_open_untested(t) ==
  /\ pc[t] = "complete" /\ op[t] \in Opens
  /\ Return(t, IF op[t] = "creat_excl" THEN "EEXIST" ELSE "ok")
  /\ UNCHANGED <<disk, dcache, locks, past>>

\* An open that must create is refused before may_open is asked.
may_open(t) ==
  /\ pc[t] = "complete" /\ op[t] \in Opens
  /\ Return(t, CASE op[t] = "creat_excl" -> "EEXIST"
                 [] op[t] # "creat_excl" /\ Hidden(t) -> "ENOENT"
                 [] OTHER -> "ok")
  /\ UNCHANGED <<disk, dcache, locks, past>>

\* lookup_real refuses a hidden inode that it has just looked up.
lookup_real_refuses(t) == Hidden(t) /\ fresh[t]

\* mkdir.  Any other dentry with an inode is EEXIST to filename_create, which asks
\* before may_create does: one that was cached is not tested again, though its inode
\* may have been hidden since it was found.
may_create(t) ==
  /\ pc[t] = "looked" /\ op[t] = "mkdir"
  /\ Unlock(t)
  /\ \/ lookup_real_refuses(t) /\ Return(t, "ENOENT") /\ UNCHANGED <<disk, dcache, sure>>
     \/ ~IsNegative(t) /\ ~lookup_real_refuses(t)
        /\ Return(t, "EEXIST") /\ UNCHANGED <<disk, dcache, sure>>
     \/ IsNegative(t) /\ Create(t)
  /\ UNCHANGED <<met, aliased, undead>>

\* vfs_unlink and d_delete: the dentry becomes negative, or leaves the cache if
\* somebody else has it.
Unlink(t) ==
  LET d == held[t]
      others == d \in ToSet(leaked) \/ \E u \in Tasks \ {t} : held[u] = d
  IN /\ file' = None
     /\ IF others
          THEN d_drop(d) /\ UNCHANGED d_inode
          ELSE d_inode' = [d_inode EXCEPT ![d] = None] /\ UNCHANGED cached
     /\ sure' = [a \in Apps |-> FALSE]
     /\ undead' = (undead \/ aliased)
     /\ UNCHANGED <<created, sus, sus_mount, leaked>>

may_delete(t) ==
  /\ pc[t] = "looked" /\ op[t] = "unlink"
  /\ Unlock(t)
  /\ \/ /\ Hidden(t) \/ IsNegative(t) \/ d_inode[held[t]] # file
        /\ Return(t, "ENOENT")
        /\ UNCHANGED <<disk, dcache, sure, undead>>
     \/ /\ ~Hidden(t) /\ ~IsNegative(t) /\ d_inode[held[t]] = file
        /\ Unlink(t) /\ Return(t, "ok")
  /\ UNCHANGED <<met, aliased>>

-----------------------------------------------------------------------------
(* The superblock's lock.                                                   *)

\* A hidden superblock is refused ahead of drop_super.
vfs_ustat(t) ==
  /\ pc[t] = "ustat"
  /\ \/ sus_mount /\ met' = [met EXCEPT !.ustat = @ + 1] /\ UNCHANGED locks
     \/ ~sus_mount /\ Unlock(t) /\ UNCHANGED met
  /\ Return(t, IF sus_mount THEN "EINVAL" ELSE "ok")
  /\ UNCHANGED <<disk, dcache, sure, aliased, undead>>

remount(t) ==
  /\ pc[t] = "remount"
  /\ Unlock(t)
  /\ Return(t, "ok")
  /\ UNCHANGED <<disk, dcache, past>>

-----------------------------------------------------------------------------
\* susfs_update_sus_path_inode and susfs_update_sus_mount_inode, at any time.
hide ==
  /\ \/ file # None /\ sus' = sus \cup {file} /\ UNCHANGED sus_mount
     \/ sus_mount' = TRUE /\ UNCHANGED sus
  /\ UNCHANGED <<file, created, dcache, locks, task, past>>

\* Memory reclaim: a dentry that nobody has a reference to leaves the cache.
shrink_dcache ==
  /\ \E d \in ToSet(cached) \ ToSet(leaked) :
       /\ \A t \in Tasks : held[t] # d
       /\ d_drop(d)
       /\ d_inode' = [d_inode EXCEPT ![d] = None]
  /\ UNCHANGED <<leaked, disk, locks, task, past>>

\* The steps of a task inside an operation, other than waiting for a lock.
Step(t) ==
  \/ lookup_fast(t) \/ lookup(t) \/ d_alloc_fails(t) \/ lookup_slow_hidden(t) \/ lookup_slow(t)
  \/ filename_lookup(t) \/ lookup_open(t) \/ may_open(t) \/ may_create(t) \/ may_delete(t)
  \/ vfs_ustat(t) \/ remount(t)

Next ==
  \/ \E t \in Tasks : Start(t) \/ lock(t) \/ Step(t)
  \/ hide
  \/ shrink_dcache

Spec == Init /\ [][Next]_vars

\* A task inside the kernel goes on, and an rwsem is handed to its waiters in turn.
FairSpec == Spec /\ \A t \in Tasks : WF_vars(Step(t)) /\ SF_vars(lock(t))

-----------------------------------------------------------------------------
\* The type of the state; a lock is held alone or shared, by those who are at the
\* steps under it and by the early returns; a dentry in use is in memory once.
TypeOK ==
  /\ file \in created \cup {None} /\ created \subseteq Inodes /\ sus \subseteq created
  /\ sus_mount \in BOOLEAN
  /\ cached \in Seq(Dentries) /\ \A j, k \in DOMAIN cached : cached[j] = cached[k] => j = k
  /\ d_inode \in [Dentries -> Inodes \cup {None}] /\ leaked \in Seq(Dentries)
  /\ shared \in [Locks -> Nat] /\ owner \in [Locks -> Tasks \cup {None}]
  /\ pc \in [Tasks -> {"idle", "fast", "want", "lookup", "looked", "complete", "ustat", "remount"}]
  /\ op \in [Tasks -> Ops] /\ held \in [Tasks -> Dentries \cup {None}]
  /\ fresh \in [Tasks -> BOOLEAN]
  /\ answer \in [Apps -> {"none", "ok", "ENOENT", "EEXIST", "EINVAL", "ENOMEM", "ENOSPC"}]
  /\ sure \in [Apps -> BOOLEAN]
  /\ met \in [slow : Nat, lookup : Nat, ustat : Nat]
  /\ aliased \in BOOLEAN /\ undead \in BOOLEAN
  /\ \A l \in Locks : owner[l] # None =>
       shared[l] = 0 /\ LockOf(op[owner[l]]) = l /\ pc[owner[l]] \in {"lookup", "looked", "remount"}
  /\ \A t \in Tasks : pc[t] \in {"looked", "complete"} => held[t] # None

\* Between operations nothing is held but what the early returns for something
\* hidden have left: the directory's lock once for every lookup_slow, the
\* superblock's for every ustat, and a reference for every filename_lookup.
\* open, mkdir and unlink leave nothing, wherever they find out.
LeftBehind ==
  (\A t \in Tasks : pc[t] = "idle") =>
    /\ owner = [l \in Locks |-> None]
    /\ shared["i_rwsem"] = met.slow /\ shared["s_umount"] = met.ustat
    /\ Len(leaked) = met.lookup

\* Locks and references at every moment: a lock is held by those who are at the
\* steps under it and by the early returns, and after the last operation by the
\* early returns alone.
LocksSound == TypeOK /\ LeftBehind

\* An app to which the name was hidden all through its operation is told that it
\* does not exist, whatever dentries the cache has, and whoever works in the
\* directory meanwhile.  The exception is an open that must create the file.
HiddenFromApp ==
  \A t \in Apps :
    (pc[t] = "idle" /\ answer[t] # "none" /\ sure[t]) => answer[t] \in {"ENOENT", "ENOMEM"}

\* For the other tasks the cache agrees with the directory, though apps make
\* second dentries of a hidden file, until the file is unlinked with such a second
\* dentry about.
OthersUnaffected == (cached # <<>> /\ ~undead) => d_inode[Head(cached)] = file

\* Who waits for a directory or a superblock gets it, unless an early return has
\* left the lock held.
LockGranted ==
  \A t \in Tasks :
    (pc[t] = "want") ~>
      (pc[t] # "want" \/ IF LockOf(op[t]) = "i_rwsem" THEN met.slow > 0 ELSE met.ustat > 0)
=============================================================================
