------------------------------ MODULE SusHlist ------------------------------
(***************************************************************************)
(* The three path registries of fs/susfs.c: SUS_PATH_HLIST ("path"),       *)
(* SUS_KSTAT_HLIST ("kstat") and OPEN_REDIRECT_HLIST ("redirect").  Each   *)
(* is a hash table keyed by inode number.  A registration first deletes    *)
(* the old entry of its pathname under susfs_spin_lock, then allocates,    *)
(* resolves the pathname and flags the inode with NO lock held, and only   *)
(* then takes the lock again to insert the new entry; two callers          *)
(* interleave at each of those points.  The readers (filldir64,            *)
(* generic_fillattr, show_map_vma, do_filp_open) take no lock at all.      *)
(*                                                                         *)
(* hlist[tbl] is the sequence of the entries of a table from the oldest to *)
(* the newest insertion.  hash_add pushes at the head of the bucket        *)
(* Bucket[ino], so a walk of one bucket meets its entries from the newest  *)
(* to the oldest, and a walk of the table goes bucket by bucket.           *)
(***************************************************************************)
EXTENDS Naturals, FiniteSets, SequencesExt

CONSTANTS
  Tasks,       \* the tasks that issue susfs commands
  Paths,       \* pathnames that are registered
  Inodes,      \* in-core inodes
  Inos,        \* inode numbers
  InoOf,       \* i_ino of an inode: not unique across filesystems
  FsOf,        \* filesystem type name of an inode
  HomeOf,      \* the inode a pathname resolves to at boot
  Movable,     \* the pathnames the rest of the system relinks at run time
  Evictable,   \* the inodes that memory pressure may drop from the cache
  Bucket,      \* hash_min of an inode number
  Tables,      \* the registries that are used
  Data,        \* spoofed attributes or redirection targets
  Sizes,       \* spoofed_size (0: not given); spoofed_blocks goes with it
  NoData,      \* stands for the fields a command does not have
  Real, Unset, \* what a reader shows: the inode's own value, or nothing
  NoInode, NoEntry, NoArg

AllTables == {"path", "kstat", "redirect"}

ASSUME TasksAssumption == IsFiniteSet(Tasks)
ASSUME TablesAssumption == Tables \subseteq AllTables
\* A redirection target is a pathname, never what the search returns for none.
ASSUME DataAssumption == "-ENOENT" \notin Data
ASSUME InodesAssumption ==
  /\ NoInode \notin Inodes
  /\ InoOf \in [Inodes -> Inos]
  /\ HomeOf \in [Paths -> Inodes]
  /\ Bucket \in [Inos -> Nat]
  /\ Movable \subseteq Paths /\ Evictable \subseteq Inodes
  /\ NoData \in Data /\ 0 \in Sizes

VARIABLES
  hlist,     \* the tables
  flags,     \* the INODE_STATE_* bits of an inode
  resolve,   \* what kern_path finds for a pathname
  pc, arg,   \* where each task is in its command, and the command
  acked,     \* history: the entry that the last command for a pathname made that
             \*   returned 0, NoEntry after an add that returned an error
  evicted    \* history: the inodes that left the inode cache meanwhile

vars == <<hlist, flags, resolve, pc, arg, acked, evicted>>

Val   == [data : Data, size : Sizes]
Entry == [path : Paths, ino : Inos, val : Val, node : Inodes]
Arg   == [tbl : Tables, path : Paths, ino : Inos, val : Val,
          node : Inodes \cup {NoInode}]
Idle  == "idle"

\* Filesystems on which the update_*_inode function of a table refuses a path.
RefusedFs(tbl) == CASE tbl = "path"     -> {"tmpfs", "fuse"}
                    [] tbl = "kstat"    -> {"tmpfs"}
                    [] tbl = "redirect" -> {}

-----------------------------------------------------------------------------
(* The positions of the entries of pathname p, and the tasks that have      *)
(* deleted the old entry of p and have not inserted the new one.            *)
Dups(tbl, p) == {k \in DOMAIN hlist[tbl] : hlist[tbl][k].path = p}

InFlight(tbl, p) ==
  {t \in Tasks : pc[t] \in {"alloc", "add"} /\ arg[t].tbl = tbl /\ arg[t].path = p}

\* hash_for_each_safe stops at the first match: lowest bucket, newest entry.
VisitedFirst(tbl, k, K) ==
  \A j \in K : LET b(i) == Bucket[hlist[tbl][i].ino]
               IN  b(k) < b(j) \/ (b(k) = b(j) /\ j <= k)

\* Mutant of hash_add: the new entry goes to the tail of its bucket.
hash_add_tail(tbl, s, e) == [hlist EXCEPT ![tbl] = <<e>> \o s]

hash_add(tbl, s, e) == [hlist EXCEPT ![tbl] = Append(s, e)]

(* hash_for_each_possible: the newest entry with this inode number.         *)
Lookup(tbl, ino) ==
  LET K == {k \in DOMAIN hlist[tbl] : hlist[tbl][k].ino = ino}
  IN  IF K = {} THEN NoEntry ELSE hlist[tbl][Max(K)]

-----------------------------------------------------------------------------
(* The readers.  An app is a TASK_STRUCT_NON_ROOT_USER_APP_PROC task.       *)
susfs_sus_ino_for_filldir64(ino) == Lookup("path", ino) # NoEntry

filldir64_hides(app, n) == app /\ susfs_sus_ino_for_filldir64(InoOf[n])

\* An inode that is flagged but has no entry leaves the fields unset.
generic_fillattr(app, n) ==
  IF app /\ "kstat" \in flags[n]
  THEN LET e == Lookup("kstat", InoOf[n]) IN IF e = NoEntry THEN Unset ELSE e.val
  ELSE Real

\* Any task, not only apps, reads spoofed numbers in /proc/<pid>/maps; the
\* flag decides, and a flagged inode without an entry shows 0:0.
show_map_vma(n) ==
  IF "kstat" \in flags[n]
  THEN LET e == Lookup("kstat", InoOf[n]) IN IF e = NoEntry THEN Unset ELSE e.val.data
  ELSE Real

susfs_get_redirected_path(ino) ==
  LET e == Lookup("redirect", ino) IN IF e = NoEntry THEN "-ENOENT" ELSE e.val.data

do_filp_open(uidBelow2000, n) ==
  IF "redirect" \in flags[n] /\ uidBelow2000
     /\ susfs_get_redirected_path(InoOf[n]) # "-ENOENT"
  THEN susfs_get_redirected_path(InoOf[n])
  ELSE Real

-----------------------------------------------------------------------------
Init ==
  /\ hlist = [tbl \in Tables |-> <<>>]
  /\ flags = [n \in Inodes |-> {}]
  /\ resolve = HomeOf
  /\ pc = [t \in Tasks |-> Idle]
  /\ arg = [t \in Tasks |-> NoArg]
  /\ acked = [tbl \in Tables |-> [p \in Paths |-> NoEntry]]
  /\ evicted = {}

(* copy_from_user.  The tool that issues the command has just read the      *)
(* inode number with stat(2).  A copy that fails returns 1 at once, and     *)
(* the empty pathname add_sus_kstat refuses resolves to nothing.            *)
Call(t, tbl, p, v, at) ==
  /\ pc[t] = Idle
  /\ tbl \in Tables
  /\ resolve[p] # NoInode
  /\ pc' = [pc EXCEPT ![t] = at]
  /\ arg' = [arg EXCEPT ![t] = [tbl |-> tbl, path |-> p, ino |-> InoOf[resolve[p]],
                                val |-> v, node |-> NoInode]]
  /\ UNCHANGED <<hlist, flags, resolve, acked, evicted>>

Return(t, r) ==
  /\ pc' = [pc EXCEPT ![t] = Idle]
  /\ arg' = [arg EXCEPT ![t] = NoArg]
  /\ acked' = [acked EXCEPT ![arg[t].tbl][arg[t].path] = r]

ReturnError(t) == Return(t, NoEntry)

\* An update that found no entry, or fails, leaves the registration what it was.
ReturnAsBefore(t) == Return(t, acked[arg[t].tbl][arg[t].path])

NewEntry(t, n) == [path |-> arg[t].path, ino |-> arg[t].ino, val |-> arg[t].val, node |-> n]

\* Mutant of delete_old: only the bucket of the new inode number is searched.
delete_old_in_bucket(t) ==
  LET tbl == arg[t].tbl
      old == {k \in Dups(tbl, arg[t].path) :
                Bucket[hlist[tbl][k].ino] = Bucket[arg[t].ino]}
  IN  /\ pc[t] = "del"
      /\ \/ old = {} /\ UNCHANGED hlist
         \/ \E k \in old :
              /\ VisitedFirst(tbl, k, old)
              /\ hlist' = [hlist EXCEPT ![tbl] = RemoveAt(hlist[tbl], k)]
      /\ pc' = [pc EXCEPT ![t] = "alloc"]
      /\ UNCHANGED <<flags, resolve, arg, acked, evicted>>

(* First critical section: only the first match is deleted.                 *)
delete_old(t) ==
  LET tbl == arg[t].tbl
      old == Dups(tbl, arg[t].path)
  IN  /\ pc[t] = "del"
      /\ \/ old = {} /\ UNCHANGED hlist
         \/ \E k \in old :
              /\ VisitedFirst(tbl, k, old)
              /\ hlist' = [hlist EXCEPT ![tbl] = RemoveAt(hlist[tbl], k)]
      /\ pc' = [pc EXCEPT ![t] = "alloc"]
      /\ UNCHANGED <<flags, resolve, arg, acked, evicted>>

kmalloc_fails(t) ==
  /\ pc[t] = "alloc"
  /\ ReturnError(t)
  /\ UNCHANGED <<hlist, flags, resolve, evicted>>

\* kern_path fails, or the path is on a filesystem the table refuses.
Refused(tbl, p) == resolve[p] \notin {n \in Inodes : FsOf[n] \notin RefusedFs(tbl)}

\* Mutant of update_inode_fails: the return value is ignored.
update_inode_unchecked(t) ==
  /\ pc[t] = "alloc"
  /\ Refused(arg[t].tbl, arg[t].path)
  /\ pc' = [pc EXCEPT ![t] = "add"]
  /\ UNCHANGED <<hlist, flags, resolve, arg, acked, evicted>>

update_inode_fails(t) ==
  /\ pc[t] = "alloc"
  /\ Refused(arg[t].tbl, arg[t].path)
  /\ ReturnError(t)
  /\ UNCHANGED <<hlist, flags, resolve, evicted>>

(* The pathname is resolved again here, after the tool has read the number. *)
update_inode(t) ==
  LET n == resolve[arg[t].path]
  IN  /\ pc[t] = "alloc"
      /\ ~Refused(arg[t].tbl, arg[t].path)
      /\ flags' = [flags EXCEPT ![n] = @ \cup {arg[t].tbl}]
      /\ arg' = [arg EXCEPT ![t].node = n]
      /\ pc' = [pc EXCEPT ![t] = "add"]
      /\ UNCHANGED <<hlist, resolve, acked, evicted>>

(* Second critical section.                                                 *)
add_entry(t) ==
  LET tbl == arg[t].tbl
      e   == NewEntry(t, arg[t].node)
  IN  /\ pc[t] = "add"
      /\ hlist' = hash_add(tbl, hlist[tbl], e)
      /\ Return(t, e)
      /\ UNCHANGED <<flags, resolve, evicted>>

add_steps(t, tbl) ==
  /\ pc[t] # Idle /\ arg[t].tbl = tbl
  /\ \/ delete_old(t)
     \/ kmalloc_fails(t)
     \/ update_inode_fails(t)
     \/ update_inode(t)
     \/ add_entry(t)

susfs_add_sus_path(t) ==
  \/ \E p \in Paths : Call(t, "path", p, [data |-> NoData, size |-> 0], "del")
  \/ add_steps(t, "path")

susfs_add_sus_kstat(t) ==
  \/ \E p \in Paths, d \in Data \ {NoData}, z \in Sizes :
       Call(t, "kstat", p, [data |-> d, size |-> z], "del")
  \/ add_steps(t, "kstat")

susfs_add_open_redirect(t) ==
  \/ \E p \in Paths, d \in Data \ {NoData} :
       Call(t, "redirect", p, [data |-> d, size |-> 0], "del")
  \/ add_steps(t, "redirect")

-----------------------------------------------------------------------------
(* susfs_update_sus_kstat holds the lock from the search to the insertion:  *)
(* no entry returns 0 without a change; an entry whose path cannot be       *)
(* flagged, or a kmalloc that fails after the flag is set, returns an error *)
(* and keeps the old entry; otherwise the entry is replaced, with the new   *)
(* inode number and, when given, the new size.                              *)
NewSize(v, z) == [data |-> v.data, size |-> IF z > 0 THEN z ELSE v.size]

update_not_found(t) ==
  /\ Dups("kstat", arg[t].path) = {}
  /\ ReturnAsBefore(t)
  /\ UNCHANGED <<hlist, flags>>

update_refused(t) ==
  /\ Dups("kstat", arg[t].path) # {}
  /\ Refused("kstat", arg[t].path)
  /\ ReturnAsBefore(t)
  /\ UNCHANGED <<hlist, flags>>

\* Mutant of update_replace: the inode the path now leads to is not flagged.
update_replace_unflagged(t) ==
  LET p   == arg[t].path
      s   == hlist["kstat"]
      old == Dups("kstat", p)
      new(k) == [path |-> p, ino |-> arg[t].ino, node |-> resolve[p],
                 val |-> NewSize(s[k].val, arg[t].val.size)]
  IN  /\ ~Refused("kstat", p)
      /\ UNCHANGED flags
      /\ \E k \in old :
           /\ VisitedFirst("kstat", k, old)
           /\ \/ ReturnAsBefore(t) /\ UNCHANGED hlist
              \/ /\ hlist' = hash_add("kstat", RemoveAt(s, k), new(k))
                 /\ Return(t, new(k))

\* Mutant of update_replace: the old entry is deleted before the allocation.
update_replace_delete_first(t) ==
  LET p   == arg[t].path
      n   == resolve[p]
      s   == hlist["kstat"]
      old == Dups("kstat", p)
      new(k) == [path |-> p, ino |-> arg[t].ino, node |-> n,
                 val |-> NewSize(s[k].val, arg[t].val.size)]
  IN  /\ ~Refused("kstat", p)
      /\ flags' = [flags EXCEPT ![n] = @ \cup {"kstat"}]
      /\ \E k \in old :
           /\ VisitedFirst("kstat", k, old)
           /\ \/ ReturnAsBefore(t) /\ hlist' = [hlist EXCEPT !["kstat"] = RemoveAt(s, k)]
              \/ /\ hlist' = hash_add("kstat", RemoveAt(s, k), new(k))
                 /\ Return(t, new(k))

update_replace(t) ==
  LET p   == arg[t].path
      n   == resolve[p]
      s   == hlist["kstat"]
      old == Dups("kstat", p)
      new(k) == [path |-> p, ino |-> arg[t].ino, node |-> n,
                 val |-> NewSize(s[k].val, arg[t].val.size)]
  IN  /\ ~Refused("kstat", p)
      /\ flags' = [flags EXCEPT ![n] = @ \cup {"kstat"}]
      /\ \E k \in old :
           /\ VisitedFirst("kstat", k, old)
           /\ \/ ReturnAsBefore(t) /\ UNCHANGED hlist       \* kmalloc fails
              \/ /\ hlist' = hash_add("kstat", RemoveAt(s, k), new(k))
                 /\ Return(t, new(k))

susfs_update_sus_kstat(t) ==
  \/ \E p \in Paths, z \in Sizes : Call(t, "kstat", p, [data |-> NoData, size |-> z], "upd")
  \/ /\ pc[t] = "upd"
     /\ update_not_found(t) \/ update_refused(t) \/ update_replace(t)
     /\ UNCHANGED <<resolve, evicted>>

-----------------------------------------------------------------------------
(* The rest of the kernel: a bind mount, rename or unlink changes what a    *)
(* pathname resolves to; memory pressure drops an inode, and the in-core    *)
(* inode that comes back has none of the INODE_STATE_* bits.                *)
Relink(p) ==
  \E n \in (Inodes \cup {NoInode}) \ {resolve[p]} :
    /\ resolve' = [resolve EXCEPT ![p] = n]
    /\ UNCHANGED <<hlist, flags, pc, arg, acked, evicted>>

Evict(n) ==
  /\ flags[n] # {}
  /\ flags' = [flags EXCEPT ![n] = {}]
  /\ evicted' = evicted \cup {n}
  /\ UNCHANGED <<hlist, resolve, pc, arg, acked>>

Next ==
  \/ \E t \in Tasks : \/ susfs_add_sus_path(t)
                      \/ susfs_add_sus_kstat(t)
                      \/ susfs_add_open_redirect(t)
                      \/ susfs_update_sus_kstat(t)
  \/ \E p \in Movable : Relink(p)
  \/ \E n \in Evictable : Evict(n)

Spec == Init /\ [][Next]_vars

-----------------------------------------------------------------------------
(* Type invariant.  The node of a command is known once its inode has been  *)
(* flagged, and an entry always names a real inode.                         *)
TypeOK ==
  /\ hlist \in [Tables -> Seq(Entry)]
  /\ flags \in [Inodes -> SUBSET Tables]
  /\ resolve \in [Paths -> Inodes \cup {NoInode}]
  /\ pc \in [Tasks -> {Idle, "del", "alloc", "add", "upd"}]
  /\ arg \in [Tasks -> Arg \cup {NoArg}]
  /\ \A t \in Tasks :
       /\ pc[t] # Idle => arg[t] \in Arg
       /\ pc[t] = "add" => arg[t].node \in Inodes
       /\ pc[t] = "upd" => arg[t].tbl = "kstat"
  /\ acked \in [Tables -> [Paths -> Entry \cup {NoEntry}]]
  /\ evicted \subseteq Inodes

(* A pathname never has more entries than there are tasks, counting those   *)
(* that are about to be inserted: the unlocked window between the deletion  *)
(* and the insertion lets concurrent commands leave duplicates behind, but  *)
(* however often a pathname is registered they do not pile up.  With a      *)
(* single task every pathname has at most one entry.                        *)
DuplicatesBounded ==
  \A tbl \in Tables, p \in Paths :
    Cardinality(Dups(tbl, p)) + Cardinality(InFlight(tbl, p)) <= Cardinality(Tasks)

(* A pathname that was registered has an entry, or a command for it is      *)
(* between its deletion and its insertion, until an add for it returns an   *)
(* error: an update that fails wherever it may, and a command for another   *)
(* pathname, lose nothing.                                                  *)
RegisteredUntilError ==
  \A tbl \in Tables, p \in Paths :
    acked[tbl][p] # NoEntry => Dups(tbl, p) # {} \/ InFlight(tbl, p) # {}

(* What an app, or an open by a system uid, sees of inode n is what entry   *)
(* e asks for.                                                              *)
Shows(tbl, n, e) ==
  CASE tbl = "path"     -> filldir64_hides(TRUE, n)
    [] tbl = "kstat"    -> /\ generic_fillattr(TRUE, n) = e.val
                           /\ show_map_vma(n) = e.val.data
    [] tbl = "redirect" -> do_filp_open(TRUE, n) = e.val.data

\* The pathnames that have an entry with this inode number.
Claimants(tbl, ino) ==
  {p \in Paths : \E k \in Dups(tbl, p) : hlist[tbl][k].ino = ino}

\* The last command for p gave it this number, and none is under way.
Settled(tbl, p, ino) ==
  acked[tbl][p] # NoEntry /\ acked[tbl][p].ino = ino /\ InFlight(tbl, p) = {}

(* Once no command for a pathname is under way, the readers show for its    *)
(* inode what the last command asked for that made an entry of it, unless   *)
(* an add failed thereafter: neither an unset field nor the value of a      *)
(* duplicate left by a race.  As inode numbers are compared across          *)
(* filesystems, another pathname may claim the number; then it is what the  *)
(* last command for one of the two asked for.  The conditions are those the *)
(* code cannot promise to do without: the inode number that the tool read   *)
(* is still that of the inode that was flagged, that of a rival claim is    *)
(* that of its pathname's last command, and the inode stayed in core.       *)
LastCommandEffective ==
  \A tbl \in Tables, p \in Paths :
    LET e == acked[tbl][p]
    IN  ( /\ e # NoEntry
          /\ Settled(tbl, p, e.ino)
          /\ \A q \in Claimants(tbl, e.ino) : Settled(tbl, q, e.ino)
          /\ InoOf[e.node] = e.ino
          /\ e.node \notin evicted )
        => \E q \in Claimants(tbl, e.ino) : Shows(tbl, e.node, acked[tbl][q])

(* The flag of an inode is set before an entry can be found for it, so a    *)
(* reader that finds the entry's inode unflagged has lost it to eviction.   *)
FlagPrecedesEntry ==
  \A tbl \in Tables : \A k \in DOMAIN hlist[tbl] :
    tbl \in flags[hlist[tbl][k].node] \/ hlist[tbl][k].node \in evicted

=============================================================================
