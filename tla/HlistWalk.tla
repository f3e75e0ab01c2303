------------------------------ MODULE HlistWalk ------------------------------
(***************************************************************************)
(* One bucket of SUS_PATH_HLIST, SUS_KSTAT_HLIST or OPEN_REDIRECT_HLIST at   *)
(* the level of its pointers.  The commands change the bucket one store at  *)
(* a time under susfs_spin_lock, and free what they remove at once; readdir, *)
(* stat, /proc/pid/maps and open walk it with neither the lock nor RCU.     *)
(* What the lists mean to the system is in SusHlist; this module is about   *)
(* what a walk can meet in between.                                         *)
(***************************************************************************)
EXTENDS Integers, FiniteSets

CONSTANTS
  Names,   \* target pathnames
  Keys,    \* target inode numbers, all of one bucket
  MaxNodes, \* bound: the memory for entries
  Issued,  \* the commands that are issued
  Writers, \* KernelSU processes that issue the commands
  Readers, \* tasks that walk the bucket
  NULL, NoTask

BucketEntry == [name : Names, key : Keys]

Nodes == 1..MaxNodes

ASSUME NodesAssumption == MaxNodes \in Nat /\ NULL \notin Nodes /\ NoTask \notin Writers
ASSUME IssuedAssumption == Issued \subseteq [entry : BucketEntry, update : BOOLEAN]

VARIABLES
  first, next, \* the pointers of the bucket and of its nodes
  entry,       \* what is stored in a node
  state,       \* of a node: free, private to a command, or linked
  lock,        \* who holds susfs_spin_lock
  wpc,         \* of a command: the step it is at
  info,        \* of a command: what it was given, and which command it is
  node,        \* of a command: the entry it makes
  victim,      \* of a command: the entry it removes
  rpc, want,   \* of a reader: the step it is at, and the inode it looks up
  at,          \* of a reader: the node it stands on
  had,         \* history: the nodes with the key linked at a moment of the walk
  stable,      \* history: those linked from the start of the walk until now
  cut,         \* history: readers that left a node while it was being removed
  stray        \* history: readers that read memory that is not theirs to read

bucket  == <<first, next, entry, state>>
writers == <<lock, wpc, info, node, victim>>
readers == <<rpc, want, at>>
walks   == <<had, stable, cut, stray>>
HWvars  == <<bucket, writers, readers, walks>>

\* Free nodes are all alike, so that it does not matter which one is taken.
Free == {n \in Nodes : state[n] = "free" /\ \A m \in Nodes : state[m] = "free" => n <= m}

Linked  == {n \in Nodes : state[n] = "linked"}
Walking == {r \in Readers : rpc[r] \in {"compare", "next", "use"}}

HWInit ==
  /\ first = NULL /\ next = [n \in Nodes |-> NULL]
  /\ entry = [n \in Nodes |-> NULL]
  /\ state = [n \in Nodes |-> "free"]
  /\ lock = NoTask
  /\ wpc = [w \in Writers |-> "idle"]
  /\ info = [w \in Writers |-> NULL]
  /\ node = [w \in Writers |-> NULL] /\ victim = [w \in Writers |-> NULL]
  /\ rpc = [r \in Readers |-> "idle"] /\ want = [r \in Readers |-> NULL]
  /\ at = [r \in Readers |-> NULL]
  /\ had = [r \in Readers |-> {}] /\ stable = [r \in Readers |-> {}]
  /\ cut = {} /\ stray = {}

-----------------------------------------------------------------------------
(* susfs_add_sus_path, susfs_add_sus_kstat, susfs_add_open_redirect and      *)
(* susfs_update_sus_kstat.                                                  *)
Issue(w, c) ==
  /\ wpc[w] = "idle"
  /\ wpc' = [wpc EXCEPT ![w] = "find"]
  /\ info' = [info EXCEPT ![w] = c]
  /\ UNCHANGED <<bucket, lock, node, victim, readers, walks>>

\* The node a walk under the lock meets at its i-th step.
met[i \in 0..Cardinality(Nodes)] ==
  IF i = 0 THEN first ELSE IF met[i - 1] \in Nodes THEN next[met[i - 1]] ELSE NULL

HasName(n, w) == n \in Linked /\ entry[n].name = info[w].entry.name

\* The first node of the name, and the only one the search looks at.
Found(w) ==
  {met[i] : i \in {j \in DOMAIN met :
     HasName(met[j], w) /\ \A k \in DOMAIN met : k < j => ~HasName(met[k], w)}}

Done(w) ==
  /\ wpc' = [wpc EXCEPT ![w] = "idle"]
  /\ info' = [info EXCEPT ![w] = NULL]
  /\ node' = [node EXCEPT ![w] = NULL] /\ victim' = [victim EXCEPT ![w] = NULL]

\* The critical section goes on to remove n.
BeginRemoval(w, n) ==
  /\ victim' = [victim EXCEPT ![w] = n]
  /\ stable' = [r \in Readers |-> stable[r] \ {n}]
  /\ lock' = w
  /\ wpc' = [wpc EXCEPT ![w] = "hash_del"]

\* The search of an add.
hash_for_each(w) ==
  /\ wpc[w] = "find" /\ lock = NoTask /\ ~info[w].update
  /\ \/ /\ Found(w) = {}
        /\ wpc' = [wpc EXCEPT ![w] = "kmalloc"]
        /\ UNCHANGED <<lock, victim, stable>>
     \/ \E n \in Found(w) : BeginRemoval(w, n)
  /\ UNCHANGED <<bucket, info, node, readers, had, cut, stray>>

\* The search of an update goes on to the removal with its new entry in hand,
\* or ends the command: there is no entry of the name, its inode cannot be
\* marked, or there is no memory.
hash_for_each_update(w) ==
  /\ wpc[w] = "find" /\ lock = NoTask /\ info[w].update
  /\ \/ Done(w) /\ UNCHANGED <<state, entry, lock, stable>>
     \/ \E n \in Found(w), m \in Free :
          /\ state' = [state EXCEPT ![m] = "private"]
          /\ entry' = [entry EXCEPT ![m] = info[w].entry]
          /\ node' = [node EXCEPT ![w] = m]
          /\ BeginRemoval(w, n)
          /\ UNCHANGED info
  /\ UNCHANGED <<first, next, readers, had, cut, stray>>

\* Mutant: hash_del is forgotten, and only the node's own pointer is cleared.
bypass_not(w) ==
  /\ wpc[w] = "hash_del"
  /\ wpc' = [wpc EXCEPT ![w] = "init"]
  /\ UNCHANGED <<bucket, lock, info, node, victim, readers, walks>>

\* Mutant: the predecessor is set to NULL, as if n were the last node.
bypass_rest(w) ==
  /\ wpc[w] = "hash_del"
  /\ first' = IF first = victim[w] THEN NULL ELSE first
  /\ next' = [p \in Nodes |-> IF state[p] = "linked" /\ next[p] = victim[w] THEN NULL ELSE next[p]]
  /\ wpc' = [wpc EXCEPT ![w] = "init"]
  /\ UNCHANGED <<entry, state, lock, info, node, victim, readers, walks>>

\* hash_del: what pointed at the node points at its successor, and then the
\* node's own pointer is cleared.  A walk cannot tell the order of the two: one
\* that stands on the node after both may have come before both.
bypass(w) ==
  /\ wpc[w] = "hash_del"
  /\ LET n == victim[w]
     IN  /\ first' = IF first = n THEN next[n] ELSE first
         /\ next' = [p \in Nodes |-> IF state[p] = "linked" /\ next[p] = n THEN next[n] ELSE next[p]]
  /\ wpc' = [wpc EXCEPT ![w] = "init"]
  /\ UNCHANGED <<entry, state, lock, info, node, victim, readers, walks>>

init_node(w) ==
  /\ wpc[w] = "init"
  /\ next' = [next EXCEPT ![victim[w]] = NULL]
  /\ wpc' = [wpc EXCEPT ![w] = "kfree"]
  /\ UNCHANGED <<first, entry, state, lock, info, node, victim, readers, walks>>

\* The memory is gone, also from under the walks that stand on it.  An update
\* has its entry and keeps the lock; an add gives it back.
kfree(w) ==
  /\ wpc[w] = "kfree"
  /\ state' = [state EXCEPT ![victim[w]] = "free"]
  /\ entry' = [entry EXCEPT ![victim[w]] = NULL]
  /\ stray' = stray \cup {r \in Walking : at[r] = victim[w]}
  /\ at' = [r \in Readers |-> IF at[r] = victim[w] THEN NULL ELSE at[r]]
  /\ had' = [r \in Readers |-> had[r] \ {victim[w]}]
  /\ victim' = [victim EXCEPT ![w] = NULL]
  /\ IF info[w].update
     THEN wpc' = [wpc EXCEPT ![w] = "hash_add"] /\ UNCHANGED lock
     ELSE wpc' = [wpc EXCEPT ![w] = "kmalloc"] /\ lock' = NoTask
  /\ UNCHANGED <<first, next, info, node, rpc, want, stable, cut>>

\* The entry is made and its inode marked, or one of the two fails.
kmalloc(w) ==
  /\ wpc[w] = "kmalloc"
  /\ \/ Done(w) /\ UNCHANGED <<state, entry>>
     \/ \E m \in Free :
          /\ state' = [state EXCEPT ![m] = "private"]
          /\ entry' = [entry EXCEPT ![m] = info[w].entry]
          /\ node' = [node EXCEPT ![w] = m]
          /\ wpc' = [wpc EXCEPT ![w] = "spin_lock"]
          /\ UNCHANGED <<info, victim>>
  /\ UNCHANGED <<first, next, lock, readers, walks>>

\* Mutant: the second critical section does not take the lock.
spin_lock_not(w) ==
  /\ wpc[w] = "spin_lock"
  /\ wpc' = [wpc EXCEPT ![w] = "hash_add"]
  /\ UNCHANGED <<bucket, lock, info, node, victim, readers, walks>>

spin_lock(w) ==
  /\ wpc[w] = "spin_lock" /\ lock = NoTask
  /\ lock' = w
  /\ wpc' = [wpc EXCEPT ![w] = "hash_add"]
  /\ UNCHANGED <<bucket, info, node, victim, readers, walks>>

\* hash_add: the node points at the first one, and then becomes the first.
set_next(w) ==
  /\ wpc[w] = "hash_add"
  /\ next' = [next EXCEPT ![node[w]] = first]
  /\ wpc' = [wpc EXCEPT ![w] = "publish"]
  /\ UNCHANGED <<first, entry, state, lock, info, node, victim, readers, walks>>

publish(w) ==
  /\ wpc[w] = "publish"
  /\ first' = node[w]
  /\ state' = [state EXCEPT ![node[w]] = "linked"]
  /\ had' = [r \in Readers |->
               IF r \in Walking /\ entry[node[w]].key = want[r] THEN had[r] \cup {node[w]} ELSE had[r]]
  /\ wpc' = [wpc EXCEPT ![w] = "spin_unlock"]
  /\ UNCHANGED <<next, entry, lock, info, node, victim, readers, stable, cut, stray>>

spin_unlock(w) ==
  /\ wpc[w] = "spin_unlock"
  /\ lock' = NoTask
  /\ Done(w)
  /\ UNCHANGED <<bucket, readers, walks>>

-----------------------------------------------------------------------------
(* susfs_sus_ino_for_filldir64, susfs_sus_ino_for_generic_fillattr,          *)
(* susfs_sus_ino_for_show_map_vma and susfs_get_redirected_path.            *)
Forget(r) ==
  /\ had' = [had EXCEPT ![r] = {}] /\ stable' = [stable EXCEPT ![r] = {}]
  /\ cut' = cut \ {r} /\ stray' = stray \ {r}

\* Freed memory, and a node whose stores are not in order yet: only spin_unlock
\* orders those of hash_add for a walk, which may be led to the node before.
Foreign(n) ==
  n # NULL /\ (state[n] = "free" \/ \E w \in Writers : wpc[w] = "spin_unlock" /\ node[w] = n)

Start(r, k) ==
  /\ rpc[r] = "idle"
  /\ want' = [want EXCEPT ![r] = k]
  /\ at' = [at EXCEPT ![r] = first]
  /\ rpc' = [rpc EXCEPT ![r] = "compare"]
  /\ LET linked == {n \in Linked : entry[n].key = k}
     IN  /\ had' = [had EXCEPT ![r] =
                      linked \ {victim[w] : w \in {v \in Writers : wpc[v] \in {"init", "kfree"}}}]
         /\ stable' = [stable EXCEPT ![r] =
                         linked \ {victim[w] : w \in Writers}]
  /\ UNCHANGED <<bucket, writers, cut, stray>>

\* What a walk does next that has come to such memory is open: it may come out
\* with anything, and it may never come out ("lost").
Undefined(r) ==
  /\ r \in Walking /\ (r \in stray \/ Foreign(at[r]))
  /\ \E result \in {"found", "none", "lost"} : rpc' = [rpc EXCEPT ![r] = result]
  /\ stray' = stray \cup {r} /\ cut' = cut \ {r}
  /\ had' = [had EXCEPT ![r] = {}] /\ stable' = [stable EXCEPT ![r] = {}]
  /\ want' = [want EXCEPT ![r] = NULL] /\ at' = [at EXCEPT ![r] = NULL]
  /\ UNCHANGED <<bucket, writers>>

Sound(r) == r \notin stray /\ ~Foreign(at[r])

compare(r) ==
  /\ rpc[r] = "compare" /\ Sound(r)
  /\ rpc' = [rpc EXCEPT ![r] = IF at[r] = NULL THEN "none"
                               ELSE IF entry[at[r]].key = want[r] THEN "use" ELSE "next"]
  /\ UNCHANGED <<bucket, writers, want, at, walks>>

go_next(r) ==
  /\ rpc[r] = "next" /\ Sound(r)
  /\ at' = [at EXCEPT ![r] = next[at[r]]]
  /\ cut' = IF \E w \in Writers : victim[w] = at[r] THEN cut \cup {r} ELSE cut
  /\ rpc' = [rpc EXCEPT ![r] = "compare"]
  /\ UNCHANGED <<bucket, writers, want, had, stable, stray>>

\* The attributes or the redirected path are copied out of the entry.
use(r) ==
  /\ rpc[r] = "use" /\ Sound(r)
  /\ rpc' = [rpc EXCEPT ![r] = "found"]
  /\ at' = [at EXCEPT ![r] = NULL]
  /\ UNCHANGED <<bucket, writers, want, walks>>

Leave(r) ==
  /\ rpc[r] \in {"found", "none"}
  /\ rpc' = [rpc EXCEPT ![r] = "idle"]
  /\ want' = [want EXCEPT ![r] = NULL] /\ at' = [at EXCEPT ![r] = NULL]
  /\ Forget(r)
  /\ UNCHANGED <<bucket, writers>>

-----------------------------------------------------------------------------
command(w) ==
  \/ hash_for_each(w) \/ hash_for_each_update(w)
  \/ bypass(w) \/ init_node(w) \/ kfree(w) \/ kmalloc(w)
  \/ spin_lock(w) \/ set_next(w) \/ publish(w) \/ spin_unlock(w)

walk(r) == compare(r) \/ go_next(r) \/ use(r)

HWNext ==
  \/ \E w \in Writers : command(w) \/ \E c \in Issued : Issue(w, c)
  \/ \E r \in Readers : walk(r) \/ Undefined(r) \/ Leave(r) \/ \E k \in Keys : Start(r, k)

HWSpec == HWInit /\ [][HWNext]_HWvars

\* A walk inside the kernel goes on; nothing is assumed of the commands.
HWFairSpec == HWSpec /\ \A r \in Readers : WF_HWvars(walk(r) \/ Undefined(r))

-----------------------------------------------------------------------------
Inside == {"hash_del", "init", "kfree", "hash_add", "publish", "spin_unlock"}

\* The type of the state; susfs_spin_lock is held exactly in the critical
\* sections.
HWTypeOK ==
  /\ first \in Nodes \cup {NULL} /\ next \in [Nodes -> Nodes \cup {NULL}]
  /\ entry \in [Nodes -> BucketEntry \cup {NULL}] /\ state \in [Nodes -> {"free", "private", "linked"}]
  /\ wpc \in [Writers -> {"idle", "find", "kmalloc", "spin_lock"} \cup Inside]
  /\ \A w \in Writers : lock = w <=> wpc[w] \in Inside
  /\ info \in [Writers -> Issued \cup {NULL}]
  /\ node \in [Writers -> Nodes \cup {NULL}] /\ victim \in [Writers -> Nodes \cup {NULL}]
  /\ rpc \in [Readers -> {"idle", "compare", "next", "use", "found", "none", "lost"}]
  /\ want \in [Readers -> Keys \cup {NULL}] /\ at \in [Readers -> Nodes \cup {NULL}]
  /\ had \in [Readers -> SUBSET Nodes] /\ stable \in [Readers -> SUBSET Nodes]
  /\ cut \subseteq Readers /\ stray \subseteq Readers

\* Whenever the lock is free, the pointers from first on lead through exactly
\* the linked nodes and end in NULL: no command has lost another's entry or
\* closed the list into a circle.
BucketWhole ==
  lock = NoTask =>
    /\ {met[i] : i \in DOMAIN met} \cap Nodes = Linked
    /\ met[Cardinality(Nodes)] = NULL

\* The bucket, with the type of the state.
BucketSound == HWTypeOK /\ BucketWhole

\* A walk that has read no foreign memory takes only an entry for its inode that
\* was in the bucket at some moment of the walk.
FoundWasThere ==
  \A r \in Readers : (rpc[r] = "use" /\ Sound(r)) => at[r] \in had[r]

\* A walk that has read no foreign memory misses an inode whose entry was in the
\* bucket all the while only if the very node it stood on was being removed:
\* hash_del clears the node's pointer, and the rest of the bucket is out of the
\* walk's sight.  Commands elsewhere in the bucket hide nothing from it.
NeverMissed ==
  \A r \in Readers : (rpc[r] = "none" /\ r \notin stray) => stable[r] = {} \/ r \in cut

\* A walk ends, however many commands change the bucket meanwhile, unless it has
\* read foreign memory: entries are added at the head, behind it.
WalkEnds ==
  \A r \in Readers : (r \in Walking) ~> (r \notin Walking \/ r \in stray)
=============================================================================
