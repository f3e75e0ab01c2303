----------------------------- MODULE PathHideProofs -----------------------------
(***************************************************************************)
(* Theorems about PathHide.                                                 *)
(*                                                                         *)
(* LocksSound: every step of a task acquires a lock, releases it, abandons  *)
(* it with one more early return counted, or leaves the locks alone         *)
(* (LockKinds), so that the count of a lock is always that of the tasks     *)
(* under it and of the early returns (LocksInv).                            *)
(*                                                                         *)
(* HiddenFromApp: a dentry of the chain is negative, of what the directory  *)
(* has, or of a hidden inode, and a negative one is there only if the       *)
(* directory has nothing (ChainInv).  While the name is hidden an app comes *)
(* by no dentry but one that it makes itself, which is of the hidden inode  *)
(* (SureInv), and each of its operations tests that inode before it tells   *)
(* of it (Refused).  That nobody else is looking the name up while a task   *)
(* changes the directory (Excludes) is what keeps a dentry that was looked  *)
(* up in the chain.                                                         *)
(*                                                                         *)
(* OthersUnaffected: apps add second dentries only for a hidden file, and   *)
(* for the one the directory has, so that all dentries agree until that     *)
(* file is unlinked (AliasInv).                                             *)
(***************************************************************************)
EXTENDS PathHide, FiniteSetTheorems, WellFoundedInduction, TLAPS

-----------------------------------------------------------------------------
(* Chains of dentries.                                                       *)

\* A chain has no dentry twice.
Once(s) == \A j, k \in DOMAIN s : s[j] = s[k] => j = k

\* A nonempty set of places has a first one.
LEMMA LeastExists ==
  ASSUME NEW T \in SUBSET Nat, T # {}
  PROVE  \E m \in T : \A l \in T : m <= l
  <1> DEFINE R == OpToRel(<, Nat)
  <1>1. IsWellFoundedOn(R, Nat)
    BY NatLessThanWellFounded
  <1> HIDE DEF R
  <1>2. PICK m \in T : \A l \in T : ~(<<l, m>> \in R)
    BY <1>1, WFMin
  <1>3. \A l \in T : ~(l < m)
    BY <1>2 DEF R, OpToRel
  <1> QED BY <1>3

\* A chain with a new dentry ahead of the others.
LEMMA Prepended ==
  ASSUME NEW M, NEW s \in Seq(M), NEW d \in M, Once(s), d \notin ToSet(s)
  PROVE  <<d>> \o s \in Seq(M) /\ Once(<<d>> \o s) /\ ToSet(<<d>> \o s) = {d} \cup ToSet(s)
  <1> DEFINE r == <<d>> \o s
             n == Len(s)
  <1>1. /\ r \in Seq(M) /\ n \in Nat /\ DOMAIN s = 1..n /\ DOMAIN r = 1..(n + 1)
        /\ r[1] = d /\ \A i \in 1..n : r[i + 1] = s[i]
    OBVIOUS
  <1> HIDE DEF r, n
  <1>2. \A i \in DOMAIN r : i # 1 => i - 1 \in DOMAIN s /\ r[i] = s[i - 1]
    <2> TAKE i \in DOMAIN r
    <2>1. i # 1 => i - 1 \in 1..n /\ (i - 1) + 1 = i
      BY <1>1
    <2> QED BY <2>1, <1>1
  <1>3. \A i \in DOMAIN s : s[i] # d
    BY DEF ToSet
  <1>4. Once(r)
    <2> SUFFICES ASSUME NEW j \in DOMAIN r, NEW k \in DOMAIN r, r[j] = r[k] PROVE j = k
      BY DEF Once
    <2>1. j \in Int /\ k \in Int
      BY <1>1
    <2>2. CASE j # 1 /\ k # 1
      <3>1. j - 1 = k - 1
        BY <1>2, <2>2 DEF Once
      <3> QED BY <2>1, <3>1
    <2>3. CASE j = 1 \/ k = 1
      BY <1>1, <1>2, <1>3, <2>3
    <2> QED BY <2>2, <2>3
  <1>5. ToSet(r) = {d} \cup ToSet(s)
    <2>1. ASSUME NEW x \in ToSet(r) PROVE x \in {d} \cup ToSet(s)
      BY <2>1, <1>1, <1>2 DEF ToSet
    <2>2. d \in ToSet(r)
      BY <1>1 DEF ToSet
    <2>3. ASSUME NEW i \in DOMAIN s PROVE s[i] \in ToSet(r)
      <3>1. i + 1 \in DOMAIN r /\ r[i + 1] = s[i]
        BY <1>1
      <3> QED BY <3>1 DEF ToSet
    <2> QED BY <2>1, <2>2, <2>3 DEF ToSet
  <1> QED BY <1>1, <1>4, <1>5 DEF r

\* RemoveAt closes the gap.
LEMMA RemoveAtShifts ==
  ASSUME NEW S, NEW s \in Seq(S), NEW k \in 1..Len(s)
  PROVE  /\ RemoveAt(s, k) \in Seq(S)
         /\ Len(RemoveAt(s, k)) = Len(s) - 1
         /\ \A i \in 1..(Len(s) - 1) :
              RemoveAt(s, k)[i] = IF i < k THEN s[i] ELSE s[i + 1]
<1> DEFINE a == SubSeq(s, 1, k - 1)
           b == SubSeq(s, k + 1, Len(s))
<1>1. a \in Seq(S) /\ Len(a) = k - 1 /\ \A i \in 1..(k - 1) : a[i] = s[i]
  OBVIOUS
<1>2. b \in Seq(S) /\ Len(b) = Len(s) - k /\ \A i \in 1..(Len(s) - k) : b[i] = s[i + k]
  OBVIOUS
<1>3. RemoveAt(s, k) = a \o b /\ Len(s) \in Nat
  BY DEF RemoveAt
<1> HIDE DEF a, b
<1>4. a \o b \in Seq(S) /\ Len(a \o b) = Len(s) - 1
  BY <1>1, <1>2, <1>3
<1>5. ASSUME NEW i \in 1..(Len(s) - 1) PROVE (a \o b)[i] = IF i < k THEN s[i] ELSE s[i + 1]
  <2>1. (a \o b)[i] = IF i < k THEN a[i] ELSE b[i - (k - 1)]
    BY <1>1, <1>2, <1>3
  <2>2. ~(i < k) => i - (k - 1) \in 1..(Len(s) - k) /\ (i - (k - 1)) + k = i + 1
    BY <1>3
  <2> QED BY <1>1, <1>2, <1>3, <2>1, <2>2
<1> QED BY <1>3, <1>4, <1>5

\* A chain without one of its dentries.
LEMMA Removed ==
  ASSUME NEW M, NEW s \in Seq(M), NEW k \in DOMAIN s, Once(s)
  PROVE  RemoveAt(s, k) \in Seq(M) /\ Once(RemoveAt(s, k)) /\ ToSet(RemoveAt(s, k)) = ToSet(s) \ {s[k]}
  <1> DEFINE r == RemoveAt(s, k)
             n == Len(s)
  <1>1. DOMAIN s = 1..n /\ n \in Nat /\ k \in 1..n /\ k \in Int
    OBVIOUS
  <1>2. /\ r \in Seq(M) /\ Len(r) = n - 1
        /\ \A i \in 1..(n - 1) : r[i] = IF i < k THEN s[i] ELSE s[i + 1]
    BY <1>1, RemoveAtShifts
  <1> HIDE DEF r, n
  <1>3. DOMAIN r = 1..(n - 1)
    BY <1>2
  <1> DEFINE f(i) == IF i < k THEN i ELSE i + 1
  <1>4. ASSUME NEW i \in DOMAIN r
        PROVE  i \in Int /\ f(i) \in DOMAIN s /\ f(i) # k /\ r[i] = s[f(i)]
    <2>1. i \in Int /\ 1 <= i /\ i <= n - 1
      BY <1>3, <1>1
    <2>2. f(i) \in 1..n /\ f(i) # k
      BY <2>1, <1>1
    <2>3. r[i] = s[f(i)]
      BY <1>2, <1>3
    <2> QED BY <2>1, <2>2, <2>3, <1>1
  <1>5. Once(r)
    <2> SUFFICES ASSUME NEW i \in DOMAIN r, NEW j \in DOMAIN r, r[i] = r[j] PROVE i = j
      BY DEF Once
    <2>1. f(i) = f(j)
      BY <1>4 DEF Once
    <2>2. i \in Int /\ j \in Int /\ k \in Int
      BY <1>1, <1>4
    <2> QED BY ONLY <2>1, <2>2
  <1>6. ASSUME NEW j \in DOMAIN s, j # k PROVE s[j] \in ToSet(r)
    <2>1. j \in Int /\ 1 <= j /\ j <= n
      BY <1>1
    <2>2. CASE j < k
      <3>1. j \in DOMAIN r /\ f(j) = j
        BY <2>1, <2>2, <1>1, <1>3
      <3> QED BY <3>1, <1>4 DEF ToSet
    <2>3. CASE j > k
      <3>1. j - 1 \in DOMAIN r /\ f(j - 1) = j
        BY <2>1, <2>3, <1>1, <1>3
      <3>2. r[j - 1] = s[j]
        BY <3>1, <1>4
      <3> QED BY <3>1, <3>2 DEF ToSet
    <2> QED BY <2>1, <2>2, <2>3, <1>6, <1>1
  <1>7. ASSUME NEW x \in ToSet(r) PROVE x \in ToSet(s) /\ x # s[k]
    <2>1. PICK i \in DOMAIN r : x = r[i]
      BY DEF ToSet
    <2>2. f(i) \in DOMAIN s /\ f(i) # k /\ x = s[f(i)]
      BY <2>1, <1>4
    <2> HIDE DEF f
    <2> QED BY <2>2 DEF Once, ToSet
  <1>8. ToSet(r) = ToSet(s) \ {s[k]}
    <2>1. ASSUME NEW x \in ToSet(s), x # s[k] PROVE x \in ToSet(r)
      <3>1. PICK j \in DOMAIN s : x = s[j]
        BY <2>1 DEF ToSet
      <3> QED BY <3>1, <2>1, <1>6
    <2> QED BY <2>1, <1>7
  <1> QED BY <1>2, <1>5, <1>8 DEF r

\* What is dropped leaves the chain, and the others stay.
LEMMA Dropped ==
  ASSUME cached \in Seq(Dentries), Once(cached), NEW d, d_drop(d)
  PROVE  cached' \in Seq(Dentries) /\ Once(cached)' /\ ToSet(cached)' = ToSet(cached) \ {d}
  <1>1. CASE d \notin ToSet(cached) /\ cached' = cached
    BY <1>1
  <1>2. ASSUME NEW k \in DOMAIN cached, cached[k] = d, cached' = RemoveAt(cached, k)
        PROVE  cached' \in Seq(Dentries) /\ Once(cached)' /\ ToSet(cached)' = ToSet(cached) \ {d}
    <2>1. /\ RemoveAt(cached, k) \in Seq(Dentries) /\ Once(RemoveAt(cached, k))
          /\ ToSet(RemoveAt(cached, k)) = ToSet(cached) \ {cached[k]}
      BY Removed
    <2> QED BY <2>1, <1>2
  <1> QED BY <1>1, <1>2 DEF d_drop

\* The first dentry of the chain that a task may see, if there is one.
LEMMA LookedUp ==
  ASSUME cached \in Seq(Dentries), NEW t
  PROVE  \/ /\ d_lookup(t) = None
            /\ None \in Dentries \/ \A d \in ToSet(cached) : Hides(t, d_inode[d])
         \/ d_lookup(t) \in ToSet(cached) /\ d_lookup(t) \in Dentries /\ ~Hides(t, d_inode[d_lookup(t)])
  <1> DEFINE K == {k \in DOMAIN cached : ~Hides(t, d_inode[cached[k]])}
  <1>1. d_lookup(t) = IF K = {} THEN None ELSE cached[CHOOSE k \in K : \A j \in K : k <= j]
    BY DEF d_lookup, FirstAt
  <1>2. CASE K = {}
    BY <1>1, <1>2 DEF ToSet
  <1>3. CASE K # {}
    <2>1. K \in SUBSET Nat
      OBVIOUS
    <2>2. \E k \in K : \A j \in K : k <= j
      BY <2>1, <1>3, LeastExists
    <2>3. PICK k \in K : d_lookup(t) = cached[k]
      BY <2>2, <1>1, <1>3
    <2>4. d_lookup(t) \in ToSet(cached) /\ ~Hides(t, d_inode[d_lookup(t)]) /\ d_lookup(t) \in Dentries
      BY <2>3 DEF ToSet
    <2> QED BY <2>4
  <1> QED BY <1>2, <1>3

-----------------------------------------------------------------------------
(* Types, and which operation a step belongs to.                             *)

\* The answers and the steps of tasks, and the type of the state in parts.
Answers == {"none", "ok", "ENOENT", "EEXIST", "EINVAL", "ENOMEM", "ENOSPC"}
Steps   == {"idle", "fast", "want", "lookup", "looked", "complete", "ustat", "remount"}

DiskOK ==
  /\ file \in created \cup {None} /\ created \subseteq Inodes /\ sus \subseteq created
  /\ sus_mount \in BOOLEAN
DcacheOK ==
  /\ cached \in Seq(Dentries) /\ Once(cached)
  /\ d_inode \in [Dentries -> Inodes \cup {None}] /\ leaked \in Seq(Dentries)
TasksOK ==
  /\ pc \in [Tasks -> Steps] /\ op \in [Tasks -> Ops] /\ held \in [Tasks -> Dentries \cup {None}]
  /\ fresh \in [Tasks -> BOOLEAN] /\ answer \in [Apps -> Answers]
  /\ \A t \in Tasks : pc[t] \in {"looked", "complete"} => held[t] # None
PastOK ==
  /\ sure \in [Apps -> BOOLEAN] /\ met \in [slow : Nat, lookup : Nat, ustat : Nat]
  /\ aliased \in BOOLEAN /\ undead \in BOOLEAN

\* Which operation a step belongs to.
StepsOK ==
  \A t \in Tasks :
    /\ pc[t] = "idle" => op[t] = "stat" /\ held[t] = None
    /\ pc[t] = "fast" => op[t] \in Lookups
    /\ pc[t] \in {"lookup", "looked"} => op[t] \in Lookups \cup Changes
    /\ pc[t] = "complete" => op[t] \in Lookups \cup Opens
    /\ pc[t] \in {"ustat", "remount"} => op[t] = pc[t]

\* The types hold when the kernel has just started.
LEMMA InitTypes == Init => DiskOK /\ DcacheOK /\ TasksOK /\ PastOK /\ StepsOK
  <1> SUFFICES ASSUME Init PROVE DiskOK /\ DcacheOK /\ TasksOK /\ PastOK /\ StepsOK
    OBVIOUS
  <1>1. DiskOK
    <2>1. (CHOOSE i \in Inodes : TRUE) \in Inodes
      BY PathHideAssumption
    <2> QED BY <2>1 DEF Init, DiskOK
  <1>2. DcacheOK
    BY DEF Init, DcacheOK, Once
  <1>3. TasksOK
    BY DEF Init, TasksOK, Steps, Ops, Lookups, Answers
  <1>4. PastOK
    BY DEF Init, PastOK
  <1>5. StepsOK
    BY DEF Init, StepsOK
  <1> QED BY <1>1, <1>2, <1>3, <1>4, <1>5

\* The four ways in which a step of t changes the tasks.
Moves(t, step) ==
  /\ pc' = [pc EXCEPT ![t] = step] /\ UNCHANGED <<op, answer>>
  /\ held'[t] \in Dentries \cup {None} /\ (step \in {"looked", "complete"} => held'[t] # None)
  /\ \E d, b : held' = [held EXCEPT ![t] = d] /\ fresh' = [fresh EXCEPT ![t] = b] /\ b \in BOOLEAN
Legal(t, step) ==
  \/ pc[t] = "fast" /\ step \in {"want", "complete"}
  \/ pc[t] = "want" /\ LockOf(op[t]) = "i_rwsem" /\ step = "lookup"
  \/ pc[t] = "want" /\ LockOf(op[t]) = "s_umount" /\ step = op[t]
  \/ pc[t] = "lookup" /\ step = "looked"
  \/ pc[t] = "looked" /\ op[t] \in Opens \cup {"stat"} /\ step = "complete"
Returns(t) == \E r \in Answers : Return(t, r)
Starts(t) ==
  \E o \in Ops :
    /\ op' = [op EXCEPT ![t] = o] /\ pc[t] = "idle"
    /\ pc' = [pc EXCEPT ![t] = IF o \in Lookups THEN "fast" ELSE "want"]
    /\ answer' = [a \in Apps |-> IF a = t THEN "none" ELSE answer[a]]
    /\ UNCHANGED <<held, fresh>>

\* A task that keeps its dentry.
LEMMA Keeps ==
  ASSUME TasksOK, NEW t \in Tasks, NEW step, Goto(t, step), UNCHANGED <<held, fresh>>,
         step \in {"looked", "complete"} => held[t] # None
  PROVE  Moves(t, step)
  <1>1. held' = [held EXCEPT ![t] = held[t]] /\ fresh' = [fresh EXCEPT ![t] = fresh[t]] /\ fresh[t] \in BOOLEAN
    BY DEF TasksOK
  <1>2. held'[t] = held[t] /\ held[t] \in Dentries \cup {None}
    BY DEF TasksOK
  <1> QED BY <1>1, <1>2 DEF Moves, Goto

\* A task that gets a dentry.
LEMMA Gets ==
  ASSUME TasksOK, NEW t \in Tasks, NEW step, Goto(t, step), NEW d \in Dentries, NEW b \in BOOLEAN,
         held' = [held EXCEPT ![t] = d], fresh' = [fresh EXCEPT ![t] = b]
  PROVE  Moves(t, step)
  <1>1. held'[t] = d /\ d # None
    BY PathHideAssumption DEF TasksOK
  <1> QED BY <1>1 DEF Moves, Goto

\* Each step of t starts an operation, ends it, or goes to the next step of it.
LEMMA StepKinds ==
  ASSUME DcacheOK, TasksOK, NEW t \in Tasks, Start(t) \/ lock(t) \/ Step(t)
  PROVE  \/ Starts(t) \/ Returns(t) \/ \E step \in Steps : Legal(t, step) /\ Moves(t, step)
  <1>1. CASE Start(t)
    BY <1>1 DEF Start, Starts
  <1>2. CASE lock(t)
    <2>1. PICK step : step = IF LockOf(op[t]) = "i_rwsem" THEN "lookup" ELSE op[t]
      OBVIOUS
    <2>2. Goto(t, step) /\ UNCHANGED <<held, fresh>> /\ pc[t] = "want"
      BY <1>2, <2>1 DEF lock
    <2>3. Legal(t, step) /\ step \in {"lookup", "ustat", "remount"}
      BY <2>1, <2>2 DEF Legal, LockOf
    <2>4. Moves(t, step)
      BY <2>2, <2>3, Keeps
    <2> QED BY <2>3, <2>4 DEF Steps
  <1>3. CASE lookup_fast(t)
    <2>1. PICK d : d = d_lookup(t)
      OBVIOUS
    <2>2. d = None \/ d \in Dentries
      BY <2>1, LookedUp DEF DcacheOK
    <2>3. CASE Goto(t, "want") /\ UNCHANGED <<held, fresh>>
      <3>1. Moves(t, "want") /\ Legal(t, "want")
        BY <2>3, <1>3, Keeps DEF lookup_fast, Legal
      <3> QED BY <3>1 DEF Steps
    <2>4. CASE Return(t, "ENOENT")
      BY <2>4 DEF Returns, Answers
    <2>5. CASE d # None /\ Goto(t, "complete") /\ held' = [held EXCEPT ![t] = d] /\ UNCHANGED fresh
      <3>1. fresh' = [fresh EXCEPT ![t] = fresh[t]] /\ fresh[t] \in BOOLEAN
        BY <2>5 DEF TasksOK
      <3>2. Moves(t, "complete") /\ Legal(t, "complete")
        BY <3>1, <2>2, <2>5, <1>3, Gets DEF lookup_fast, Legal
      <3> QED BY <3>2 DEF Steps
    <2> QED BY <2>1, <2>3, <2>4, <2>5, <1>3 DEF lookup_fast
  <1>4. CASE lookup(t)
    <2>1. \E d \in Dentries, b \in BOOLEAN : held' = [held EXCEPT ![t] = d] /\ fresh' = [fresh EXCEPT ![t] = b]
      <3>1. CASE /\ d_lookup(t) # None
                 /\ held' = [held EXCEPT ![t] = d_lookup(t)] /\ fresh' = [fresh EXCEPT ![t] = FALSE]
        <4>1. d_lookup(t) \in Dentries
          BY <3>1, LookedUp DEF DcacheOK
        <4> QED BY <3>1, <4>1
      <3>2. CASE /\ Unused # {}
                 /\ held' = [held EXCEPT ![t] = CHOOSE e \in Unused : TRUE]
                 /\ fresh' = [fresh EXCEPT ![t] = TRUE]
        <4>1. (CHOOSE e \in Unused : TRUE) \in Dentries
          BY <3>2 DEF Unused
        <4> QED BY <3>2, <4>1
      <3> QED BY <1>4, <3>1, <3>2 DEF lookup
    <2>2. Moves(t, "looked") /\ Legal(t, "looked")
      BY <2>1, <1>4, Gets DEF lookup, Legal
    <2> QED BY <2>2 DEF Steps
  <1>5. CASE lookup_slow(t)
    <2>1. CASE Return(t, "ENOENT")
      BY <2>1 DEF Returns, Answers
    <2>2. CASE Goto(t, "complete") /\ UNCHANGED <<held, fresh>>
      <3>1. pc[t] = "looked" /\ op[t] = "stat"
        BY <1>5 DEF lookup_slow
      <3>2. held[t] # None
        BY <3>1 DEF TasksOK
      <3>3. Moves(t, "complete") /\ Legal(t, "complete")
        BY <3>1, <3>2, <2>2, Keeps DEF Legal
      <3> QED BY <3>3 DEF Steps
    <2> QED BY <1>5, <2>1, <2>2 DEF lookup_slow
  <1>6. CASE lookup_open(t)
    <2>1. CASE \E r \in Answers : Return(t, r)
      BY <2>1 DEF Returns
    <2>2. CASE Goto(t, "complete") /\ UNCHANGED <<held, fresh>>
      <3>1. pc[t] = "looked" /\ op[t] \in Opens
        BY <1>6 DEF lookup_open
      <3>2. held[t] # None
        BY <3>1 DEF TasksOK
      <3>3. Moves(t, "complete") /\ Legal(t, "complete")
        BY <3>1, <3>2, <2>2, Keeps DEF Legal
      <3> QED BY <3>3 DEF Steps
    <2> QED BY <1>6, <2>1, <2>2 DEF lookup_open, Create, Answers
  <1>7. CASE d_alloc_fails(t) \/ lookup_slow_hidden(t) \/ filename_lookup(t)
    BY <1>7 DEF d_alloc_fails, lookup_slow_hidden, filename_lookup, Returns, Answers
  <1>8. CASE may_open(t)
    BY <1>8 DEF may_open, Returns, Answers
  <1>9. CASE may_create(t)
    BY <1>9 DEF may_create, Create, Returns, Answers
  <1>10. CASE may_delete(t)
    BY <1>10 DEF may_delete, Returns, Answers
  <1>11. CASE vfs_ustat(t) \/ remount(t)
    BY <1>11 DEF vfs_ustat, remount, Returns, Answers
  <1> QED BY <1>1, <1>2, <1>3, <1>4, <1>5, <1>6, <1>7, <1>8, <1>9, <1>10, <1>11 DEF Step

\* Tasks stay well typed, and at steps of their operation.
LEMMA NextTasks ==
  ASSUME DcacheOK, TasksOK, StepsOK, [Next]_vars
  PROVE  TasksOK' /\ StepsOK'
  <1>0. /\ pc \in [Tasks -> Steps] /\ op \in [Tasks -> Ops] /\ held \in [Tasks -> Dentries \cup {None}]
        /\ fresh \in [Tasks -> BOOLEAN] /\ answer \in [Apps -> Answers]
    BY DEF TasksOK
  <1>1. ASSUME NEW t \in Tasks, Starts(t) PROVE TasksOK' /\ StepsOK'
    <2>1. PICK o \in Ops :
            /\ op' = [op EXCEPT ![t] = o] /\ pc' = [pc EXCEPT ![t] = IF o \in Lookups THEN "fast" ELSE "want"]
            /\ answer' = [a \in Apps |-> IF a = t THEN "none" ELSE answer[a]]
            /\ held' = held /\ fresh' = fresh
      BY <1>1 DEF Starts
    <2>2. /\ pc' \in [Tasks -> Steps] /\ op' \in [Tasks -> Ops] /\ held' \in [Tasks -> Dentries \cup {None}]
          /\ fresh' \in [Tasks -> BOOLEAN]
      BY <2>1, <1>0 DEF Steps
    <2>3. answer' \in [Apps -> Answers]
      BY <2>1, <1>0 DEF Answers
    <2>4. \A u \in Tasks : pc'[u] \in {"looked", "complete"} => held'[u] # None
      BY <2>1, <1>0 DEF TasksOK
    <2>5. StepsOK'
      BY <2>1, <1>0 DEF StepsOK
    <2> QED BY <2>2, <2>3, <2>4, <2>5 DEF TasksOK
  <1>2. ASSUME NEW t \in Tasks, Returns(t) PROVE TasksOK' /\ StepsOK'
    <2>1. PICK r \in Answers :
            /\ pc' = [pc EXCEPT ![t] = "idle"]
            /\ answer' = [a \in Apps |-> IF a = t THEN r ELSE answer[a]]
            /\ held' = [held EXCEPT ![t] = None] /\ op' = [op EXCEPT ![t] = "stat"]
            /\ fresh' = [fresh EXCEPT ![t] = FALSE]
      BY <1>2 DEF Returns, Return
    <2>2. /\ pc' \in [Tasks -> Steps] /\ op' \in [Tasks -> Ops] /\ held' \in [Tasks -> Dentries \cup {None}]
          /\ fresh' \in [Tasks -> BOOLEAN]
      BY <2>1, <1>0 DEF Steps, Ops, Lookups
    <2>3. answer' \in [Apps -> Answers]
      BY <2>1, <1>0
    <2>4. \A u \in Tasks : pc'[u] \in {"looked", "complete"} => held'[u] # None
      BY <2>1, <1>0 DEF TasksOK
    <2>5. StepsOK'
      BY <2>1, <1>0 DEF StepsOK
    <2> QED BY <2>2, <2>3, <2>4, <2>5 DEF TasksOK
  <1>3. ASSUME NEW t \in Tasks, NEW step \in Steps, Legal(t, step), Moves(t, step) PROVE TasksOK' /\ StepsOK'
    <2>1. PICK d, b :
            /\ pc' = [pc EXCEPT ![t] = step] /\ op' = op /\ answer' = answer
            /\ held' = [held EXCEPT ![t] = d] /\ fresh' = [fresh EXCEPT ![t] = b] /\ b \in BOOLEAN
      BY <1>3 DEF Moves
    <2>2. d \in Dentries \cup {None} /\ (step \in {"looked", "complete"} => d # None)
      BY <1>3, <2>1, <1>0 DEF Moves
    <2>3. /\ pc' \in [Tasks -> Steps] /\ op' \in [Tasks -> Ops] /\ held' \in [Tasks -> Dentries \cup {None}]
          /\ answer' \in [Apps -> Answers]
      BY <2>1, <2>2, <1>0
    <2>7. fresh' \in [Tasks -> BOOLEAN]
      BY <2>1, <1>0
    <2>4. \A u \in Tasks : pc'[u] \in {"looked", "complete"} => held'[u] # None
      BY <2>1, <2>2, <1>0 DEF TasksOK
    <2>5. /\ step # "idle" /\ step # "fast" 
          /\ step \in {"lookup", "looked"} => op[t] \in Lookups \cup Changes
          /\ step = "complete" => op[t] \in Lookups \cup Opens
          /\ step \in {"ustat", "remount"} => op[t] = step
      <3>1. op[t] \in Ops
        BY <1>0
      <3>2. CASE pc[t] = "fast" /\ step \in {"want", "complete"}
        BY <3>2 DEF StepsOK
      <3>3. CASE pc[t] = "want" /\ LockOf(op[t]) = "i_rwsem" /\ step = "lookup"
        BY <3>1, <3>3 DEF LockOf, Ops
      <3>4. CASE pc[t] = "want" /\ LockOf(op[t]) = "s_umount" /\ step = op[t]
        BY <3>1, <3>4 DEF LockOf
      <3>5. CASE pc[t] = "lookup" /\ step = "looked"
        BY <3>5 DEF StepsOK
      <3>6. CASE pc[t] = "looked" /\ op[t] \in Opens \cup {"stat"} /\ step = "complete"
        BY <3>6 DEF Lookups
      <3> QED BY <1>3, <3>2, <3>3, <3>4, <3>5, <3>6 DEF Legal
    <2>6. StepsOK'
      BY <2>1, <2>5, <1>0 DEF StepsOK
    <2> QED BY <2>3, <2>7, <2>4, <2>6 DEF TasksOK
  <1>4. CASE UNCHANGED task
    BY <1>4 DEF task, TasksOK, StepsOK
  <1>5. ASSUME NEW t \in Tasks, Start(t) \/ lock(t) \/ Step(t) PROVE TasksOK' /\ StepsOK'
    BY <1>5, <1>1, <1>2, <1>3, StepKinds
  <1> QED BY <1>4, <1>5 DEF Next, hide, shrink_dcache, vars

-----------------------------------------------------------------------------
(* The disk, the dcache and the references.                                  *)

\* What the disk has is something created, and hiding is for ever.
LEMMA NextDisk ==
  ASSUME DiskOK, [Next]_vars
  PROVE  DiskOK' /\ sus \subseteq sus' /\ created \subseteq created'
  <1>1. CASE UNCHANGED disk
    BY <1>1 DEF disk, DiskOK
  <1>2. CASE hide
    BY <1>2 DEF hide, DiskOK
  <1>3. ASSUME NEW t \in Tasks, Create(t) PROVE DiskOK' /\ sus \subseteq sus' /\ created \subseteq created'
    <2>1. CASE UNCHANGED disk
      BY <2>1, <1>1
    <2>2. CASE /\ created # Inodes
               /\ LET i == CHOOSE j \in Inodes \ created : TRUE
                  IN  file' = i /\ created' = created \cup {i}
               /\ UNCHANGED <<sus, sus_mount>>
      <3>1. PICK i : i = CHOOSE j \in Inodes \ created : TRUE
        OBVIOUS
      <3>2. i \in Inodes
        BY <3>1, <2>2 DEF DiskOK
      <3> QED BY <3>1, <3>2, <2>2 DEF DiskOK
    <2> QED BY <1>3, <2>1, <2>2 DEF Create
  <1>4. ASSUME NEW t \in Tasks, Unlink(t) PROVE DiskOK' /\ sus \subseteq sus' /\ created \subseteq created'
    BY <1>4 DEF Unlink, DiskOK
  <1>5. ASSUME NEW t \in Tasks, Start(t) \/ lock(t) PROVE UNCHANGED disk
    BY <1>5 DEF Start, lock
  <1>6. ASSUME NEW t \in Tasks, Step(t) PROVE UNCHANGED disk \/ Create(t) \/ Unlink(t)
    <2>1. CASE \/ lookup_fast(t) \/ lookup(t) \/ d_alloc_fails(t) \/ lookup_slow_hidden(t) \/ lookup_slow(t)
               \/ filename_lookup(t) \/ may_open(t) \/ vfs_ustat(t) \/ remount(t)
      BY <2>1 DEF lookup_fast, lookup, d_alloc_fails, lookup_slow_hidden, lookup_slow, filename_lookup, may_open,
           vfs_ustat, remount
    <2>2. CASE lookup_open(t) \/ may_create(t) \/ may_delete(t)
      BY <2>2 DEF lookup_open, may_create, may_delete
    <2> QED BY <1>6, <2>1, <2>2 DEF Step
  <1> QED BY <1>1, <1>2, <1>3, <1>4, <1>5, <1>6 DEF Next, shrink_dcache, vars

\* The history variables keep their types.
LEMMA NextPast ==
  ASSUME PastOK, DiskOK, [Next]_vars
  PROVE  PastOK'
  <1>1. CASE UNCHANGED past
    BY <1>1 DEF past, PastOK
  <1>2. ASSUME UNCHANGED <<met, aliased>>, sure' \in [Apps -> BOOLEAN], undead' \in BOOLEAN PROVE PastOK'
    BY <1>2 DEF PastOK
  <1>3. ASSUME NEW t \in Tasks, Create(t) PROVE sure' \in [Apps -> BOOLEAN]
    BY <1>3 DEF Create, PastOK
  <1>4. ASSUME NEW t \in Tasks, Start(t) PROVE PastOK'
    <2>1. sure' \in [Apps -> BOOLEAN]
      BY <1>4 DEF Start, PastOK
    <2>2. UNCHANGED <<met, aliased, undead>>
      BY <1>4 DEF Start
    <2> QED BY <2>1, <2>2 DEF PastOK
  <1>5. ASSUME NEW t \in Tasks, lock(t) \/ lookup_fast(t) \/ d_alloc_fails(t) \/ lookup_slow(t) \/ may_open(t) \/ remount(t)
        PROVE  PastOK'
    BY <1>5, <1>1 DEF lock, lookup_fast, d_alloc_fails, lookup_slow, may_open, remount
  <1>6. ASSUME NEW t \in Tasks, lookup(t) PROVE PastOK'
    <2>1. aliased' \in BOOLEAN /\ UNCHANGED <<sure, met, undead>>
      BY <1>6 DEF lookup, PastOK, Hides
    <2> QED BY <2>1 DEF PastOK
  <1>7. ASSUME NEW t \in Tasks, lookup_slow_hidden(t) \/ filename_lookup(t) \/ vfs_ustat(t) PROVE PastOK'
    <2>1. /\ \/ met' = met \/ met' = [met EXCEPT !.slow = @ + 1] \/ met' = [met EXCEPT !.lookup = @ + 1]
             \/ met' = [met EXCEPT !.ustat = @ + 1]
          /\ UNCHANGED <<sure, aliased, undead>>
      BY <1>7 DEF lookup_slow_hidden, filename_lookup, vfs_ustat
    <2>2. met' \in [slow : Nat, lookup : Nat, ustat : Nat]
      BY <2>1 DEF PastOK
    <2> QED BY <2>1, <2>2 DEF PastOK
  <1>8. ASSUME NEW t \in Tasks, lookup_open(t) \/ may_create(t) PROVE PastOK'
    <2>1. UNCHANGED <<met, aliased, undead>> /\ (sure' = sure \/ Create(t))
      BY <1>8 DEF lookup_open, may_create
    <2>2. sure' \in [Apps -> BOOLEAN]
      BY <2>1, <1>3 DEF PastOK
    <2> QED BY <2>1, <2>2 DEF PastOK
  <1>9. ASSUME NEW t \in Tasks, may_delete(t) PROVE PastOK'
    <2>1. UNCHANGED <<met, aliased>> /\ (UNCHANGED <<sure, undead>> \/ Unlink(t))
      BY <1>9 DEF may_delete
    <2>2. sure' \in [Apps -> BOOLEAN] /\ undead' \in BOOLEAN
      BY <2>1 DEF Unlink, PastOK
    <2> QED BY <2>1, <2>2 DEF PastOK
  <1> QED BY <1>1, <1>4, <1>5, <1>6, <1>7, <1>8, <1>9 DEF Next, Step, hide, shrink_dcache, vars

\* How the dcache changes.
NewDentry(t) ==
  /\ pc[t] = "lookup" /\ d_lookup(t) = None /\ UNCHANGED <<leaked, file>>
  /\ \E d \in Unused :
       /\ cached' = <<d>> \o cached /\ d_inode' = [d_inode EXCEPT ![d] = file]
       /\ held' = [held EXCEPT ![t] = d] /\ fresh' = [fresh EXCEPT ![t] = TRUE]
  /\ aliased' = (aliased \/ Hides(t, file)) /\ undead' = undead
Reclaim ==
  /\ \E d \in ToSet(cached) :
       /\ \A t \in Tasks : held[t] # d
       /\ d_drop(d) /\ d_inode' = [d_inode EXCEPT ![d] = None]
  /\ UNCHANGED <<leaked, disk, locks, task, past>>
Leak(t) ==
  /\ pc[t] = "complete" /\ leaked' = Append(leaked, held[t]) /\ met' = [met EXCEPT !.lookup = @ + 1]
  /\ UNCHANGED <<cached, d_inode>>

\* What changes the dcache: reclaim, a lookup, a creation, an unlink or a leak.
LEMMA DcacheKinds ==
  ASSUME [Next]_vars
  PROVE  \/ UNCHANGED dcache
         \/ Reclaim
         \/ \E t \in Tasks : \/ NewDentry(t) /\ lookup(t)
                             \/ Create(t) /\ (lookup_open(t) \/ may_create(t))
                             \/ Unlink(t) /\ may_delete(t)
                             \/ Leak(t) /\ filename_lookup(t)
  <1>1. CASE hide \/ UNCHANGED vars
    BY <1>1 DEF hide, vars
  <1>2. CASE shrink_dcache
    BY <1>2 DEF shrink_dcache, Reclaim
  <1>3. ASSUME NEW t \in Tasks, Start(t) \/ lock(t) PROVE UNCHANGED dcache
    BY <1>3 DEF Start, lock
  <1>4. ASSUME NEW t \in Tasks, Step(t)
        PROVE  \/ UNCHANGED dcache
               \/ NewDentry(t) /\ lookup(t)
               \/ Create(t) /\ (lookup_open(t) \/ may_create(t))
               \/ Unlink(t) /\ may_delete(t)
               \/ Leak(t) /\ filename_lookup(t)
    <2>1. CASE \/ lookup_fast(t) \/ d_alloc_fails(t) \/ lookup_slow_hidden(t) \/ lookup_slow(t)
               \/ may_open(t) \/ vfs_ustat(t) \/ remount(t)
      BY <2>1 DEF lookup_fast, d_alloc_fails, lookup_slow_hidden, lookup_slow, may_open, vfs_ustat, remount
    <2>2. CASE lookup_open(t) \/ may_create(t) \/ may_delete(t)
      BY <2>2 DEF lookup_open, may_create, may_delete
    <2>3. CASE filename_lookup(t)
      BY <2>3 DEF filename_lookup, dcache, Leak
    <2>4. CASE lookup(t)
      <3>1. CASE UNCHANGED dcache
        BY <3>1
      <3>2. CASE ~UNCHANGED dcache
        <4>1. PICK d : d = CHOOSE e \in Unused : TRUE
          OBVIOUS
        <4>2. /\ pc[t] = "lookup" /\ d_lookup(t) = None /\ Unused # {}
              /\ cached' = <<d>> \o cached /\ d_inode' = [d_inode EXCEPT ![d] = file]
              /\ held' = [held EXCEPT ![t] = d] /\ fresh' = [fresh EXCEPT ![t] = TRUE]
              /\ aliased' = (aliased \/ Hides(t, file)) /\ undead' = undead /\ leaked' = leaked /\ file' = file
          BY <2>4, <3>2, <4>1 DEF lookup, disk
        <4>3. d \in Unused
          BY <4>1, <4>2
        <4> QED BY <2>4, <4>2, <4>3 DEF NewDentry
      <3> QED BY <3>1, <3>2
    <2> QED BY <1>4, <2>1, <2>2, <2>3, <2>4 DEF Step
  <1> QED BY <1>1, <1>2, <1>3, <1>4 DEF Next

\* An unused dentry is not in the chain, and nobody has it.
LEMMA UnusedIsNew ==
  ASSUME DcacheOK, NEW d \in Unused
  PROVE  d \in Dentries /\ d \notin ToSet(cached) /\ \A u \in Tasks : held[u] # d
  <1>1. d \in Dentries /\ d \notin ToSet(leaked \o cached) /\ \A u \in Tasks : held[u] # d
    BY DEF Unused
  <1>2. ASSUME d \in ToSet(cached) PROVE FALSE
    <2>1. PICK k \in DOMAIN cached : cached[k] = d
      BY <1>2 DEF ToSet
    <2>2. /\ Len(leaked) + k \in DOMAIN (leaked \o cached)
          /\ (leaked \o cached)[Len(leaked) + k] = cached[k]
      BY DEF DcacheOK
    <2> QED BY <2>1, <2>2, <1>1 DEF ToSet
  <1> QED BY <1>1, <1>2

\* The chain holds a dentry at most once.
LEMMA NextDcache ==
  ASSUME DcacheOK, TasksOK, DiskOK, [Next]_vars
  PROVE  DcacheOK'
  <1>0. /\ cached \in Seq(Dentries) /\ Once(cached)
        /\ d_inode \in [Dentries -> Inodes \cup {None}] /\ leaked \in Seq(Dentries)
        /\ file \in Inodes \cup {None} /\ created \subseteq Inodes
    BY DEF DcacheOK, DiskOK
  <1>1. CASE UNCHANGED dcache
    BY <1>1 DEF dcache, DcacheOK
  <1>2. CASE Reclaim
    <2>1. PICK d \in ToSet(cached) : d_drop(d) /\ d_inode' = [d_inode EXCEPT ![d] = None]
      BY <1>2 DEF Reclaim
    <2>2. cached' \in Seq(Dentries) /\ Once(cached)'
      BY <2>1, <1>0, Dropped
    <2>3. d_inode' \in [Dentries -> Inodes \cup {None}]
      BY <2>1, <1>0
    <2> QED BY <2>2, <2>3, <1>0, <1>2 DEF DcacheOK, Reclaim
  <1>3. ASSUME NEW t \in Tasks, NewDentry(t) PROVE DcacheOK'
    <2>1. PICK d \in Unused : cached' = <<d>> \o cached /\ d_inode' = [d_inode EXCEPT ![d] = file]
      BY <1>3 DEF NewDentry
    <2>2. d \in Dentries /\ d \notin ToSet(cached)
      BY UnusedIsNew
    <2>3. <<d>> \o cached \in Seq(Dentries) /\ Once(<<d>> \o cached)
      BY <2>2, <1>0, Prepended
    <2>4. d_inode' \in [Dentries -> Inodes \cup {None}]
      BY <2>1, <2>2, <1>0
    <2>5. leaked' = leaked
      BY <1>3 DEF NewDentry
    <2> QED BY <2>1, <2>3, <2>4, <2>5, <1>0 DEF DcacheOK
  <1>4. ASSUME NEW t \in Tasks, Create(t) PROVE DcacheOK'
    <2>1. CASE UNCHANGED dcache
      BY <2>1, <1>1
    <2>2. CASE /\ created # Inodes
               /\ d_inode' = [d_inode EXCEPT ![held[t]] = CHOOSE j \in Inodes \ created : TRUE]
               /\ UNCHANGED <<cached, leaked>>
      <3>1. PICK i : i = CHOOSE j \in Inodes \ created : TRUE
        OBVIOUS
      <3>2. i \in Inodes
        BY <3>1, <2>2, <1>0
      <3>3. d_inode' \in [Dentries -> Inodes \cup {None}]
        BY <3>1, <3>2, <2>2, <1>0
      <3> QED BY <3>3, <2>2, <1>0 DEF DcacheOK
    <2> QED BY <1>4, <2>1, <2>2 DEF Create
  <1>5. ASSUME NEW t \in Tasks, Unlink(t) PROVE DcacheOK'
    <2>1. /\ leaked' = leaked
          /\ \/ d_drop(held[t]) /\ d_inode' = d_inode
             \/ d_inode' = [d_inode EXCEPT ![held[t]] = None] /\ cached' = cached
      BY <1>5 DEF Unlink
    <2>2. CASE d_drop(held[t]) /\ d_inode' = d_inode
      BY <2>1, <2>2, <1>0, Dropped DEF DcacheOK
    <2>3. CASE d_inode' = [d_inode EXCEPT ![held[t]] = None] /\ cached' = cached
      BY <2>1, <2>3, <1>0 DEF DcacheOK
    <2> QED BY <2>1, <2>2, <2>3
  <1>6. ASSUME NEW t \in Tasks, Leak(t) PROVE DcacheOK'
    <2>1. held[t] \in Dentries
      BY <1>6 DEF Leak, TasksOK
    <2>2. leaked' = Append(leaked, held[t]) /\ UNCHANGED <<cached, d_inode>>
      BY <1>6 DEF Leak
    <2> QED BY <2>1, <2>2, <1>0 DEF DcacheOK
  <1> QED BY <1>1, <1>2, <1>3, <1>4, <1>5, <1>6, DcacheKinds

\* The references: one for each filename_lookup that met something hidden.
LEMMA NextRefs ==
  ASSUME DcacheOK, TasksOK, PastOK, Len(leaked) = met.lookup, [Next]_vars
  PROVE  Len(leaked') = met'.lookup
  <1>1. ASSUME NEW t \in Tasks, Leak(t) PROVE Len(leaked') = met'.lookup
    <2>1. held[t] \in Dentries
      BY <1>1 DEF Leak, TasksOK
    <2>2. leaked' = Append(leaked, held[t]) /\ leaked \in Seq(Dentries)
      BY <1>1 DEF Leak, DcacheOK
    <2>3. Len(leaked') = Len(leaked) + 1
      BY <2>1, <2>2
    <2>4. met'.lookup = met.lookup + 1
      BY <1>1 DEF Leak, PastOK
    <2> QED BY <2>3, <2>4
  <1>2. ASSUME leaked' = leaked, met'.lookup = met.lookup PROVE Len(leaked') = met'.lookup
    BY <1>2
  <1>3. ASSUME NEW t \in Tasks, Start(t) \/ lock(t) PROVE leaked' = leaked /\ met' = met
    BY <1>3 DEF Start, lock, dcache, past
  <1>4. ASSUME NEW t \in Tasks, Step(t) PROVE Leak(t) \/ (leaked' = leaked /\ met'.lookup = met.lookup)
    <2>1. CASE lookup_fast(t) \/ lookup(t) \/ d_alloc_fails(t) \/ lookup_slow(t) \/ may_open(t) \/ remount(t)
      BY <2>1 DEF lookup_fast, lookup, d_alloc_fails, lookup_slow, may_open, remount, dcache, past
    <2>2. CASE lookup_slow_hidden(t) \/ vfs_ustat(t)
      BY <2>2 DEF lookup_slow_hidden, vfs_ustat, dcache, PastOK
    <2>3. CASE filename_lookup(t)
      BY <2>3 DEF filename_lookup, Leak
    <2>4. CASE lookup_open(t) \/ may_create(t) \/ may_delete(t)
      BY <2>4 DEF lookup_open, may_create, may_delete, Create, Unlink, dcache
    <2> QED BY <1>4, <2>1, <2>2, <2>3, <2>4 DEF Step
  <1>5. ASSUME hide \/ shrink_dcache \/ UNCHANGED vars PROVE leaked' = leaked /\ met' = met
    BY <1>5 DEF hide, shrink_dcache, vars, dcache, past
  <1> QED BY <1>1, <1>2, <1>3, <1>4, <1>5 DEF Next

-----------------------------------------------------------------------------
(* The locks.                                                                *)

\* The steps under a lock; who shares a lock there and who has it alone; and the
\* early returns that have left it.
UnderLock == {"lookup", "looked", "ustat", "remount"}
Sharers(l) == {t \in Tasks : pc[t] \in UnderLock /\ op[t] \in Sharing /\ LockOf(op[t]) = l}
Alone(t, l) == pc[t] \in UnderLock /\ op[t] \notin Sharing /\ LockOf(op[t]) = l
Left(l) == IF l = "i_rwsem" THEN met.slow ELSE met.ustat

LocksOK ==
  /\ shared \in [Locks -> Nat] /\ owner \in [Locks -> Tasks \cup {None}]
  /\ \A l \in Locks : owner[l] # None => shared[l] = 0
\* The lock is held by those who are under it and by the early returns.
Balanced(l) ==
  /\ shared[l] = Left(l) + Cardinality(Sharers(l))
  /\ \A t \in Tasks : owner[l] = t <=> Alone(t, l)
LocksInv == \A l \in Locks : Balanced(l)

\* A step of t leaves the other tasks' steps alone; and the four things it can do
\* about the locks.
Frame(t) == \A u \in Tasks : u # t => pc'[u] = pc[u] /\ op'[u] = op[u]
SameLeft == \A l \in Locks : Left(l)' = Left(l)
Passes(t) ==
  /\ UNCHANGED locks /\ SameLeft /\ (pc'[t] \in UnderLock <=> pc[t] \in UnderLock)
  /\ (pc[t] \in UnderLock => op'[t] = op[t])
Acquires(t) ==
  /\ pc[t] \notin UnderLock /\ pc'[t] \in UnderLock /\ op'[t] = op[t] /\ SameLeft
  /\ owner[LockOf(op[t])] = None
  /\ \/ op[t] \in Sharing /\ shared' = [shared EXCEPT ![LockOf(op[t])] = @ + 1] /\ owner' = owner
     \/ op[t] \notin Sharing /\ shared[LockOf(op[t])] = 0
        /\ owner' = [owner EXCEPT ![LockOf(op[t])] = t] /\ shared' = shared
Releases(t) == pc[t] \in UnderLock /\ pc'[t] \notin UnderLock /\ Unlock(t) /\ SameLeft
Abandons(t) ==
  /\ pc[t] \in UnderLock /\ op[t] \in Sharing /\ pc'[t] \notin UnderLock /\ UNCHANGED locks
  /\ \A l \in Locks : Left(l)' = IF l = LockOf(op[t]) THEN Left(l) + 1 ELSE Left(l)

\* None is no task.
LEMMA NoTask == None \notin Tasks
  BY PathHideAssumption DEF Tasks

\* At first no lock is held.
LEMMA InitLocks == Init => LocksOK /\ LocksInv
  <1> SUFFICES ASSUME Init PROVE LocksOK /\ LocksInv
    OBVIOUS
  <1>1. LocksOK
    BY DEF Init, LocksOK
  <1>2. ASSUME NEW t \in Tasks PROVE pc[t] \notin UnderLock
    BY DEF Init, UnderLock
  <1>3. ASSUME NEW l \in Locks PROVE Balanced(l)
    <2>1. Sharers(l) = {}
      BY <1>2 DEF Sharers
    <2>2. Cardinality(Sharers(l)) = 0
      BY <2>1, FS_EmptySet
    <2>3. shared[l] = 0 /\ Left(l) = 0 /\ owner[l] = None
      BY DEF Init, Left
    <2> QED BY <2>2, <2>3, <1>2, NoTask DEF Balanced, Alone
  <1> QED BY <1>1, <1>3 DEF LocksInv

\* Returning moves nobody else, and the task is at no step under a lock.
LEMMA ReturnFrame ==
  ASSUME TasksOK, NEW t \in Tasks, NEW r, Return(t, r)
  PROVE  Frame(t) /\ pc'[t] \notin UnderLock
  BY DEF Return, Frame, TasksOK, UnderLock

\* Going to another step moves nobody else.
LEMMA GotoFrame ==
  ASSUME TasksOK, NEW t \in Tasks, NEW step, Goto(t, step)
  PROVE  Frame(t) /\ pc'[t] = step /\ op'[t] = op[t]
  BY DEF Goto, Frame, TasksOK

\* Each step of t acquires a lock, releases it, abandons it, or leaves the locks alone.
LEMMA LockKinds ==
  ASSUME TasksOK, StepsOK, PastOK, NEW t \in Tasks, Start(t) \/ lock(t) \/ Step(t)
  PROVE  Frame(t) /\ (Passes(t) \/ Acquires(t) \/ Releases(t) \/ Abandons(t))
  <1>0. ASSUME met' = met PROVE SameLeft
    BY <1>0 DEF SameLeft, Left
  <1>1. CASE Start(t)
    <2>1. PICK o \in Ops :
            /\ op' = [op EXCEPT ![t] = o]
            /\ pc' = [pc EXCEPT ![t] = IF o \in Lookups THEN "fast" ELSE "want"]
      BY <1>1 DEF Start
    <2>2. pc[t] = "idle" /\ UNCHANGED <<locks, met>>
      BY <1>1 DEF Start
    <2>3. Frame(t) /\ pc'[t] \in {"fast", "want"}
      BY <2>1 DEF TasksOK, Frame
    <2>4. Passes(t)
      BY <2>2, <2>3, <1>0 DEF Passes, UnderLock
    <2> QED BY <2>3, <2>4
  <1>2. CASE lock(t)
    <2>1. PICK step : step = IF LockOf(op[t]) = "i_rwsem" THEN "lookup" ELSE op[t]
      OBVIOUS
    <2>2. Goto(t, step) /\ pc[t] = "want" /\ UNCHANGED past /\ owner[LockOf(op[t])] = None
      BY <1>2, <2>1 DEF lock
    <2>3. step \in UnderLock
      BY <2>1 DEF UnderLock, LockOf
    <2>4. Frame(t) /\ pc'[t] = step /\ op'[t] = op[t]
      BY <2>2, GotoFrame
    <2>5. pc[t] \notin UnderLock /\ SameLeft
      BY <2>2, <1>0 DEF UnderLock, past
    <2>6. Acquires(t)
      BY <1>2, <2>2, <2>3, <2>4, <2>5 DEF lock, Acquires
    <2> QED BY <2>4, <2>6
  <1>3. CASE lookup(t)
    <2>1. Goto(t, "looked") /\ pc[t] = "lookup" /\ UNCHANGED <<locks, met>>
      BY <1>3 DEF lookup
    <2>2. Frame(t) /\ pc'[t] = "looked" /\ op'[t] = op[t]
      BY <2>1, GotoFrame
    <2>3. Passes(t)
      BY <2>1, <2>2, <1>0 DEF Passes, UnderLock
    <2> QED BY <2>2, <2>3
  <1>4. CASE lookup_fast(t)
    <2>1. /\ pc[t] = "fast" /\ UNCHANGED <<locks, past>>
          /\ Goto(t, "want") \/ Goto(t, "complete") \/ Return(t, "ENOENT")
      BY <1>4 DEF lookup_fast
    <2>2. Frame(t) /\ pc'[t] \notin UnderLock
      BY <2>1, GotoFrame, ReturnFrame DEF UnderLock
    <2>3. Passes(t)
      BY <2>1, <2>2, <1>0 DEF Passes, UnderLock, past
    <2> QED BY <2>2, <2>3
  <1>5. CASE filename_lookup(t) \/ may_open(t)
    <2>1. pc[t] = "complete" /\ UNCHANGED locks /\ \E r : Return(t, r)
      BY <1>5 DEF filename_lookup, may_open
    <2>2. met'.slow = met.slow /\ met'.ustat = met.ustat
      BY <1>5 DEF filename_lookup, may_open, past, PastOK
    <2>3. Frame(t) /\ pc'[t] \notin UnderLock
      BY <2>1, ReturnFrame
    <2>4. Passes(t)
      BY <2>1, <2>2, <2>3 DEF Passes, UnderLock, SameLeft, Left
    <2> QED BY <2>3, <2>4
  <1>6. CASE d_alloc_fails(t) \/ lookup_slow(t) \/ lookup_open(t) \/ may_create(t) \/ may_delete(t) \/ remount(t)
    <2>1. /\ Unlock(t) /\ pc[t] \in UnderLock
          /\ Goto(t, "complete") \/ \E r : Return(t, r)
      <3>1. CASE d_alloc_fails(t) \/ remount(t)
        BY <3>1 DEF d_alloc_fails, remount, UnderLock
      <3>2. CASE lookup_slow(t)
        BY <3>2 DEF lookup_slow, UnderLock
      <3>3. CASE lookup_open(t) \/ may_create(t)
        BY <3>3 DEF lookup_open, may_create, Create, UnderLock
      <3>4. CASE may_delete(t)
        BY <3>4 DEF may_delete, UnderLock
      <3> QED BY <1>6, <3>1, <3>2, <3>3, <3>4
    <2>2. met' = met
      BY <1>6 DEF d_alloc_fails, lookup_slow, lookup_open, may_create, may_delete, remount, past
    <2>3. Frame(t) /\ pc'[t] \notin UnderLock
      BY <2>1, GotoFrame, ReturnFrame DEF UnderLock
    <2>4. Releases(t)
      BY <2>1, <2>2, <2>3, <1>0 DEF Releases
    <2> QED BY <2>3, <2>4
  <1>7. CASE lookup_slow_hidden(t)
    <2>1. /\ pc[t] \in UnderLock /\ op[t] \in Sharing /\ LockOf(op[t]) = "i_rwsem"
          /\ Return(t, "ENOENT") /\ UNCHANGED locks
      BY <1>7 DEF lookup_slow_hidden, UnderLock, Sharing, Lookups, LockOf
    <2>2. met'.slow = met.slow + 1 /\ met'.ustat = met.ustat
      BY <1>7 DEF lookup_slow_hidden, PastOK
    <2>3. Frame(t) /\ pc'[t] \notin UnderLock
      BY <2>1, ReturnFrame
    <2>4. Abandons(t)
      BY <2>1, <2>2, <2>3 DEF Abandons, Left
    <2> QED BY <2>3, <2>4
  <1>8. CASE vfs_ustat(t)
    <2>1. pc[t] = "ustat" /\ op[t] = "ustat" /\ \E r : Return(t, r)
      BY <1>8 DEF vfs_ustat, StepsOK
    <2>2. op[t] \in Sharing /\ LockOf(op[t]) = "s_umount" /\ pc[t] \in UnderLock
      BY <2>1 DEF Sharing, LockOf, UnderLock
    <2>3. Frame(t) /\ pc'[t] \notin UnderLock
      BY <2>1, ReturnFrame
    <2>4. CASE met' = [met EXCEPT !.ustat = @ + 1] /\ UNCHANGED locks
      <3>1. met'.slow = met.slow /\ met'.ustat = met.ustat + 1
        BY <2>4 DEF PastOK
      <3>2. \A l \in Locks : l # "i_rwsem" => l = "s_umount"
        BY DEF Locks
      <3> QED BY <2>2, <2>3, <2>4, <3>1, <3>2 DEF Abandons, Left
    <2>5. CASE Unlock(t) /\ met' = met
      BY <2>2, <2>3, <2>5, <1>0 DEF Releases
    <2> QED BY <1>8, <2>3, <2>4, <2>5 DEF vfs_ustat
  <1> QED BY <1>1, <1>2, <1>3, <1>4, <1>5, <1>6, <1>7, <1>8 DEF Step

\* Only finitely many tasks share a lock.
LEMMA FiniteTasks == \A l \in Locks : IsFiniteSet(Sharers(l)) /\ Cardinality(Sharers(l)) \in Nat
  <1> TAKE l \in Locks
  <1>1. IsFiniteSet(Tasks)
    BY PathHideAssumption, FS_Union DEF Tasks
  <1>2. Sharers(l) \subseteq Tasks
    BY DEF Sharers
  <1> QED BY <1>1, <1>2, FS_Subset, FS_CardinalityType

\* What a step of t does to the sets of those who share a lock and of those who
\* hold it alone.
LEMMA AloneFrame ==
  ASSUME NEW t \in Tasks, Frame(t), NEW u \in Tasks, u # t, NEW l \in Locks
  PROVE  Alone(u, l)' <=> Alone(u, l)
  BY DEF Frame, Alone

\* One more task shares a lock.
LEMMA SharersGain ==
  ASSUME NEW t \in Tasks, Frame(t), NEW l \in Locks, t \in Sharers(l)', t \notin Sharers(l)
  PROVE  Cardinality(Sharers(l)') = Cardinality(Sharers(l)) + 1
  <1>1. Sharers(l)' = Sharers(l) \cup {t}
    BY DEF Sharers, Frame
  <1>2. IsFiniteSet(Sharers(l))
    BY FiniteTasks
  <1> QED BY <1>1, <1>2, FS_AddElement

\* One task fewer shares a lock.
LEMMA SharersLose ==
  ASSUME NEW t \in Tasks, Frame(t), NEW l \in Locks, t \notin Sharers(l)', t \in Sharers(l)
  PROVE  Cardinality(Sharers(l)') = Cardinality(Sharers(l)) - 1 /\ Cardinality(Sharers(l)) > 0
  <1>1. Sharers(l)' = Sharers(l) \ {t}
    BY DEF Sharers, Frame
  <1>2. IsFiniteSet(Sharers(l)) /\ Cardinality(Sharers(l)) \in Nat
    BY FiniteTasks
  <1>3. Cardinality(Sharers(l)) # 0
    BY <1>2, FS_EmptySet
  <1>4. Cardinality(Sharers(l)') = Cardinality(Sharers(l)) - 1
    BY <1>1, <1>2, FS_RemoveElement
  <1> QED BY <1>2, <1>3, <1>4

\* The same tasks share a lock.
LEMMA SharersSame ==
  ASSUME NEW t \in Tasks, Frame(t), NEW l \in Locks, t \in Sharers(l)' <=> t \in Sharers(l)
  PROVE  Sharers(l)' = Sharers(l)
  BY DEF Sharers, Frame

\* Every operation has a lock.
LEMMA LockType == \A o : LockOf(o) \in Locks
  BY DEF LockOf, Locks

\* The count of a lock is that of those who are under it and of the early returns
\* that left it.
LEMMA NextLocks ==
  ASSUME TasksOK, StepsOK, PastOK, LocksOK, LocksInv, [Next]_vars
  PROVE  LocksOK' /\ LocksInv'
  <1>0. /\ shared \in [Locks -> Nat] /\ owner \in [Locks -> Tasks \cup {None}]
        /\ \A l \in Locks : /\ Left(l) \in Nat /\ Cardinality(Sharers(l)) \in Nat
                            /\ shared[l] = Left(l) + Cardinality(Sharers(l))
                            /\ \A t \in Tasks : owner[l] = t <=> Alone(t, l)
                            /\ owner[l] # None => shared[l] = 0
    BY FiniteTasks DEF LocksOK, LocksInv, Balanced, Left, PastOK
  <1>1. ASSUME NEW t \in Tasks, Frame(t), Passes(t) PROVE LocksOK' /\ LocksInv'
    <2>1. LocksOK'
      BY <1>1 DEF Passes, locks, LocksOK
    <2>2. ASSUME NEW l \in Locks
          PROVE  Balanced(l)'
      <3>1. (t \in Sharers(l)' <=> t \in Sharers(l)) /\ (Alone(t, l)' <=> Alone(t, l))
        BY <1>1 DEF Passes, Sharers, Alone
      <3>2. Sharers(l)' = Sharers(l)
        BY <3>1, <1>1, SharersSame
      <3>3. \A u \in Tasks : Alone(u, l)' <=> Alone(u, l)
        BY <3>1, <1>1, AloneFrame
      <3>4. shared'[l] = shared[l] /\ owner'[l] = owner[l] /\ Left(l)' = Left(l)
        BY <1>1 DEF Passes, locks, SameLeft
      <3> QED BY <3>2, <3>3, <3>4, <1>0 DEF Balanced
    <2> QED BY <2>1, <2>2 DEF LocksInv
  <1>2. ASSUME NEW t \in Tasks, Frame(t), Acquires(t), op[t] \in Sharing PROVE LocksOK' /\ LocksInv'
    <2>1. PICK l \in Locks : l = LockOf(op[t])
      BY LockType
    <2>2. /\ shared' = [shared EXCEPT ![l] = @ + 1] /\ owner' = owner /\ owner[l] = None /\ SameLeft
          /\ pc[t] \notin UnderLock /\ pc'[t] \in UnderLock /\ op'[t] = op[t]
      BY <1>2, <2>1 DEF Acquires
    <2>3. LocksOK'
      <3>1. shared' \in [Locks -> Nat] /\ owner' \in [Locks -> Tasks \cup {None}]
        BY <2>2, <1>0
      <3>2. \A k \in Locks : owner'[k] # None => shared'[k] = 0
        BY <2>2, <1>0
      <3> QED BY <3>1, <3>2 DEF LocksOK
    <2>4. ASSUME NEW k \in Locks
          PROVE  Balanced(k)'
      <3>1. ~Alone(t, k)' /\ ~Alone(t, k)
        BY <1>2, <2>2 DEF Alone
      <3>2. \A u \in Tasks : Alone(u, k)' <=> Alone(u, k)
        BY <3>1, <1>2, AloneFrame
      <3>3. Left(k)' = Left(k)
        BY <2>2 DEF SameLeft
      <3>4. CASE k = l
        <4>1. t \in Sharers(l)' /\ t \notin Sharers(l)
          BY <1>2, <2>1, <2>2 DEF Sharers
        <4>2. Cardinality(Sharers(l)') = Cardinality(Sharers(l)) + 1
          BY <4>1, <1>2, SharersGain
        <4>3. shared'[l] = shared[l] + 1
          BY <2>2, <1>0
        <4>4. shared'[k] = Left(k)' + Cardinality(Sharers(k)')
          BY <4>2, <4>3, <3>3, <3>4, <1>0
        <4> QED BY <4>4, <3>2, <2>2, <1>0 DEF Balanced
      <3>5. CASE k # l
        <4>1. t \notin Sharers(k)' /\ t \notin Sharers(k)
          BY <2>1, <2>2, <3>5 DEF Sharers
        <4>2. Sharers(k)' = Sharers(k)
          BY <4>1, <1>2, SharersSame
        <4>3. shared'[k] = shared[k]
          BY <2>2, <3>5, <1>0
        <4> QED BY <4>2, <4>3, <3>2, <3>3, <2>2, <1>0 DEF Balanced
      <3> QED BY <3>4, <3>5
    <2> QED BY <2>3, <2>4 DEF LocksInv
  <1>3. ASSUME NEW t \in Tasks, Frame(t), Acquires(t), op[t] \notin Sharing PROVE LocksOK' /\ LocksInv'
    <2>1. PICK l \in Locks : l = LockOf(op[t])
      BY LockType
    <2>2. /\ owner' = [owner EXCEPT ![l] = t] /\ shared' = shared /\ owner[l] = None /\ shared[l] = 0 /\ SameLeft
          /\ pc[t] \notin UnderLock /\ pc'[t] \in UnderLock /\ op'[t] = op[t]
      BY <1>3, <2>1 DEF Acquires
    <2>3. LocksOK'
      <3>1. shared' \in [Locks -> Nat] /\ owner' \in [Locks -> Tasks \cup {None}]
        BY <2>2, <1>0
      <3>2. \A k \in Locks : owner'[k] # None => shared'[k] = 0
        BY <2>2, <1>0
      <3> QED BY <3>1, <3>2 DEF LocksOK
    <2>4. ASSUME NEW k \in Locks
          PROVE  Balanced(k)'
      <3>1. t \notin Sharers(k)' /\ t \notin Sharers(k)
        BY <1>3, <2>2 DEF Sharers
      <3>2. Sharers(k)' = Sharers(k)
        BY <3>1, <1>3, SharersSame
      <3>3. Left(k)' = Left(k)
        BY <2>2 DEF SameLeft
      <3>4. ASSUME NEW u \in Tasks PROVE owner'[k] = u <=> Alone(u, k)'
        <4>1. CASE u # t
          <5>1. Alone(u, k)' <=> Alone(u, k)
            BY <4>1, <1>3, AloneFrame
          <5>2. owner'[k] = u <=> owner[k] = u
            BY <4>1, <2>2, <1>0, NoTask
          <5> QED BY <5>1, <5>2, <1>0
        <4>2. CASE u = t
          <5>1. Alone(t, k)' <=> k = l
            BY <1>3, <2>1, <2>2 DEF Alone
          <5>2. ~Alone(t, k)
            BY <2>2 DEF Alone
          <5>3. owner[k] # t
            BY <5>2, <1>0
          <5> QED BY <5>1, <5>3, <4>2, <2>2, <1>0
        <4> QED BY <4>1, <4>2
      <3> QED BY <3>2, <3>3, <3>4, <2>2, <1>0 DEF Balanced
    <2> QED BY <2>3, <2>4 DEF LocksInv
  <1>4. ASSUME NEW t \in Tasks, Frame(t), Releases(t), op[t] \in Sharing PROVE LocksOK' /\ LocksInv'
    <2>1. PICK l \in Locks : l = LockOf(op[t])
      BY LockType
    <2>2. /\ shared' = [shared EXCEPT ![l] = @ - 1] /\ owner' = owner /\ SameLeft
          /\ pc[t] \in UnderLock /\ pc'[t] \notin UnderLock
      BY <1>4, <2>1 DEF Releases, Unlock
    <2>3. t \notin Sharers(l)' /\ t \in Sharers(l)
      BY <1>4, <2>1, <2>2 DEF Sharers
    <2>4. Cardinality(Sharers(l)') = Cardinality(Sharers(l)) - 1 /\ Cardinality(Sharers(l)) > 0
      BY <2>3, <1>4, SharersLose
    <2>5. shared[l] > 0 /\ shared[l] \in Nat /\ owner[l] = None
      BY <2>4, <1>0
    <2>6. LocksOK'
      <3>1. shared[l] - 1 \in Nat
        BY <2>5
      <3>2. shared' \in [Locks -> Nat] /\ owner' \in [Locks -> Tasks \cup {None}]
        BY <3>1, <2>2, <1>0
      <3>3. \A k \in Locks : owner'[k] # None => shared'[k] = 0
        BY <2>2, <2>5, <1>0
      <3> QED BY <3>2, <3>3 DEF LocksOK
    <2>7. ASSUME NEW k \in Locks
          PROVE  Balanced(k)'
      <3>1. ~Alone(t, k)' /\ ~Alone(t, k)
        BY <1>4, <2>2 DEF Alone
      <3>2. \A u \in Tasks : Alone(u, k)' <=> Alone(u, k)
        BY <3>1, <1>4, AloneFrame
      <3>3. Left(k)' = Left(k)
        BY <2>2 DEF SameLeft
      <3>4. CASE k = l
        <4>1. shared'[l] = shared[l] - 1
          BY <2>2, <1>0
        <4>2. shared'[k] = Left(k)' + Cardinality(Sharers(k)')
          BY <4>1, <2>4, <3>3, <3>4, <1>0
        <4> QED BY <4>2, <3>2, <2>2, <1>0 DEF Balanced
      <3>5. CASE k # l
        <4>1. t \notin Sharers(k)' /\ t \notin Sharers(k)
          BY <2>1, <2>2, <3>5 DEF Sharers
        <4>2. Sharers(k)' = Sharers(k)
          BY <4>1, <1>4, SharersSame
        <4>3. shared'[k] = shared[k]
          BY <2>2, <3>5, <1>0
        <4> QED BY <4>2, <4>3, <3>2, <3>3, <2>2, <1>0 DEF Balanced
      <3> QED BY <3>4, <3>5
    <2> QED BY <2>6, <2>7 DEF LocksInv
  <1>5. ASSUME NEW t \in Tasks, Frame(t), Releases(t), op[t] \notin Sharing PROVE LocksOK' /\ LocksInv'
    <2>1. PICK l \in Locks : l = LockOf(op[t])
      BY LockType
    <2>2. /\ owner' = [owner EXCEPT ![l] = None] /\ shared' = shared /\ SameLeft
          /\ pc[t] \in UnderLock /\ pc'[t] \notin UnderLock
      BY <1>5, <2>1 DEF Releases, Unlock
    <2>3. LocksOK'
      <3>1. shared' \in [Locks -> Nat] /\ owner' \in [Locks -> Tasks \cup {None}]
        BY <2>2, <1>0
      <3>2. \A k \in Locks : owner'[k] # None => shared'[k] = 0
        BY <2>2, <1>0
      <3> QED BY <3>1, <3>2 DEF LocksOK
    <2>4. Alone(t, l) /\ owner[l] = t
      <3>1. Alone(t, l)
        BY <1>5, <2>1, <2>2 DEF Alone
      <3> QED BY <3>1, <1>0
    <2>5. ASSUME NEW k \in Locks
          PROVE  Balanced(k)'
      <3>1. t \notin Sharers(k)' /\ t \notin Sharers(k)
        BY <1>5, <2>2 DEF Sharers
      <3>2. Sharers(k)' = Sharers(k)
        BY <3>1, <1>5, SharersSame
      <3>3. Left(k)' = Left(k)
        BY <2>2 DEF SameLeft
      <3>4. ASSUME NEW u \in Tasks PROVE owner'[k] = u <=> Alone(u, k)'
        <4>1. CASE u # t
          <5>1. Alone(u, k)' <=> Alone(u, k)
            BY <4>1, <1>5, AloneFrame
          <5>2. owner'[k] = u <=> owner[k] = u
            BY <4>1, <2>2, <2>4, <1>0, NoTask
          <5> QED BY <5>1, <5>2, <1>0
        <4>2. CASE u = t
          <5>1. ~Alone(t, k)'
            BY <2>2 DEF Alone
          <5>2. k # l => ~Alone(t, k)
            BY <2>1 DEF Alone
          <5>3. owner'[k] # t
            BY <5>2, <2>2, <1>0, NoTask
          <5> QED BY <5>1, <5>3, <4>2
        <4> QED BY <4>1, <4>2
      <3> QED BY <3>2, <3>3, <3>4, <2>2, <1>0 DEF Balanced
    <2> QED BY <2>3, <2>5 DEF LocksInv
  <1>6. ASSUME NEW t \in Tasks, Frame(t), Abandons(t) PROVE LocksOK' /\ LocksInv'
    <2>1. PICK l \in Locks : l = LockOf(op[t])
      BY LockType
    <2>2. /\ shared' = shared /\ owner' = owner
          /\ op[t] \in Sharing /\ pc[t] \in UnderLock /\ pc'[t] \notin UnderLock
          /\ \A k \in Locks : Left(k)' = IF k = l THEN Left(k) + 1 ELSE Left(k)
      BY <1>6, <2>1 DEF Abandons, locks
    <2>3. LocksOK'
      BY <2>2 DEF LocksOK
    <2>4. ASSUME NEW k \in Locks
          PROVE  Balanced(k)'
      <3>1. ~Alone(t, k)' /\ ~Alone(t, k)
        BY <2>2 DEF Alone
      <3>2. \A u \in Tasks : Alone(u, k)' <=> Alone(u, k)
        BY <3>1, <1>6, AloneFrame
      <3>3. CASE k = l
        <4>1. t \notin Sharers(l)' /\ t \in Sharers(l)
          BY <2>1, <2>2 DEF Sharers
        <4>2. Cardinality(Sharers(l)') = Cardinality(Sharers(l)) - 1
          BY <4>1, <1>6, SharersLose
        <4>3. shared'[k] = Left(k)' + Cardinality(Sharers(k)')
          BY <4>2, <3>3, <2>2, <1>0
        <4> QED BY <4>3, <3>2, <2>2, <1>0 DEF Balanced
      <3>4. CASE k # l
        <4>1. t \notin Sharers(k)' /\ t \notin Sharers(k)
          BY <2>1, <2>2, <3>4 DEF Sharers
        <4>2. Sharers(k)' = Sharers(k)
          BY <4>1, <1>6, SharersSame
        <4> QED BY <4>2, <3>2, <3>4, <2>2, <1>0 DEF Balanced
      <3> QED BY <3>3, <3>4
    <2> QED BY <2>3, <2>4 DEF LocksInv
  <1>7. CASE UNCHANGED <<locks, task, past>>
    BY <1>7 DEF locks, task, past, LocksOK, LocksInv, Balanced, Left, Sharers, Alone
  <1>8. ASSUME NEW t \in Tasks, Start(t) \/ lock(t) \/ Step(t) PROVE LocksOK' /\ LocksInv'
    <2>1. Frame(t) /\ (Passes(t) \/ Acquires(t) \/ Releases(t) \/ Abandons(t))
      BY <1>8, LockKinds
    <2> QED BY <2>1, <1>1, <1>2, <1>3, <1>4, <1>5, <1>6
  <1> QED BY <1>7, <1>8 DEF Next, hide, shrink_dcache, vars

\* Between operations nothing is left but what the early returns left.
LEMMA LocksLeft ==
  ASSUME TasksOK, StepsOK, LocksOK, LocksInv, PastOK, Len(leaked) = met.lookup
  PROVE  /\ \A l \in Locks : owner[l] # None =>
              shared[l] = 0 /\ LockOf(op[owner[l]]) = l /\ pc[owner[l]] \in {"lookup", "looked", "remount"}
         /\ LeftBehind
  <1>1. ASSUME NEW l \in Locks, owner[l] # None
        PROVE  shared[l] = 0 /\ LockOf(op[owner[l]]) = l /\ pc[owner[l]] \in {"lookup", "looked", "remount"}
    <2>1. PICK t \in Tasks : owner[l] = t
      BY <1>1 DEF LocksOK
    <2>2. Alone(t, l)
      BY <2>1 DEF LocksInv, Balanced
    <2>3. pc[t] # "ustat"
      BY <2>2 DEF Alone, StepsOK, Sharing
    <2> QED BY <1>1, <2>1, <2>2, <2>3 DEF LocksOK, Alone, UnderLock
  <1>2. ASSUME \A t \in Tasks : pc[t] = "idle"
        PROVE  /\ owner = [l \in Locks |-> None]
               /\ shared["i_rwsem"] = met.slow /\ shared["s_umount"] = met.ustat
    <2>1. ASSUME NEW l \in Locks PROVE owner[l] = None /\ shared[l] = Left(l)
      <3>1. Sharers(l) = {} /\ \A t \in Tasks : ~Alone(t, l)
        BY <1>2 DEF Sharers, Alone, UnderLock
      <3>2. Cardinality(Sharers(l)) = 0
        BY <3>1, FS_EmptySet
      <3>3. shared[l] = Left(l) + 0 /\ Left(l) \in Nat
        BY <3>2 DEF LocksInv, Balanced, Left, PastOK
      <3>4. owner[l] = None
        BY <3>1 DEF LocksInv, Balanced, LocksOK
      <3> QED BY <3>3, <3>4
    <2>2. owner = [l \in Locks |-> None]
      BY <2>1 DEF LocksOK
    <2>3. "i_rwsem" \in Locks /\ "s_umount" \in Locks
      BY DEF Locks
    <2> QED BY <2>1, <2>2, <2>3 DEF Left
  <1> QED BY <1>1, <1>2 DEF LeftBehind

-----------------------------------------------------------------------------
(* The chain and the inodes.                                                 *)

Chain == ToSet(cached)
\* A dentry that has just been looked up is in the chain; one that was found has
\* an inode.
HeldInv ==
  \A t \in Tasks : /\ pc[t] = "looked" => held[t] \in Chain
                   /\ pc[t] = "complete" => d_inode[held[t]] # None
\* A dentry of the chain agrees with the disk or is of a hidden inode; two of the
\* same inode are of a hidden one; and a negative one means that there is no file.
ChainInv ==
  /\ \A d \in Chain : d_inode[d] \in ({file, None} \cup sus) \cap (created \cup {None})
  /\ \A d, e \in Chain : d # e /\ d_inode[d] = d_inode[e] => d_inode[d] \in sus
  /\ \A d \in Chain : d_inode[d] = None => file = None
\* Until a hidden file that an app has looked up is unlinked, the whole chain agrees
\* with the disk; and until an app does so, the chain has at most one dentry.
AliasInv ==
  /\ undead => aliased
  /\ ~undead => \A d \in Chain : d_inode[d] = file
  /\ ~aliased => \A d, e \in Chain : d = e
  /\ aliased /\ ~undead => file \in sus
\* To an app for which the name is hidden all along, what it has found is hidden,
\* and it had to make the dentry itself.
SureInv ==
  \A t \in Apps : pc[t] # "idle" /\ sure[t] =>
    /\ file \in sus /\ op[t] \notin {"creat_excl", "ustat", "remount"}
    /\ pc[t] = "complete" => d_inode[held[t]] \in sus
    /\ pc[t] = "looked" => fresh[t]

Types == DiskOK /\ DcacheOK /\ TasksOK /\ PastOK /\ StepsOK /\ LocksOK /\ LocksInv

\* What a step does to the chain: nothing, or it creates the file or unlinks it.
Calm == UNCHANGED <<cached, d_inode, file, created, aliased, undead>>
Fills(t) ==
  /\ pc[t] = "looked" /\ d_inode[held[t]] = None /\ UNCHANGED <<cached, sus, aliased, undead>>
  /\ \E i \in Inodes \ created :
       /\ file' = i /\ created' = created \cup {i} /\ d_inode' = [d_inode EXCEPT ![held[t]] = i]
  /\ sure' = [a \in Apps |-> FALSE]
Unlinks(t) ==
  /\ pc[t] = "looked" /\ op[t] = "unlink" /\ d_inode[held[t]] = file /\ file # None
  /\ Unlink(t) /\ aliased' = aliased

\* None is no inode.
LEMMA NoInode == DiskOK => None \notin sus /\ None \notin created
  BY PathHideAssumption DEF DiskOK

\* At first the chain is empty.
LEMMA InitChain == Init => HeldInv /\ ChainInv /\ AliasInv /\ SureInv
  <1> SUFFICES ASSUME Init PROVE HeldInv /\ ChainInv /\ AliasInv /\ SureInv
    OBVIOUS
  <1>1. Chain = {}
    BY DEF Init, Chain, ToSet
  <1>2. \A t \in Tasks : pc[t] = "idle"
    BY DEF Init
  <1>3. ~aliased /\ ~undead
    BY DEF Init
  <1> QED BY <1>1, <1>2, <1>3 DEF HeldInv, ChainInv, AliasInv, SureInv, Tasks

\* What a step of t does to the chain and the inodes.
LEMMA ChainKinds ==
  ASSUME DiskOK, NEW t \in Tasks, Start(t) \/ lock(t) \/ Step(t)
  PROVE  Calm \/ NewDentry(t) \/ Fills(t) \/ Unlinks(t)
  <1>1. CASE Start(t) \/ lock(t)
    BY <1>1 DEF Start, lock, Calm, disk, dcache, past
  <1>2. CASE \/ lookup_fast(t) \/ d_alloc_fails(t) \/ lookup_slow_hidden(t) \/ lookup_slow(t)
             \/ filename_lookup(t) \/ may_open(t) \/ vfs_ustat(t) \/ remount(t)
    BY <1>2 DEF lookup_fast, d_alloc_fails, lookup_slow_hidden, lookup_slow, filename_lookup, may_open,
         vfs_ustat, remount, Calm, disk, dcache, past
  <1>3. CASE lookup(t)
    <2>1. CASE UNCHANGED <<dcache, aliased>>
      BY <1>3, <2>1 DEF lookup, Calm, disk, dcache
    <2>2. CASE ~UNCHANGED <<dcache, aliased>>
      <3>1. PICK d : d = CHOOSE e \in Unused : TRUE
        OBVIOUS
      <3>2. /\ pc[t] = "lookup" /\ d_lookup(t) = None /\ Unused # {}
            /\ cached' = <<d>> \o cached /\ d_inode' = [d_inode EXCEPT ![d] = file]
            /\ held' = [held EXCEPT ![t] = d] /\ fresh' = [fresh EXCEPT ![t] = TRUE]
            /\ aliased' = (aliased \/ Hides(t, file)) /\ undead' = undead /\ leaked' = leaked /\ file' = file
        BY <1>3, <2>2, <3>1 DEF lookup, disk
      <3>3. d \in Unused
        BY <3>1, <3>2
      <3> QED BY <3>2, <3>3 DEF NewDentry
    <2> QED BY <2>1, <2>2
  <1>4. ASSUME pc[t] = "looked", IsNegative(t), Create(t), UNCHANGED <<aliased, undead>> PROVE Calm \/ Fills(t)
    <2>1. CASE UNCHANGED <<disk, dcache>>
      BY <1>4, <2>1 DEF Calm, disk, dcache
    <2>2. CASE ~UNCHANGED <<disk, dcache>>
      <3>1. PICK i : i = CHOOSE j \in Inodes \ created : TRUE
        OBVIOUS
      <3>2. /\ created # Inodes /\ file' = i /\ created' = created \cup {i}
            /\ d_inode' = [d_inode EXCEPT ![held[t]] = i] /\ sure' = [a \in Apps |-> FALSE]
            /\ UNCHANGED <<sus, cached>>
        BY <1>4, <2>2, <3>1 DEF Create
      <3>3. CASE i \in Inodes \ created
        BY <1>4, <3>2, <3>3 DEF Fills, IsNegative
      <3>4. CASE i \notin Inodes \ created
        <4>1. Inodes \ created = {}
          BY <3>1, <3>4
        <4> QED BY <4>1, <3>2 DEF DiskOK
      <3> QED BY <3>3, <3>4
    <2> QED BY <2>1, <2>2
  <1>5. CASE lookup_open(t) \/ may_create(t)
    <2>1. CASE UNCHANGED <<disk, dcache>>
      BY <1>5, <2>1 DEF lookup_open, may_create, Calm, disk, dcache
    <2>2. CASE ~UNCHANGED <<disk, dcache>>
      <3>1. pc[t] = "looked" /\ IsNegative(t) /\ Create(t) /\ UNCHANGED <<aliased, undead>>
        BY <1>5, <2>2 DEF lookup_open, may_create
      <3> QED BY <3>1, <1>4
    <2> QED BY <2>1, <2>2
  <1>6. CASE may_delete(t)
    BY <1>6 DEF may_delete, Calm, disk, dcache, Unlinks, IsNegative
  <1> QED BY <1>1, <1>2, <1>3, <1>5, <1>6 DEF Step

\* Steps of one task leave the others where they are.
Aside(t) ==
  /\ \A u \in Tasks : u # t => pc'[u] = pc[u] /\ op'[u] = op[u] /\ held'[u] = held[u] /\ fresh'[u] = fresh[u]
  /\ \A u \in Apps : u # t => answer'[u] = answer[u]

\* A step of t moves no other task.
LEMMA StepAside ==
  ASSUME DcacheOK, TasksOK, NEW t \in Tasks, Start(t) \/ lock(t) \/ Step(t)
  PROVE  Aside(t)
  <1>0. pc \in [Tasks -> Steps] /\ op \in [Tasks -> Ops] /\ held \in [Tasks -> Dentries \cup {None}]
        /\ fresh \in [Tasks -> BOOLEAN] /\ answer \in [Apps -> Answers]
    BY DEF TasksOK
  <1>1. CASE Starts(t)
    BY <1>0, <1>1 DEF Starts, Aside
  <1>2. CASE Returns(t)
    BY <1>0, <1>2 DEF Returns, Return, Aside
  <1>3. ASSUME NEW step, Moves(t, step) PROVE Aside(t)
    BY <1>0, <1>3 DEF Moves, Aside
  <1> QED BY <1>1, <1>2, <1>3, StepKinds

\* Who holds the directory's lock alone is the only one at a step under it.
LEMMA Excludes ==
  ASSUME Types, NEW t \in Tasks, pc[t] = "looked", op[t] \in Changes, NEW u \in Tasks, u # t
  PROVE  pc[u] # "looked" /\ pc[u] # "lookup"
  <1>1. "i_rwsem" \in Locks /\ LockOf(op[t]) = "i_rwsem" /\ op[t] \notin Sharing
    BY DEF Locks, LockOf, Changes, Sharing, Lookups
  <1>2. Alone(t, "i_rwsem")
    BY <1>1 DEF Alone, UnderLock
  <1>3. owner["i_rwsem"] = t
    BY <1>1, <1>2 DEF LocksInv, Balanced, Types
  <1>4. shared["i_rwsem"] = 0
    BY <1>1, <1>3, NoTask DEF LocksOK, Types
  <1>5. Cardinality(Sharers("i_rwsem")) = 0 
    <2>1. Left("i_rwsem") \in Nat /\ Cardinality(Sharers("i_rwsem")) \in Nat
      BY <1>1, FiniteTasks DEF Left, Types, PastOK
    <2>2. 0 = Left("i_rwsem") + Cardinality(Sharers("i_rwsem"))
      BY <1>1, <1>4 DEF LocksInv, Balanced, Types
    <2> QED BY <2>1, <2>2
  <1>6. u \notin Sharers("i_rwsem")
    BY <1>1, <1>5, FiniteTasks, FS_EmptySet
  <1>7. ~Alone(u, "i_rwsem")
    BY <1>1, <1>3 DEF LocksInv, Balanced, Types
  <1>8. ASSUME pc[u] \in {"lookup", "looked"} PROVE FALSE
    <2>1. op[u] \in Lookups \cup Changes
      BY <1>8 DEF StepsOK, Types
    <2>2. LockOf(op[u]) = "i_rwsem"
      BY <2>1 DEF LockOf, Lookups, Changes
    <2>3. pc[u] \in UnderLock
      BY <1>8 DEF UnderLock
    <2> QED BY <2>2, <2>3, <1>6, <1>7 DEF Sharers, Alone
  <1> QED BY <1>8

\* To an app that has been refused the name all along, every dentry of the chain
\* is one of a hidden inode.
LEMMA SureSeesNone ==
  ASSUME DiskOK, ChainInv, SureInv, NEW t \in Apps, pc[t] # "idle", sure[t], NEW d \in Chain
  PROVE  d_inode[d] \in sus
  <1>1. file \in sus
    BY DEF SureInv
  <1>2. d_inode[d] # None
    BY <1>1, NoInode DEF ChainInv
  <1> QED BY <1>1, <1>2 DEF ChainInv

\* d_lookup, with the empty answer told from a dentry.
LEMMA Found ==
  ASSUME DcacheOK, NEW t, NEW d, d = d_lookup(t)
  PROVE  \/ d = None /\ \A e \in Chain : Hides(t, d_inode[e])
         \/ d \in Chain /\ d \in Dentries /\ d # None /\ ~Hides(t, d_inode[d])
  <1>1. None \notin Dentries
    BY PathHideAssumption
  <1>2. cached \in Seq(Dentries)
    BY DEF DcacheOK
  <1> QED BY <1>1, <1>2, LookedUp DEF Chain

\* Who has just looked the name up, and who has found an inode.
LEMMA Arrives ==
  ASSUME Types, HeldInv, ChainInv, SureInv, NEW t \in Tasks, Start(t) \/ lock(t) \/ Step(t)
  PROVE  /\ pc'[t] = "looked" =>
              /\ held'[t] \in Chain'
              /\ t \in Apps /\ sure'[t] => fresh'[t]
         /\ pc'[t] = "complete" =>
              /\ d_inode' = d_inode /\ d_inode[held'[t]] # None
              /\ t \in Apps /\ sure'[t] => sure[t] /\ pc[t] # "idle" /\ op'[t] = op[t] /\ d_inode[held'[t]] \in sus
  <1>0. pc \in [Tasks -> Steps] /\ op \in [Tasks -> Ops] /\ held \in [Tasks -> Dentries \cup {None}]
        /\ fresh \in [Tasks -> BOOLEAN]
    BY DEF Types, TasksOK
  <1>1. CASE lookup(t)
    <2>1. pc'[t] = "looked"
      BY <1>0, <1>1 DEF lookup, Goto
    <2>2. CASE d_lookup(t) # None /\ held' = [held EXCEPT ![t] = d_lookup(t)] /\ UNCHANGED dcache
      <3>1. d_lookup(t) \in Chain /\ ~Hides(t, d_inode[d_lookup(t)])
        BY <2>2, Found DEF Types
      <3>2. held'[t] = d_lookup(t) /\ Chain' = Chain
        BY <2>2, <1>0 DEF dcache, Chain
      <3>3. ASSUME t \in Apps, sure'[t] PROVE FALSE
        <4>1. pc[t] = "lookup" /\ sure[t]
          BY <1>1, <3>3 DEF lookup
        <4>2. d_inode[d_lookup(t)] \in sus
          BY <3>1, <3>3, <4>1, SureSeesNone DEF Types
        <4> QED BY <3>1, <3>3, <4>2 DEF Hides
      <3> QED BY <2>1, <3>1, <3>2, <3>3
    <2>3. CASE ~(d_lookup(t) # None /\ held' = [held EXCEPT ![t] = d_lookup(t)] /\ UNCHANGED dcache)
      <3>1. PICK d : d = CHOOSE e \in Unused : TRUE
        OBVIOUS
      <3>2. Unused # {} /\ cached' = <<d>> \o cached /\ held' = [held EXCEPT ![t] = d]
        BY <1>1, <2>3, <3>1 DEF lookup
      <3>3. d \in Dentries /\ cached \in Seq(Dentries)
        BY <3>1, <3>2 DEF Unused, Types, DcacheOK
      <3>4. 1 \in DOMAIN (<<d>> \o cached) /\ (<<d>> \o cached)[1] = d
        BY <3>3
      <3>5. d \in ToSet(<<d>> \o cached)
        BY <3>4 DEF ToSet
      <3>6. held'[t] = d /\ fresh'[t]
        BY <1>0, <1>1, <2>3, <3>2 DEF lookup
      <3> QED BY <2>1, <3>2, <3>5, <3>6 DEF Chain
    <2> QED BY <2>2, <2>3
  <1>2. CASE lookup_fast(t)
    <2>1. PICK d : d = d_lookup(t)
      OBVIOUS
    <2>2. CASE Goto(t, "want") \/ Return(t, "ENOENT")
      <3>1. pc'[t] \in {"want", "idle"}
        BY <2>2, <1>0 DEF Goto, Return
      <3> QED BY <3>1
    <2>3. CASE d # None /\ d_inode[d] # None /\ Goto(t, "complete") /\ held' = [held EXCEPT ![t] = d]
      <3>1. pc'[t] = "complete" /\ held'[t] = d /\ op'[t] = op[t]
        BY <2>3, <1>0 DEF Goto
      <3>2. d \in Chain /\ ~Hides(t, d_inode[d])
        BY <2>1, <2>3, Found DEF Types
      <3>3. pc[t] = "fast" /\ UNCHANGED <<dcache, past>>
        BY <1>2 DEF lookup_fast
      <3>4. ASSUME t \in Apps, sure'[t] PROVE FALSE
        <4>1. d_inode[d] \in sus
          BY <3>2, <3>3, <3>4, SureSeesNone DEF past, Types
        <4> QED BY <4>1, <3>2, <3>4 DEF Hides
      <3> QED BY <2>3, <3>1, <3>3, <3>4 DEF dcache
    <2> QED BY <1>2, <2>1, <2>2, <2>3 DEF lookup_fast
  <1>3. CASE lookup_slow(t) \/ lookup_open(t)
    <2>1. CASE \E r : Return(t, r)
      <3>1. pc'[t] = "idle"
        BY <2>1, <1>0 DEF Return
      <3> QED BY <3>1
    <2>2. CASE ~\E r : Return(t, r)
      <3>1. /\ Goto(t, "complete") /\ pc[t] = "looked" /\ ~IsNegative(t)
            /\ UNCHANGED <<held, dcache, sure>>
        <4>1. CASE lookup_slow(t)
          BY <4>1, <2>2 DEF lookup_slow, past
        <4>2. CASE lookup_open(t)
          BY <4>2, <2>2 DEF lookup_open, Create
        <4> QED BY <1>3, <4>1, <4>2
      <3>2. pc'[t] = "complete" /\ held'[t] = held[t] /\ op'[t] = op[t] /\ held[t] \in Chain
        BY <3>1, <1>0 DEF Goto, HeldInv
      <3>3. ASSUME t \in Apps, sure'[t] PROVE sure[t] /\ d_inode[held[t]] \in sus
        BY <3>1, <3>2, <3>3, SureSeesNone DEF Types
      <3> QED BY <3>1, <3>2, <3>3 DEF IsNegative, dcache
    <2> QED BY <2>1, <2>2
  <1>4. CASE Start(t) \/ lock(t)
    <2>1. pc'[t] \in {"fast", "want", "lookup"} \/ pc'[t] = op[t]
      BY <1>4, <1>0 DEF Start, lock, Goto
    <2>2. op[t] \in Ops
      BY <1>0
    <2>3. op[t] # "looked" /\ op[t] # "complete"
      BY <2>2 DEF Ops, Lookups, Changes
    <2> QED BY <2>1, <2>3
  <1>5. CASE \/ d_alloc_fails(t) \/ lookup_slow_hidden(t) \/ filename_lookup(t) \/ may_open(t) \/ may_create(t)
             \/ may_delete(t) \/ vfs_ustat(t) \/ remount(t)
    <2>1. \E r : Return(t, r)
      BY <1>5 DEF d_alloc_fails, lookup_slow_hidden, filename_lookup, may_open, may_create, Create, may_delete,
           vfs_ustat, remount
    <2>2. pc'[t] = "idle"
      BY <2>1, <1>0 DEF Return
    <2> QED BY <2>2
  <1> QED BY <1>1, <1>2, <1>3, <1>4, <1>5 DEF Step

\* Reclaim takes one dentry away.
LEMMA ReclaimChain ==
  ASSUME DcacheOK, NEW d \in Chain, d_drop(d), d_inode' = [d_inode EXCEPT ![d] = None]
  PROVE  /\ Chain' = Chain \ {d} /\ d \in Dentries
         /\ \A e : e # d => d_inode'[e] = d_inode[e]
  <1>1. cached \in Seq(Dentries) /\ Once(cached) /\ d_inode \in [Dentries -> Inodes \cup {None}]
    BY DEF DcacheOK
  <1>2. Chain' = Chain \ {d}
    BY <1>1, Dropped DEF Chain
  <1>3. d \in Dentries
    BY <1>1 DEF Chain, ToSet
  <1> QED BY <1>1, <1>2, <1>3

\* A new dentry: who adds it sees none of those that are there.
LEMMA NewChain ==
  ASSUME DcacheOK, NEW t \in Tasks, NewDentry(t)
  PROVE  \E d \in Dentries :
           /\ d \notin Chain /\ Chain' = Chain \cup {d} /\ d_inode'[d] = file
           /\ \A u \in Tasks : held[u] # d
           /\ \A e : e # d => d_inode'[e] = d_inode[e]
           /\ \A e \in Chain : Hides(t, d_inode[e])
  <1>1. PICK d \in Unused : cached' = <<d>> \o cached /\ d_inode' = [d_inode EXCEPT ![d] = file]
    BY DEF NewDentry
  <1>2. cached \in Seq(Dentries) /\ Once(cached) /\ d_inode \in [Dentries -> Inodes \cup {None}]
        /\ leaked \in Seq(Dentries)
    BY DEF DcacheOK
  <1>3. d \in Dentries /\ d \notin ToSet(cached) /\ \A u \in Tasks : held[u] # d
    BY UnusedIsNew
  <1>4. d \notin Chain
    BY <1>3 DEF Chain
  <1>5. ToSet(<<d>> \o cached) = {d} \cup ToSet(cached)
    BY <1>2, <1>3, <1>4, Prepended DEF Chain
  <1>6. Chain' = Chain \cup {d}
    BY <1>1, <1>5 DEF Chain
  <1>7. d_inode'[d] = file /\ \A e : e # d => d_inode'[e] = d_inode[e]
    BY <1>1, <1>2, <1>3
  <1>8. \A e \in Chain : Hides(t, d_inode[e])
    <2>1. d_lookup(t) = None
      BY DEF NewDentry
    <2> QED BY <2>1, Found
  <1> QED BY <1>3, <1>4, <1>6, <1>7, <1>8

\* Unlinking: the dentry leaves the chain, or becomes negative if nobody else has it.
LEMMA UnlinkChain ==
  ASSUME DcacheOK, TasksOK, NEW t \in Tasks, Unlinks(t)
  PROVE  /\ file' = None /\ created' = created /\ sus' = sus /\ aliased' = aliased
         /\ undead' = (undead \/ aliased) /\ sure' = [a \in Apps |-> FALSE]
         /\ \/ Chain' = Chain \ {held[t]} /\ d_inode' = d_inode
            \/ /\ Chain' = Chain /\ d_inode'[held[t]] = None
               /\ \A u \in Tasks : u # t => held[u] # held[t]
               /\ \A e : e # held[t] => d_inode'[e] = d_inode[e]
  <1>1. /\ file' = None /\ created' = created /\ sus' = sus /\ aliased' = aliased
        /\ undead' = (undead \/ aliased) /\ sure' = [a \in Apps |-> FALSE]
    BY DEF Unlinks, Unlink
  <1>2. held[t] \in Dentries /\ cached \in Seq(Dentries) /\ Once(cached)
        /\ d_inode \in [Dentries -> Inodes \cup {None}]
    BY DEF Unlinks, TasksOK, DcacheOK
  <1>3. \/ d_drop(held[t]) /\ d_inode' = d_inode
        \/ /\ d_inode' = [d_inode EXCEPT ![held[t]] = None] /\ cached' = cached
           /\ \A u \in Tasks : u # t => held[u] # held[t]
    BY DEF Unlinks, Unlink
  <1>4. CASE d_drop(held[t]) /\ d_inode' = d_inode
    BY <1>1, <1>2, <1>4, Dropped DEF Chain
  <1>5. CASE /\ d_inode' = [d_inode EXCEPT ![held[t]] = None] /\ cached' = cached
             /\ \A u \in Tasks : u # t => held[u] # held[t]
    BY <1>1, <1>2, <1>5 DEF Chain
  <1> QED BY <1>3, <1>4, <1>5

\* Creating the file: the negative dentry that was found leads to it.
LEMMA FillChain ==
  ASSUME DiskOK, DcacheOK, TasksOK, HeldInv, NEW t \in Tasks, Fills(t)
  PROVE  \E i \in Inodes \ created :
           /\ file' = i /\ created' = created \cup {i} /\ sus' = sus /\ Chain' = Chain
           /\ held[t] \in Chain /\ d_inode[held[t]] = None
           /\ d_inode'[held[t]] = i /\ \A e : e # held[t] => d_inode'[e] = d_inode[e]
           /\ UNCHANGED <<aliased, undead>> /\ sure' = [a \in Apps |-> FALSE]
  <1>1. PICK i \in Inodes \ created :
          file' = i /\ created' = created \cup {i} /\ d_inode' = [d_inode EXCEPT ![held[t]] = i]
    BY DEF Fills
  <1>2. held[t] \in Dentries /\ d_inode \in [Dentries -> Inodes \cup {None}]
    BY DEF Fills, TasksOK, DcacheOK
  <1>3. held[t] \in Chain /\ d_inode[held[t]] = None
    BY DEF Fills, HeldInv
  <1>4. d_inode'[held[t]] = i /\ \A e : e # held[t] => d_inode'[e] = d_inode[e]
    BY <1>1, <1>2
  <1>5. sus' = sus /\ Chain' = Chain /\ UNCHANGED <<aliased, undead>> /\ sure' = [a \in Apps |-> FALSE]
    BY DEF Fills, Chain
  <1> QED BY <1>1, <1>3, <1>4, <1>5

\* What a step of t leaves to another task that has a dentry.
LEMMA KeepsDentry ==
  ASSUME Types, HeldInv, NEW t \in Tasks, Calm \/ NewDentry(t) \/ Fills(t) \/ Unlinks(t),
         NEW u \in Tasks, u # t
  PROVE  /\ pc[u] = "looked" => held[u] \in Chain'
         /\ pc[u] = "complete" =>
              /\ d_inode'[held[u]] # None
              /\ u \in Apps /\ sure'[u] => d_inode'[held[u]] = d_inode[held[u]]
  <1>0. None \notin Inodes /\ DcacheOK /\ TasksOK /\ DiskOK
    BY PathHideAssumption DEF Types
  <1>1. CASE Calm
    BY <1>1 DEF Calm, Chain, HeldInv
  <1>2. CASE NewDentry(t)
    BY <1>0, <1>2, NewChain DEF HeldInv
  <1>3. CASE Fills(t)
    BY <1>0, <1>3, FillChain DEF HeldInv
  <1>4. CASE Unlinks(t)
    <2>1. op[t] \in Changes /\ pc[t] = "looked"
      BY <1>4 DEF Unlinks, Changes
    <2>2. pc[u] # "looked"
      BY <2>1, Excludes
    <2>3. d_inode'[held[u]] = d_inode[held[u]]
      BY <1>0, <1>4, UnlinkChain
    <2> QED BY <2>2, <2>3 DEF HeldInv
  <1> QED BY <1>1, <1>2, <1>3, <1>4

\* A dentry that has just been looked up is in the chain, and one that was found
\* has an inode.
LEMMA NextHeld ==
  ASSUME Types, HeldInv, ChainInv, SureInv, [Next]_vars
  PROVE  HeldInv'
  <1>1. ASSUME NEW t \in Tasks, Start(t) \/ lock(t) \/ Step(t) PROVE HeldInv'
    <2>1. Calm \/ NewDentry(t) \/ Fills(t) \/ Unlinks(t)
      BY <1>1, ChainKinds DEF Types
    <2>2. Aside(t)
      BY <1>1, StepAside DEF Types
    <2>3. ASSUME NEW u \in Tasks, u # t
          PROVE  (pc'[u] = "looked" => held'[u] \in Chain') /\ (pc'[u] = "complete" => d_inode'[held'[u]] # None)
      BY <2>1, <2>2, <2>3, KeepsDentry DEF Aside
    <2>4. (pc'[t] = "looked" => held'[t] \in Chain') /\ (pc'[t] = "complete" => d_inode'[held'[t]] # None)
      BY <1>1, Arrives
    <2> QED BY <2>3, <2>4 DEF HeldInv
  <1>2. CASE hide \/ UNCHANGED vars
    BY <1>2 DEF hide, vars, task, dcache, HeldInv, Chain
  <1>3. CASE shrink_dcache
    <2>1. UNCHANGED <<pc, held>>
      BY <1>3 DEF shrink_dcache, task
    <2>2. PICK d \in Chain :
            (\A t \in Tasks : held[t] # d) /\ d_drop(d) /\ d_inode' = [d_inode EXCEPT ![d] = None]
      BY <1>3 DEF shrink_dcache, Chain
    <2>3. Chain' = Chain \ {d} /\ \A e : e # d => d_inode'[e] = d_inode[e]
      BY <2>2, ReclaimChain DEF Types
    <2> QED BY <2>1, <2>2, <2>3 DEF HeldInv
  <1> QED BY <1>1, <1>2, <1>3 DEF Next

\* Inside an operation history only tells an app that the name is no longer hidden.
LEMMA SureStays ==
  ASSUME NEW t \in Tasks, lock(t) \/ Step(t)
  PROVE  pc[t] # "idle" /\ \A a \in Apps : sure'[a] => sure[a]
  <1>1. CASE lock(t)
    BY <1>1 DEF lock, past
  <1>2. CASE lookup_fast(t) \/ lookup(t) \/ d_alloc_fails(t)
    BY <1>2 DEF lookup_fast, lookup, d_alloc_fails, past
  <1>3. CASE lookup_slow_hidden(t) \/ lookup_slow(t) \/ filename_lookup(t) \/ may_open(t)
    BY <1>3 DEF lookup_slow_hidden, lookup_slow, filename_lookup, may_open, past
  <1>4. CASE vfs_ustat(t) \/ remount(t)
    BY <1>4 DEF vfs_ustat, remount, past
  <1>5. CASE lookup_open(t) \/ may_create(t) \/ may_delete(t)
    BY <1>5 DEF lookup_open, may_create, may_delete, Create, Unlink
  <1> QED BY <1>1, <1>2, <1>3, <1>4, <1>5 DEF Step

\* To an app for which the name is hidden all along, what it found is hidden.
LEMMA NextSure ==
  ASSUME Types, HeldInv, ChainInv, SureInv, [Next]_vars
  PROVE  SureInv'
  <1>0. sus \subseteq sus'
    BY NextDisk DEF Types
  <1>1. ASSUME NEW t \in Tasks, Start(t) \/ lock(t) \/ Step(t) PROVE SureInv'
    <2>1. Calm \/ NewDentry(t) \/ Fills(t) \/ Unlinks(t)
      BY <1>1, ChainKinds DEF Types
    <2>2. Aside(t)
      BY <1>1, StepAside DEF Types
    <2>3. file' = file \/ \A a \in Apps : ~sure'[a]
      BY <2>1 DEF Calm, NewDentry, Fills, Unlinks, Unlink
    <2>4. \A a \in Apps : sure'[a] => sure[a] \/ (a = t /\ Start(t))
      BY <1>1, SureStays DEF Start
    <2>5. ASSUME NEW u \in Apps, u # t, pc'[u] # "idle", sure'[u]
          PROVE  /\ file' \in sus' /\ op'[u] \notin {"creat_excl", "ustat", "remount"}
                 /\ pc'[u] = "complete" => d_inode'[held'[u]] \in sus'
                 /\ pc'[u] = "looked" => fresh'[u]
      <3>1. u \in Tasks /\ pc'[u] = pc[u] /\ op'[u] = op[u] /\ held'[u] = held[u] /\ sure[u] /\ file' = file
            /\ fresh'[u] = fresh[u]
        BY <2>2, <2>3, <2>4, <2>5 DEF Aside, Tasks
      <3>2. /\ file \in sus /\ op[u] \notin {"creat_excl", "ustat", "remount"}
            /\ pc[u] = "complete" => d_inode[held[u]] \in sus
            /\ pc[u] = "looked" => fresh[u]
        BY <3>1, <2>5 DEF SureInv
      <3>3. pc[u] = "complete" => d_inode'[held[u]] = d_inode[held[u]]
        BY <3>1, <2>1, <2>5, KeepsDentry
      <3> QED BY <3>1, <3>2, <3>3, <1>0
    <2>6. ASSUME t \in Apps, pc'[t] # "idle", sure'[t]
          PROVE  /\ file' \in sus' /\ op'[t] \notin {"creat_excl", "ustat", "remount"}
                 /\ pc'[t] = "complete" => d_inode'[held'[t]] \in sus'
                 /\ pc'[t] = "looked" => fresh'[t]
      <3>1. /\ pc'[t] = "complete" => d_inode'[held'[t]] \in sus'
            /\ pc'[t] = "looked" => fresh'[t]
        BY <1>0, <1>1, <2>6, Arrives
      <3>2. CASE Start(t)
        <4>1. file \in sus /\ op'[t] \notin {"creat_excl", "ustat", "remount"} /\ file' = file
          BY <2>6, <3>2 DEF Start, disk
        <4> QED BY <3>1, <4>1, <1>0
      <3>3. CASE lock(t) \/ Step(t)
        <4>1. pc[t] # "idle"
          BY <3>3, SureStays
        <4>2. sure[t] /\ file' = file
          BY <2>3, <2>4, <2>6, <4>1 DEF Start
        <4>3. op'[t] = op[t]
          <5>1. CASE Returns(t)
            BY <5>1, <2>6 DEF Returns, Return, Types, TasksOK
          <5>2. CASE Starts(t)
            BY <5>2, <4>1 DEF Starts
          <5>3. ASSUME NEW step, Moves(t, step) PROVE op'[t] = op[t]
            BY <5>3 DEF Moves
          <5> QED BY <1>1, <5>1, <5>2, <5>3, StepKinds DEF Types
        <4> QED BY <2>6, <3>1, <4>1, <4>2, <4>3, <1>0 DEF SureInv
      <3> QED BY <1>1, <3>2, <3>3
    <2> QED BY <2>5, <2>6 DEF SureInv
  <1>2. CASE hide \/ UNCHANGED vars
    <2>1. UNCHANGED <<file, d_inode, pc, op, held, fresh, sure>>
      BY <1>2 DEF hide, vars, disk, task, dcache, past
    <2> QED BY <2>1, <1>0 DEF SureInv
  <1>3. CASE shrink_dcache
    <2>1. UNCHANGED <<pc, held, fresh, op, file, sus, sure>>
      BY <1>3 DEF shrink_dcache, task, disk, past
    <2>2. PICK d \in Chain :
            (\A t \in Tasks : held[t] # d) /\ d_drop(d) /\ d_inode' = [d_inode EXCEPT ![d] = None]
      BY <1>3 DEF shrink_dcache, Chain
    <2>3. \A e : e # d => d_inode'[e] = d_inode[e]
      BY <2>2, ReclaimChain DEF Types
    <2> QED BY <2>1, <2>2, <2>3 DEF SureInv, Tasks
  <1> QED BY <1>1, <1>2, <1>3 DEF Next

\* The dentries agree with the disk but for hidden files, of which there may be
\* several, and those that were unlinked.
LEMMA NextChain ==
  ASSUME Types, HeldInv, ChainInv, AliasInv, [Next]_vars
  PROVE  ChainInv' /\ AliasInv'
  <1>0. /\ sus \subseteq sus' /\ None \notin sus /\ None \notin created /\ None \notin Inodes
        /\ file \in created \cup {None} /\ sus \subseteq created
        /\ DiskOK /\ DcacheOK /\ TasksOK
    BY NextDisk, NoInode, PathHideAssumption DEF Types, DiskOK
  <1>8. /\ \A d \in Chain : /\ d_inode[d] \in {file, None} \cup sus
                            /\ d_inode[d] \in created \cup {None}
                            /\ d_inode[d] = None => file = None
        /\ \A d, e \in Chain : d # e /\ d_inode[d] = d_inode[e] => d_inode[d] \in sus
    BY DEF ChainInv
  <1>1. ASSUME Chain' = Chain, UNCHANGED <<d_inode, file, created, aliased, undead>> PROVE ChainInv' /\ AliasInv'
    BY <1>1, <1>0 DEF ChainInv, AliasInv
  <1>2. CASE Calm \/ hide \/ UNCHANGED vars
    <2>1. Chain' = Chain /\ UNCHANGED <<d_inode, file, created, aliased, undead>>
      BY <1>2 DEF Calm, hide, vars, dcache, disk, past, Chain
    <2> QED BY <2>1, <1>1
  <1>3. CASE shrink_dcache
    <2>1. UNCHANGED <<file, created, sus, aliased, undead>>
      BY <1>3 DEF shrink_dcache, disk, past
    <2>2. PICK d \in Chain : d_drop(d) /\ d_inode' = [d_inode EXCEPT ![d] = None]
      BY <1>3 DEF shrink_dcache, Chain
    <2>3. Chain' = Chain \ {d} /\ \A e : e # d => d_inode'[e] = d_inode[e]
      BY <2>2, <1>0, ReclaimChain
    <2>4. ChainInv'
      BY <2>1, <2>3 DEF ChainInv
    <2>5. AliasInv'
      BY <2>1, <2>3 DEF AliasInv
    <2> QED BY <2>4, <2>5
  <1>4. ASSUME NEW t \in Tasks, NewDentry(t) PROVE ChainInv' /\ AliasInv'
    <2>1. /\ UNCHANGED <<file, undead>> /\ aliased' = (aliased \/ Hides(t, file))
      BY <1>4 DEF NewDentry
    <2>2. PICK d \in Dentries :
            /\ d \notin Chain /\ Chain' = Chain \cup {d} /\ d_inode'[d] = file
            /\ \A e : e # d => d_inode'[e] = d_inode[e]
            /\ \A e \in Chain : Hides(t, d_inode[e])
      BY <1>0, <1>4, NewChain
    <2>3. \A e \in Chain : d_inode'[e] = d_inode[e] /\ d_inode[e] \in sus /\ t \in Apps
      BY <2>2 DEF Hides
    <2>4. created \subseteq created' 
      BY NextDisk DEF Types
    <2>5. ChainInv'
      <3>1. ASSUME NEW e \in Chain'
            PROVE  /\ d_inode'[e] \in ({file', None} \cup sus') \cap (created' \cup {None})
                   /\ d_inode'[e] = None => file' = None
        BY <2>1, <2>2, <2>3, <2>4, <1>0
      <3>2. ASSUME NEW e \in Chain', NEW g \in Chain', e # g, d_inode'[e] = d_inode'[g] PROVE d_inode'[e] \in sus'
        BY <2>2, <2>3, <3>2, <1>0
      <3> QED BY <3>1, <3>2 DEF ChainInv
    <2>6. AliasInv'
      <3>1. undead' => aliased'
        BY <2>1 DEF AliasInv
      <3>2. ~undead' => \A e \in Chain' : d_inode'[e] = file'
        BY <2>1, <2>2, <2>3 DEF AliasInv
      <3>3. ASSUME ~aliased' PROVE \A e, g \in Chain' : e = g
        <4>1. ~undead /\ ~Hides(t, file)
          BY <2>1, <3>3 DEF AliasInv
        <4>2. ASSUME NEW e \in Chain PROVE FALSE
          <5>1. d_inode[e] = file
            BY <4>1 DEF AliasInv
          <5> QED BY <5>1, <4>1, <2>2
        <4> QED BY <4>2, <2>2
      <3>4. aliased' /\ ~undead' => file' \in sus'
        BY <2>1, <1>0 DEF AliasInv, Hides
      <3> QED BY <3>1, <3>2, <3>3, <3>4 DEF AliasInv
    <2> QED BY <2>5, <2>6
  <1>5. ASSUME NEW t \in Tasks, Fills(t) PROVE ChainInv' /\ AliasInv'
    <2>1. PICK i \in Inodes \ created :
            /\ file' = i /\ created' = created \cup {i} /\ sus' = sus /\ Chain' = Chain
            /\ held[t] \in Chain /\ d_inode[held[t]] = None
            /\ d_inode'[held[t]] = i /\ \A e : e # held[t] => d_inode'[e] = d_inode[e]
            /\ UNCHANGED <<aliased, undead>>
      BY <1>0, <1>5, FillChain
    <2>2. file = None
      BY <2>1, <1>8
    <2>3. \A e \in Chain : e # held[t] => d_inode'[e] = d_inode[e] /\ d_inode[e] \in sus
      BY <2>1, <2>2, <1>0, <1>8
    <2>4. ChainInv'
      <3>1. ASSUME NEW e \in Chain
            PROVE  /\ d_inode'[e] \in ({file', None} \cup sus') \cap (created' \cup {None})
                   /\ d_inode'[e] # None
        BY <2>1, <2>3, <1>0
      <3>2. ASSUME NEW e \in Chain, NEW g \in Chain, e # g, d_inode'[e] = d_inode'[g] PROVE d_inode'[e] \in sus'
        BY <2>1, <2>3, <3>2, <1>0
      <3> QED BY <2>1, <3>1, <3>2 DEF ChainInv
    <2>5. AliasInv'
      <3>1. ~undead => \A e \in Chain : d_inode'[e] = file'
        <4>1. ~undead => \A e \in Chain : d_inode[e] = None
          BY <2>2 DEF AliasInv
        <4> QED BY <4>1, <2>1, <2>3, <1>0
      <3>2. ~(aliased /\ ~undead)
        BY <2>2, <1>0 DEF AliasInv
      <3> QED BY <3>1, <3>2, <2>1 DEF AliasInv
    <2> QED BY <2>4, <2>5
  <1>6. ASSUME NEW t \in Tasks, Unlinks(t) PROVE ChainInv' /\ AliasInv'
    <2>1. /\ file' = None /\ created' = created /\ sus' = sus /\ aliased' = aliased
          /\ undead' = (undead \/ aliased)
          /\ \/ Chain' = Chain \ {held[t]} /\ d_inode' = d_inode
             \/ /\ Chain' = Chain /\ d_inode'[held[t]] = None
                /\ \A e : e # held[t] => d_inode'[e] = d_inode[e]
      BY <1>0, <1>6, UnlinkChain
    <2>2. held[t] \in Chain /\ d_inode[held[t]] = file /\ file # None
      BY <1>6 DEF Unlinks, HeldInv
    <2>3. \A e \in Chain : e # held[t] => d_inode'[e] = d_inode[e] /\ d_inode[e] \in sus /\ d_inode[e] \in created
      BY <2>1, <2>2, <1>0, <1>8
    <2>4. Chain' \subseteq Chain /\ (held[t] \in Chain' => d_inode'[held[t]] = None)
      BY <2>1
    <2>5. ChainInv'
      <3>1. ASSUME NEW e \in Chain'
            PROVE  d_inode'[e] \in ({file', None} \cup sus') \cap (created' \cup {None})
        BY <2>1, <2>3, <2>4
      <3>2. ASSUME NEW e \in Chain', NEW g \in Chain', e # g, d_inode'[e] = d_inode'[g] PROVE d_inode'[e] \in sus'
        BY <2>1, <2>3, <2>4, <3>2, <1>0
      <3> QED BY <2>1, <3>1, <3>2 DEF ChainInv
    <2>6. AliasInv'
      <3>1. ASSUME ~undead' PROVE \A e \in Chain' : d_inode'[e] = file'
        <4>1. ~aliased
          BY <2>1, <3>1
        <4>2. \A e \in Chain : e = held[t]
          BY <4>1, <2>2 DEF AliasInv
        <4> QED BY <4>2, <2>1, <2>4
      <3>2. (undead' => aliased') /\ ~(aliased' /\ ~undead')
        BY <2>1 DEF AliasInv
      <3>3. ~aliased' => \A e, g \in Chain' : e = g
        BY <2>1, <2>4 DEF AliasInv
      <3> QED BY <3>1, <3>2, <3>3 DEF AliasInv
    <2> QED BY <2>5, <2>6
  <1>7. ASSUME NEW t \in Tasks, Start(t) \/ lock(t) \/ Step(t) PROVE ChainInv' /\ AliasInv'
    BY <1>0, <1>7, <1>2, <1>4, <1>5, <1>6, ChainKinds
  <1> QED BY <1>2, <1>3, <1>7 DEF Next

\* What an app is told at the end of its operation.
LEMMA Refused ==
  ASSUME Types, HeldInv, ChainInv, SureInv, NEW t \in Apps, t \in Tasks, Step(t), sure'[t], pc'[t] = "idle"
  PROVE  answer'[t] \in {"ENOENT", "ENOMEM"}
  <1>0. pc \in [Tasks -> Steps] /\ op \in [Tasks -> Ops] /\ None \notin sus
    BY NoInode DEF Types, TasksOK
  <1>1. ASSUME NEW r, Return(t, r) PROVE answer'[t] = r
    BY <1>1 DEF Return
  <1>2. ASSUME pc[t] \in {"looked", "complete"}, sure[t]
        PROVE  Hidden(t) /\ ~IsNegative(t) /\ op[t] # "creat_excl"
    <2>1. CASE pc[t] = "looked"
      <3>1. held[t] \in Chain
        BY <2>1 DEF HeldInv
      <3>2. d_inode[held[t]] \in sus
        BY <2>1, <3>1, <1>2, SureSeesNone DEF Types
      <3> QED BY <2>1, <3>2, <1>0, <1>2 DEF Hidden, Hides, IsNegative, SureInv
    <2>2. CASE pc[t] = "complete"
      BY <2>2, <1>0, <1>2 DEF Hidden, Hides, IsNegative, SureInv
    <2> QED BY <2>1, <2>2, <1>2
  <1>3. CASE lookup_fast(t) \/ d_alloc_fails(t)
    <2>1. Return(t, "ENOENT") \/ Return(t, "ENOMEM") \/ Goto(t, "want") \/ Goto(t, "complete")
      BY <1>3 DEF lookup_fast, d_alloc_fails
    <2>2. ~Goto(t, "want") /\ ~Goto(t, "complete")
      BY <1>0 DEF Goto
    <2> QED BY <2>1, <2>2, <1>1
  <1>4. CASE lookup(t)
    <2>1. pc'[t] = "looked"
      BY <1>0, <1>4 DEF lookup, Goto
    <2> QED BY <2>1
  <1>5. CASE lookup_slow_hidden(t)
    BY <1>1, <1>5 DEF lookup_slow_hidden
  <1>6. CASE lookup_slow(t)
    <2>1. pc[t] = "looked" /\ ~Hidden(t) /\ sure[t]
      BY <1>6 DEF lookup_slow, past
    <2> QED BY <2>1, <1>2
  <1>7. CASE filename_lookup(t)
    <2>1. pc[t] = "complete" /\ sure[t]
      BY <1>7 DEF filename_lookup
    <2> QED BY <2>1, <1>1, <1>2, <1>7 DEF filename_lookup
  <1>8. CASE lookup_open(t)
    <2>1. pc[t] = "looked"
      BY <1>8 DEF lookup_open
    <2>2. sure[t]
      BY <1>8 DEF lookup_open, Create
    <2>3. ~IsNegative(t)
      BY <2>1, <2>2, <1>2
    <2>4. Return(t, "ENOENT") \/ Goto(t, "complete")
      BY <1>8, <2>3 DEF lookup_open
    <2>5. ~Goto(t, "complete")
      BY <1>0 DEF Goto
    <2> QED BY <2>4, <2>5, <1>1
  <1>9. CASE may_open(t)
    <2>1. pc[t] = "complete" /\ sure[t]
      BY <1>9 DEF may_open, past
    <2>2. Hidden(t) /\ op[t] # "creat_excl"
      BY <2>1, <1>2
    <2>3. Return(t, "ENOENT")
      BY <1>9, <2>2 DEF may_open
    <2> QED BY <2>3, <1>1
  <1>10. CASE may_create(t)
    <2>1. pc[t] = "looked"
      BY <1>10 DEF may_create
    <2>2. sure[t]
      BY <1>10 DEF may_create, Create
    <2>3. Hidden(t) /\ fresh[t] /\ ~IsNegative(t)
      BY <2>1, <2>2, <1>2 DEF SureInv
    <2>4. Return(t, "ENOENT")
      BY <1>10, <2>3 DEF may_create, lookup_real_refuses
    <2> QED BY <2>4, <1>1
  <1>11. CASE may_delete(t)
    <2>1. pc[t] = "looked"
      BY <1>11 DEF may_delete
    <2>2. sure[t]
      BY <1>11 DEF may_delete, Unlink
    <2>3. Hidden(t)
      BY <2>1, <2>2, <1>2
    <2>4. Return(t, "ENOENT")
      BY <1>11, <2>3 DEF may_delete
    <2> QED BY <2>4, <1>1
  <1>12. CASE vfs_ustat(t) \/ remount(t)
    <2>1. sure[t] /\ pc[t] \in {"ustat", "remount"}
      BY <1>12 DEF vfs_ustat, remount, past
    <2>2. op[t] = pc[t]
      BY <2>1 DEF Types, StepsOK
    <2> QED BY <2>1, <2>2 DEF SureInv
  <1> QED BY <1>3, <1>4, <1>5, <1>6, <1>7, <1>8, <1>9, <1>10, <1>11, <1>12 DEF Step

\* No step tells an app anything else of a hidden name.
LEMMA NextHidden ==
  ASSUME Types, HeldInv, ChainInv, SureInv, HiddenFromApp, [Next]_vars
  PROVE  HiddenFromApp'
  <1>1. ASSUME NEW t \in Tasks, Start(t) \/ lock(t) \/ Step(t) PROVE HiddenFromApp'
    <2>1. Aside(t)
      BY <1>1, StepAside DEF Types
    <2>2. \A a \in Apps : a # t /\ sure'[a] => sure[a]
      BY <1>1, SureStays DEF Start
    <2>3. ASSUME NEW a \in Apps, a # t, pc'[a] = "idle", answer'[a] # "none", sure'[a]
          PROVE  answer'[a] \in {"ENOENT", "ENOMEM"}
      <3>1. a \in Tasks /\ pc[a] = "idle" /\ answer[a] = answer'[a] /\ sure[a]
        BY <2>1, <2>2, <2>3 DEF Aside, Tasks
      <3> QED BY <3>1, <2>3 DEF HiddenFromApp
    <2>4. ASSUME t \in Apps, pc'[t] = "idle", answer'[t] # "none", sure'[t]
          PROVE  answer'[t] \in {"ENOENT", "ENOMEM"}
      <3>1. CASE Start(t)
        BY <2>4, <3>1 DEF Start
      <3>2. CASE lock(t)
        <4>1. pc'[t] = "lookup" \/ pc'[t] = op[t]
          BY <3>2 DEF lock, Goto, Types, TasksOK
        <4>2. op[t] # "idle"
          BY DEF Types, TasksOK, Ops, Lookups, Changes
        <4> QED BY <4>1, <4>2, <2>4
      <3>3. CASE Step(t)
        BY <3>3, <2>4, Refused
      <3> QED BY <1>1, <3>1, <3>2, <3>3
    <2> QED BY <2>3, <2>4 DEF HiddenFromApp
  <1>2. CASE UNCHANGED <<task, past>>
    BY <1>2 DEF task, past, HiddenFromApp
  <1> QED BY <1>1, <1>2 DEF Next, hide, shrink_dcache, vars

-----------------------------------------------------------------------------
(* The theorems.                                                             *)

\* The inductive invariant.
Inv ==
  /\ Types /\ Len(leaked) = met.lookup
  /\ HeldInv /\ ChainInv /\ AliasInv /\ SureInv /\ HiddenFromApp

\* The invariant from which the three theorems follow.
LEMMA InvInductive == Spec => []Inv
  <1>1. Init => Inv
    <2> SUFFICES ASSUME Init PROVE Inv
      OBVIOUS
    <2>1. Types
      BY InitTypes, InitLocks DEF Types
    <2>2. Len(leaked) = met.lookup
      BY DEF Init
    <2>3. HiddenFromApp
      BY DEF Init, HiddenFromApp
    <2> QED BY <2>1, <2>2, <2>3, InitChain DEF Inv
  <1>2. Inv /\ [Next]_vars => Inv'
    <2> SUFFICES ASSUME Inv, [Next]_vars PROVE Inv'
      OBVIOUS
    <2>1. Types' 
      BY NextDisk, NextDcache, NextTasks, NextPast, NextLocks DEF Inv, Types
    <2>2. Len(leaked') = met'.lookup
      BY NextRefs DEF Inv, Types
    <2>3. HeldInv'
      BY NextHeld DEF Inv
    <2>4. ChainInv' /\ AliasInv'
      BY NextChain DEF Inv
    <2>5. SureInv'
      BY NextSure DEF Inv
    <2>6. HiddenFromApp'
      BY NextHidden DEF Inv
    <2> QED BY <2>1, <2>2, <2>3, <2>4, <2>5, <2>6 DEF Inv
  <1> QED BY <1>1, <1>2, PTL DEF Spec

\* The invariant has the soundness of the locks.
LEMMA LocksSoundLocal == Inv => LocksSound
  <1> SUFFICES ASSUME Inv PROVE LocksSound
    OBVIOUS
  <1>1. /\ \A l \in Locks : owner[l] # None =>
             shared[l] = 0 /\ LockOf(op[owner[l]]) = l /\ pc[owner[l]] \in {"lookup", "looked", "remount"}
        /\ LeftBehind
    BY LocksLeft DEF Inv, Types
  <1>2. DiskOK /\ DcacheOK /\ TasksOK /\ PastOK /\ LocksOK
    BY DEF Inv, Types
  <1>3. TypeOK
    BY <1>1, <1>2 DEF TypeOK, DiskOK, DcacheOK, Once, TasksOK, Steps, Answers, PastOK, LocksOK
  <1> QED BY <1>1, <1>3 DEF LocksSound

\* The invariant has the agreement of the chain with the directory.
LEMMA OthersUnaffectedLocal == Inv => OthersUnaffected
  <1> SUFFICES ASSUME Inv, cached # <<>>, ~undead PROVE d_inode[Head(cached)] = file
    BY DEF OthersUnaffected
  <1>1. cached \in Seq(Dentries)
    BY DEF Inv, Types, DcacheOK
  <1>2. 1 \in DOMAIN cached /\ Head(cached) = cached[1]
    BY <1>1
  <1>3. Head(cached) \in Chain
    BY <1>2 DEF Chain, ToSet
  <1> QED BY <1>3 DEF Inv, AliasInv

\* At every moment the directory's and the superblock's lock are held by those who
\* are at the steps under them and by the early returns that forgot them, and
\* between operations by the early returns alone; for any number of apps and of
\* other tasks, and however often apps meet what is hidden.
THEOREM LocksSoundCorrect == Spec => []LocksSound
  BY InvInductive, LocksSoundLocal, PTL

\* An app to which the name was hidden all through its operation is told that it
\* does not exist, or that there is no memory, by every operation but an open that
\* must create the file.
THEOREM HiddenFromAppCorrect == Spec => []HiddenFromApp
  <1>1. Inv => HiddenFromApp
    BY DEF Inv
  <1> QED BY <1>1, InvInductive, PTL

\* The dentry that tasks other than apps find first is that of what the directory
\* has, until a file that an app has looked up while it was hidden is unlinked.
THEOREM OthersUnaffectedCorrect == Spec => []OthersUnaffected
  BY InvInductive, OthersUnaffectedLocal, PTL
=================================================================================
