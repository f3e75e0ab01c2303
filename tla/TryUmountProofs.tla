---------------------------- MODULE TryUmountProofs ----------------------------
(***************************************************************************)
(* Theorems about TryUmount.                                                *)
(*                                                                         *)
(* DuplicatesBounded is inductive together with ListsOK: as long as a path  *)
(* has no entry, the callers that have found it missing are tools or the    *)
(* mounter that holds namespace_sem; as soon as it has one, no caller joins *)
(* them any more, and each of them turns into at most one entry.            *)
(*                                                                         *)
(* HiddenFromApp follows from HiddenInv: every bind mount in the mounters'  *)
(* namespace has an entry or a mounter that is still in its hook, so that   *)
(* a copy, which waits for the hook, has an entry for each mount it must    *)
(* lose; a walk that has not tried a path yet has that path's entry before  *)
(* it; and an attempt that finds the mount either takes it away or excuses  *)
(* it.                                                                      *)
(***************************************************************************)
EXTENDS TryUmount, FiniteSetTheorems, WellFoundedInduction, TLAPS

listVars == <<LH_TRY_UMOUNT_PATH, pc, info, namespace_sem>>

Inv == ListsOK /\ DuplicatesBounded

\* The steps of apps and of the rest of the kernel leave the list alone.
LEMMA OtherSteps ==
  ASSUME \/ \E p \in Paths : umount(p)
         \/ \E a \in Apps : copy_mnt_ns(a) \/ susfs_try_umount(a)
         \/ UNCHANGED vars
  PROVE  UNCHANGED listVars
  BY DEF umount, copy_mnt_ns, susfs_try_umount, start_walk, visit, end_walk,
         lists, apps, mnts, vars, listVars

\* A list has finitely many entries for a path.
LEMMA EntriesFinite ==
  ASSUME ListsOK, NEW p
  PROVE  IsFiniteSet(Entries(p))
  <1>1. LH_TRY_UMOUNT_PATH \in Seq(Infos) /\ Len(LH_TRY_UMOUNT_PATH) \in Nat
    BY DEF ListsOK
  <1>2. DOMAIN LH_TRY_UMOUNT_PATH = 1..Len(LH_TRY_UMOUNT_PATH)
    BY <1>1
  <1>3. IsFiniteSet(1..Len(LH_TRY_UMOUNT_PATH))
    BY <1>1, FS_Interval
  <1>4. Entries(p) \subseteq 1..Len(LH_TRY_UMOUNT_PATH)
    BY <1>2 DEF Entries
  <1> QED BY <1>3, <1>4, FS_Subset

\* The tools and one more task.
LEMMA ToolsAndOne ==
  ASSUME NEW x
  PROVE  /\ IsFiniteSet(Tools \cup {x}) /\ Cardinality(Tools) \in Nat
         /\ Cardinality(Tools \cup {x}) <= Cardinality(Tools) + 1
  <1>1. IsFiniteSet(Tools)
    BY TasksAssumption
  <1>2. Cardinality(Tools) \in Nat
    BY <1>1, FS_CardinalityType
  <1>3. /\ IsFiniteSet(Tools \cup {x})
        /\ Cardinality(Tools \cup {x}) = IF x \in Tools THEN Cardinality(Tools) ELSE Cardinality(Tools) + 1
    BY <1>1, FS_AddElement
  <1> QED BY <1>2, <1>3

\* Only the tools and one mounter can be about to add a path.
LEMMA AddersBounded ==
  ASSUME ListsOK, NEW p
  PROVE  /\ IsFiniteSet(Adders(p))
         /\ Cardinality(Adders(p)) <= Cardinality(Tools) + 1
  <1> DEFINE S == Tools \cup {namespace_sem}
  <1>1. Adders(p) \subseteq S
    BY DEF Adders, Callers, ListsOK
  <1>2. IsFiniteSet(S) /\ Cardinality(S) <= Cardinality(Tools) + 1 /\ Cardinality(Tools) \in Nat
    BY ToolsAndOne
  <1>3. Cardinality(S) \in Nat
    BY <1>2, FS_CardinalityType
  <1> HIDE DEF S
  <1>4. IsFiniteSet(Adders(p)) /\ Cardinality(Adders(p)) <= Cardinality(S)
    BY <1>1, <1>2, FS_Subset
  <1>5. Cardinality(Adders(p)) \in Nat
    BY <1>4, FS_CardinalityType
  <1> QED BY <1>2, <1>3, <1>4, <1>5

\* The empty list satisfies the invariant.
LEMMA InitInv == Init => Inv
  <1> SUFFICES ASSUME Init PROVE Inv
    OBVIOUS
  <1>1. ListsOK
    BY TasksAssumption DEF Init, ListsOK, Callers
  <1>2. ASSUME NEW p \in Paths PROVE Entries(p) = {} /\ Adders(p) = {}
    BY DEF Init, Entries, Adders
  <1>3. DuplicatesBounded
    <2>1. Cardinality(Tools) \in Nat
      BY TasksAssumption, FS_CardinalityType
    <2>2. \A p \in Paths : Cardinality(Entries(p)) = 0 /\ Cardinality(Adders(p)) = 0
      BY <1>2, FS_EmptySet
    <2> QED BY <2>1, <2>2 DEF DuplicatesBounded
  <1> QED BY <1>1, <1>3 DEF Inv

\* A caller leaves the kernel, or a mounter that holds namespace_sem does.
LEMMA ReturnLists ==
  ASSUME ListsOK, NEW t \in Callers, Return(t), pc[t] # "idle",
         LH_TRY_UMOUNT_PATH' \in Seq(Infos)
  PROVE  ListsOK'
  <1>1. DOMAIN info' = Callers /\ pc' \in [Callers -> {"idle", "search", "append", "link"}]
    BY DEF Return, ListsOK
  <1>2. \A u \in Callers : IF pc'[u] = "idle" THEN info'[u] = NoInfo ELSE info'[u] \in Infos
    BY DEF Return, ListsOK
  <1>3. ASSUME NEW u \in Mounters PROVE namespace_sem' = u <=> pc'[u] # "idle"
    BY TasksAssumption DEF Return, ListsOK, Callers
  <1> QED BY <1>1, <1>2, <1>3 DEF ListsOK

\* Every step keeps the list and its callers well formed.
LEMMA NextLists == ListsOK /\ [Next]_vars => ListsOK'
  <1> SUFFICES ASSUME ListsOK, [Next]_vars PROVE ListsOK'
    OBVIOUS
  <1>1. ASSUME NEW t \in Callers, Call(t) PROVE ListsOK'
    <2>1. t \in Tools /\ t \notin Mounters
      BY <1>1, TasksAssumption DEF Call
    <2>2. PICK r \in Requests : info' = [info EXCEPT ![t] = r]
      BY <1>1 DEF Call
    <2>3. r \in Infos
      BY DEF Infos
    <2> QED BY <1>1, <2>1, <2>2, <2>3 DEF Call, ListsOK, mnts
  <1>2. ASSUME NEW t \in Mounters, NEW p \in Paths, do_loopback(t, p) PROVE ListsOK'
    <2>1. [path |-> p, mode |-> TRY_UMOUNT_DETACH] \in Infos
      BY DEF Infos
    <2>2. t \in Callers /\ t # NoTask
      BY TasksAssumption DEF Callers
    <2>3. \A u \in Mounters : namespace_sem' = u <=> pc'[u] # "idle"
      BY <1>2, <2>2, TasksAssumption DEF do_loopback, ListsOK, Callers
    <2> QED BY <1>2, <2>1, <2>2, <2>3 DEF do_loopback, ListsOK
  <1>3. ASSUME NEW t \in Callers, add(t) PROVE ListsOK'
    <2>1. CASE skip_sus_kstat(t) \/ kmalloc_fails(t) \/ already_created(t)
      <3>1. Return(t) /\ LH_TRY_UMOUNT_PATH' = LH_TRY_UMOUNT_PATH /\ pc[t] = "search"
        BY <2>1 DEF skip_sus_kstat, kmalloc_fails, already_created, GiveUp
      <3> QED BY <3>1, ReturnLists DEF ListsOK
    <2>2. CASE not_created(t)
      <3>1. info[t] \in Infos
        BY <2>2 DEF not_created, ListsOK
      <3> QED BY <2>2, <3>1 DEF not_created, ListsOK
    <2>4. CASE list_add_prev(t)
      <3>1. info[t] \in Infos
        BY <2>4 DEF list_add_prev, ListsOK
      <3> QED BY <2>4, <3>1 DEF list_add_prev, ListsOK
    <2>3. CASE list_add_tail(t)
      <3>1. info[t] \in Infos /\ pc[t] = "link" /\ Return(t)
        BY <2>3 DEF list_add_tail, ListsOK
      <3>2. LH_TRY_UMOUNT_PATH' \in Seq(Infos)
        BY <2>3, <3>1 DEF list_add_tail, ListsOK
      <3> QED BY <3>1, <3>2, ReturnLists
    <2> QED BY <1>3, <2>1, <2>2, <2>3, <2>4 DEF add
  <1>4. CASE UNCHANGED listVars
    BY <1>4 DEF listVars, ListsOK
  <1> QED BY <1>1, <1>2, <1>3, <1>4, OtherSteps DEF Next

\* No caller joins those that are about to add p, and the list is the same.
LEMMA SameAdders ==
  ASSUME DuplicatesBounded, LH_TRY_UMOUNT_PATH' = LH_TRY_UMOUNT_PATH,
         \A p \in Paths : Adders(p)' = Adders(p)
  PROVE  DuplicatesBounded'
  <1>1. \A p \in Paths : Entries(p)' = Entries(p)
    BY DEF Entries
  <1> QED BY <1>1 DEF DuplicatesBounded

\* Every step keeps the bound on the entries of a path.
LEMMA NextBounded == Inv /\ [Next]_vars => DuplicatesBounded'
  <1> SUFFICES ASSUME Inv, [Next]_vars PROVE DuplicatesBounded'
    OBVIOUS
  <1>t. ListsOK /\ ListsOK' /\ DuplicatesBounded
    BY NextLists DEF Inv
  <1>1. ASSUME NEW t \in Callers, Call(t) PROVE DuplicatesBounded'
    <2>1. \A p \in Paths : Adders(p)' = Adders(p)
      BY <1>1, <1>t DEF Call, Adders, ListsOK
    <2>2. LH_TRY_UMOUNT_PATH' = LH_TRY_UMOUNT_PATH
      BY <1>1 DEF Call
    <2> QED BY <2>1, <2>2, <1>t, SameAdders
  <1>2. ASSUME NEW t \in Mounters, NEW q \in Paths, do_loopback(t, q) PROVE DuplicatesBounded'
    <2>1. \A p \in Paths : Adders(p)' = Adders(p)
      BY <1>2, <1>t DEF do_loopback, Adders, ListsOK
    <2>2. LH_TRY_UMOUNT_PATH' = LH_TRY_UMOUNT_PATH
      BY <1>2 DEF do_loopback
    <2> QED BY <2>1, <2>2, <1>t, SameAdders
  <1>3. ASSUME NEW t \in Callers, skip_sus_kstat(t) \/ kmalloc_fails(t) \/ already_created(t)
        PROVE  DuplicatesBounded'
    <2>1. Return(t) /\ LH_TRY_UMOUNT_PATH' = LH_TRY_UMOUNT_PATH /\ pc[t] = "search"
      BY <1>3 DEF skip_sus_kstat, kmalloc_fails, already_created, GiveUp
    <2>2. \A p \in Paths : Adders(p)' = Adders(p)
      BY <2>1, <1>t DEF Return, Adders, ListsOK
    <2> QED BY <2>1, <2>2, <1>t, SameAdders
  <1>4. ASSUME NEW t \in Callers, not_created(t) PROVE DuplicatesBounded'
    <2> SUFFICES ASSUME NEW p \in Paths
                 PROVE  (Cardinality(Entries(p)) + Cardinality(Adders(p)) <= Cardinality(Tools) + 1)'
      BY DEF DuplicatesBounded
    <2>1. Entries(p)' = Entries(p)
      BY <1>4 DEF not_created, Entries
    <2>2. CASE p = info[t].path
      <3>1. Entries(p) = {}
        BY <1>4, <2>2 DEF not_created, IsCreated, Entries
      <3>2. Cardinality(Entries(p)') = 0
        BY <2>1, <3>1, FS_EmptySet
      <3>3. Cardinality(Adders(p)') <= Cardinality(Tools) + 1 /\ IsFiniteSet(Adders(p)')
        <4>1. \A u \in Callers : (pc'[u] \in {"append", "link"} /\ info'[u].path = p) => u \in Tools \cup {namespace_sem'}
          BY <1>t DEF ListsOK, Callers
        <4>2. Adders(p)' \subseteq Tools \cup {namespace_sem'}
          BY <4>1 DEF Adders
        <4>3. /\ IsFiniteSet(Tools \cup {namespace_sem'})
              /\ Cardinality(Tools \cup {namespace_sem'}) <= Cardinality(Tools) + 1
              /\ Cardinality(Tools) \in Nat
          BY ToolsAndOne
        <4>4. IsFiniteSet(Adders(p)') /\ Cardinality(Adders(p)') <= Cardinality(Tools \cup {namespace_sem'})
          BY <4>2, <4>3, FS_Subset
        <4>5. Cardinality(Adders(p)') \in Nat /\ Cardinality(Tools \cup {namespace_sem'}) \in Nat
          BY <4>3, <4>4, FS_CardinalityType
        <4> QED BY <4>3, <4>4, <4>5
      <3>4. Cardinality(Adders(p)') \in Nat
        BY <3>3, FS_CardinalityType
      <3> QED BY <3>2, <3>3, <3>4
    <2>3. CASE p # info[t].path
      <3>1. Adders(p)' = Adders(p)
        BY <1>4, <2>3, <1>t DEF not_created, Adders, ListsOK
      <3> QED BY <2>1, <3>1, <1>t DEF DuplicatesBounded
    <2> QED BY <2>2, <2>3
  <1>5. ASSUME NEW t \in Callers, list_add_tail(t) PROVE DuplicatesBounded'
    <2> SUFFICES ASSUME NEW p \in Paths
                 PROVE  (Cardinality(Entries(p)) + Cardinality(Adders(p)) <= Cardinality(Tools) + 1)'
      BY DEF DuplicatesBounded
    <2> DEFINE n == Len(LH_TRY_UMOUNT_PATH)
    <2>1. /\ info[t] \in Infos /\ pc[t] = "link" /\ Return(t)
          /\ LH_TRY_UMOUNT_PATH \in Seq(Infos)
          /\ LH_TRY_UMOUNT_PATH' = Append(LH_TRY_UMOUNT_PATH, info[t])
      BY <1>5, <1>t DEF list_add_tail, ListsOK
    <2>2. /\ n \in Nat /\ DOMAIN LH_TRY_UMOUNT_PATH = 1..n
          /\ DOMAIN LH_TRY_UMOUNT_PATH' = 1..(n + 1)
          /\ \A i \in 1..n : LH_TRY_UMOUNT_PATH'[i] = LH_TRY_UMOUNT_PATH[i]
          /\ LH_TRY_UMOUNT_PATH'[n + 1] = info[t]
      BY <2>1
    <2> HIDE DEF n
    <2>3. CASE p = info[t].path
      <3>1. Entries(p)' = Entries(p) \cup {n + 1} /\ n + 1 \notin Entries(p)
        BY <2>2, <2>3 DEF Entries
      <3>2. Adders(p)' = Adders(p) \ {t} /\ t \in Adders(p)
        BY <2>1, <2>3, <1>t DEF Return, Adders, ListsOK
      <3>3. IsFiniteSet(Entries(p)) /\ IsFiniteSet(Adders(p))
        BY <1>t, EntriesFinite, AddersBounded
      <3>4. Cardinality(Entries(p)') = Cardinality(Entries(p)) + 1
        BY <3>1, <3>3, FS_AddElement
      <3>5. Cardinality(Adders(p)') = Cardinality(Adders(p)) - 1
        BY <3>2, <3>3, FS_RemoveElement
      <3>6. Cardinality(Entries(p)) + Cardinality(Adders(p)) <= Cardinality(Tools) + 1
        BY <1>t DEF DuplicatesBounded
      <3>7. Cardinality(Entries(p)) \in Nat /\ Cardinality(Adders(p)) \in Nat /\ Cardinality(Tools) \in Nat
        BY <3>3, TasksAssumption, FS_CardinalityType
      <3> QED BY <3>4, <3>5, <3>6, <3>7
    <2>4. CASE p # info[t].path
      <3>1. Entries(p)' = Entries(p)
        BY <2>2, <2>4 DEF Entries
      <3>2. Adders(p)' = Adders(p)
        BY <2>1, <2>4, <1>t DEF Return, Adders, ListsOK
      <3> QED BY <3>1, <3>2, <1>t DEF DuplicatesBounded
    <2> QED BY <2>3, <2>4
  <1>7. ASSUME NEW t \in Callers, list_add_prev(t) PROVE DuplicatesBounded'
    <2>1. \A p \in Paths : Adders(p)' = Adders(p)
      BY <1>7, <1>t DEF list_add_prev, Adders, ListsOK
    <2>2. LH_TRY_UMOUNT_PATH' = LH_TRY_UMOUNT_PATH
      BY <1>7 DEF list_add_prev
    <2> QED BY <2>1, <2>2, <1>t, SameAdders
  <1>6. CASE UNCHANGED listVars
    <2>1. \A p \in Paths : Adders(p)' = Adders(p)
      BY <1>6 DEF listVars, Adders
    <2> QED BY <1>6, <2>1, <1>t, SameAdders DEF listVars
  <1> QED BY <1>1, <1>2, <1>3, <1>4, <1>5, <1>6, <1>7, OtherSteps DEF Next, add

-----------------------------------------------------------------------------
(* The mounts that Detach leaves, in their order.                            *)
\* A set of natural numbers has a least element.
LEMMA LeastExists ==
  ASSUME NEW T \in SUBSET Nat, T # {}
  PROVE  \E m \in T : \A l \in T : m <= l
  <1> DEFINE R == OpToRel(<, Nat)
  <1>1. IsWellFoundedOn(R, Nat)
    BY NatLessThanWellFounded
  <1> HIDE DEF R
  <1>2. PICK m \in T : \A l \in T : ~(<<l, m>> \in R)
    BY <1>1, WFMin
  <1>3. \A l \in T : ~(l < m)
    BY <1>2 DEF R, OpToRel
  <1> QED BY <1>3

\* The positions in K up to m.
Upto(K, m) == {j \in K : j <= m}

\* They can be counted.
LEMMA UptoCounted ==
  ASSUME NEW n \in Nat, NEW K \in SUBSET (1..n), NEW m
  PROVE  /\ IsFiniteSet(K) /\ Cardinality(K) \in Nat
         /\ IsFiniteSet(Upto(K, m)) /\ Cardinality(Upto(K, m)) \in Nat
         /\ Cardinality(Upto(K, m)) <= Cardinality(K)
  <1>1. IsFiniteSet(1..n)
    BY FS_Interval
  <1>2. IsFiniteSet(K)
    BY <1>1, FS_Subset
  <1>3. Upto(K, m) \subseteq K
    BY DEF Upto
  <1>4. IsFiniteSet(Upto(K, m)) /\ Cardinality(Upto(K, m)) <= Cardinality(K)
    BY <1>2, <1>3, FS_Subset
  <1> QED BY <1>2, <1>4, FS_CardinalityType

\* Every number up to the size of K is the rank of one of its positions: of the
\* first up to which there are that many.
LEMMA NthExists ==
  ASSUME NEW n \in Nat, NEW K \in SUBSET (1..n), NEW i \in 1..Cardinality(K)
  PROVE  \E k \in K : Cardinality(Upto(K, k)) = i
  <1> DEFINE T == {m \in 0..n : i <= Cardinality(Upto(K, m))}
  <1>c. IsFiniteSet(K) /\ Cardinality(K) \in Nat
    BY UptoCounted
  <1>0. i \in Nat /\ 1 <= i /\ i <= Cardinality(K)
    BY <1>c
  <1>k. \A j \in K : j \in Int /\ 1 <= j /\ j <= n
    OBVIOUS
  <1>1. Upto(K, n) = K
    BY ONLY <1>k DEF Upto
  <1>2. n \in T
    BY <1>0, <1>1, <1>c
  <1>3. PICK m \in T : \A l \in T : m <= l
    <2>1. T \in SUBSET Nat /\ T # {}
      BY <1>2
    <2> HIDE DEF T
    <2> QED BY <2>1, LeastExists
  <1>4. m \in 0..n /\ i <= Cardinality(Upto(K, m))
    BY <1>3
  <1>5. m # 0
    <2>0. \A j \in K : ~(j <= 0)
      BY <1>k
    <2>1. Upto(K, 0) = {}
      BY ONLY <2>0 DEF Upto
    <2>2. Cardinality(Upto(K, 0)) = 0
      BY <2>1, FS_EmptySet
    <2>3. ~(i <= 0)
      BY <1>0
    <2>4. i <= Cardinality(Upto(K, m))
      BY <1>4
    <2> QED BY ONLY <2>2, <2>3, <2>4
  <1>6. m - 1 \in 0..n /\ ~(m <= m - 1)
    BY <1>4, <1>5
  <1>i. m \in Int
    BY <1>4
  <1>7. ~(i <= Cardinality(Upto(K, m - 1)))
    BY <1>3, <1>6
  <1>8. /\ IsFiniteSet(Upto(K, m - 1))
        /\ Cardinality(Upto(K, m - 1)) \in Nat /\ Cardinality(Upto(K, m)) \in Nat
    BY UptoCounted
  <1>9. CASE m \notin K
    <2>1. \A j \in K : j <= m <=> j <= m - 1
      BY <1>9, <1>k, <1>i
    <2>2. Upto(K, m) = Upto(K, m - 1)
      BY ONLY <2>1 DEF Upto
    <2> QED BY <2>2, <1>4, <1>7
  <1>10. CASE m \in K
    <2>0. \A j \in K : j <= m <=> (j <= m - 1 \/ j = m)
      BY <1>k, <1>i
    <2>1. Upto(K, m) = Upto(K, m - 1) \cup {m} /\ m \notin Upto(K, m - 1)
      BY ONLY <1>10, <2>0, <1>6 DEF Upto
    <2>2. Cardinality(Upto(K, m)) = Cardinality(Upto(K, m - 1)) + 1
      BY <2>1, <1>8, FS_AddElement
    <2>3. Cardinality(Upto(K, m)) = i
      BY <2>2, <1>0, <1>4, <1>7, <1>8
    <2> QED BY <1>10, <2>3
  <1> QED BY <1>9, <1>10

\* So Nth chooses it, ...
LEMMA NthCounts ==
  ASSUME NEW n \in Nat, NEW K \in SUBSET (1..n), NEW i \in 1..Cardinality(K)
  PROVE  Nth(K, i) \in K /\ Cardinality(Upto(K, Nth(K, i))) = i
  <1>1. \E k \in K : Cardinality(Upto(K, k)) = i
    BY NthExists
  <1>2. Nth(K, i) = CHOOSE k \in K : Cardinality(Upto(K, k)) = i
    BY DEF Nth, Upto
  <1> QED BY <1>1, <1>2

\* ... and a higher rank is a later position.
LEMMA NthIncreases ==
  ASSUME NEW n \in Nat, NEW K \in SUBSET (1..n),
         NEW i \in 1..Cardinality(K), NEW j \in 1..Cardinality(K), i < j
  PROVE  Nth(K, i) < Nth(K, j)
  <1> DEFINE a == Nth(K, i)
             b == Nth(K, j)
  <1>1. a \in K /\ Cardinality(Upto(K, a)) = i
    BY NthCounts
  <1>2. b \in K /\ Cardinality(Upto(K, b)) = j
    BY NthCounts
  <1>4. Cardinality(K) \in Nat
    BY UptoCounted
  <1> HIDE DEF a, b
  <1>3. SUFFICES a < b
    BY DEF a, b
  <1>5. a \in Int /\ b \in Int /\ i \in Int /\ j \in Int
    BY <1>1, <1>2, <1>4
  <1>6. ASSUME b <= a PROVE FALSE
    <2>0. \A l \in K : l <= b => l <= a
      BY <1>6, <1>5
    <2>1. Upto(K, b) \subseteq Upto(K, a)
      BY ONLY <2>0 DEF Upto
    <2>2. IsFiniteSet(Upto(K, a))
      BY UptoCounted
    <2>3. Cardinality(Upto(K, b)) <= Cardinality(Upto(K, a))
      BY <2>1, <2>2, FS_Subset
    <2> QED BY <2>3, <1>1, <1>2, <1>5
  <1> QED BY <1>5, <1>6

\* What is detached leaves the other mounts in their order.
LEMMA DetachEmbeds ==
  ASSUME NEW M, NEW s \in Seq(M), NEW k \in DOMAIN s
  PROVE  /\ Detach(s, k) \in Seq(M)
         /\ \E e \in [DOMAIN Detach(s, k) -> DOMAIN s] :
              \A i \in DOMAIN Detach(s, k) :
                /\ e[i] # k /\ Detach(s, k)[i] = s[e[i]]
                /\ \A j \in DOMAIN Detach(s, k) : i < j => e[i] < e[j]
  <1> DEFINE n == Len(s)
             K == {i \in DOMAIN s : i # k /\ ~Descendant(s, k, i)}
             d == Kept(s, K)
             D == 1..Cardinality(K)
             e == [i \in D |-> Nth(K, i)]
  <1>1. n \in Nat /\ DOMAIN s = 1..n /\ K \in SUBSET (1..n) /\ k \notin K
    BY DEF Descendant
  <1>2. d = Detach(s, k)
    BY DEF Detach
  <1> HIDE DEF n, K
  <1>3. Cardinality(K) \in Nat
    BY <1>1, UptoCounted
  <1>4. \A i \in D : Nth(K, i) \in K
    BY <1>1, NthCounts
  <1>5. \A i, j \in D : i < j => Nth(K, i) < Nth(K, j)
    BY <1>1, NthIncreases
  <1>6. d = [i \in D |-> s[Nth(K, i)]]
    BY DEF Kept
  <1>7. \A i \in DOMAIN s : s[i] \in M
    BY <1>1
  <1>m. \A i \in D : s[Nth(K, i)] \in M
    BY <1>1, <1>4, <1>7
  <1>8. d \in Seq(M) /\ DOMAIN d = D
    BY ONLY <1>3, <1>6, <1>m
  <1> HIDE DEF d
  <1>9. e \in [D -> DOMAIN s] /\ \A i \in D : e[i] = Nth(K, i)
    BY <1>1, <1>4
  <1>10. \A i \in D : e[i] # k /\ d[i] = s[e[i]]
    BY <1>1, <1>4, <1>6, <1>9
  <1>11. \A i, j \in D : i < j => e[i] < e[j]
    BY <1>5, <1>9
  <1> HIDE DEF e, D
  <1> QED BY <1>2, <1>8, <1>9, <1>10, <1>11
\* The same of a sequence d that is known to be what Detach leaves.
LEMMA Detached ==
  ASSUME NEW M, NEW s \in Seq(M), NEW k \in DOMAIN s, NEW d, d = Detach(s, k)
  PROVE  \E e \in [DOMAIN d -> DOMAIN s] :
           \A i \in DOMAIN d : e[i] # k /\ d[i] = s[e[i]] /\ \A j \in DOMAIN d : i < j => e[i] < e[j]
  <1>1. PICK e \in [DOMAIN Detach(s, k) -> DOMAIN s] :
          \A i \in DOMAIN Detach(s, k) :
                /\ e[i] # k /\ Detach(s, k)[i] = s[e[i]]
                /\ \A j \in DOMAIN Detach(s, k) : i < j => e[i] < e[j]
    BY DetachEmbeds
  <1> QED BY <1>1

-----------------------------------------------------------------------------
(* The list as a walk meets it.                                             *)
\* susfs_spin_lock: one caller at a time links its entry.
OneLink == \A t, u \in Callers : pc[t] = "link" /\ pc[u] = "link" => t = u

\* The sequence of no element and of one.
LEMMA NoneAsSeq == SetToSeq({}) = <<>>
  <1>1. Cardinality({}) = 0
    BY FS_EmptySet
  <1>2. \A f \in [1..0 -> {}] : f = <<>>
    OBVIOUS
  <1>3. <<>> \in [1..0 -> {}] /\ IsInjective(<<>>)
    BY DEF IsInjective
  <1>4. SetToSeq({}) = CHOOSE f \in [1..0 -> {}] : IsInjective(f)
    BY <1>1 DEF SetToSeq
  <1> QED BY <1>2, <1>3, <1>4

\* See NoneAsSeq.
LEMMA OneAsSeq == ASSUME NEW x PROVE SetToSeq({x}) = <<x>>
  <1>1. Cardinality({x}) = 1
    BY FS_Singleton
  <1>2. \A f \in [1..1 -> {x}] : f = <<x>>
    OBVIOUS
  <1>3. <<x>> \in [1..1 -> {x}] /\ IsInjective(<<x>>)
    BY DEF IsInjective
  <1>4. SetToSeq({x}) = CHOOSE f \in [1..1 -> {x}] : IsInjective(f)
    BY <1>1 DEF SetToSeq
  <1> QED BY <1>2, <1>3, <1>4

\* As long as no entry is being linked, the tail leads to the list itself.
LEMMA BackwardNone ==
  ASSUME ListsOK, \A t \in Callers : pc[t] # "link"
  PROVE  Backward = LH_TRY_UMOUNT_PATH
  <1>1. {info[t] : t \in {u \in Callers : pc[u] = "link"}} = {}
    OBVIOUS
  <1>2. Backward = LH_TRY_UMOUNT_PATH \o <<>>
    BY <1>1, NoneAsSeq DEF Backward
  <1>3. LH_TRY_UMOUNT_PATH \in Seq(Infos)
    BY DEF ListsOK
  <1> QED BY <1>2, <1>3

\* While one is, it is the first that a walk from the tail meets.
LEMMA BackwardOne ==
  ASSUME ListsOK, OneLink, NEW t \in Callers, pc[t] = "link"
  PROVE  Backward = Append(LH_TRY_UMOUNT_PATH, info[t]) /\ info[t] \in Infos
  <1>0. {u \in Callers : pc[u] = "link"} = {t}
    BY DEF OneLink
  <1>1. {info[r] : r \in {u \in Callers : pc[u] = "link"}} = {info[t]}
    BY <1>0
  <1>2. Backward = LH_TRY_UMOUNT_PATH \o <<info[t]>>
    BY <1>1, OneAsSeq DEF Backward
  <1>3. LH_TRY_UMOUNT_PATH \in Seq(Infos) /\ info[t] \in Infos
    BY DEF ListsOK
  <1> QED BY <1>2, <1>3

\* Backward extends the list.
LEMMA BackwardExtends ==
  ASSUME ListsOK, OneLink
  PROVE  /\ Backward \in Seq(Infos) /\ Len(LH_TRY_UMOUNT_PATH) <= Len(Backward)
         /\ \A i \in DOMAIN LH_TRY_UMOUNT_PATH : Backward[i] = LH_TRY_UMOUNT_PATH[i]
  <1>0. LH_TRY_UMOUNT_PATH \in Seq(Infos)
    BY DEF ListsOK
  <1>1. CASE \A t \in Callers : pc[t] # "link"
    BY <1>0, <1>1, BackwardNone
  <1>2. ASSUME NEW t \in Callers, pc[t] = "link"
        PROVE  /\ Backward \in Seq(Infos) /\ Len(LH_TRY_UMOUNT_PATH) <= Len(Backward)
               /\ \A i \in DOMAIN LH_TRY_UMOUNT_PATH : Backward[i] = LH_TRY_UMOUNT_PATH[i]
    <2>1. Backward = Append(LH_TRY_UMOUNT_PATH, info[t]) /\ info[t] \in Infos
      BY <1>2, BackwardOne
    <2> QED BY <1>0, <2>1
  <1> QED BY <1>1, <1>2

\* The critical sections exclude each other.
LEMMA NextOneLink == ListsOK /\ OneLink /\ [Next]_vars => OneLink'
  <1> SUFFICES ASSUME ListsOK, OneLink, [Next]_vars PROVE OneLink'
    OBVIOUS
  <1>p. pc \in [Callers -> {"idle", "search", "append", "link"}]
    BY DEF ListsOK
  <1>1. ASSUME NEW t \in Callers, Call(t) PROVE OneLink'
    BY <1>1, <1>p DEF Call, OneLink
  <1>2. ASSUME NEW t \in Mounters, NEW p \in Paths, do_loopback(t, p) PROVE OneLink'
    BY <1>2, <1>p DEF do_loopback, OneLink
  <1>3. ASSUME NEW t \in Callers, Return(t) PROVE OneLink'
    BY <1>3, <1>p DEF Return, OneLink
  <1>4. ASSUME NEW t \in Callers, not_created(t) PROVE OneLink'
    BY <1>4, <1>p DEF not_created, OneLink
  <1>5. ASSUME NEW t \in Callers, list_add_prev(t) PROVE OneLink'
    BY <1>5, <1>p DEF list_add_prev, OneLink
  <1>6. CASE UNCHANGED listVars
    BY <1>6 DEF listVars, OneLink
  <1>7. ASSUME NEW t \in Callers, add(t) PROVE OneLink'
    BY <1>7, <1>3, <1>4, <1>5 DEF add, skip_sus_kstat, kmalloc_fails, already_created, list_add_tail, GiveUp
  <1> QED BY <1>1, <1>2, <1>6, <1>7, OtherSteps DEF Next

\* Who is not linking an entry does not matter to a walk.
LEMMA BackwardSame ==
  ASSUME \A t \in Callers : (pc'[t] = "link" <=> pc[t] = "link") /\ (pc[t] = "link" => info'[t] = info[t]),
         LH_TRY_UMOUNT_PATH' = LH_TRY_UMOUNT_PATH
  PROVE  Backward' = Backward
  <1>1. {info'[t] : t \in {u \in Callers : pc'[u] = "link"}} = {info[t] : t \in {u \in Callers : pc[u] = "link"}}
    OBVIOUS
  <1> QED BY <1>1 DEF Backward

\* BackwardExtends, BackwardNone and BackwardOne, for the state after a step.
LEMMA BackwardSeq == ListsOK /\ OneLink => Backward \in Seq(Infos)
  BY BackwardExtends

\* See BackwardSeq.
LEMMA BackwardSeqNext == (ListsOK /\ OneLink => Backward \in Seq(Infos))'
  BY BackwardSeq, PTL

\* See BackwardNone.
LEMMA BackwardNoneNext ==
  (ListsOK /\ (\A t \in Callers : pc[t] # "link") => Backward = LH_TRY_UMOUNT_PATH)'
  <1>1. ListsOK /\ (\A t \in Callers : pc[t] # "link") => Backward = LH_TRY_UMOUNT_PATH
    BY BackwardNone
  <1> QED BY <1>1, PTL

\* See BackwardOne.
LEMMA BackwardOneNext ==
  ASSUME NEW t \in Callers
  PROVE  (ListsOK /\ OneLink /\ pc[t] = "link" => Backward = Append(LH_TRY_UMOUNT_PATH, info[t]))'
  <1>1. ListsOK /\ OneLink /\ pc[t] = "link" => Backward = Append(LH_TRY_UMOUNT_PATH, info[t])
    BY BackwardOne
  <1> QED BY <1>1, PTL

\* The list as it is from the tail never shrinks.
LEMMA BackwardGrows ==
  ASSUME ListsOK, OneLink, [Next]_vars
  PROVE  Len(Backward) \in Nat /\ Len(Backward') \in Nat /\ Len(Backward) <= Len(Backward')
  <1>0. ListsOK' /\ OneLink'
    BY NextLists, NextOneLink
  <1>n. Len(Backward) \in Nat /\ Len(Backward') \in Nat
    <2>1. Backward \in Seq(Infos) /\ Backward' \in Seq(Infos)
      BY <1>0, BackwardSeq, BackwardSeqNext
    <2> QED BY <2>1
  <1>p. /\ pc \in [Callers -> {"idle", "search", "append", "link"}] /\ DOMAIN info = Callers
        /\ LH_TRY_UMOUNT_PATH \in Seq(Infos)
    BY DEF ListsOK
  <1> SUFFICES Len(Backward) <= Len(Backward')
    BY <1>n
  <1>s. ASSUME Backward' = Backward PROVE Len(Backward) <= Len(Backward')
    BY <1>n, <1>s
  <1>1. ASSUME NEW t \in Callers, Call(t) PROVE Backward' = Backward
    BY <1>1, <1>p, BackwardSame DEF Call
  <1>2. ASSUME NEW t \in Mounters, NEW p \in Paths, do_loopback(t, p) PROVE Backward' = Backward
    BY <1>2, <1>p, BackwardSame DEF do_loopback
  <1>3. ASSUME NEW t \in Callers, skip_sus_kstat(t) \/ kmalloc_fails(t) \/ already_created(t)
        PROVE  Backward' = Backward
    <2>1. Return(t) /\ LH_TRY_UMOUNT_PATH' = LH_TRY_UMOUNT_PATH /\ pc[t] = "search"
      BY <1>3 DEF skip_sus_kstat, kmalloc_fails, already_created, GiveUp
    <2> QED BY <2>1, <1>p, BackwardSame DEF Return
  <1>4. ASSUME NEW t \in Callers, not_created(t) PROVE Backward' = Backward
    BY <1>4, <1>p, BackwardSame DEF not_created
  <1>5. ASSUME NEW t \in Callers, list_add_prev(t) PROVE Len(Backward) <= Len(Backward')
    <2>1. Backward = LH_TRY_UMOUNT_PATH
      BY <1>5, BackwardNone DEF list_add_prev
    <2>2. pc'[t] = "link" /\ LH_TRY_UMOUNT_PATH' = LH_TRY_UMOUNT_PATH
      BY <1>5, <1>p DEF list_add_prev
    <2>3. Backward' = Append(LH_TRY_UMOUNT_PATH, info'[t])
      BY <2>2, <1>0, BackwardOneNext
    <2> QED BY <2>1, <2>3, <1>p
  <1>6. ASSUME NEW t \in Callers, list_add_tail(t) PROVE Backward' = Backward
    <2>1. Backward = Append(LH_TRY_UMOUNT_PATH, info[t])
      BY <1>6, BackwardOne DEF list_add_tail
    <2>2. LH_TRY_UMOUNT_PATH' = Append(LH_TRY_UMOUNT_PATH, info[t])
      BY <1>6 DEF list_add_tail
    <2>3. \A u \in Callers : pc'[u] # "link"
      BY <1>6, <1>p DEF list_add_tail, Return, OneLink
    <2>4. Backward' = LH_TRY_UMOUNT_PATH'
      BY <2>3, <1>0, BackwardNoneNext
    <2> QED BY <2>1, <2>2, <2>4
  <1>7. CASE UNCHANGED listVars
    BY <1>7, <1>s, BackwardSame DEF listVars
  <1> QED BY <1>s, <1>1, <1>2, <1>3, <1>4, <1>5, <1>6, <1>7, OtherSteps DEF Next, add

\* A bind mount of a KernelSU process.
Clone(p) == Mount(p, TRUE)

\* A mount of a namespace.
MountRec == [at : Paths, ksu : BOOLEAN]

\* Append, a function on an interval and an element, by their types.
LEMMA AppendSeq ==
  ASSUME NEW M, NEW s \in Seq(M), NEW x \in M
  PROVE  /\ Append(s, x) \in Seq(M) /\ DOMAIN s = 1..Len(s) /\ Len(s) \in Nat
         /\ DOMAIN Append(s, x) = 1..(Len(s) + 1)
         /\ \A i \in 1..Len(s) : Append(s, x)[i] = s[i]
         /\ Append(s, x)[Len(s) + 1] = x
  OBVIOUS

\* See AppendSeq.
LEMMA FunctionSeq ==
  ASSUME NEW M, NEW n \in Nat, NEW f \in [1..n -> M]
  PROVE  f \in Seq(M)
  OBVIOUS

\* See AppendSeq.
LEMMA SeqElement ==
  ASSUME NEW M, NEW s \in Seq(M), NEW i \in DOMAIN s
  PROVE  s[i] \in M
  OBVIOUS

\* At boot no app has been forked.
LEMMA InitApps == Init => OneLink /\ AppsOK
  <1> SUFFICES ASSUME Init PROVE OneLink /\ AppsOK
    OBVIOUS
  <1>1. OneLink
    BY DEF Init, OneLink
  <1>2. tree \in [{InitNs} \cup Apps -> Seq(MountRec)]
    <2> DEFINE boot == [k \in DOMAIN LegitMounts |-> Mount(LegitMounts[k], FALSE)]
    <2>1. LegitMounts \in Seq(Paths)
      BY PathsAssumption
    <2>2. Len(LegitMounts) \in Nat /\ DOMAIN LegitMounts = 1..Len(LegitMounts)
      BY <2>1
    <2>3. \A k \in DOMAIN LegitMounts : Mount(LegitMounts[k], FALSE) \in MountRec
      BY <2>1 DEF Mount, MountRec
    <2>7. boot \in [1..Len(LegitMounts) -> MountRec]
      BY ONLY <2>2, <2>3
    <2>4. boot \in Seq(MountRec)
      BY <2>2, <2>7, FunctionSeq
    <2> HIDE DEF boot
    <2>5. <<>> \in Seq(MountRec)
      OBVIOUS
    <2>6. tree = [n \in {InitNs} \cup Apps |-> IF n = InitNs THEN boot ELSE <<>>]
      BY DEF Init, boot
    <2> QED BY <2>4, <2>5, <2>6
  <1>3. DOMAIN cursor = Apps /\ \A a \in Apps : cursor[a] = 0
    BY DEF Init
  <1>4. Len(Backward) \in Nat
    <2>1. ListsOK
      BY InitInv DEF Inv
    <2>2. Backward \in Seq(Infos)
      BY <2>1, <1>1, BackwardSeq
    <2> QED BY <2>2
  <1>5. \A a \in Apps : cursor[a] \in 0..Len(Backward)
    BY <1>3, <1>4
  <1>6. /\ walk \in [Apps -> {"unborn", "copied", "walking", "done"}]
        /\ skipped \subseteq Paths
        /\ excused \in [Apps -> SUBSET Paths] /\ tried \in [Apps -> SUBSET Paths]
    BY DEF Init
  <1> QED BY <1>1, <1>2, <1>3, <1>5, <1>6 DEF AppsOK, MountRec

\* graft_tree appends to the trees of some namespaces and excuses the apps'.
LEMMA GraftTypes ==
  ASSUME AppsOK, NEW p \in Paths, graft_tree(p)
  PROVE  /\ tree' \in [{InitNs} \cup Apps -> Seq(MountRec)]
         /\ excused' \in [Apps -> SUBSET Paths] /\ tried' \in [Apps -> SUBSET Paths]
  <1>1. PICK into \in SUBSET Apps :
          /\ tree' = [n \in DOMAIN tree |->
                IF n = InitNs \/ n \in into THEN Append(tree[n], Clone(p)) ELSE tree[n]]
          /\ excused' = [a \in Apps |->
                   IF a \in into THEN excused[a] \cup {q \in Paths : p \in Over[q] \/ q \in Over[p]}
                   ELSE excused[a]]
    BY DEF graft_tree, Clone
  <1>2. Clone(p) \in MountRec
    BY DEF Clone, Mount, MountRec
  <1>3. tree \in [{InitNs} \cup Apps -> Seq(MountRec)]
    BY DEF AppsOK, MountRec
  <1>4. ASSUME NEW n \in {InitNs} \cup Apps
        PROVE  tree[n] \in Seq(MountRec) /\ Append(tree[n], Clone(p)) \in Seq(MountRec)
    <2>1. tree[n] \in Seq(MountRec)
      BY <1>3
    <2> QED BY <2>1, <1>2, AppendSeq
  <1>5. tree' \in [{InitNs} \cup Apps -> Seq(MountRec)]
    BY <1>1, <1>3, <1>4
  <1>6. excused' \in [Apps -> SUBSET Paths]
    BY <1>1 DEF AppsOK
  <1>7. tried' \in [Apps -> SUBSET Paths]
    BY DEF graft_tree, AppsOK
  <1> QED BY <1>5, <1>6, <1>7

\* What is on top at a path, and what is left when it is detached.
LEMMA UmountTypes ==
  ASSUME ListsOK, OneLink, AppsOK, NEW a \in Apps, NEW p \in Paths, NEW detach \in BOOLEAN,
         ksu_try_umount(a, p, detach)
  PROVE  /\ tree' \in [{InitNs} \cup Apps -> Seq(MountRec)]
         /\ excused' \in [Apps -> SUBSET Paths]
  <1>1. tree \in [{InitNs} \cup Apps -> Seq(MountRec)] /\ a \in {InitNs} \cup Apps
    BY DEF AppsOK, MountRec
  <1>2. ASSUME NEW k \in DOMAIN tree[a] PROVE Detach(tree[a], k) \in Seq(MountRec)
    BY <1>1, DetachEmbeds
  <1>3. excused \in [Apps -> SUBSET Paths]
    BY DEF AppsOK
  <1>4. CASE UNCHANGED <<tree, excused>>
    BY <1>1, <1>3, <1>4
  <1>5. ASSUME NEW k \in DOMAIN tree[a], tree' = [tree EXCEPT ![a] = Detach(@, k)], UNCHANGED excused
        PROVE  tree' \in [{InitNs} \cup Apps -> Seq(MountRec)] /\ excused' \in [Apps -> SUBSET Paths]
    BY <1>1, <1>2, <1>3, <1>5
  <1>6. ASSUME excused' = [excused EXCEPT ![a] = @ \cup {p}], UNCHANGED tree
        PROVE  tree' \in [{InitNs} \cup Apps -> Seq(MountRec)] /\ excused' \in [Apps -> SUBSET Paths]
    BY <1>1, <1>3, <1>6
  <1>7. \/ UNCHANGED <<tree, excused>>
        \/ \E k \in DOMAIN tree[a] : tree' = [tree EXCEPT ![a] = Detach(@, k)] /\ UNCHANGED excused
        \/ UNCHANGED tree /\ excused' = [excused EXCEPT ![a] = @ \cup {p}]
        \/ UNCHANGED tree /\ excused' = [excused EXCEPT ![a] = @]
    BY DEF ksu_try_umount
  <1> QED BY <1>1, <1>3, <1>4, <1>5, <1>6, <1>7

\* The entry that a walk is at.
LEMMA VisitedOK ==
  ASSUME ListsOK, OneLink, AppsOK, NEW a \in Apps, visit(a)
  PROVE  /\ cursor[a] \in 1..Len(Backward) /\ Len(Backward) \in Nat /\ Len(LH_TRY_UMOUNT_PATH) \in Nat
         /\ Visited(a) \in Infos /\ Visited(a).path \in Paths
         /\ cursor[a] \in DOMAIN LH_TRY_UMOUNT_PATH => Visited(a) = LH_TRY_UMOUNT_PATH[cursor[a]]
  <1>1. Backward \in Seq(Infos) /\ LH_TRY_UMOUNT_PATH \in Seq(Infos)
    BY BackwardSeq DEF ListsOK
  <1>2. cursor[a] \in 1..Len(Backward) /\ DOMAIN Backward = 1..Len(Backward)
    BY <1>1 DEF visit, AppsOK
  <1>3. Visited(a) \in Infos
    BY <1>1, <1>2 DEF Visited
  <1>4. Visited(a).path \in Paths
    BY <1>3, PathsAssumption DEF Infos
  <1>5. cursor[a] \in DOMAIN LH_TRY_UMOUNT_PATH => Visited(a) = LH_TRY_UMOUNT_PATH[cursor[a]]
    BY BackwardExtends DEF Visited
  <1> QED BY <1>1, <1>2, <1>3, <1>4, <1>5

\* An umount keeps the types, and a walk goes back or stays where it is.
LEMMA VisitTypes ==
  ASSUME ListsOK, OneLink, AppsOK, NEW a \in Apps, visit(a)
  PROVE  /\ tree' \in [{InitNs} \cup Apps -> Seq(MountRec)]
         /\ excused' \in [Apps -> SUBSET Paths] /\ tried' \in [Apps -> SUBSET Paths]
         /\ DOMAIN cursor' = Apps /\ \A b \in Apps : cursor'[b] \in 0..cursor[b]
  <1>4. Visited(a).path \in Paths /\ (Visited(a).mode = TRY_UMOUNT_DETACH) \in BOOLEAN
    BY VisitedOK
  <1>5. /\ tree \in [{InitNs} \cup Apps -> Seq(MountRec)]
        /\ excused \in [Apps -> SUBSET Paths] /\ tried \in [Apps -> SUBSET Paths]
    BY DEF AppsOK, MountRec
  <1>6. \/ /\ ksu_try_umount(a, Visited(a).path, Visited(a).mode = TRY_UMOUNT_DETACH)
           /\ tried' = [tried EXCEPT ![a] = @ \cup {Visited(a).path}]
        \/ UNCHANGED mnts
    BY DEF visit
  <1>7. tree' \in [{InitNs} \cup Apps -> Seq(MountRec)] /\ excused' \in [Apps -> SUBSET Paths]
    BY <1>4, <1>5, <1>6, UmountTypes DEF mnts
  <1>8. tried' \in [Apps -> SUBSET Paths]
    <2>1. tried' = tried \/ tried' = [tried EXCEPT ![a] = @ \cup {Visited(a).path}]
      BY <1>6 DEF mnts
    <2>2. tried \in [Apps -> SUBSET Paths] /\ Visited(a).path \in Paths
      BY <1>4, <1>5
    <2>3. ASSUME NEW b \in Apps PROVE tried'[b] \in SUBSET Paths
      BY <2>1, <2>2
    <2>4. DOMAIN tried' = Apps /\ tried' = [b \in Apps |-> tried'[b]]
      BY <2>1, <2>2
    <2> QED BY <2>3, <2>4
  <1>9. cursor[a] \in Nat /\ cursor[a] > 0
    <2>1. cursor[a] \in 1..Len(Backward) /\ Len(Backward) \in Nat
      BY VisitedOK
    <2> QED BY ONLY <2>1
  <1>10. Previous(a) \in 0..cursor[a]
    BY <1>9 DEF Previous
  <1>11. \A b \in Apps : cursor[b] \in 0..cursor[b]
    <2>1. Len(Backward) \in Nat
      BY VisitedOK
    <2> QED BY <2>1 DEF AppsOK
  <1>12. cursor' = [cursor EXCEPT ![a] = Previous(a)] /\ DOMAIN cursor = Apps
    BY DEF visit, AppsOK
  <1> QED BY <1>7, <1>8, <1>10, <1>11, <1>12

\* Every step keeps the apps and their namespaces well formed.
LEMMA NextApps == ListsOK /\ OneLink /\ AppsOK /\ [Next]_vars => AppsOK'
  <1> SUFFICES ASSUME ListsOK, OneLink, AppsOK, [Next]_vars PROVE AppsOK'
    OBVIOUS
  <1>1. /\ tree \in [{InitNs} \cup Apps -> Seq(MountRec)] /\ skipped \subseteq Paths
        /\ excused \in [Apps -> SUBSET Paths] /\ tried \in [Apps -> SUBSET Paths]
        /\ walk \in [Apps -> {"unborn", "copied", "walking", "done"}]
        /\ DOMAIN cursor = Apps /\ \A a \in Apps : cursor[a] \in 0..Len(Backward)
    BY DEF AppsOK, MountRec
  <1>2. Len(Backward) \in Nat /\ Len(Backward') \in Nat /\ Len(Backward) <= Len(Backward')
    BY BackwardGrows
  <1>3. ASSUME DOMAIN cursor' = Apps, \A a \in Apps : cursor'[a] \in 0..cursor[a]
        PROVE  DOMAIN cursor' = Apps /\ \A a \in Apps : cursor'[a] \in 0..Len(Backward')
    BY <1>1, <1>2, <1>3
  <1>4. ASSUME UNCHANGED apps
        PROVE  /\ walk' = walk /\ DOMAIN cursor' = Apps
               /\ \A a \in Apps : cursor'[a] \in 0..Len(Backward')
    BY <1>1, <1>2, <1>4 DEF apps
  <1>9. ASSUME UNCHANGED apps, UNCHANGED mnts, skipped' \subseteq Paths PROVE AppsOK'
    BY <1>1, <1>4, <1>9 DEF AppsOK, mnts, MountRec
  <1>10. ASSUME NEW t \in Callers, Call(t) PROVE AppsOK'
    BY <1>10, <1>9, <1>1 DEF Call
  <1>11. ASSUME NEW t \in Callers, add(t) PROVE AppsOK'
    <2>1. UNCHANGED apps /\ UNCHANGED mnts
      BY <1>11 DEF add, skip_sus_kstat, kmalloc_fails, already_created, not_created,
           list_add_prev, list_add_tail, GiveUp, Return
    <2>2. skipped' = skipped \/ (GiveUp(t) /\ pc[t] = "search")
      BY <1>11 DEF add, skip_sus_kstat, kmalloc_fails, already_created, not_created,
           list_add_prev, list_add_tail
    <2>3. ASSUME GiveUp(t), pc[t] = "search" PROVE skipped' \subseteq Paths
      <3>1. info[t].path \in Paths
        BY <2>3, PathsAssumption DEF ListsOK, Infos
      <3> QED BY <3>1, <2>3, <1>1 DEF GiveUp
    <2> QED BY <2>1, <2>2, <2>3, <1>1, <1>9
  <1>12. ASSUME NEW t \in Mounters, NEW p \in Paths, do_loopback(t, p) PROVE AppsOK'
    <2>1. /\ tree' \in [{InitNs} \cup Apps -> Seq(MountRec)]
          /\ excused' \in [Apps -> SUBSET Paths] /\ tried' \in [Apps -> SUBSET Paths]
      BY <1>12, <1>1, GraftTypes DEF do_loopback, mnts
    <2>2. skipped' = skipped /\ UNCHANGED apps
      BY <1>12 DEF do_loopback
    <2> QED BY <2>1, <2>2, <1>4, <1>1 DEF AppsOK, MountRec
  <1>13. ASSUME NEW p \in Paths, umount(p) PROVE AppsOK'
    <2>1. PICK k \in DOMAIN tree[InitNs] : tree' = [tree EXCEPT ![InitNs] = Detach(@, k)]
      BY <1>13 DEF umount
    <2>2. Detach(tree[InitNs], k) \in Seq(MountRec)
      BY <1>1, DetachEmbeds
    <2>3. tree' \in [{InitNs} \cup Apps -> Seq(MountRec)]
      BY <1>1, <2>1, <2>2
    <2>4. skipped' = skipped /\ excused' = excused /\ tried' = tried /\ UNCHANGED apps
      BY <1>13 DEF umount, lists
    <2> QED BY <2>3, <2>4, <1>4, <1>1 DEF AppsOK, MountRec
  <1>14. CASE UNCHANGED vars
    BY <1>14, <1>9, <1>1 DEF vars, lists
  <1>5. ASSUME NEW a \in Apps, copy_mnt_ns(a) PROVE AppsOK'
    <2>1. tree' \in [{InitNs} \cup Apps -> Seq(MountRec)]
      BY <1>1, <1>5 DEF copy_mnt_ns
    <2>2. excused' \in [Apps -> SUBSET Paths]
      <3>1. \A k \in DOMAIN tree[InitNs] : tree[InitNs][k].at \in Paths
        <4>1. tree[InitNs] \in Seq(MountRec)
          BY <1>1
        <4>2. \A k \in DOMAIN tree[InitNs] : tree[InitNs][k] \in MountRec
          BY <4>1, SeqElement
        <4> QED BY <4>2 DEF MountRec
      <3> QED BY <3>1, <1>1, <1>5 DEF copy_mnt_ns
    <2>3. /\ walk' \in [Apps -> {"unborn", "copied", "walking", "done"}]
          /\ skipped' = skipped /\ tried' = tried /\ cursor' = cursor
      BY <1>1, <1>5 DEF copy_mnt_ns, lists
    <2>4. \A b \in Apps : cursor'[b] \in 0..Len(Backward')
      BY <1>1, <1>2, <2>3
    <2> QED BY <2>1, <2>2, <2>3, <2>4, <1>1 DEF AppsOK, MountRec
  <1>6. ASSUME NEW a \in Apps, start_walk(a) PROVE AppsOK'
    <2>1. /\ walk' \in [Apps -> {"unborn", "copied", "walking", "done"}]
          /\ skipped' = skipped /\ tried' = tried /\ tree' = tree /\ excused' = excused
          /\ cursor' = [cursor EXCEPT ![a] = Len(Backward)]
      BY <1>1, <1>6 DEF start_walk, lists, mnts
    <2>2. DOMAIN cursor' = Apps /\ \A b \in Apps : cursor'[b] \in 0..Len(Backward')
      BY <1>1, <1>2, <2>1
    <2> QED BY <2>1, <2>2, <1>1 DEF AppsOK, MountRec
  <1>7. ASSUME NEW a \in Apps, visit(a) PROVE AppsOK'
    <2>1. skipped' = skipped /\ walk' = walk
      BY <1>7 DEF visit, lists
    <2>2. DOMAIN cursor' = Apps /\ \A b \in Apps : cursor'[b] \in 0..Len(Backward')
      BY <1>7, VisitTypes, <1>3
    <2>3. /\ tree' \in [{InitNs} \cup Apps -> Seq(MountRec)]
          /\ excused' \in [Apps -> SUBSET Paths] /\ tried' \in [Apps -> SUBSET Paths]
      BY <1>7, VisitTypes
    <2> QED BY <2>1, <2>2, <2>3, <1>1 DEF AppsOK, MountRec
  <1>8. ASSUME NEW a \in Apps, end_walk(a) PROVE AppsOK'
    <2>1. /\ walk' \in [Apps -> {"unborn", "copied", "walking", "done"}]
          /\ skipped' = skipped /\ tried' = tried /\ tree' = tree /\ excused' = excused
          /\ cursor' = cursor
      BY <1>1, <1>8 DEF end_walk, lists, mnts
    <2>2. \A b \in Apps : cursor'[b] \in 0..Len(Backward')
      BY <1>1, <1>2, <2>1
    <2> QED BY <2>1, <2>2, <1>1 DEF AppsOK, MountRec
  <1> QED
    BY <1>5, <1>6, <1>7, <1>8, <1>10, <1>11, <1>12, <1>13, <1>14 DEF Next, susfs_try_umount

-----------------------------------------------------------------------------
(* What a walk has to find, and where.                                      *)
\* p has an entry; one with a mode that no umount is tried for; one that the
\* walk of a has still to visit; a mounter that is in its hook for p.
Entered(p) == \E i \in DOMAIN LH_TRY_UMOUNT_PATH : LH_TRY_UMOUNT_PATH[i].path = p
Unsupported(p) ==
  \E i \in DOMAIN LH_TRY_UMOUNT_PATH :
    LH_TRY_UMOUNT_PATH[i].path = p /\ ~IsSupported(LH_TRY_UMOUNT_PATH[i].mode)
Ahead(a, p) ==
  \E i \in DOMAIN LH_TRY_UMOUNT_PATH :
    LH_TRY_UMOUNT_PATH[i].path = p /\ i <= cursor[a]
Registering(p) == \E t \in Mounters : pc[t] # "idle" /\ info[t].path = p

\* The list has been told of p, is being told, or has given up on it.
Known(p) == p \in skipped \/ Entered(p) \/ Registering(p)

\* Every bind mount of a KernelSU process has its path on the list or on the way.
Registered == \A k \in DOMAIN tree[InitNs] : tree[InitNs][k].ksu => Known(tree[InitNs][k].at)

\* A mount that the walk of a has to unmount.
Owed(a, k) == tree[a][k].ksu /\ tree[a][k].at \notin excused[a]

\* The walk of a comes to an entry for p, unless p has no usable one.
Found(a, p) ==
  \/ p \in skipped
  \/ walk[a] = "copied" /\ Entered(p)
  \/ walk[a] = "walking" /\ Ahead(a, p)
  \/ Unsupported(p)

\* What is so of it as long as it has not been unmounted.
Remaining(a, k) ==
  /\ tree[a][k].at \notin tried[a]
  /\ \A j \in DOMAIN tree[a] : ~Covers(tree[a], j, k)
  /\ Found(a, tree[a][k].at)

\* The app a, from before its fork to the end of its walk.
AppInv(a) ==
  /\ walk[a] = "unborn" => tree[a] = <<>>
  /\ walk[a] \in {"unborn", "copied"} => tried[a] = {}
  /\ \A k \in DOMAIN tree[a] : Owed(a, k) => Remaining(a, k)

\* The inductive part that HiddenFromApp needs.
HiddenInv == Registered /\ \A a \in Apps : AppInv(a)

\* Entries are only appended, and what was given up on stays so.
LEMMA ListGrows ==
  ASSUME ListsOK, [Next]_vars
  PROVE  /\ skipped \subseteq skipped'
         /\ \A i \in DOMAIN LH_TRY_UMOUNT_PATH :
              i \in DOMAIN LH_TRY_UMOUNT_PATH' /\ LH_TRY_UMOUNT_PATH'[i] = LH_TRY_UMOUNT_PATH[i]
  <1>0. LH_TRY_UMOUNT_PATH \in Seq(Infos)
    BY DEF ListsOK
  <1>1. CASE LH_TRY_UMOUNT_PATH' = LH_TRY_UMOUNT_PATH /\ skipped \subseteq skipped'
    BY <1>1
  <1>2. ASSUME NEW t \in Callers, list_add_tail(t)
        PROVE  /\ skipped \subseteq skipped'
               /\ \A i \in DOMAIN LH_TRY_UMOUNT_PATH :
                    i \in DOMAIN LH_TRY_UMOUNT_PATH' /\ LH_TRY_UMOUNT_PATH'[i] = LH_TRY_UMOUNT_PATH[i]
    <2>1. info[t] \in Infos
      BY <1>2 DEF list_add_tail, ListsOK
    <2>2. LH_TRY_UMOUNT_PATH' = Append(LH_TRY_UMOUNT_PATH, info[t]) /\ skipped' = skipped
      BY <1>2 DEF list_add_tail
    <2> QED BY <1>0, <2>1, <2>2, AppendSeq
  <1>3. ASSUME NEW t \in Callers, add(t), ~list_add_tail(t)
        PROVE  LH_TRY_UMOUNT_PATH' = LH_TRY_UMOUNT_PATH /\ skipped \subseteq skipped'
    BY <1>3 DEF add, skip_sus_kstat, kmalloc_fails, already_created, not_created, list_add_prev, GiveUp
  <1>4. ASSUME NEW t \in Callers, Call(t)
        PROVE  LH_TRY_UMOUNT_PATH' = LH_TRY_UMOUNT_PATH /\ skipped \subseteq skipped'
    BY <1>4 DEF Call
  <1>5. ASSUME NEW t \in Mounters, NEW p \in Paths, do_loopback(t, p)
        PROVE  LH_TRY_UMOUNT_PATH' = LH_TRY_UMOUNT_PATH /\ skipped \subseteq skipped'
    BY <1>5 DEF do_loopback
  <1>6. ASSUME \/ \E p \in Paths : umount(p)
               \/ \E a \in Apps : copy_mnt_ns(a) \/ susfs_try_umount(a)
               \/ UNCHANGED vars
        PROVE  LH_TRY_UMOUNT_PATH' = LH_TRY_UMOUNT_PATH /\ skipped \subseteq skipped'
    BY <1>6 DEF umount, copy_mnt_ns, susfs_try_umount, start_walk, visit, end_walk, lists, vars
  <1> QED BY <1>1, <1>2, <1>3, <1>4, <1>5, <1>6 DEF Next

\* So what was found stays found.
LEMMA EntriesStay ==
  ASSUME ListsOK, [Next]_vars, NEW p
  PROVE  /\ Entered(p) => Entered(p)'
         /\ Unsupported(p) => Unsupported(p)'
         /\ \A a \in Apps : cursor'[a] = cursor[a] /\ Ahead(a, p) => Ahead(a, p)'
  BY ListGrows DEF Entered, Unsupported, Ahead

\* The mounters' namespace is left alone.
LEMMA SameTree ==
  ASSUME Registered, tree'[InitNs] = tree[InitNs], \A q : Known(q) => Known(q)'
  PROVE  Registered'
  BY DEF Registered

\* Every step keeps the mounts of the mounters' namespace registered: the hook
\* takes over from the clone, and the entry from the hook.
LEMMA NextRegistered ==
  ASSUME ListsOK, AppsOK, Registered, [Next]_vars
  PROVE  Registered'
  <1>1. /\ tree \in [{InitNs} \cup Apps -> Seq(MountRec)] /\ pc \in [Callers -> {"idle", "search", "append", "link"}]
        /\ DOMAIN info = Callers /\ InitNs \notin Apps /\ Mounters \subseteq Callers
    BY TasksAssumption DEF AppsOK, MountRec, ListsOK, Callers
  <1>2. skipped \subseteq skipped' /\ \A q : Entered(q) => Entered(q)'
    BY ListGrows, EntriesStay
  <1>3. ASSUME NEW t \in Callers, Call(t) PROVE Registered'
    <2>1. t \notin Mounters
      BY <1>3, TasksAssumption DEF Call
    <2>2. \A q : Registering(q) => Registering(q)'
      BY <1>3, <1>1, <2>1 DEF Call, Registering
    <2>3. tree' = tree
      BY <1>3 DEF Call, mnts
    <2> QED BY <1>2, <2>2, <2>3, SameTree DEF Known
  <1>4. ASSUME NEW t \in Mounters, NEW p \in Paths, do_loopback(t, p) PROVE Registered'
    <2>1. \A q : Registering(q) => Registering(q)'
      BY <1>4, <1>1 DEF do_loopback, Registering
    <2>2. Registering(p)'
      BY <1>4, <1>1 DEF do_loopback, Registering
    <2>3. \A q : Known(q) => Known(q)'
      BY <1>2, <2>1 DEF Known
    <2>4. CASE UNCHANGED mnts
      BY <2>4, <2>3, SameTree DEF mnts
    <2>5. CASE graft_tree(p)
      <3>1. tree'[InitNs] = Append(tree[InitNs], Clone(p))
        BY <2>5, <1>1 DEF graft_tree, Clone
      <3>2. tree[InitNs] \in Seq(MountRec) /\ Clone(p) \in MountRec
        BY <1>1 DEF Clone, Mount, MountRec
      <3>3. /\ DOMAIN tree'[InitNs] = 1..(Len(tree[InitNs]) + 1) /\ DOMAIN tree[InitNs] = 1..Len(tree[InitNs])
            /\ \A i \in 1..Len(tree[InitNs]) : tree'[InitNs][i] = tree[InitNs][i]
            /\ tree'[InitNs][Len(tree[InitNs]) + 1] = Clone(p) /\ Len(tree[InitNs]) \in Nat
        BY ONLY <3>1, <3>2
      <3>4. Known(p)' /\ Clone(p).at = p
        BY <2>2 DEF Known, Clone, Mount
      <3> SUFFICES ASSUME NEW k \in DOMAIN tree'[InitNs], tree'[InitNs][k].ksu
                   PROVE  Known(tree[InitNs][k].at)'
        BY DEF Registered
      <3>5. CASE k = Len(tree[InitNs]) + 1
        BY <3>3, <3>4, <3>5
      <3>6. CASE k \in DOMAIN tree[InitNs]
        BY <3>3, <3>6, <2>3 DEF Registered
      <3> QED BY <3>3, <3>5, <3>6
    <2> QED BY <1>4, <2>4, <2>5 DEF do_loopback
  <1>5. ASSUME NEW t \in Callers, add(t) PROVE Registered'
    <2>1. tree' = tree
      BY <1>5 DEF add, skip_sus_kstat, kmalloc_fails, already_created, not_created, list_add_prev, list_add_tail,
           GiveUp, Return, mnts
    <2>2. \A u \in Mounters : u # t => pc'[u] = pc[u] /\ info'[u] = info[u]
      BY <1>5, <1>1 DEF add, skip_sus_kstat, kmalloc_fails, already_created, not_created, list_add_prev, list_add_tail,
           GiveUp, Return
    <2>3. ASSUME NEW q, q = info[t].path, t \in Mounters PROVE Known(q)'
      <3>1. CASE skip_sus_kstat(t) \/ kmalloc_fails(t)
        BY <2>3, <3>1 DEF skip_sus_kstat, kmalloc_fails, GiveUp, Known
      <3>2. CASE already_created(t)
        BY <2>3, <3>2, <1>2 DEF already_created, IsCreated, Entered, Known
      <3>3. CASE not_created(t) \/ list_add_prev(t)
        BY <2>3, <3>3, <1>1 DEF not_created, list_add_prev, Registering, Known
      <3>4. CASE list_add_tail(t)
        <4>1. LH_TRY_UMOUNT_PATH' = Append(LH_TRY_UMOUNT_PATH, info[t]) /\ info[t] \in Infos
              /\ LH_TRY_UMOUNT_PATH \in Seq(Infos)
          BY <3>4 DEF list_add_tail, ListsOK
        <4>2. Len(LH_TRY_UMOUNT_PATH) + 1 \in DOMAIN LH_TRY_UMOUNT_PATH'
              /\ LH_TRY_UMOUNT_PATH'[Len(LH_TRY_UMOUNT_PATH) + 1] = info[t]
          BY <4>1, AppendSeq
        <4> QED BY <2>3, <4>2 DEF Entered, Known
      <3> QED BY <1>5, <3>1, <3>2, <3>3, <3>4 DEF add
    <2>4. \A q : Registering(q) => Known(q)'
      BY <2>2, <2>3 DEF Registering, Known
    <2> QED BY <1>2, <2>1, <2>4, SameTree DEF Known
  <1>6. ASSUME UNCHANGED lists PROVE \A q : Known(q) => Known(q)'
    BY <1>6 DEF lists, Known, Entered, Registering
  <1>7. ASSUME NEW p \in Paths, umount(p) PROVE Registered'
    <2>1. PICK k \in DOMAIN tree[InitNs] : tree' = [tree EXCEPT ![InitNs] = Detach(@, k)]
      BY <1>7 DEF umount
    <2>2. tree[InitNs] \in Seq(MountRec) /\ tree'[InitNs] = Detach(tree[InitNs], k)
      BY <2>1, <1>1
    <2>3. PICK e \in [DOMAIN tree'[InitNs] -> DOMAIN tree[InitNs]] :
            \A i \in DOMAIN tree'[InitNs] :
              /\ e[i] # k /\ tree'[InitNs][i] = tree[InitNs][e[i]]
              /\ \A j \in DOMAIN tree'[InitNs] : i < j => e[i] < e[j]
      <3>1. k \in DOMAIN tree[InitNs]
        OBVIOUS
      <3> QED BY ONLY <2>2, <3>1, Detached
    <2>4. \A q : Known(q) => Known(q)'
      BY <1>6, <1>7 DEF umount
    <2> QED BY <2>3, <2>4 DEF Registered
  <1>8. ASSUME NEW a \in Apps, copy_mnt_ns(a) \/ susfs_try_umount(a) PROVE Registered'
    <2>1. tree'[InitNs] = tree[InitNs]
      BY <1>8, <1>1 DEF copy_mnt_ns, susfs_try_umount, start_walk, visit, end_walk, mnts, ksu_try_umount
    <2>2. UNCHANGED lists
      BY <1>8 DEF copy_mnt_ns, susfs_try_umount, start_walk, visit, end_walk
    <2> QED BY <2>1, <2>2, <1>6, SameTree
  <1>9. CASE UNCHANGED vars
    BY <1>9, <1>6, SameTree DEF vars, mnts
  <1> QED BY <1>3, <1>4, <1>5, <1>7, <1>8, <1>9 DEF Next

\* A step that leaves the app's namespace and walk alone.
LEMMA AppStays ==
  ASSUME ListsOK, [Next]_vars, NEW a \in Apps, AppInv(a),
         tree'[a] = tree[a], excused'[a] = excused[a], tried'[a] = tried[a],
         walk'[a] = walk[a], cursor'[a] = cursor[a]
  PROVE  AppInv(a)'
  <1>1. /\ walk'[a] = "unborn" => tree'[a] = <<>>
        /\ walk'[a] \in {"unborn", "copied"} => tried'[a] = {}
    BY DEF AppInv
  <1>2. ASSUME NEW p, Found(a, p) PROVE Found(a, p)'
    BY <1>2, ListGrows, EntriesStay DEF Found
  <1>3. ASSUME NEW k \in DOMAIN tree'[a], Owed(a, k)' PROVE Remaining(a, k)'
    <2>1. Owed(a, k) /\ k \in DOMAIN tree[a]
      BY <1>3 DEF Owed
    <2>2. Remaining(a, k)
      BY <2>1 DEF AppInv
    <2>3. \A j \in DOMAIN tree'[a] : ~Covers(tree'[a], j, k)
      BY <2>2 DEF Remaining
    <2> QED BY <2>2, <2>3, <1>2 DEF Remaining
  <1> QED BY <1>1, <1>3 DEF AppInv

\* A clone that propagates to the app is excused there, with all it covers.
LEMMA GraftHidden ==
  ASSUME ListsOK, AppsOK, [Next]_vars, NEW p \in Paths, graft_tree(p), UNCHANGED apps,
         NEW a \in Apps, AppInv(a)
  PROVE  AppInv(a)'
  <1>1. PICK into \in SUBSET {b \in Apps : walk[b] \in {"copied", "walking"}} :
          /\ tree' = [n \in DOMAIN tree |->
                IF n = InitNs \/ n \in into THEN Append(tree[n], Clone(p)) ELSE tree[n]]
          /\ excused' = [b \in Apps |->
                   IF b \in into THEN excused[b] \cup {q \in Paths : p \in Over[q] \/ q \in Over[p]}
                   ELSE excused[b]]
          /\ tried' = tried
    BY DEF graft_tree, Clone
  <1>2. tree \in [{InitNs} \cup Apps -> Seq(MountRec)] /\ InitNs \notin Apps /\ a # InitNs
    BY TasksAssumption DEF AppsOK, MountRec
  <1>3. walk' = walk /\ cursor' = cursor
    BY DEF apps
  <1>4. CASE a \notin into
    BY <1>1, <1>2, <1>3, <1>4, AppStays
  <1>5. CASE a \in into
    <2>1. tree'[a] = Append(tree[a], Clone(p)) /\ walk[a] \in {"copied", "walking"}
      BY <1>1, <1>2, <1>5
    <2>2. tree[a] \in Seq(MountRec) /\ Clone(p) \in MountRec
      BY <1>2 DEF Clone, Mount, MountRec
    <2> DEFINE n == Len(tree[a])
    <2>3. /\ DOMAIN tree[a] = 1..n /\ n \in Nat /\ DOMAIN tree'[a] = 1..(n + 1)
          /\ \A i \in 1..n : tree'[a][i] = tree[a][i]
          /\ tree'[a][n + 1] = Clone(p)
      BY ONLY <2>1, <2>2
    <2>4. tree'[a][n + 1].at = p
      BY <2>3 DEF Clone, Mount
    <2> HIDE DEF n
    <2>5. excused'[a] = excused[a] \cup {q \in Paths : p \in Over[q] \/ q \in Over[p]}
      BY <1>1, <1>5
    <2>6. \A i \in DOMAIN tree[a] : tree[a][i].at \in Paths
      <3>1. \A i \in DOMAIN tree[a] : tree[a][i] \in MountRec
        BY <2>2, SeqElement
      <3> QED BY <3>1 DEF MountRec
    <2>7. ASSUME NEW k \in DOMAIN tree'[a], Owed(a, k)' PROVE Remaining(a, k)'
      <3>1. tree'[a][k].ksu /\ tree'[a][k].at \notin excused'[a]
        BY <2>7 DEF Owed
      <3>2. k # n + 1
        BY <3>1, <2>4, <2>5, PathsAssumption
      <3>3. k \in DOMAIN tree[a] /\ tree'[a][k] = tree[a][k]
        BY <3>2, <2>3
      <3>4. Owed(a, k)
        BY <3>1, <3>3, <2>5 DEF Owed
      <3>5. Remaining(a, k)
        BY <3>3, <3>4 DEF AppInv
      <3>6. tree'[a][k].at \notin tried'[a]
        BY <3>3, <3>5, <1>1 DEF Remaining
      <3>7. ASSUME NEW q, Found(a, q) PROVE Found(a, q)'
        BY <3>7, <1>3, ListGrows, EntriesStay DEF Found
      <3>8. Found(a, tree[a][k].at)'
        BY <3>5, <3>3, <3>7 DEF Remaining
      <3>9. ASSUME NEW j \in DOMAIN tree'[a] PROVE ~Covers(tree'[a], j, k)
        <4>1. CASE j \in DOMAIN tree[a]
          <5>1. ~Covers(tree[a], j, k)
            BY <3>5, <4>1 DEF Remaining
          <5>2. tree'[a][j] = tree[a][j]
            BY <2>3, <4>1
          <5> QED BY <5>1, <5>2, <3>3 DEF Covers
        <4>2. CASE j = n + 1
          <5>1. p \notin Over[tree[a][k].at]
            BY <3>1, <3>3, <2>5, <2>6
          <5> QED BY <5>1, <4>2, <3>3, <2>4 DEF Covers
        <4> QED BY <4>1, <4>2, <2>3
      <3> QED BY <3>6, <3>8, <3>9 DEF Remaining
    <2>8. walk'[a] # "unborn" /\ tried'[a] = tried[a]
      BY <1>1, <1>3, <2>1
    <2> QED BY <2>7, <2>8, <1>3 DEF AppInv
  <1> QED BY <1>4, <1>5

\* The copy is made while no mounter is in its hook.
LEMMA CopyHidden ==
  ASSUME ListsOK, AppsOK, Registered, NEW a \in Apps, copy_mnt_ns(a), AppInv(a)
  PROVE  AppInv(a)'
  <1>1. /\ tree'[a] = tree[InitNs] /\ walk'[a] = "copied" /\ tried'[a] = {}
        /\ UNCHANGED lists /\ namespace_sem = NoTask
        /\ excused'[a] = {tree[InitNs][k].at : k \in {i \in DOMAIN tree[InitNs] :
                      /\ tree[InitNs][i].ksu
                      /\ \E j \in DOMAIN tree[InitNs] : Covers(tree[InitNs], j, i)}}
    BY DEF copy_mnt_ns, AppsOK, AppInv
  <1>2. ASSUME NEW k \in DOMAIN tree'[a], Owed(a, k)' PROVE Remaining(a, k)'
    <2>1. k \in DOMAIN tree[InitNs] /\ tree[InitNs][k].ksu /\ tree[InitNs][k].at \notin excused'[a]
      BY <1>1, <1>2 DEF Owed
    <2>2. \A j \in DOMAIN tree'[a] : ~Covers(tree'[a], j, k)
      BY <2>1, <1>1
    <2>3. PICK p : p = tree[InitNs][k].at
      OBVIOUS
    <2>4. ~Registering(p)
      BY <1>1, TasksAssumption DEF Registering, ListsOK
    <2>5. p \in skipped \/ Entered(p)
      BY <2>1, <2>3, <2>4 DEF Registered, Known
    <2>6. Found(a, p)'
      BY <2>5, <1>1 DEF Found, Entered, lists
    <2>7. tree'[a][k].at = p
      BY <1>1, <2>3
    <2> QED BY <2>2, <2>6, <2>7, <1>1 DEF Remaining
  <1> QED BY <1>1, <1>2 DEF AppInv

\* A walk starts at the tail, behind every entry of that time.
LEMMA StartHidden ==
  ASSUME ListsOK, OneLink, AppsOK, NEW a \in Apps, start_walk(a), AppInv(a)
  PROVE  AppInv(a)'
  <1>1. /\ walk[a] = "copied" /\ walk'[a] = "walking" /\ UNCHANGED lists /\ UNCHANGED mnts
        /\ cursor'[a] = Len(Backward)
    BY DEF start_walk, AppsOK
  <1>2. /\ Len(Backward) \in Nat /\ DOMAIN LH_TRY_UMOUNT_PATH = 1..Len(LH_TRY_UMOUNT_PATH)
        /\ Len(LH_TRY_UMOUNT_PATH) <= Len(Backward) /\ Len(LH_TRY_UMOUNT_PATH) \in Nat
    BY BackwardExtends DEF ListsOK
  <1>3. \A i \in DOMAIN LH_TRY_UMOUNT_PATH : i <= cursor'[a]
    BY <1>1, <1>2
  <1>4. ASSUME NEW p, Found(a, p) PROVE Found(a, p)'
    BY <1>1, <1>3, <1>4 DEF Found, Entered, Ahead, Unsupported, lists
  <1>5. ASSUME NEW k \in DOMAIN tree'[a], Owed(a, k)' PROVE Remaining(a, k)'
    <2>1. k \in DOMAIN tree[a] /\ Owed(a, k)
      BY <1>1, <1>5 DEF Owed, mnts
    <2>2. Remaining(a, k)
      BY <2>1 DEF AppInv
    <2> QED BY <2>2, <1>1, <1>4 DEF Remaining, mnts
  <1> QED BY <1>1, <1>5 DEF AppInv

\* At its end no entry is left before it.
LEMMA EndHidden ==
  ASSUME ListsOK, AppsOK, NEW a \in Apps, end_walk(a), AppInv(a)
  PROVE  AppInv(a)'
  <1>1. /\ walk[a] = "walking" /\ walk'[a] = "done" /\ UNCHANGED lists /\ UNCHANGED mnts
        /\ cursor[a] = 0
    BY DEF end_walk, AppsOK
  <1>2. DOMAIN LH_TRY_UMOUNT_PATH = 1..Len(LH_TRY_UMOUNT_PATH)
    BY DEF ListsOK
  <1>3. ASSUME NEW p PROVE ~Ahead(a, p)
    BY <1>1, <1>2 DEF Ahead
  <1>4. ASSUME NEW p, Found(a, p) PROVE Found(a, p)'
    BY <1>1, <1>3, <1>4 DEF Found, Unsupported, lists
  <1>5. ASSUME NEW k \in DOMAIN tree'[a], Owed(a, k)' PROVE Remaining(a, k)'
    <2>1. k \in DOMAIN tree[a] /\ Owed(a, k)
      BY <1>1, <1>5 DEF Owed, mnts
    <2>2. Remaining(a, k)
      BY <2>1 DEF AppInv
    <2> QED BY <2>2, <1>1, <1>4 DEF Remaining, mnts
  <1> QED BY <1>1, <1>5 DEF AppInv

\* What a walk still has before it is on the list before the entry that it leaves.
LEMMA FoundBefore ==
  ASSUME ListsOK, OneLink, AppsOK, NEW a \in Apps, visit(a), NEW q, Found(a, q),
         q # Visited(a).path \/ ~IsSupported(Visited(a).mode)
  PROVE  Found(a, q)'
  <1>1. UNCHANGED lists /\ walk'[a] = walk[a] /\ walk[a] = "walking" /\ cursor'[a] = Previous(a)
    BY DEF visit, AppsOK
  <1>2. CASE q \in skipped
    BY <1>1, <1>2 DEF Found, lists
  <1>3. CASE Unsupported(q)
    BY <1>1, <1>3 DEF Found, Unsupported, lists
  <1>4. CASE Ahead(a, q)
    <2>1. PICK i \in DOMAIN LH_TRY_UMOUNT_PATH : LH_TRY_UMOUNT_PATH[i].path = q /\ i <= cursor[a]
      BY <1>4 DEF Ahead
    <2>2. /\ cursor[a] \in 1..Len(Backward) /\ Len(Backward) \in Nat /\ Len(LH_TRY_UMOUNT_PATH) \in Nat
          /\ cursor[a] \in DOMAIN LH_TRY_UMOUNT_PATH => Visited(a) = LH_TRY_UMOUNT_PATH[cursor[a]]
      BY VisitedOK
    <2>3. DOMAIN LH_TRY_UMOUNT_PATH = 1..Len(LH_TRY_UMOUNT_PATH)
      BY DEF ListsOK
    <2>4. CASE i = cursor[a]
      <3>1. Unsupported(q)
        BY <2>1, <2>2, <2>4 DEF Unsupported
      <3> QED BY <3>1, <1>3
    <2>5. CASE i # cursor[a]
      <3>1. i \in Int /\ cursor[a] \in Int
        BY <2>2, <2>3
      <3>2. i <= Previous(a)
        BY <3>1, <2>1, <2>5 DEF Previous
      <3>3. i <= cursor'[a] /\ LH_TRY_UMOUNT_PATH' = LH_TRY_UMOUNT_PATH
        BY <3>2, <1>1 DEF lists
      <3>4. Ahead(a, q)'
        BY <3>3, <2>1 DEF Ahead
      <3> QED BY <3>4, <1>1 DEF Found
    <2> QED BY <2>4, <2>5
  <1> QED BY <1>1, <1>2, <1>3, <1>4 DEF Found

\* A mount that is owed is what a lookup of its path ends in.
LEMMA OwedOnTop ==
  ASSUME NEW a \in Apps, AppInv(a), NEW k \in DOMAIN tree[a], Owed(a, k)
  PROVE  IsTopAt(tree[a], k, tree[a][k].at)
  BY DEF AppInv, Remaining, IsTopAt

\* There is one mount on top.
LEMMA OneOnTop ==
  ASSUME AppsOK, NEW a \in Apps, NEW p \in Paths, NEW k \in DOMAIN tree[a], NEW i \in DOMAIN tree[a],
         IsTopAt(tree[a], k, p), IsTopAt(tree[a], i, p)
  PROVE  i = k
  <1>1. tree[a] \in Seq(MountRec)
    BY DEF AppsOK, MountRec
  <1>2. i \in Int /\ k \in Int
    BY <1>1
  <1>3. p \in Over[p] /\ tree[a][k].at = p /\ tree[a][i].at = p
    BY PathsAssumption DEF IsTopAt
  <1>4. ~(i > k) /\ ~(k > i)
    BY <1>3 DEF IsTopAt, Covers
  <1> QED BY <1>2, <1>4

\* The attempt to unmount what is at p leaves nothing owed there.
LEMMA UmountHidden ==
  ASSUME ListsOK, OneLink, AppsOK, NEW a \in Apps, NEW p \in Paths, NEW detach,
         AppInv(a), ksu_try_umount(a, p, detach),
         NEW k \in DOMAIN tree'[a], tree'[a][k].ksu, tree'[a][k].at \notin excused'[a]
  PROVE  /\ tree'[a][k].at # p
         /\ \A j \in DOMAIN tree'[a] : ~Covers(tree'[a], j, k)
         /\ \E i \in DOMAIN tree[a] : Owed(a, i) /\ tree[a][i].at = tree'[a][k].at
  <1>1. tree[a] \in Seq(MountRec) /\ tree \in [{InitNs} \cup Apps -> Seq(MountRec)] /\ excused \in [Apps -> SUBSET Paths]
    BY DEF AppsOK, MountRec
  <1>2. ASSUME tree' = tree, Owed(a, k), tree[a][k].at # p
        PROVE  /\ tree'[a][k].at # p
               /\ \A j \in DOMAIN tree'[a] : ~Covers(tree'[a], j, k)
               /\ \E i \in DOMAIN tree[a] : Owed(a, i) /\ tree[a][i].at = tree'[a][k].at
    BY <1>2 DEF AppInv, Remaining
  <1>3. CASE /\ \A i \in DOMAIN tree[a] : ~IsTopAt(tree[a], i, p)
             /\ UNCHANGED <<tree, excused>>
    <2>1. Owed(a, k) /\ k \in DOMAIN tree[a]
      BY <1>3 DEF Owed
    <2>2. tree[a][k].at # p
      BY <2>1, <1>3, OwedOnTop
    <2> QED BY <1>2, <1>3, <2>1, <2>2
  <1>4. ASSUME NEW top \in DOMAIN tree[a], IsTopAt(tree[a], top, p),
               tree' = [tree EXCEPT ![a] = Detach(@, top)], UNCHANGED excused
        PROVE  /\ tree'[a][k].at # p
               /\ \A j \in DOMAIN tree'[a] : ~Covers(tree'[a], j, k)
               /\ \E i \in DOMAIN tree[a] : Owed(a, i) /\ tree[a][i].at = tree'[a][k].at
    <2>1. tree'[a] = Detach(tree[a], top) /\ tree[a] \in Seq(MountRec) /\ top \in DOMAIN tree[a]
      BY <1>4, <1>1
    <2>2. PICK e \in [DOMAIN tree'[a] -> DOMAIN tree[a]] :
            \A i \in DOMAIN tree'[a] :
              /\ e[i] # top /\ tree'[a][i] = tree[a][e[i]]
              /\ \A j \in DOMAIN tree'[a] : i < j => e[i] < e[j]
      BY ONLY <2>1, Detached
    <2>3. e[k] \in DOMAIN tree[a] /\ tree'[a][k] = tree[a][e[k]] /\ e[k] # top
      BY <2>2
    <2>4. Owed(a, e[k])
      BY <2>3, <1>4 DEF Owed
    <2>5. tree[a][e[k]].at # p
      <3>1. IsTopAt(tree[a], e[k], tree[a][e[k]].at)
        BY <2>3, <2>4, OwedOnTop
      <3> QED BY <3>1, <2>3, <1>4, OneOnTop
    <2>6. ASSUME NEW j \in DOMAIN tree'[a], Covers(tree'[a], j, k) PROVE FALSE
      <3>1. e[j] \in DOMAIN tree[a] /\ tree'[a][j] = tree[a][e[j]]
        BY <2>2
      <3>2. j > k /\ k < j
        <4>1. tree'[a] \in Seq(MountRec)
          BY <2>1, DetachEmbeds
        <4>2. j \in Int /\ k \in Int
          BY <4>1
        <4> QED BY <4>2, <2>6 DEF Covers
      <3>3. e[k] < e[j]
        BY <2>2, <3>2
      <3>4. e[j] > e[k]
        BY <3>1, <3>3, <2>3, <1>1
      <3>5. Covers(tree[a], e[j], e[k])
        BY <2>6, <3>1, <3>4, <2>3 DEF Covers
      <3> QED BY <3>1, <3>5, <2>3, <2>4 DEF AppInv, Remaining
    <2> QED BY <2>3, <2>4, <2>5, <2>6
  <1>5. ASSUME tree' = tree, excused' = [excused EXCEPT ![a] = @ \cup {p}]
        PROVE  /\ tree'[a][k].at # p
               /\ \A j \in DOMAIN tree'[a] : ~Covers(tree'[a], j, k)
               /\ \E i \in DOMAIN tree[a] : Owed(a, i) /\ tree[a][i].at = tree'[a][k].at
    <2>1. excused'[a] = excused[a] \cup {p}
      BY <1>5, <1>1
    <2>2. Owed(a, k) /\ tree[a][k].at # p
      BY <2>1, <1>5 DEF Owed
    <2> QED BY <2>2, <1>2, <1>5
  <1>6. ASSUME NEW top \in DOMAIN tree[a], IsTopAt(tree[a], top, p),
               NEW i \in DOMAIN tree[a], Descendant(tree[a], top, i), ~Blocks(a, top, i)
        PROVE  FALSE
    <2>1. tree[a][i].ksu /\ tree[a][i].at \notin excused[a] /\ tree[a][i].at \in tried[a]
      BY <1>6 DEF Blocks
    <2> QED BY <2>1 DEF AppInv, Remaining, Owed
  <1>7. \/ /\ \A i \in DOMAIN tree[a] : ~IsTopAt(tree[a], i, p)
           /\ UNCHANGED <<tree, excused>>
        \/ \E top \in DOMAIN tree[a] :
             /\ IsTopAt(tree[a], top, p)
             /\ tree' = [tree EXCEPT ![a] = Detach(@, top)]
             /\ UNCHANGED excused
        \/ tree' = tree /\ excused' = [excused EXCEPT ![a] = @ \cup {p}]
    <2>1. CASE /\ \A i \in DOMAIN tree[a] : ~IsTopAt(tree[a], i, p)
               /\ UNCHANGED <<tree, excused>>
      BY <2>1
    <2>2. CASE \E top \in DOMAIN tree[a] :
                 /\ IsTopAt(tree[a], top, p)
                 /\ detach \/ \A i \in DOMAIN tree[a] : ~Descendant(tree[a], top, i)
                 /\ tree' = [tree EXCEPT ![a] = Detach(@, top)]
                 /\ UNCHANGED excused
      BY <2>2
    <2>3. ASSUME NEW top \in DOMAIN tree[a], IsTopAt(tree[a], top, p), UNCHANGED tree,
                 \/ /\ \E i \in DOMAIN tree[a] : Descendant(tree[a], top, i)
                    /\ excused' = [excused EXCEPT ![a] =
                         IF \E i \in DOMAIN tree[a] : Blocks(a, top, i) THEN @ \cup {p} ELSE @]
                 \/ excused' = [excused EXCEPT ![a] = @ \cup {p}]
          PROVE  tree' = tree /\ excused' = [excused EXCEPT ![a] = @ \cup {p}]
      <3>1. CASE \E i \in DOMAIN tree[a] : Descendant(tree[a], top, i)
        <4>1. \E i \in DOMAIN tree[a] : Blocks(a, top, i)
          BY <3>1, <2>3, <1>6
        <4> QED BY <4>1, <2>3
      <3>2. CASE ~ \E i \in DOMAIN tree[a] : Descendant(tree[a], top, i)
        BY <3>2, <2>3
      <3> QED BY <3>1, <3>2
    <2> QED BY <2>1, <2>2, <2>3 DEF ksu_try_umount
  <1> QED BY <1>3, <1>4, <1>5, <1>7

\* A visit to an entry.
LEMMA VisitHidden ==
  ASSUME ListsOK, OneLink, AppsOK, NEW a \in Apps, visit(a), AppInv(a)
  PROVE  AppInv(a)'
  <1>1. walk'[a] = "walking" /\ walk[a] = "walking"
    BY DEF visit
  <1>2. ASSUME ~IsSupported(Visited(a).mode), UNCHANGED mnts PROVE AppInv(a)'
    <2>1. ASSUME NEW q, Found(a, q) PROVE Found(a, q)'
      BY <2>1, <1>2, FoundBefore
    <2>2. ASSUME NEW k \in DOMAIN tree'[a], Owed(a, k)' PROVE Remaining(a, k)'
      <3>1. k \in DOMAIN tree[a] /\ Owed(a, k)
        BY <2>2, <1>2 DEF Owed, mnts
      <3>2. Remaining(a, k)
        BY <3>1 DEF AppInv
      <3> QED BY <3>2, <2>1, <1>2 DEF Remaining, mnts
    <2> QED BY <2>2, <1>1 DEF AppInv
  <1>3. ASSUME ksu_try_umount(a, Visited(a).path, Visited(a).mode = TRY_UMOUNT_DETACH),
               tried' = [tried EXCEPT ![a] = @ \cup {Visited(a).path}]
        PROVE  AppInv(a)'
    <2>1. Visited(a).path \in Paths
      BY VisitedOK
    <2>2. tried'[a] = tried[a] \cup {Visited(a).path}
      BY <1>3 DEF AppsOK
    <2>3. ASSUME NEW k \in DOMAIN tree'[a], Owed(a, k)' PROVE Remaining(a, k)'
      <3>1. tree'[a][k].ksu /\ tree'[a][k].at \notin excused'[a]
        BY <2>3 DEF Owed
      <3>2. /\ tree'[a][k].at # Visited(a).path
            /\ \A j \in DOMAIN tree'[a] : ~Covers(tree'[a], j, k)
            /\ \E i \in DOMAIN tree[a] : Owed(a, i) /\ tree[a][i].at = tree'[a][k].at
        BY <3>1, <1>3, <2>1, UmountHidden
      <3>3. PICK i \in DOMAIN tree[a] : Owed(a, i) /\ tree[a][i].at = tree'[a][k].at
        BY <3>2
      <3>4. Remaining(a, i)
        BY <3>3 DEF AppInv
      <3>5. tree'[a][k].at \notin tried'[a]
        BY <2>2, <3>2, <3>3, <3>4 DEF Remaining
      <3>6. PICK q : q = tree'[a][k].at
        OBVIOUS
      <3>7. Found(a, q) /\ q # Visited(a).path
        BY <3>2, <3>3, <3>4, <3>6 DEF Remaining
      <3>8. Found(a, q)'
        BY <3>7, FoundBefore
      <3> QED BY <3>2, <3>5, <3>6, <3>8 DEF Remaining
    <2> QED BY <2>3, <1>1 DEF AppInv
  <1> QED BY <1>2, <1>3 DEF visit

\* Every step keeps HiddenInv.
LEMMA NextHidden ==
  ASSUME ListsOK, OneLink, AppsOK, HiddenInv, [Next]_vars
  PROVE  HiddenInv'
  <1>1. Registered' /\ Registered
    BY NextRegistered DEF HiddenInv
  <1> SUFFICES ASSUME NEW a \in Apps PROVE AppInv(a)'
    BY <1>1 DEF HiddenInv
  <1>2. AppInv(a) /\ a # InitNs
    BY TasksAssumption DEF HiddenInv
  <1>3. ASSUME UNCHANGED apps, UNCHANGED mnts PROVE AppInv(a)'
    BY <1>2, <1>3, AppStays DEF apps, mnts
  <1>4. ASSUME NEW t \in Callers, Call(t) PROVE AppInv(a)'
    BY <1>4, <1>3 DEF Call
  <1>5. ASSUME NEW t \in Callers, add(t) PROVE AppInv(a)'
    BY <1>5, <1>3 DEF add, skip_sus_kstat, kmalloc_fails, already_created, not_created,
           list_add_prev, list_add_tail, GiveUp, Return
  <1>6. ASSUME NEW t \in Mounters, NEW p \in Paths, do_loopback(t, p) PROVE AppInv(a)'
    BY <1>6, <1>3, <1>2, GraftHidden DEF do_loopback
  <1>7. ASSUME NEW p \in Paths, umount(p) PROVE AppInv(a)'
    <2>1. PICK k \in DOMAIN tree[InitNs] : tree' = [tree EXCEPT ![InitNs] = Detach(@, k)]
      BY <1>7 DEF umount
    <2>2. tree'[a] = tree[a]
      BY <2>1, <1>2 DEF AppsOK
    <2> QED BY <1>2, <1>7, <2>2, AppStays DEF umount, apps
  <1>8. ASSUME NEW b \in Apps, b # a, copy_mnt_ns(b) \/ susfs_try_umount(b) PROVE AppInv(a)'
    <2>1. tree'[a] = tree[a] /\ excused'[a] = excused[a] /\ tried'[a] = tried[a]
      BY <1>8 DEF AppsOK, copy_mnt_ns, susfs_try_umount, start_walk, visit, end_walk, mnts, ksu_try_umount
    <2>2. walk'[a] = walk[a] /\ cursor'[a] = cursor[a]
      BY <1>8 DEF AppsOK, copy_mnt_ns, susfs_try_umount, start_walk, visit, end_walk
    <2> QED BY <1>2, <2>1, <2>2, AppStays
  <1>9. ASSUME copy_mnt_ns(a) \/ susfs_try_umount(a) PROVE AppInv(a)'
    BY <1>9, <1>1, <1>2, CopyHidden, StartHidden, VisitHidden, EndHidden DEF susfs_try_umount
  <1>10. CASE UNCHANGED vars
    BY <1>10, <1>3 DEF vars
  <1> QED BY <1>4, <1>5, <1>6, <1>7, <1>8, <1>9, <1>10 DEF Next

\* It holds at boot, where no mount is one of KernelSU.
LEMMA InitHidden == Init => HiddenInv
  <1> SUFFICES ASSUME Init PROVE HiddenInv
    OBVIOUS
  <1>1. InitNs \notin Apps
    BY TasksAssumption
  <1>2. Registered
    <2>1. tree[InitNs] = [k \in DOMAIN LegitMounts |-> Mount(LegitMounts[k], FALSE)]
      BY DEF Init
    <2> QED BY <2>1 DEF Registered, Mount
  <1>3. ASSUME NEW a \in Apps PROVE tree[a] = <<>> /\ tried[a] = {}
    BY <1>1 DEF Init
  <1>4. \A a \in Apps : AppInv(a)
    BY <1>3 DEF AppInv
  <1> QED BY <1>2, <1>4 DEF HiddenInv

\* All of it.
FullInv == Inv /\ OneLink /\ AppsOK /\ HiddenInv

\* FullInv is an inductive invariant.
LEMMA InitFull == Init => FullInv
  BY InitInv, InitApps, InitHidden DEF FullInv

\* See InitFull.
LEMMA NextFull == FullInv /\ [Next]_vars => FullInv'
  <1> SUFFICES ASSUME FullInv, [Next]_vars PROVE FullInv'
    OBVIOUS
  <1>1. ListsOK /\ OneLink /\ AppsOK /\ HiddenInv /\ Inv
    BY DEF FullInv, Inv
  <1>2. Inv'
    BY <1>1, NextLists, NextBounded DEF Inv
  <1>3. OneLink'
    BY <1>1, NextOneLink
  <1>4. AppsOK'
    BY <1>1, NextApps
  <1>5. HiddenInv'
    BY <1>1, NextHidden
  <1> QED BY <1>2, <1>3, <1>4, <1>5 DEF FullInv

-----------------------------------------------------------------------------
\* Who is in the kernel knows what it registers, and a mounter holds
\* namespace_sem exactly while it is in its hook.
THEOREM ListsCorrect == Spec => []ListsOK
  <1>1. Inv /\ [Next]_vars => Inv'
    BY NextLists, NextBounded DEF Inv
  <1>2. Inv => ListsOK
    BY DEF Inv
  <1> QED BY InitInv, <1>1, <1>2, PTL DEF Spec

\* The race between the search and the append leaves at most one entry for each
\* tool and one for the mounters.
THEOREM DuplicatesBoundedCorrect == Spec => []DuplicatesBounded
  <1>1. Inv /\ [Next]_vars => Inv'
    BY NextLists, NextBounded DEF Inv
  <1>2. Inv => DuplicatesBounded
    BY DEF Inv
  <1> QED BY InitInv, <1>1, <1>2, PTL DEF Spec

\* A walk is always at a position of the list, also while an entry is linked.
THEOREM TypeCorrect == Spec => []TypeOK
  <1>1. FullInv => TypeOK
    BY DEF FullInv, Inv, TypeOK
  <1> QED BY InitFull, NextFull, <1>1, PTL DEF Spec

\* When the walk for an app is over, the app has no mount of KernelSU left that
\* the list could have told it of.
THEOREM HiddenFromAppCorrect == Spec => []HiddenFromApp
  <1>1. FullInv => HiddenFromApp
    BY DEF FullInv, HiddenInv, AppInv, Owed, Remaining, Found, Unsupported, HiddenFromApp
  <1> QED BY InitFull, NextFull, <1>1, PTL DEF Spec
=============================================================================
