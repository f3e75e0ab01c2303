------------------------------ MODULE MntIdProofs ------------------------------
(***************************************************************************)
(* Theorems about MntId.  Which mount is where (Places) does not depend on  *)
(* the ids: the lists, the copies made so far and the mounts that wait to   *)
(* be attached never share a mount, and the first mount of a namespace      *)
(* stays.  On that rests what the ids of a mount say of the id it owns      *)
(* (Names): what mnt_free_id concludes from them is what alloc_vfsmnt did.  *)
(* Two more invariants build on these: zygote's counter is ahead of every   *)
(* number in its namespace (Numbers), and the copies made so far are hidden *)
(* where their originals are (Mirror).                                      *)
(*                                                                         *)
(* And about SusMount: the types of its list, mounts and tasks (SMTyped),   *)
(* what the first entry of a path tells (SMEntries), and that the mounts    *)
(* that tasks have in hand are not legit (SMGroups).                        *)
(***************************************************************************)
EXTENDS MntId, SusMount, WellFoundedInduction, FiniteSetTheorems, FunctionTheorems, SequenceTheorems, TLAPS

(* RemoveAt keeps the other elements of a list in their order.              *)
LEMMA RemoveAtShifts ==
  ASSUME NEW S, NEW s \in Seq(S), NEW k \in 1..Len(s)
  PROVE  /\ RemoveAt(s, k) \in Seq(S)
         /\ Len(RemoveAt(s, k)) = Len(s) - 1
         /\ \A i \in 1..(Len(s) - 1) :
              RemoveAt(s, k)[i] = IF i < k THEN s[i] ELSE s[i + 1]
<1> DEFINE a == SubSeq(s, 1, k - 1)
           b == SubSeq(s, k + 1, Len(s))
<1>1. a \in Seq(S) /\ Len(a) = k - 1 /\ \A i \in 1..(k - 1) : a[i] = s[i]
  OBVIOUS
<1>2. b \in Seq(S) /\ Len(b) = Len(s) - k /\ \A i \in 1..(Len(s) - k) : b[i] = s[i + k]
  OBVIOUS
<1>3. RemoveAt(s, k) = a \o b /\ Len(s) \in Nat
  BY DEF RemoveAt
<1> HIDE DEF a, b
<1>4. a \o b \in Seq(S) /\ Len(a \o b) = Len(s) - 1
  BY <1>1, <1>2, <1>3
<1>5. ASSUME NEW i \in 1..(Len(s) - 1) PROVE (a \o b)[i] = IF i < k THEN s[i] ELSE s[i + 1]
  <2>1. (a \o b)[i] = IF i < k THEN a[i] ELSE b[i - (k - 1)]
    BY <1>1, <1>2, <1>3
  <2>2. ~(i < k) => i - (k - 1) \in 1..(Len(s) - k) /\ (i - (k - 1)) + k = i + 1
    BY <1>3
  <2> QED BY <1>1, <1>2, <1>3, <2>1, <2>2
<1> QED BY <1>3, <1>4, <1>5

UnshareMark == DEFAULT_SUS_MNT_ID_FOR_KSU_PROC_UNSHARE

-----------------------------------------------------------------------------
(* Where the mounts are.                                                    *)

PlacesType ==
  /\ stage \in [Mounts -> {"free", "new", "attached", "dead"}]
  /\ list \in [Nss -> Seq(Mounts)]
  /\ ns \in [Tasks -> Nss]
  /\ pending \in [Tasks -> Mounts \cup {NoMount}]
  /\ copying \in Copyings \cup {NoCopy}

Listed == \A n \in Nss : \A k \in DOMAIN list[n] : stage[list[n][k]] = "attached"

ListedOnce ==
  \A n1, n2 \in Nss : \A k1 \in DOMAIN list[n1], k2 \in DOMAIN list[n2] :
    list[n1][k1] = list[n2][k2] => n1 = n2 /\ k1 = k2

CopiedNew ==
  copying # NoCopy =>
    /\ list[copying.to] = <<>> /\ pending[copying.task] = NoMount
    /\ \A k \in DOMAIN copying.done : stage[copying.done[k]] = "new"
    /\ \A j, k \in DOMAIN copying.done : copying.done[j] = copying.done[k] => j = k

PendingNew ==
  \A t \in Tasks : pending[t] # NoMount =>
    /\ stage[pending[t]] = "new"
    /\ \A u \in Tasks : pending[u] = pending[t] => u = t
    /\ copying # NoCopy => \A k \in DOMAIN copying.done : copying.done[k] # pending[t]

Homes ==
  /\ list[InitNs] # <<>> /\ list[InitNs][1] = Root
  /\ \A t \in Tasks : list[ns[t]] # <<>>

Places == PlacesType /\ Listed /\ ListedOnce /\ CopiedNew /\ PendingNew /\ Homes

\* A mount that is attached to a namespace joins the end of its list.
LEMMA AttachPlaces ==
  ASSUME Places, copying = NoCopy, NEW n \in Nss, list[n] # <<>>,
         NEW m \in Mounts, stage[m] # "attached",
         stage' = [stage EXCEPT ![m] = "attached"],
         list' = [list EXCEPT ![n] = Append(@, m)],
         UNCHANGED <<ns, copying>>,
         pending' \in [Tasks -> Mounts \cup {NoMount}],
         \A t \in Tasks : pending'[t] = NoMount \/ (pending'[t] = pending[t] /\ pending[t] # m)
  PROVE  Places'
  <1>t. PlacesType
    BY DEF Places
  <1>1. list[n] \in Seq(Mounts) /\ DOMAIN list[n] = 1..Len(list[n]) /\ Len(list[n]) \in Nat
    BY <1>t, LenProperties DEF PlacesType
  <1>2. /\ Append(list[n], m) \in Seq(Mounts)
        /\ DOMAIN Append(list[n], m) = 1..(Len(list[n]) + 1)
        /\ Append(list[n], m)[Len(list[n]) + 1] = m
        /\ \A k \in 1..Len(list[n]) : Append(list[n], m)[k] = list[n][k]
    BY <1>1, AppendProperties
  <1>3. Len(list[n]) > 0
    BY <1>1, EmptySeq
  <1>4. list' \in [Nss -> Seq(Mounts)] /\ list'[n] = Append(list[n], m)
        /\ \A i \in Nss \ {n} : list'[i] = list[i]
    BY <1>t, <1>2 DEF PlacesType
  <1>5. PlacesType'
    BY <1>t, <1>4 DEF PlacesType
  \* Where a mount is in a list after the step, it was before, or it is m.
  <1>6. \A i \in Nss : \A k \in DOMAIN list'[i] :
          \/ k \in DOMAIN list[i] /\ list'[i][k] = list[i][k] /\ list[i][k] # m
          \/ i = n /\ k = Len(list[n]) + 1 /\ list'[i][k] = m
    <2> SUFFICES ASSUME NEW i \in Nss, NEW k \in DOMAIN list'[i]
                 PROVE  \/ k \in DOMAIN list[i] /\ list'[i][k] = list[i][k] /\ list[i][k] # m
                        \/ i = n /\ k = Len(list[n]) + 1 /\ list'[i][k] = m
      OBVIOUS
    <2>1. \A j \in DOMAIN list[i] : list[i][j] # m
      BY DEF Places, Listed
    <2>2. CASE i # n
      BY <2>1, <2>2, <1>4
    <2>3. CASE i = n
      <3>1. k \in 1..Len(list[n]) \/ k = Len(list[n]) + 1
        BY <2>3, <1>1, <1>2, <1>4
      <3> QED BY <3>1, <2>1, <2>3, <1>1, <1>2, <1>4
    <2> QED BY <2>2, <2>3
  <1>7. Listed'
    BY <1>6, <1>t DEF Places, PlacesType, Listed
  <1>8. ListedOnce'
    BY <1>6 DEF Places, ListedOnce
  <1>9. CopiedNew' /\ PendingNew'
    BY <1>t DEF Places, PlacesType, CopiedNew, PendingNew
  <1>10. Homes'
    <2>1. \A i \in Nss : list[i] # <<>> => list'[i] # <<>> /\ list'[i][1] = list[i][1]
      <3> SUFFICES ASSUME NEW i \in Nss, list[i] # <<>>
                   PROVE  list'[i] # <<>> /\ list'[i][1] = list[i][1]
        OBVIOUS
      <3>1. CASE i = n
        BY <3>1, <1>2, <1>3, <1>4, <1>1
      <3>2. CASE i # n
        BY <3>2, <1>4
      <3> QED BY <3>1, <3>2
    <2> QED BY <2>1, <1>t, MountsAssumption DEF Places, PlacesType, Homes
  <1> QED BY <1>5, <1>7, <1>8, <1>9, <1>10 DEF Places

\* The lists stay as they are.
LEMMA ListsFrame ==
  ASSUME Places, UNCHANGED <<list, ns>>,
         \A m \in Mounts : stage[m] = "attached" => stage'[m] = "attached"
  PROVE  Listed' /\ ListedOnce' /\ Homes'
  <1>1. Listed'
    <2>1. \A n \in Nss : \A k \in DOMAIN list[n] : list[n][k] \in Mounts
      BY ElementOfSeq, LenProperties DEF Places, PlacesType
    <2> QED BY <2>1 DEF Places, Listed
  <1>2. ListedOnce' /\ Homes'
    BY DEF Places, ListedOnce, Homes
  <1> QED BY <1>1, <1>2

LEMMA PlacesKernMount ==
  ASSUME Places, NEW t \in Tasks, NEW m \in Mounts, vfs_kern_mount(t, m)
  PROVE  Places'
  <1>t. PlacesType
    BY DEF Places
  <1>1. /\ stage[m] = "free" /\ Idle(t) /\ UNCHANGED <<list, ns, copying>>
        /\ \/ /\ stage' = [stage EXCEPT ![m] = "new"] /\ pending' = [pending EXCEPT ![t] = m]
           \/ stage' = [stage EXCEPT ![m] = "dead"] /\ UNCHANGED pending
    BY DEF vfs_kern_mount
  <1>2. PlacesType'
    BY <1>1, <1>t DEF PlacesType
  <1>3. Listed' /\ ListedOnce' /\ Homes'
    BY <1>1, <1>t, ListsFrame DEF PlacesType
  <1>4. \A u \in Tasks : pending[u] # m
    BY <1>1, <1>t, MountsAssumption DEF Places, PlacesType, PendingNew
  <1>5. copying # NoCopy => \A k \in DOMAIN copying.done : copying.done[k] # m
    BY <1>1 DEF Places, CopiedNew
  <1>6. \A x \in Mounts : x # m => stage'[x] = stage[x]
    BY <1>1, <1>t DEF PlacesType
  <1>7. copying # NoCopy => \A k \in DOMAIN copying.done : copying.done[k] \in Mounts
    BY <1>t, LenProperties, ElementOfSeq DEF PlacesType, Copyings
  <1>8. CopiedNew'
    <2> SUFFICES ASSUME copying # NoCopy
                 PROVE  /\ pending'[copying.task] = NoMount
                        /\ \A k \in DOMAIN copying.done : stage'[copying.done[k]] = "new"
      BY <1>1 DEF Places, CopiedNew
    <2>1. copying.task # t /\ copying.task \in Tasks
      BY <1>1, <1>t DEF Idle, PlacesType, Copyings
    <2> QED BY <2>1, <1>1, <1>5, <1>6, <1>7, <1>t DEF Places, CopiedNew, PlacesType
  <1>9. PendingNew'
    <2>1. CASE stage' = [stage EXCEPT ![m] = "new"] /\ pending' = [pending EXCEPT ![t] = m]
      <3>1. /\ pending'[t] = m /\ stage'[m] = "new"
            /\ \A u \in Tasks \ {t} : pending'[u] = pending[u]
        BY <2>1, <1>t DEF PlacesType
      <3> QED BY <3>1, <1>1, <1>4, <1>5, <1>6, <1>t DEF Places, PendingNew, PlacesType
    <2>2. CASE stage' = [stage EXCEPT ![m] = "dead"] /\ UNCHANGED pending
      BY <2>2, <1>1, <1>4, <1>6, <1>t DEF Places, PendingNew, PlacesType
    <2> QED BY <1>1, <2>1, <2>2
  <1> QED BY <1>2, <1>3, <1>8, <1>9 DEF Places

LEMMA PlacesAddMount ==
  ASSUME Places, NEW t \in Tasks, do_add_mount(t)
  PROVE  Places'
  <1>t. PlacesType
    BY DEF Places
  <1> DEFINE m == pending[t]
  <1>1. /\ m # NoMount /\ m \in Mounts /\ stage[m] = "new"
        /\ pending' = [pending EXCEPT ![t] = NoMount] /\ UNCHANGED <<ns, copying>>
        /\ \A u \in Tasks : pending[u] = m => u = t
        /\ copying # NoCopy => \A k \in DOMAIN copying.done : copying.done[k] # m
    BY <1>t DEF do_add_mount, PlacesType, Places, PendingNew
  <1>2. CASE /\ Unlocked /\ stage' = [stage EXCEPT ![m] = "attached"]
             /\ list' = [list EXCEPT ![ns[t]] = Append(@, m)]
    <2>1. /\ ns[t] \in Nss /\ list[ns[t]] # <<>>
          /\ pending' \in [Tasks -> Mounts \cup {NoMount}]
          /\ \A u \in Tasks : pending'[u] = NoMount \/ (pending'[u] = pending[u] /\ pending[u] # m)
      BY <1>1, <1>t DEF PlacesType, Places, Homes
    <2> HIDE DEF m
    <2> QED BY <2>1, <1>1, <1>2, AttachPlaces DEF Unlocked
  <1>3. CASE stage' = [stage EXCEPT ![m] = "dead"] /\ UNCHANGED list
    <2>1. PlacesType'
      BY <1>1, <1>3, <1>t DEF PlacesType
    <2>2. Listed' /\ ListedOnce' /\ Homes'
      BY <1>1, <1>3, <1>t, ListsFrame DEF PlacesType
    <2>3. \A x \in Mounts : x # m => stage'[x] = stage[x]
      BY <1>3, <1>t DEF PlacesType
    <2>4. copying # NoCopy => \A k \in DOMAIN copying.done : copying.done[k] \in Mounts
      BY <1>t, LenProperties, ElementOfSeq DEF PlacesType, Copyings
    <2>5. \A u \in Tasks : pending'[u] = NoMount \/ (pending'[u] = pending[u] /\ pending[u] # m)
      BY <1>1, <1>t DEF PlacesType
    <2>6. copying # NoCopy => copying.task \in Tasks
      BY <1>t DEF PlacesType, Copyings
    <2> HIDE DEF m
    <2>7. CopiedNew'
      BY <1>1, <1>3, <2>3, <2>4, <2>5, <2>6 DEF Places, CopiedNew
    <2>8. PendingNew'
      <3> SUFFICES ASSUME NEW u \in Tasks, pending'[u] # NoMount
                   PROVE  /\ stage'[pending'[u]] = "new"
                          /\ \A v \in Tasks : pending'[v] = pending'[u] => v = u
                          /\ copying' # NoCopy =>
                               \A k \in DOMAIN copying'.done : copying'.done[k] # pending'[u]
        BY DEF PendingNew
      <3>1. pending'[u] = pending[u] /\ pending[u] # m /\ pending[u] \in Mounts
        BY <2>5, <1>t DEF PlacesType
      <3>2. \A v \in Tasks : pending'[v] = pending'[u] => pending[v] = pending[u]
        BY <2>5, <3>1
      <3> QED BY <3>1, <3>2, <1>1, <2>3 DEF Places, PendingNew
    <2> QED BY <2>1, <2>2, <2>7, <2>8 DEF Places
  <1> QED BY <1>2, <1>3 DEF do_add_mount

\* A clone that is attached at once, or dropped.
LEMMA PlacesClone ==
  ASSUME Places, copying = NoCopy, NEW n \in Nss, list[n] # <<>>,
         NEW m \in Mounts, stage[m] = "free", UNCHANGED <<ns, pending, copying>>,
         \/ stage' = [stage EXCEPT ![m] = "attached"] /\ list' = [list EXCEPT ![n] = Append(@, m)]
         \/ stage' = [stage EXCEPT ![m] = "dead"] /\ UNCHANGED list
  PROVE  Places'
  <1>t. PlacesType
    BY DEF Places
  <1>1. \A u \in Tasks : pending[u] # m
    BY <1>t, MountsAssumption DEF Places, PlacesType, PendingNew
  <1>2. CASE /\ stage' = [stage EXCEPT ![m] = "attached"]
             /\ list' = [list EXCEPT ![n] = Append(@, m)]
    <2>1. pending' \in [Tasks -> Mounts \cup {NoMount}]
      BY <1>t DEF PlacesType
    <2> QED BY <2>1, <1>1, <1>2, AttachPlaces
  <1>3. CASE stage' = [stage EXCEPT ![m] = "dead"] /\ UNCHANGED list
    <2>1. PlacesType'
      BY <1>3, <1>t DEF PlacesType
    <2>2. Listed' /\ ListedOnce' /\ Homes'
      BY <1>3, <1>t, ListsFrame DEF PlacesType
    <2>3. CopiedNew' /\ PendingNew'
      BY <1>1, <1>3, <1>t DEF Places, CopiedNew, PendingNew, PlacesType
    <2> QED BY <2>1, <2>2, <2>3 DEF Places
  <1> QED BY <1>2, <1>3

LEMMA PlacesStartCopy ==
  ASSUME Places, NEW t \in Tasks, NEW n \in Nss, StartCopy(t, n)
  PROVE  Places'
  <1>t. PlacesType
    BY DEF Places
  <1>1. /\ copying = NoCopy /\ list[n] = <<>> /\ pending[t] = NoMount
        /\ copying' = [task |-> t, to |-> n, done |-> <<>>]
        /\ UNCHANGED <<stage, list, ns, pending>>
    BY DEF StartCopy, Idle, Unlocked
  <1>2. <<>> \in Seq(Mounts) /\ DOMAIN <<>> = {}
    BY EmptySeq
  <1>3. PlacesType'
    BY <1>1, <1>2, <1>t DEF PlacesType, Copyings
  <1>4. Listed' /\ ListedOnce' /\ Homes'
    BY <1>1, ListsFrame
  <1>5. CopiedNew' /\ PendingNew'
    BY <1>1, <1>2 DEF Places, CopiedNew, PendingNew
  <1> QED BY <1>3, <1>4, <1>5 DEF Places

LEMMA PlacesCopyOne ==
  ASSUME Places, NEW m \in Mounts, CopyOne(m)
  PROVE  Places'
  <1>t. PlacesType
    BY DEF Places
  <1> DEFINE s == copying.done
  <1>1. /\ copying # NoCopy /\ stage[m] = "free" /\ stage' = [stage EXCEPT ![m] = "new"]
        /\ copying' = [copying EXCEPT !.done = Append(@, m)] /\ UNCHANGED <<list, ns, pending>>
    BY DEF CopyOne, clone_mnt
  <1>2. /\ copying \in Copyings /\ s \in Seq(Mounts)
        /\ copying.task \in Tasks /\ copying.to \in Nss
    BY <1>1, <1>t DEF PlacesType, Copyings
  <1>3. /\ DOMAIN s = 1..Len(s) /\ Len(s) \in Nat /\ Append(s, m) \in Seq(Mounts)
        /\ DOMAIN Append(s, m) = 1..(Len(s) + 1) /\ Append(s, m)[Len(s) + 1] = m
        /\ \A k \in 1..Len(s) : Append(s, m)[k] = s[k] /\ s[k] \in Mounts
    BY <1>2, AppendProperties, LenProperties, ElementOfSeq
  <1>4. /\ copying' \in Copyings /\ copying'.done = Append(s, m)
        /\ copying'.task = copying.task /\ copying'.to = copying.to
    BY <1>1, <1>2, <1>3 DEF Copyings
  <1>5. \A x \in Mounts : x # m => stage'[x] = stage[x]
    BY <1>1, <1>t DEF PlacesType
  <1>6. stage'[m] = "new"
    BY <1>1, <1>t DEF PlacesType
  <1>7. PlacesType'
    BY <1>1, <1>4, <1>t DEF PlacesType
  <1>8. Listed' /\ ListedOnce' /\ Homes'
    BY <1>1, <1>t, ListsFrame DEF PlacesType
  <1>9. \A k \in 1..Len(s) : s[k] # m /\ stage[s[k]] = "new"
    BY <1>1, <1>3 DEF Places, CopiedNew
  <1> DEFINE r == Append(s, m)
  <1>10. \A k \in DOMAIN r : \/ k \in 1..Len(s) /\ r[k] = s[k] /\ r[k] # m
                             \/ k = Len(s) + 1 /\ r[k] = m
    BY <1>3, <1>9
  <1>11. CopiedNew'
    <2>1. list[copying.to] = <<>> /\ pending[copying.task] = NoMount
          /\ \A j, k \in 1..Len(s) : s[j] = s[k] => j = k
      BY <1>1, <1>3 DEF Places, CopiedNew
    <2>2. \A k \in DOMAIN r : stage'[r[k]] = "new"
      BY <1>3, <1>5, <1>6, <1>9, <1>10
    <2>3. \A j, k \in DOMAIN r : r[j] = r[k] => j = k
      BY <1>10, <2>1
    <2> HIDE DEF r, s
    <2> QED BY <2>1, <2>2, <2>3, <1>1, <1>4 DEF CopiedNew, r, s
  <1>12. PendingNew'
    <2> SUFFICES ASSUME NEW u \in Tasks, pending[u] # NoMount
                 PROVE  /\ stage'[pending[u]] = "new"
                        /\ \A v \in Tasks : pending[v] = pending[u] => v = u
                        /\ \A k \in DOMAIN r : r[k] # pending[u]
      BY <1>1, <1>4 DEF PendingNew
    <2>1. pending[u] \in Mounts /\ pending[u] # m
      BY <1>1, <1>t DEF PlacesType, Places, PendingNew
    <2> QED BY <2>1, <1>1, <1>3, <1>5, <1>10 DEF Places, PendingNew
  <1> QED BY <1>7, <1>8, <1>11, <1>12 DEF Places

LEMMA PlacesCopyFails ==
  ASSUME Places, CopyFails
  PROVE  Places'
  <1>t. PlacesType
    BY DEF Places
  <1>1. /\ copying # NoCopy /\ copying' = NoCopy /\ UNCHANGED <<list, ns, pending>>
        /\ stage' = [m \in Mounts |-> IF m \in Range(copying.done) THEN "dead" ELSE stage[m]]
    BY DEF CopyFails
  <1>2. \A m \in Range(copying.done) : \E k \in DOMAIN copying.done : copying.done[k] = m
    BY DEF Range
  <1>3. \A m \in Range(copying.done) : stage[m] = "new"
    BY <1>1, <1>2 DEF Places, CopiedNew
  <1>4. PlacesType'
    BY <1>1, <1>t DEF PlacesType
  <1>5. Listed' /\ ListedOnce' /\ Homes'
    BY <1>1, <1>3, ListsFrame
  <1>6. PendingNew'
    BY <1>1, <1>2, <1>t DEF Places, PlacesType, PendingNew
  <1> QED BY <1>1, <1>4, <1>5, <1>6 DEF Places, CopiedNew

LEMMA PlacesFinishCopy ==
  ASSUME Places, FinishCopy
  PROVE  Places'
  <1>t. PlacesType
    BY DEF Places
  <1> DEFINE s  == copying.done
             t  == copying.task
             to == copying.to
  <1>1. /\ copying # NoCopy /\ Len(s) = Len(list[ns[t]])
        /\ stage' = [m \in Mounts |-> IF m \in Range(s) THEN "attached" ELSE stage[m]]
        /\ list' = [list EXCEPT ![to] = s]
        /\ ns' = [ns EXCEPT ![t] = to]
        /\ copying' = NoCopy /\ UNCHANGED pending
    BY DEF FinishCopy
  <1>2. /\ s \in Seq(Mounts) /\ t \in Tasks /\ to \in Nss
        /\ DOMAIN s = 1..Len(s) /\ Len(s) \in Nat /\ \A k \in DOMAIN s : s[k] \in Mounts
    BY <1>1, <1>t, LenProperties, ElementOfSeq DEF PlacesType, Copyings
  <1>3. /\ list[to] = <<>>
        /\ \A k \in DOMAIN s : stage[s[k]] = "new"
        /\ \A j, k \in DOMAIN s : s[j] = s[k] => j = k
    BY <1>1 DEF Places, CopiedNew
  <1>4. \A x : x \in Range(s) <=> \E k \in DOMAIN s : s[k] = x
    BY DEF Range
  <1> HIDE DEF s, t, to
  <1>5. list'[to] = s /\ \A n \in Nss \ {to} : list'[n] = list[n]
    BY <1>1, <1>2, <1>t DEF PlacesType
  <1>6. ns'[t] = to /\ \A u \in Tasks \ {t} : ns'[u] = ns[u]
    BY <1>1, <1>2, <1>t DEF PlacesType
  <1>7. PlacesType'
    BY <1>1, <1>2, <1>t DEF PlacesType
  <1>8. \A n \in Nss : \A k \in DOMAIN list[n] :
          list[n][k] \in Mounts /\ \A j \in DOMAIN s : s[j] # list[n][k]
    BY <1>2, <1>3, <1>t, LenProperties, ElementOfSeq DEF Places, PlacesType, Listed
  <1>9. Listed'
    <2> SUFFICES ASSUME NEW n \in Nss, NEW k \in DOMAIN list'[n] PROVE stage'[list'[n][k]] = "attached"
      BY DEF Listed
    <2>1. CASE n = to
      BY <2>1, <1>1, <1>2, <1>4, <1>5
    <2>2. CASE n # to
      BY <2>2, <1>1, <1>5, <1>8 DEF Places, Listed
    <2> QED BY <2>1, <2>2
  <1>10. ListedOnce'
    BY <1>3, <1>5, <1>8 DEF Places, ListedOnce
  <1>11. CopiedNew'
    BY <1>1 DEF CopiedNew
  <1>12. PendingNew'
    <2>1. \A u \in Tasks : pending[u] # NoMount => pending[u] \in Mounts /\ pending[u] \notin Range(s)
      BY <1>1, <1>4, <1>t DEF Places, PlacesType, PendingNew, s
    <2> QED BY <2>1, <1>1 DEF Places, PendingNew
  <1>13. Homes'
    <2>1. \A u \in Tasks : ns[u] \in Nss /\ list[ns[u]] # <<>> /\ ns[u] # to
      BY <1>3, <1>t DEF Places, PlacesType, Homes
    <2>2. InitNs # to
      BY <1>3 DEF Places, Homes
    <2>3. s # <<>>
      <3>1. Len(list[ns[t]]) > 0
        BY <2>1, <1>2, <1>t, EmptySeq DEF PlacesType
      <3> QED BY <3>1, <1>1, EmptySeq
    <2> QED BY <2>1, <2>2, <2>3, <1>5, <1>6, MountsAssumption DEF Places, Homes
  <1> QED BY <1>7, <1>9, <1>10, <1>11, <1>12, <1>13 DEF Places

LEMMA PlacesUmount ==
  ASSUME Places, NEW n \in Nss, umount(n)
  PROVE  Places'
  <1>t. PlacesType
    BY DEF Places
  <1>1. PICK k \in 2..Len(list[n]) : /\ stage' = [stage EXCEPT ![list[n][k]] = "dead"]
                                     /\ list' = [list EXCEPT ![n] = RemoveAt(@, k)]
    BY DEF umount
  <1>2. copying = NoCopy /\ UNCHANGED <<ns, pending, copying>>
    BY DEF umount, Unlocked
  <1> DEFINE old == list[n]
             m   == old[k]
             new == RemoveAt(old, k)
  <1>3. old \in Seq(Mounts) /\ DOMAIN old = 1..Len(old) /\ Len(old) \in Nat /\ k \in 1..Len(old)
    BY <1>t, LenProperties DEF PlacesType
  <1>4. m \in Mounts
    BY <1>3, ElementOfSeq
  <1>5. /\ new \in Seq(Mounts) /\ Len(new) = Len(old) - 1
        /\ \A i \in 1..(Len(old) - 1) : new[i] = IF i < k THEN old[i] ELSE old[i + 1]
    BY <1>3, RemoveAtShifts
  <1>6. DOMAIN new = 1..(Len(old) - 1)
    BY <1>5, LenProperties
  <1> DEFINE from(i) == IF i < k THEN i ELSE i + 1
  <1>7. \A i \in DOMAIN new : from(i) \in DOMAIN old /\ new[i] = old[from(i)] /\ from(i) # k
    BY <1>3, <1>5, <1>6
  <1>8. \A i, j \in DOMAIN new : from(i) = from(j) => i = j
    BY <1>3, <1>6
  <1>9. list'[n] = new /\ \A i \in Nss \ {n} : list'[i] = list[i]
    BY <1>1, <1>t DEF PlacesType
  <1>10. \A x \in Mounts : x # m => stage'[x] = stage[x]
    BY <1>1, <1>t DEF PlacesType
  <1>11. PlacesType'
    BY <1>1, <1>2, <1>5, <1>t DEF PlacesType
  <1>12. /\ \A i \in Nss \ {n} : \A j \in DOMAIN list[i] : list[i][j] # m
         /\ \A j \in DOMAIN old : j # k => old[j] # m
    BY <1>3 DEF Places, ListedOnce
  <1>13. \A i \in Nss : \A j \in DOMAIN list[i] : list[i][j] \in Mounts
    BY <1>t, LenProperties, ElementOfSeq DEF PlacesType
  <1> HIDE DEF from, new, m
  <1>14. Listed'
    <2> SUFFICES ASSUME NEW i \in Nss, NEW j \in DOMAIN list'[i] PROVE stage'[list'[i][j]] = "attached"
      BY DEF Listed
    <2>1. CASE i = n
      BY <2>1, <1>7, <1>9, <1>10, <1>12, <1>13 DEF Places, Listed
    <2>2. CASE i # n
      BY <2>2, <1>9, <1>10, <1>12, <1>13 DEF Places, Listed
    <2> QED BY <2>1, <2>2
  <1>15. ListedOnce'
    <2> SUFFICES ASSUME NEW n1 \in Nss, NEW n2 \in Nss,
                        NEW k1 \in DOMAIN list'[n1], NEW k2 \in DOMAIN list'[n2],
                        list'[n1][k1] = list'[n2][k2]
                 PROVE  n1 = n2 /\ k1 = k2
      BY DEF ListedOnce
    <2>1. CASE n1 # n /\ n2 # n
      BY <2>1, <1>9 DEF Places, ListedOnce
    <2>2. CASE n1 = n /\ n2 = n
      BY <2>2, <1>7, <1>8, <1>9 DEF Places, ListedOnce
    <2>3. CASE n1 = n /\ n2 # n
      BY <2>3, <1>7, <1>9 DEF Places, ListedOnce
    <2>4. CASE n1 # n /\ n2 = n
      BY <2>4, <1>7, <1>9 DEF Places, ListedOnce
    <2> QED BY <2>1, <2>2, <2>3, <2>4
  <1>16. CopiedNew' /\ PendingNew'
    <2>1. \A u \in Tasks : pending[u] # NoMount => pending[u] \in Mounts /\ pending[u] # m
      BY <1>3, <1>t DEF Places, PlacesType, PendingNew, Listed, m
    <2> QED BY <2>1, <1>2, <1>10 DEF Places, CopiedNew, PendingNew
  <1>17. Homes'
    <2>1. new # <<>> /\ new[1] = old[1]
      <3>1. 1 \in 1..(Len(old) - 1) /\ 1 < k
        BY <1>3
      <3> QED BY <3>1, <1>5, EmptySeq DEF new
    <2> QED BY <2>1, <1>2, <1>9, <1>t, MountsAssumption DEF Places, PlacesType, Homes
  <1> QED BY <1>11, <1>14, <1>15, <1>16, <1>17 DEF Places

LEMMA PlacesPutNs ==
  ASSUME Places, NEW n \in Nss, put_mnt_ns(n)
  PROVE  Places'
  <1>t. PlacesType
    BY DEF Places
  <1>1. /\ copying = NoCopy /\ n # InitNs /\ \A t \in Tasks : ns[t] # n
        /\ stage' = [m \in Mounts |-> IF m \in Range(list[n]) THEN "dead" ELSE stage[m]]
        /\ list' = [list EXCEPT ![n] = <<>>] /\ UNCHANGED <<ns, pending, copying>>
    BY DEF put_mnt_ns, Unlocked
  <1>2. <<>> \in Seq(Mounts) /\ DOMAIN <<>> = {}
    BY EmptySeq
  <1>3. list'[n] = <<>> /\ \A i \in Nss \ {n} : list'[i] = list[i]
    BY <1>1, <1>t DEF PlacesType
  <1>4. \A x \in Range(list[n]) : stage[x] = "attached" /\ \E k \in DOMAIN list[n] : list[n][k] = x
    BY DEF Range, Places, Listed
  <1>5. PlacesType'
    BY <1>1, <1>2, <1>t DEF PlacesType
  <1>6. Listed'
    <2> SUFFICES ASSUME NEW i \in Nss, NEW k \in DOMAIN list'[i] PROVE stage'[list'[i][k]] = "attached"
      BY DEF Listed
    <2>1. i # n /\ list'[i] = list[i]
      BY <1>2, <1>3
    <2>2. list[i][k] \in Mounts
      BY <2>1, <1>t, LenProperties, ElementOfSeq DEF PlacesType
    <2>3. list[i][k] \notin Range(list[n])
      BY <2>1, <1>4 DEF Places, ListedOnce
    <2> QED BY <2>1, <2>2, <2>3, <1>1 DEF Places, Listed
  <1>7. ListedOnce'
    BY <1>2, <1>3 DEF Places, ListedOnce
  <1>8. CopiedNew' /\ PendingNew'
    <2>1. \A u \in Tasks : pending[u] # NoMount
            => pending[u] \in Mounts /\ pending[u] \notin Range(list[n])
      BY <1>4, <1>t DEF Places, PlacesType, PendingNew
    <2> QED BY <2>1, <1>1 DEF Places, CopiedNew, PendingNew
  <1>9. Homes'
    BY <1>1, <1>3, <1>t, MountsAssumption DEF Places, PlacesType, Homes
  <1> QED BY <1>5, <1>6, <1>7, <1>8, <1>9 DEF Places

LEMMA PlacesFree ==
  ASSUME Places, NEW m \in Mounts, free_mount(m)
  PROVE  Places'
  <1>t. PlacesType
    BY DEF Places
  <1>1. /\ stage[m] = "dead" /\ stage' = [stage EXCEPT ![m] = "free"]
        /\ UNCHANGED <<list, ns, pending, copying>>
    BY DEF free_mount
  <1>2. PlacesType'
    BY <1>1, <1>t DEF PlacesType
  <1>3. Listed' /\ ListedOnce' /\ Homes'
    BY <1>1, <1>t, ListsFrame DEF PlacesType
  <1>4. copying # NoCopy => \A k \in DOMAIN copying.done : copying.done[k] \in Mounts
    BY <1>t, LenProperties, ElementOfSeq DEF PlacesType, Copyings
  <1>5. \A x \in Mounts : x # m => stage'[x] = stage[x]
    BY <1>1, <1>t DEF PlacesType
  <1>6. CopiedNew' /\ PendingNew'
    BY <1>1, <1>4, <1>5, <1>t DEF Places, PlacesType, CopiedNew, PendingNew
  <1> QED BY <1>2, <1>3, <1>6 DEF Places

LEMMA NextPlaces == Places /\ [Next]_vars => Places'
  <1> SUFFICES ASSUME Places, [Next]_vars PROVE Places'
    OBVIOUS
  <1>1. ASSUME NEW t \in Tasks, NEW m \in Mounts, do_loopback(t, m) PROVE Places'
    <2>1. /\ copying = NoCopy /\ stage[m] = "free" /\ UNCHANGED <<ns, pending, copying>>
          /\ \/ /\ stage' = [stage EXCEPT ![m] = "attached"]
                /\ list' = [list EXCEPT ![ns[t]] = Append(@, m)]
             \/ stage' = [stage EXCEPT ![m] = "dead"] /\ UNCHANGED list
      BY <1>1 DEF do_loopback, Unlocked, clone_mnt
    <2>2. ns[t] \in Nss /\ list[ns[t]] # <<>>
      BY DEF Places, PlacesType, Homes
    <2> QED BY <2>1, <2>2, PlacesClone
  <1>2. ASSUME NEW t \in Tasks, NEW m \in Mounts, NEW n \in Nss, propagate_one(t, n, m) PROVE Places'
    <2>1. /\ copying = NoCopy /\ stage[m] = "free" /\ list[n] # <<>>
          /\ stage' = [stage EXCEPT ![m] = "attached"] /\ list' = [list EXCEPT ![n] = Append(@, m)]
          /\ UNCHANGED <<ns, pending, copying>>
      BY <1>2 DEF propagate_one, Unlocked, clone_mnt
    <2> QED BY <2>1, PlacesClone
  <1>3. CASE UNCHANGED vars
    BY <1>3 DEF vars, Places, PlacesType, Listed, ListedOnce, CopiedNew, PendingNew, Homes
  <1> QED BY <1>1, <1>2, <1>3, PlacesKernMount, PlacesAddMount, PlacesStartCopy, PlacesCopyOne,
             PlacesCopyFails, PlacesFinishCopy, PlacesUmount, PlacesPutNs, PlacesFree DEF Next

LEMMA InitPlaces == Init => Places
  <1> SUFFICES ASSUME Init PROVE Places
    OBVIOUS
  <1>1. <<>> \in Seq(Mounts) /\ DOMAIN <<>> = {} /\ <<Root>> \in Seq(Mounts) /\ DOMAIN <<Root>> = {1}
        /\ <<Root>>[1] = Root /\ <<Root>> # <<>>
    BY MountsAssumption, EmptySeq
  <1> QED BY <1>1, MountsAssumption
          DEF Init, Places, PlacesType, Listed, ListedOnce, CopiedNew, PendingNew, Homes

-----------------------------------------------------------------------------
(* What the ids of a mount say of the id it owns.                           *)

NamesType ==
  /\ mnt_id_ida \subseteq OrdinaryIds /\ susfs_mnt_id_ida \subseteq SusIds
  /\ mnt_id_start \in 0..DEFAULT_SUS_MNT_ID
  /\ susfs_mnt_id_start \in DEFAULT_SUS_MNT_ID..(MaxSusId + 1)
  /\ mnt_id \in [Mounts -> OrdinaryIds \cup SusIds]
  /\ susfs_mnt_id_backup \in [Mounts -> OrdinaryIds \cup SusIds \cup {UnshareMark}]
  /\ susfs_last_fake_mnt_id \in [Tasks -> 0..DEFAULT_SUS_MNT_ID]
  /\ owned \in [Mounts -> AllocatedIds \cup {NoId}]
  /\ namer \in [Mounts -> Tasks \cup {NoTask}]

Exact ==
  /\ \A id \in OrdinaryIds : id \in mnt_id_ida <=> \E m \in Mounts : owned[m] = FromIda("mnt", id)
  /\ \A m \in Mounts : \A id \in SusIds :
       owned[m] = FromIda("susfs", id) => id \in susfs_mnt_id_ida
  /\ \A m1, m2 \in Mounts : owned[m1] = owned[m2] /\ owned[m1] # NoId => m1 = m2

\* An ordinary id is visible, or kept in the backup; 0, which says that there is
\* no backup, is never kept there.  A copy that shares its original's id is
\* marked.  A sus id is visible too, but for a marked mount and for one that
\* zygote has numbered.
Tells(m) ==
  /\ owned[m] = NoId => susfs_mnt_id_backup[m] = UnshareMark
  /\ \A id \in OrdinaryIds : owned[m] = FromIda("mnt", id) =>
       /\ mnt_id[m] \in OrdinaryIds
       /\ \/ susfs_mnt_id_backup[m] = 0 /\ mnt_id[m] = id
          \/ susfs_mnt_id_backup[m] = id /\ id # 0
  /\ \A id \in SusIds : owned[m] = FromIda("susfs", id) =>
       \/ susfs_mnt_id_backup[m] = UnshareMark
       \/ susfs_mnt_id_backup[m] = 0 /\ mnt_id[m] = id /\ namer[m] = NoTask
       \/ susfs_mnt_id_backup[m] = id /\ mnt_id[m] \in OrdinaryIds /\ namer[m] \in Tasks

\* A mount that shows the id it owns.
Plain(m) ==
  /\ susfs_mnt_id_backup[m] = 0
  /\ owned[m] \in {FromIda("mnt", mnt_id[m]), FromIda("susfs", mnt_id[m])}

Owners ==
  /\ \A m \in Mounts : stage[m] = "free" => owned[m] = NoId
  /\ \A m \in Mounts : stage[m] # "free" => Tells(m)
  /\ owned[Root] = FromIda("mnt", 0)

\* zygote begins to count at an ordinary id.
ZygoteFirst ==
  /\ \A t \in Tasks : Domain[t] = "zygote" => ~IsSus(list[ns[t]][1])
  /\ copying # NoCopy /\ Domain[copying.task] = "zygote" =>
       /\ \A k \in DOMAIN copying.done : Plain(copying.done[k])
       /\ copying.done # <<>> => ~IsSus(copying.done[1])

Names == NamesType /\ Exact /\ HintSound /\ Owners /\ ZygoteFirst

IInv == Places /\ Names

LEMMA OwnedCases ==
  ASSUME NamesType, NEW m \in Mounts
  PROVE  \/ owned[m] = NoId
         \/ \E id \in OrdinaryIds : owned[m] = FromIda("mnt", id)
         \/ \E id \in SusIds : owned[m] = FromIda("susfs", id)
  BY DEF NamesType, AllocatedIds, FromIda

LEMMA IdsDiffer ==
  /\ \A a, b : /\ FromIda("mnt", a) # FromIda("susfs", b)
               /\ FromIda("mnt", a) = FromIda("mnt", b) => a = b
               /\ FromIda("susfs", a) = FromIda("susfs", b) => a = b
  /\ \A a \in Nat : FromIda("mnt", a) # NoId /\ FromIda("susfs", a) # NoId
  /\ \A a : /\ FromIda("mnt", a).ida = "mnt" /\ FromIda("susfs", a).ida = "susfs"
            /\ FromIda("mnt", a).id = a /\ FromIda("susfs", a).id = a
  BY NoIdAssumption DEF FromIda

LEMMA IdRanges ==
  /\ OrdinaryIds \subseteq Nat /\ SusIds \subseteq Nat /\ 0 \in OrdinaryIds
  /\ \A id \in OrdinaryIds : id < DEFAULT_SUS_MNT_ID /\ id \notin SusIds /\ id # UnshareMark
  /\ \A id \in SusIds : id >= DEFAULT_SUS_MNT_ID /\ id # 0 /\ id # UnshareMark
  /\ UnshareMark # 0
  BY IdsAssumption DEF OrdinaryIds, SusIds, UnshareMark

LEMMA RootAttached == ASSUME Places PROVE stage[Root] = "attached"
  BY MountsAssumption, EmptySeq, LenProperties DEF Places, PlacesType, Listed, Homes

-----------------------------------------------------------------------------
\* What mnt_free_id makes of the ids of a mount.
LEMMA ReleasedIs ==
  ASSUME NamesType, NEW m \in Mounts, Tells(m)
  PROVE  /\ owned[m] = NoId => Released(m) = NoId
         /\ \A id \in OrdinaryIds : owned[m] = FromIda("mnt", id) => Released(m) = FromIda("mnt", id)
         /\ \A id \in SusIds : owned[m] = FromIda("susfs", id) =>
              \/ Unshared(m) /\ Released(m) = NoId
              \/ ~Unshared(m) /\ namer[m] = NoTask /\ Released(m) = FromIda("susfs", id)
              \/ ~Unshared(m) /\ namer[m] \in Tasks /\ Released(m) = FromIda("mnt", id)
  <1>1. mnt_id[m] \in OrdinaryIds <=> ~IsSus(m)
    <2>1. mnt_id[m] \in OrdinaryIds \cup SusIds
      BY DEF NamesType
    <2> QED BY <2>1, IdsAssumption DEF IsSus, OrdinaryIds, SusIds
  <1>2. CASE owned[m] = NoId
    BY <1>2, IdsDiffer, IdRanges DEF Tells, Released, UnshareMark
  <1>3. ASSUME NEW id \in OrdinaryIds, owned[m] = FromIda("mnt", id)
        PROVE  Released(m) = FromIda("mnt", id)
    BY <1>1, <1>3, IdRanges DEF Tells, Released, UnshareMark
  <1>4. ASSUME NEW id \in SusIds, owned[m] = FromIda("susfs", id)
        PROVE  \/ Unshared(m) /\ Released(m) = NoId
               \/ ~Unshared(m) /\ namer[m] = NoTask /\ Released(m) = FromIda("susfs", id)
               \/ ~Unshared(m) /\ namer[m] \in Tasks /\ Released(m) = FromIda("mnt", id)
    <2>1. CASE susfs_mnt_id_backup[m] = UnshareMark
      BY <2>1 DEF Released, Unshared, UnshareMark
    <2>2. CASE susfs_mnt_id_backup[m] = 0 /\ mnt_id[m] = id /\ namer[m] = NoTask
      BY <1>1, <2>2, IdRanges DEF Released, Unshared, UnshareMark
    <2>3. CASE susfs_mnt_id_backup[m] = id /\ mnt_id[m] \in OrdinaryIds /\ namer[m] \in Tasks
      BY <1>1, <2>3, IdRanges DEF Released, Unshared, UnshareMark
    <2> QED BY <1>4, <2>1, <2>2, <2>3 DEF Tells
  <1> QED BY <1>2, <1>3, <1>4

\* The names of the mounts and the allocators are as before.
LEMMA NamesFrame ==
  ASSUME Names, UNCHANGED <<idas, names>>,
         \A m \in Mounts : stage'[m] = "free" <=> stage[m] = "free"
  PROVE  Exact' /\ HintSound' /\ Owners'
  <1>1. Exact' /\ HintSound'
    BY DEF Names, Exact, HintSound, idas, names
  <1>2. \A m \in Mounts : Tells(m)' <=> Tells(m)
    BY DEF Tells, names
  <1>3. Owners'
    BY <1>2 DEF Names, Owners, names
  <1> QED BY <1>1, <1>3

-----------------------------------------------------------------------------
(* A mount gets its ids.                                                    *)

\* The outcomes of alloc_vfsmnt.
Allocated(id, own) ==
  \/ mnt_alloc_id(id) /\ own = FromIda("mnt", id)
  \/ susfs_mnt_alloc_id(id) /\ own = FromIda("susfs", id)
  \/ own = NoId /\ id \in OrdinaryIds \cup SusIds /\ UNCHANGED idas

LEMMA AllocExact ==
  ASSUME Names, NEW m \in Mounts, owned[m] = NoId,
         NEW id, NEW own, Allocated(id, own), owned' = [owned EXCEPT ![m] = own]
  PROVE  /\ Exact' /\ HintSound'
         /\ mnt_id_ida' \subseteq OrdinaryIds /\ susfs_mnt_id_ida' \subseteq SusIds
         /\ mnt_id_start' \in 0..DEFAULT_SUS_MNT_ID
         /\ susfs_mnt_id_start' \in DEFAULT_SUS_MNT_ID..(MaxSusId + 1)
         /\ own = FromIda("mnt", id) => id \in OrdinaryIds /\ id # 0
         /\ own = FromIda("susfs", id) => id \in SusIds
  <1>t. NamesType /\ Exact /\ HintSound
    BY DEF Names
  <1>n. /\ mnt_id_ida \subseteq OrdinaryIds /\ susfs_mnt_id_ida \subseteq SusIds
        /\ mnt_id_start \in 0..DEFAULT_SUS_MNT_ID
        /\ susfs_mnt_id_start \in DEFAULT_SUS_MNT_ID..(MaxSusId + 1)
        /\ owned \in [Mounts -> AllocatedIds \cup {NoId}]
    BY <1>t DEF NamesType
  <1>o. owned'[m] = own /\ \A x \in Mounts \ {m} : owned'[x] = owned[x]
    BY <1>n
  <1>1. CASE mnt_alloc_id(id) /\ own = FromIda("mnt", id)
    <2>1. mnt_alloc_id(id) /\ own = FromIda("mnt", id)
      BY <1>1
    <2>2. /\ id \in OrdinaryIds /\ id \notin mnt_id_ida
          /\ id >= mnt_id_start /\ \A j \in mnt_id_start..(id - 1) : j \in mnt_id_ida
          /\ mnt_id_ida' = mnt_id_ida \cup {id} /\ mnt_id_start' = id + 1
          /\ UNCHANGED <<susfs_mnt_id_ida, susfs_mnt_id_start>>
      BY <2>1 DEF mnt_alloc_id, FirstFree
    <2>3. id # 0
      BY <2>2, <1>t, MountsAssumption DEF Names, Owners, Exact
    <2>4. \A x \in Mounts : owned[x] # own
      BY <2>1, <2>2, <1>t DEF Exact
    <2>5. Exact'
      <3>1. \A i \in OrdinaryIds : i \in mnt_id_ida' <=> \E x \in Mounts : owned'[x] = FromIda("mnt", i)
        <4> SUFFICES ASSUME NEW i \in OrdinaryIds
                     PROVE  i \in mnt_id_ida' <=> \E x \in Mounts : owned'[x] = FromIda("mnt", i)
          OBVIOUS
        <4>1. CASE i = id
          BY <4>1, <1>o, <2>1, <2>2
        <4>2. CASE i # id
          <5>1. FromIda("mnt", i) # own
            BY <4>2, <2>1, IdsDiffer
          <5>2. FromIda("mnt", i) # NoId \/ i \notin mnt_id_ida
            BY <1>n, IdsDiffer, IdRanges
          <5>3. \A x \in Mounts : owned'[x] = FromIda("mnt", i) <=> x # m /\ owned[x] = FromIda("mnt", i)
            BY <1>o, <5>1
          <5>4. i \in mnt_id_ida' <=> i \in mnt_id_ida
            BY <2>2, <4>2
          <5>5. \A x \in Mounts : owned[x] = FromIda("mnt", i) /\ i \in mnt_id_ida => x # m
            BY <5>2
          <5> QED BY <5>3, <5>4, <5>5, <1>t DEF Exact
        <4> QED BY <4>1, <4>2
      <3>2. \A x \in Mounts : \A i \in SusIds :
              owned'[x] = FromIda("susfs", i) => i \in susfs_mnt_id_ida'
        BY <1>o, <1>t, <2>1, <2>2, IdsDiffer DEF Exact
      <3>3. \A x, y \in Mounts : owned'[x] = owned'[y] /\ owned'[x] # NoId => x = y
        BY <1>o, <1>t, <2>4 DEF Exact
      <3> QED BY <3>1, <3>2, <3>3 DEF Exact
    <2>6. mnt_id_start' \in 0..DEFAULT_SUS_MNT_ID
      BY <2>2, IdsAssumption DEF OrdinaryIds
    <2>7. HintSound'
      <3>1. \A j \in 0..(mnt_id_start' - 1) :
              j \in 0..(mnt_id_start - 1) \/ j \in mnt_id_start..(id - 1) \/ j = id
        BY <2>2, <1>n, IdsAssumption DEF OrdinaryIds
      <3> QED BY <3>1, <2>2, <1>t DEF HintSound
    <2> QED BY <1>n, <2>1, <2>2, <2>3, <2>5, <2>6, <2>7, IdsDiffer
  <1>2. CASE susfs_mnt_alloc_id(id) /\ own = FromIda("susfs", id)
    <2>1. susfs_mnt_alloc_id(id) /\ own = FromIda("susfs", id)
      BY <1>2
    <2>2. /\ id \in SusIds /\ id \notin susfs_mnt_id_ida
          /\ id >= susfs_mnt_id_start /\ \A j \in susfs_mnt_id_start..(id - 1) : j \in susfs_mnt_id_ida
          /\ susfs_mnt_id_ida' = susfs_mnt_id_ida \cup {id} /\ susfs_mnt_id_start' = id + 1
          /\ UNCHANGED <<mnt_id_ida, mnt_id_start>>
      BY <2>1 DEF susfs_mnt_alloc_id, FirstFree
    <2>3. \A x \in Mounts : owned[x] # own
      BY <2>1, <2>2, <1>t DEF Exact
    <2>4. Exact'
      <3>1. \A i \in OrdinaryIds : i \in mnt_id_ida' <=> \E x \in Mounts : owned'[x] = FromIda("mnt", i)
        <4> SUFFICES ASSUME NEW i \in OrdinaryIds
                     PROVE  i \in mnt_id_ida <=> \E x \in Mounts : owned'[x] = FromIda("mnt", i)
          BY <2>2
        <4>1. FromIda("mnt", i) # own
          BY <2>1, IdsDiffer
        <4>2. i \in mnt_id_ida => FromIda("mnt", i) # NoId
          BY <1>n, IdsDiffer, IdRanges
        <4>3. \A x \in Mounts : owned'[x] = FromIda("mnt", i) <=> x # m /\ owned[x] = FromIda("mnt", i)
          BY <1>o, <4>1
        <4> QED BY <4>2, <4>3, <1>t DEF Exact
      <3>2. \A x \in Mounts : \A i \in SusIds :
              owned'[x] = FromIda("susfs", i) => i \in susfs_mnt_id_ida'
        BY <1>o, <1>t, <2>1, <2>2, IdsDiffer DEF Exact
      <3>3. \A x, y \in Mounts : owned'[x] = owned'[y] /\ owned'[x] # NoId => x = y
        BY <1>o, <1>t, <2>3 DEF Exact
      <3> QED BY <3>1, <3>2, <3>3 DEF Exact
    <2>5. susfs_mnt_id_start' \in DEFAULT_SUS_MNT_ID..(MaxSusId + 1)
      BY <2>2, IdsAssumption DEF SusIds
    <2>6. HintSound'
      <3>1. \A j \in DEFAULT_SUS_MNT_ID..(susfs_mnt_id_start' - 1) :
              \/ j \in DEFAULT_SUS_MNT_ID..(susfs_mnt_id_start - 1)
              \/ j \in susfs_mnt_id_start..(id - 1) \/ j = id
        BY <2>2, <1>n, IdsAssumption DEF SusIds
      <3> QED BY <3>1, <2>2, <1>t DEF HintSound
    <2> QED BY <1>n, <2>1, <2>2, <2>4, <2>5, <2>6, IdsDiffer
  <1>3. CASE own = NoId /\ id \in OrdinaryIds \cup SusIds /\ UNCHANGED idas
    <2>1. own = NoId /\ id \in OrdinaryIds \cup SusIds /\ UNCHANGED idas
      BY <1>3
    <2>2. owned' = owned
      BY <1>o, <1>n, <2>1
    <2>3. Exact' /\ HintSound'
      BY <1>t, <2>1, <2>2 DEF Exact, HintSound, idas
    <2>4. own # FromIda("mnt", id) /\ own # FromIda("susfs", id)
      BY <2>1, IdsDiffer, IdRanges
    <2> QED BY <1>n, <2>1, <2>3, <2>4 DEF idas
  <1> QED BY <1>1, <1>2, <1>3 DEF Allocated

\* The outcomes of Name.
Shown(m, id, own, bk) ==
  /\ owned' = [owned EXCEPT ![m] = own]
  /\ mnt_id' = [mnt_id EXCEPT ![m] = id]
  /\ susfs_mnt_id_backup' = [susfs_mnt_id_backup EXCEPT ![m] = bk]
  /\ namer' = [namer EXCEPT ![m] = NoTask] /\ UNCHANGED susfs_last_fake_mnt_id

Faked(t, m, id, own) ==
  /\ susfs_last_fake_mnt_id[t] \in OrdinaryIds
  /\ owned' = [owned EXCEPT ![m] = own]
  /\ mnt_id' = [mnt_id EXCEPT ![m] = susfs_last_fake_mnt_id[t]]
  /\ susfs_mnt_id_backup' = [susfs_mnt_id_backup EXCEPT ![m] = id]
  /\ susfs_last_fake_mnt_id' = [susfs_last_fake_mnt_id EXCEPT ![t] = @ + 1]
  /\ namer' = [namer EXCEPT ![m] = t]

\* Nothing but the ids of m changes.
OnlyIdsOf(m) ==
  \A x \in Mounts \ {m} : /\ owned'[x] = owned[x] /\ mnt_id'[x] = mnt_id[x]
                          /\ susfs_mnt_id_backup'[x] = susfs_mnt_id_backup[x]
                          /\ namer'[x] = namer[x]

\* A mount that shows the id alloc_vfsmnt has given it.
LEMMA ShownTells ==
  ASSUME Names, NEW m \in Mounts, stage[m] = "free",
         NEW id, NEW own, Allocated(id, own), NEW bk \in {0, UnshareMark},
         own = FromIda("mnt", id) => bk = 0,
         own = NoId => bk = UnshareMark,
         Shown(m, id, own, bk)
  PROVE  /\ NamesType' /\ Exact' /\ HintSound' /\ Tells(m)' /\ OnlyIdsOf(m)
         /\ mnt_id'[m] = id /\ susfs_mnt_id_backup'[m] = bk /\ owned'[m] = own
         /\ namer'[m] = NoTask
  <1>t. NamesType
    BY DEF Names
  <1>1. owned[m] = NoId
    BY DEF Names, Owners
  <1>2. /\ Exact' /\ HintSound'
        /\ mnt_id_ida' \subseteq OrdinaryIds /\ susfs_mnt_id_ida' \subseteq SusIds
        /\ mnt_id_start' \in 0..DEFAULT_SUS_MNT_ID
        /\ susfs_mnt_id_start' \in DEFAULT_SUS_MNT_ID..(MaxSusId + 1)
        /\ own = FromIda("mnt", id) => id \in OrdinaryIds /\ id # 0
        /\ own = FromIda("susfs", id) => id \in SusIds
    BY <1>1, AllocExact DEF Shown
  <1>3. id \in OrdinaryIds \cup SusIds
        /\ own \in {FromIda("mnt", id), FromIda("susfs", id), NoId}
    BY <1>2 DEF Allocated
  <1>4. own \in AllocatedIds \cup {NoId}
    BY <1>2, <1>3 DEF AllocatedIds, FromIda
  <1>5. /\ mnt_id'[m] = id /\ susfs_mnt_id_backup'[m] = bk /\ owned'[m] = own
        /\ namer'[m] = NoTask /\ OnlyIdsOf(m)
    BY <1>t DEF NamesType, OnlyIdsOf, Shown
  <1>6. NamesType'
    BY <1>2, <1>3, <1>4, <1>t, IdRanges DEF NamesType, Shown
  <1>7. Tells(m)'
    <2>1. owned'[m] = NoId => susfs_mnt_id_backup'[m] = UnshareMark
      BY <1>5
    <2>2. ASSUME NEW i \in OrdinaryIds, owned'[m] = FromIda("mnt", i)
          PROVE  /\ mnt_id'[m] \in OrdinaryIds
                 /\ susfs_mnt_id_backup'[m] = 0 /\ mnt_id'[m] = i
      BY <2>2, <1>3, <1>5, IdsDiffer, IdRanges
    <2>3. ASSUME NEW i \in SusIds, owned'[m] = FromIda("susfs", i)
          PROVE  \/ susfs_mnt_id_backup'[m] = UnshareMark
                 \/ susfs_mnt_id_backup'[m] = 0 /\ mnt_id'[m] = i /\ namer'[m] = NoTask
      BY <2>3, <1>3, <1>5, IdsDiffer, IdRanges
    <2> QED BY <2>1, <2>2, <2>3 DEF Tells
  <1> QED BY <1>2, <1>5, <1>6, <1>7

\* A mount that shows the next fake id of zygote.
LEMMA FakedTells ==
  ASSUME Names, NEW t \in Tasks, NEW m \in Mounts, stage[m] = "free",
         NEW id, NEW own, Allocated(id, own), own # NoId,
         Faked(t, m, id, own)
  PROVE  /\ NamesType' /\ Exact' /\ HintSound' /\ Tells(m)' /\ OnlyIdsOf(m)
  <1>t. NamesType
    BY DEF Names
  <1>1. owned[m] = NoId
    BY DEF Names, Owners
  <1>2. /\ Exact' /\ HintSound'
        /\ mnt_id_ida' \subseteq OrdinaryIds /\ susfs_mnt_id_ida' \subseteq SusIds
        /\ mnt_id_start' \in 0..DEFAULT_SUS_MNT_ID
        /\ susfs_mnt_id_start' \in DEFAULT_SUS_MNT_ID..(MaxSusId + 1)
        /\ own = FromIda("mnt", id) => id \in OrdinaryIds /\ id # 0
        /\ own = FromIda("susfs", id) => id \in SusIds
    BY <1>1, AllocExact DEF Faked
  <1>3. id \in OrdinaryIds \cup SusIds
        /\ own \in {FromIda("mnt", id), FromIda("susfs", id)}
    BY <1>2 DEF Allocated
  <1>4. own \in AllocatedIds
    BY <1>2, <1>3 DEF AllocatedIds, FromIda
  <1>5. /\ mnt_id'[m] \in OrdinaryIds /\ susfs_mnt_id_backup'[m] = id /\ owned'[m] = own
        /\ namer'[m] \in Tasks /\ OnlyIdsOf(m)
    BY <1>t DEF NamesType, OnlyIdsOf, Faked
  <1>6. susfs_last_fake_mnt_id[t] + 1 \in 0..DEFAULT_SUS_MNT_ID
    BY IdsAssumption DEF OrdinaryIds, Faked
  <1>7. NamesType'
    BY <1>2, <1>3, <1>4, <1>6, <1>t DEF NamesType, Faked
  <1>8. Tells(m)'
    <2>1. owned'[m] # NoId
      BY <1>5
    <2>2. ASSUME NEW i \in OrdinaryIds, owned'[m] = FromIda("mnt", i)
          PROVE  /\ mnt_id'[m] \in OrdinaryIds
                 /\ susfs_mnt_id_backup'[m] = i /\ i # 0
      <3>1. own = FromIda("mnt", id) /\ i = id
        BY <2>2, <1>3, <1>5, IdsDiffer
      <3> QED BY <3>1, <1>2, <1>5
    <2>3. ASSUME NEW i \in SusIds, owned'[m] = FromIda("susfs", i)
          PROVE  /\ susfs_mnt_id_backup'[m] = i /\ mnt_id'[m] \in OrdinaryIds
                 /\ namer'[m] \in Tasks
      BY <2>3, <1>3, <1>5, IdsDiffer
    <2> QED BY <2>1, <2>2, <2>3 DEF Tells
  <1> QED BY <1>2, <1>5, <1>7, <1>8

\* The same for Owners, once the mount has got a place.
LEMMA NameOwners ==
  ASSUME Names, NEW m \in Mounts, m # Root, Tells(m)',
         OnlyIdsOf(m), \A x \in Mounts \ {m} : stage'[x] = stage[x],
         stage'[m] # "free"
  PROVE  Owners'
  <1>1. \A x \in Mounts \ {m} : Tells(x)' <=> Tells(x)
    BY DEF Tells, OnlyIdsOf
  <1> QED BY <1>1, MountsAssumption DEF Names, Owners, OnlyIdsOf

\* ids of mounts that nobody has a use for may change.
LEMMA ZygoteFrame ==
  ASSUME Places, Names, UNCHANGED <<ns, copying>>, NEW m \in Mounts,
         \/ stage[m] \in {"free", "dead"}
         \/ stage[m] = "new" /\ \A k \in DOMAIN copying.done : copying.done[k] # m,
         OnlyIdsOf(m), \A n \in Nss : list[n] # <<>> => list'[n][1] = list[n][1]
  PROVE  ZygoteFirst'
  <1>1. \A n \in Nss : list[n] # <<>> => list[n][1] \in Mounts \ {m}
    BY EmptySeq, LenProperties DEF Places, PlacesType, Listed
  <1>2. \A t \in Tasks : list[ns[t]] # <<>> /\ ns[t] \in Nss
    BY DEF Places, PlacesType, Homes
  <1>3. copying # NoCopy =>
          /\ copying.done \in Seq(Mounts)
          /\ \A k \in DOMAIN copying.done : copying.done[k] \in Mounts \ {m}
    BY LenProperties, ElementOfSeq DEF Places, PlacesType, CopiedNew, Copyings
  <1>4. ASSUME NEW t \in Tasks, Domain[t] = "zygote" PROVE ~IsSus(list[ns[t]][1])'
    BY <1>1, <1>2, <1>4 DEF Names, ZygoteFirst, IsSus, OnlyIdsOf
  <1>5. ASSUME copying # NoCopy, Domain[copying.task] = "zygote"
        PROVE  /\ \A k \in DOMAIN copying.done : Plain(copying.done[k])'
               /\ copying.done # <<>> => ~IsSus(copying.done[1])'
    <2>1. \A k \in DOMAIN copying.done : Plain(copying.done[k])'
      BY <1>3, <1>5 DEF Names, ZygoteFirst, Plain, OnlyIdsOf
    <2>2. copying.done # <<>> => 1 \in DOMAIN copying.done
      BY <1>3, <1>5, EmptySeq, LenProperties
    <2> QED BY <2>1, <2>2, <1>3, <1>5 DEF Names, ZygoteFirst, IsSus, OnlyIdsOf
  <1> QED BY <1>4, <1>5 DEF ZygoteFirst

LEMMA NamesGain ==
  ASSUME IInv, NEW t \in Tasks, NEW m \in Mounts, stage[m] = "free",
         NEW to \in {"new", "attached", "dead"}, stage' = [stage EXCEPT ![m] = to],
         UNCHANGED <<ns, copying>>, \A n \in Nss : list[n] # <<>> => list'[n][1] = list[n][1],
         NEW id, NEW own, Allocated(id, own), own # NoId,
         Shown(m, id, own, 0) \/ Faked(t, m, id, own)
  PROVE  Names'
  <1>i. Places /\ Names /\ PlacesType
    BY DEF IInv, Places
  <1>1. m # Root
    BY <1>i, RootAttached
  <1>2. NamesType' /\ Exact' /\ HintSound' /\ Tells(m)' /\ OnlyIdsOf(m)
    <2>1. CASE Shown(m, id, own, 0)
      BY <1>i, <2>1, ShownTells
    <2>2. CASE Faked(t, m, id, own)
      BY <1>i, <2>2, FakedTells
    <2> QED BY <2>1, <2>2
  <1>3. stage'[m] # "free" /\ \A x \in Mounts \ {m} : stage'[x] = stage[x]
    BY <1>i DEF PlacesType
  <1>4. Owners'
    BY <1>1, <1>2, <1>3, <1>i, NameOwners
  <1>5. ZygoteFirst'
    BY <1>2, <1>i, ZygoteFrame
  <1> QED BY <1>2, <1>4, <1>5 DEF Names

LEMMA NamesKernMount ==
  ASSUME IInv, NEW t \in Tasks, NEW m \in Mounts, vfs_kern_mount(t, m)
  PROVE  Names'
  <1>1. stage[m] = "free" /\ UNCHANGED <<list, ns, copying>>
    BY DEF vfs_kern_mount
  <1>2. PICK to \in {"new", "attached", "dead"} : stage' = [stage EXCEPT ![m] = to]
    BY DEF vfs_kern_mount
  <1>3. PICK id \in OrdinaryIds \cup SusIds : \E own \in Owns(id) :
          /\ alloc_vfsmnt(Domain[t] = "ksu", 0, id, own)
          /\ \/ Name(t, m, id, own, 0, Domain[t] = "zygote")
             \/ Name(t, m, id, own, 0, FALSE)
    BY DEF vfs_kern_mount
  <1>4. PICK own \in Owns(id) :
          /\ alloc_vfsmnt(Domain[t] = "ksu", 0, id, own)
          /\ \/ Name(t, m, id, own, 0, Domain[t] = "zygote")
             \/ Name(t, m, id, own, 0, FALSE)
    BY <1>3
  <1>5. Allocated(id, own) /\ own # NoId
    BY <1>4, IdsDiffer, IdRanges DEF alloc_vfsmnt, Allocated
  <1>6. Shown(m, id, own, 0) \/ Faked(t, m, id, own)
    BY <1>4 DEF Name, Shown, Faked
  <1> QED BY <1>1, <1>2, <1>5, <1>6, NamesGain

\* A bind mount, or a mount that is propagated.
LEMMA NamesClone ==
  ASSUME IInv, NEW t \in Tasks, NEW m \in Mounts, NEW old, clone_mnt(t, old, m, FALSE),
         NEW n \in Nss, list[n] # <<>>, list' \in {list, [list EXCEPT ![n] = Append(@, m)]},
         NEW to \in {"attached", "dead"}, stage' = [stage EXCEPT ![m] = to],
         UNCHANGED <<ns, copying>>
  PROVE  Names'
  <1>1. stage[m] = "free"
    BY DEF clone_mnt
  <1>2. PICK id \in OrdinaryIds \cup SusIds : \E own \in Owns(id) :
          /\ alloc_vfsmnt(should_spoof(t, old, FALSE), custom_mnt_id(t, old, FALSE), id, own)
          /\ Name(t, m, id, own, 0, Domain[t] = "zygote")
    BY DEF clone_mnt
  <1>3. PICK own \in Owns(id) :
          /\ alloc_vfsmnt(should_spoof(t, old, FALSE), custom_mnt_id(t, old, FALSE), id, own)
          /\ Name(t, m, id, own, 0, Domain[t] = "zygote")
    BY <1>2
  <1>4. Allocated(id, own) /\ own # NoId
    <2>1. custom_mnt_id(t, old, FALSE) = 0
      BY DEF custom_mnt_id
    <2> QED BY <1>3, <2>1, IdsDiffer, IdRanges DEF alloc_vfsmnt, Allocated
  <1>5. Shown(m, id, own, 0) \/ Faked(t, m, id, own)
    BY <1>3 DEF Name, Shown, Faked
  <1>6. \A i \in Nss : list[i] # <<>> => list'[i][1] = list[i][1]
    <2>1. list \in [Nss -> Seq(Mounts)]
      BY DEF IInv, Places, PlacesType
    <2>2. Append(list[n], m)[1] = list[n][1]
      BY <2>1, EmptySeq, LenProperties, AppendProperties
    <2> QED BY <2>1, <2>2
  <1> QED BY <1>1, <1>4, <1>5, <1>6, NamesGain

LEMMA NamesLoopback ==
  ASSUME IInv, NEW t \in Tasks, NEW m \in Mounts, do_loopback(t, m)
  PROVE  Names'
  <1>1. PICK k \in DOMAIN list[ns[t]] : clone_mnt(t, list[ns[t]][k], m, FALSE)
    BY DEF do_loopback
  <1>2. ns[t] \in Nss /\ list[ns[t]] # <<>>
    BY DEF IInv, Places, PlacesType, Homes
  <1>3. /\ list' \in {list, [list EXCEPT ![ns[t]] = Append(@, m)]} /\ UNCHANGED <<ns, copying>>
        /\ \E to \in {"attached", "dead"} : stage' = [stage EXCEPT ![m] = to]
    BY DEF do_loopback
  <1> QED BY <1>1, <1>2, <1>3, NamesClone

LEMMA NamesPropagate ==
  ASSUME IInv, NEW t \in Tasks, NEW m \in Mounts, NEW n \in Nss, propagate_one(t, n, m)
  PROVE  Names'
  <1>1. PICK k \in DOMAIN list[ns[t]] : clone_mnt(t, list[ns[t]][k], m, FALSE)
    BY DEF propagate_one
  <1>2. /\ list[n] # <<>> /\ UNCHANGED <<ns, copying>>
        /\ list' \in {list, [list EXCEPT ![n] = Append(@, m)]}
        /\ stage' = [stage EXCEPT ![m] = "attached"]
    BY DEF propagate_one
  <1> QED BY <1>1, <1>2, NamesClone

\* copy_tree clones a mount: KernelSU's copies are marked, zygote's are plain.
LEMMA NamesCopyOne ==
  ASSUME IInv, NEW m \in Mounts, CopyOne(m)
  PROVE  Names'
  <1>i. Places /\ Names /\ PlacesType /\ NamesType
    BY DEF IInv, Places, Names
  <1> DEFINE t    == copying.task
             done == copying.done
             old  == list[ns[t]][Len(done) + 1]
  <1>1. copying \in Copyings /\ t \in Tasks /\ done \in Seq(Mounts)
    BY <1>i DEF CopyOne, PlacesType, Copyings
  <1>2. /\ clone_mnt(t, old, m, TRUE) /\ stage[m] = "free"
        /\ stage' = [stage EXCEPT ![m] = "new"]
        /\ copying' = [copying EXCEPT !.done = Append(@, m)] /\ UNCHANGED <<list, ns>>
    BY DEF CopyOne, clone_mnt
  <1>3. /\ copying'.task = t /\ copying'.done = Append(done, m)
        /\ DOMAIN done = 1..Len(done) /\ Len(done) \in Nat
        /\ DOMAIN Append(done, m) = 1..(Len(done) + 1) /\ Append(done, m)[Len(done) + 1] = m
        /\ \A k \in 1..Len(done) : Append(done, m)[k] = done[k] /\ done[k] \in Mounts
    <2>1. copying' = [task |-> t, to |-> copying.to, done |-> Append(done, m)]
      BY <1>1, <1>2 DEF Copyings
    <2> QED BY <2>1, <1>1, AppendProperties, LenProperties, ElementOfSeq
  <1>4. PICK id \in OrdinaryIds \cup SusIds : \E own \in Owns(id) :
          /\ alloc_vfsmnt(should_spoof(t, old, TRUE), custom_mnt_id(t, old, TRUE), id, own)
          /\ Name(t, m, id, own, IF Domain[t] = "ksu" THEN UnshareMark ELSE 0, FALSE)
    BY <1>2 DEF clone_mnt, UnshareMark
  <1>5. PICK own \in Owns(id) :
          /\ alloc_vfsmnt(should_spoof(t, old, TRUE), custom_mnt_id(t, old, TRUE), id, own)
          /\ Name(t, m, id, own, IF Domain[t] = "ksu" THEN UnshareMark ELSE 0, FALSE)
    BY <1>4
  <1> HIDE DEF t, done, old
  <1>6. PICK bk \in {0, UnshareMark} : bk = (IF Domain[t] = "ksu" THEN UnshareMark ELSE 0)
    OBVIOUS
  <1>7. Shown(m, id, own, bk)
    BY <1>5, <1>6 DEF Name, Shown
  <1>8. /\ Allocated(id, own)
        /\ own = FromIda("mnt", id) => Domain[t] # "ksu"
        /\ own = NoId => Domain[t] = "ksu"
        /\ ~IsSus(old) /\ Domain[t] # "ksu" => own = FromIda("mnt", id) /\ id \in OrdinaryIds
    BY <1>5, IdsDiffer, IdRanges
       DEF alloc_vfsmnt, Allocated, should_spoof, custom_mnt_id, mnt_alloc_id
  <1>9. /\ NamesType' /\ Exact' /\ HintSound' /\ Tells(m)' /\ OnlyIdsOf(m)
        /\ mnt_id'[m] = id /\ susfs_mnt_id_backup'[m] = bk /\ owned'[m] = own
    BY <1>2, <1>6, <1>7, <1>8, <1>i, ShownTells
  <1>10. m # Root /\ stage'[m] # "free" /\ \A x \in Mounts \ {m} : stage'[x] = stage[x]
    BY <1>2, <1>i, RootAttached DEF PlacesType
  <1>11. Owners'
    BY <1>9, <1>10, <1>i, NameOwners
  <1>12. ASSUME NEW u \in Tasks, Domain[u] = "zygote" PROVE ~IsSus(list[ns[u]][1])'
    <2>1. /\ ns[u] \in Nss /\ list[ns[u]] \in Seq(Mounts) /\ list[ns[u]] # <<>>
          /\ \A k \in DOMAIN list[ns[u]] : stage[list[ns[u]][k]] = "attached"
      BY <1>i DEF Places, PlacesType, Homes, Listed
    <2>2. list[ns[u]][1] \in Mounts \ {m}
      <3>1. 1 \in DOMAIN list[ns[u]]
        BY <2>1, EmptySeq, LenProperties
      <3>2. list[ns[u]][1] \in Mounts
        BY <2>1, <3>1, ElementOfSeq, LenProperties
      <3>3. stage[m] = "free"
        BY <1>2
      <3> QED BY <2>1, <3>1, <3>2, <3>3
    <2>3. ~IsSus(list[ns[u]][1])
      BY <1>12, <1>i DEF Names, ZygoteFirst
    <2> QED BY <1>2, <1>9, <2>2, <2>3 DEF OnlyIdsOf, IsSus
  <1> DEFINE r == copying'.done
  <1>13. ASSUME Domain[t] = "zygote"
         PROVE  /\ \A k \in DOMAIN r : \A x \in Mounts : x = r[k] => Plain(x)'
                /\ \A x \in Mounts : x = r[1] => ~IsSus(x)'
    <2>1. copying # NoCopy
      BY DEF CopyOne
    <2>2. /\ \A k \in 1..Len(done) : Plain(done[k]) /\ stage[done[k]] = "new"
          /\ done # <<>> => ~IsSus(done[1])
      BY <1>3, <1>13, <2>1, <1>i DEF Places, CopiedNew, Names, ZygoteFirst, t, done
    <2>3. \A k \in 1..Len(done) : done[k] \in Mounts \ {m}
      BY <1>2, <1>3, <2>2
    <2>4. \A k \in 1..Len(done) : \A x \in Mounts : x = done[k] => Plain(x)'
      BY <1>9, <2>2, <2>3 DEF Plain, OnlyIdsOf
    <2>5. Plain(m)'
      <3>1. bk = 0 /\ own # NoId
        BY <1>6, <1>8, <1>13
      <3>2. own \in {FromIda("mnt", id), FromIda("susfs", id)}
        BY <3>1, <1>8 DEF Allocated
      <3> QED BY <1>9, <3>1, <3>2 DEF Plain
    <2>6. \A k \in DOMAIN r : \A x \in Mounts : x = r[k] => Plain(x)'
      <3> TAKE k \in DOMAIN r
      <3> TAKE x \in Mounts
      <3> HAVE x = r[k]
      <3>1. CASE k \in 1..Len(done)
        BY <1>3, <2>4, <3>1
      <3>2. CASE k = Len(done) + 1
        <4>1. x = m
          BY <1>3, <3>2
        <4> QED BY <2>5, <4>1
      <3> QED BY <1>3, <3>1, <3>2
    <2>7. CASE done = <<>>
      <3>1. Len(done) = 0 /\ r[1] = m
        BY <1>3, <2>7
      <3>2. old = list[ns[t]][1]
        BY <3>1 DEF old, done
      <3>3. ~IsSus(old)
        BY <3>2, <1>1, <1>13, <1>i DEF Names, ZygoteFirst
      <3>4. id \in OrdinaryIds
        BY <3>3, <1>8, <1>13
      <3>5. ~IsSus(m)'
        BY <3>4, <1>9, IdRanges, IdsAssumption DEF IsSus, OrdinaryIds
      <3>6. \A x \in Mounts : x = r[1] => ~IsSus(x)'
        BY <3>1, <3>5
      <3> QED BY <2>6, <3>6
    <2>8. CASE done # <<>>
      <3>1. 1 \in 1..Len(done) /\ r[1] = done[1]
        BY <1>1, <1>3, <2>8, EmptySeq
      <3>2. \A x \in Mounts : x = done[1] => ~IsSus(x)'
        BY <1>9, <2>2, <2>3, <2>8, <3>1 DEF OnlyIdsOf, IsSus
      <3> QED BY <2>6, <3>1, <3>2
    <2> QED BY <2>7, <2>8
  <1>14. ZygoteFirst'
    <2>1. \A k \in DOMAIN r : r[k] \in Mounts
      <3> TAKE k \in DOMAIN r
      <3>1. k \in 1..Len(done) \/ k = Len(done) + 1
        BY <1>3
      <3> QED BY <3>1, <1>3
    <2>2. r # <<>> => 1 \in DOMAIN r
      BY <1>3
    <2>3. Domain[t] = "zygote" =>
            /\ \A k \in DOMAIN r : Plain(copying.done[k])'
            /\ r # <<>> => ~IsSus(copying.done[1])'
      BY <1>13, <2>1, <2>2 DEF Plain, IsSus
    <2>4. copying'.task = t
      BY <1>3
    <2> HIDE DEF r
    <2> QED BY <1>12, <2>3, <2>4 DEF ZygoteFirst, r
  <1> QED BY <1>9, <1>11, <1>14 DEF Names

\* Steps that leave all ids alone.
LEMMA ZygoteKeeps ==
  ASSUME Places, Names, UNCHANGED <<ns, names>>, copying' \in {copying, NoCopy},
         \A t \in Tasks : list[ns[t]] # <<>> => list'[ns[t]][1] = list[ns[t]][1]
  PROVE  ZygoteFirst'
  <1>1. ASSUME NEW t \in Tasks, Domain[t] = "zygote" PROVE ~IsSus(list[ns[t]][1])'
    <2>1. list[ns[t]] # <<>>
      BY DEF Places, Homes
    <2> QED BY <1>1, <2>1 DEF Names, ZygoteFirst, IsSus, names
  <1>2. ASSUME copying' # NoCopy
        PROVE  copying' = copying /\ copying # NoCopy
    BY <1>2
  <1>3. ASSUME copying # NoCopy, copying' = copying, Domain[copying.task] = "zygote"
        PROVE  /\ \A k \in DOMAIN copying.done : Plain(copying.done[k])'
               /\ copying.done # <<>> => ~IsSus(copying.done[1])'
    BY <1>3 DEF Names, ZygoteFirst, IsSus, Plain, names
  <1> QED BY <1>1, <1>2, <1>3 DEF ZygoteFirst

LEMMA NamesKeeps ==
  ASSUME Places, Names, UNCHANGED <<idas, names, ns, susfs_last_fake_mnt_id>>,
         copying' \in {copying, NoCopy},
         \A t \in Tasks : list[ns[t]] # <<>> => list'[ns[t]][1] = list[ns[t]][1],
         \A m \in Mounts : stage'[m] = "free" <=> stage[m] = "free"
  PROVE  Names'
  <1>1. NamesType'
    BY DEF Names, NamesType, idas, names
  <1> QED BY <1>1, NamesFrame, ZygoteKeeps DEF Names

LEMMA NamesAddMount ==
  ASSUME IInv, NEW t \in Tasks, do_add_mount(t) PROVE Names'
  <1>i. Places /\ Names /\ PlacesType
    BY DEF IInv, Places
  <1>1. /\ pending[t] \in Mounts /\ stage[pending[t]] = "new"
        /\ UNCHANGED <<idas, names, ns, susfs_last_fake_mnt_id, copying>>
    BY <1>i DEF do_add_mount, PlacesType, Places, PendingNew
  <1>2. \A m \in Mounts : stage'[m] = "free" <=> stage[m] = "free"
    BY <1>1, <1>i DEF do_add_mount, PlacesType
  <1>3. \A u \in Tasks : list[ns[u]] # <<>> => list'[ns[u]][1] = list[ns[u]][1]
    <2>1. list \in [Nss -> Seq(Mounts)] /\ ns \in [Tasks -> Nss]
      BY <1>i DEF PlacesType
    <2>2. list' \in {list, [list EXCEPT ![ns[t]] = Append(@, pending[t])]}
      BY DEF do_add_mount
    <2>3. list[ns[t]] # <<>> => Append(list[ns[t]], pending[t])[1] = list[ns[t]][1]
      BY <1>1, <2>1, EmptySeq, LenProperties, AppendProperties
    <2> QED BY <2>1, <2>2, <2>3
  <1> QED BY <1>i, <1>1, <1>2, <1>3, NamesKeeps

LEMMA NamesStartCopy ==
  ASSUME IInv, NEW t \in Tasks, NEW n \in Nss, StartCopy(t, n) PROVE Names'
  <1>i. Places /\ Names
    BY DEF IInv
  <1>1. /\ copying' = [task |-> t, to |-> n, done |-> <<>>]
        /\ UNCHANGED <<idas, names, stage, list, ns, susfs_last_fake_mnt_id>>
    BY DEF StartCopy
  <1>2. NamesType' /\ Exact' /\ HintSound' /\ Owners'
    BY <1>1, <1>i, NamesFrame DEF Names, NamesType, idas, names
  <1>3. ASSUME NEW u \in Tasks, Domain[u] = "zygote" PROVE ~IsSus(list[ns[u]][1])'
    BY <1>1, <1>3, <1>i DEF Names, ZygoteFirst, IsSus, names
  <1>4. copying'.done = <<>> /\ DOMAIN <<>> = {}
    BY <1>1
  <1> QED BY <1>2, <1>3, <1>4 DEF Names, ZygoteFirst

LEMMA NamesCopyFails ==
  ASSUME IInv, CopyFails PROVE Names'
  <1>i. Places /\ Names /\ PlacesType
    BY DEF IInv, Places
  <1>1. /\ copying # NoCopy /\ copying' = NoCopy
        /\ UNCHANGED <<idas, names, list, ns, susfs_last_fake_mnt_id>>
        /\ stage' = [m \in Mounts |-> IF m \in Range(copying.done) THEN "dead" ELSE stage[m]]
    BY DEF CopyFails
  <1>2. \A m \in Range(copying.done) : stage[m] = "new"
    BY <1>1, <1>i DEF Places, CopiedNew, Range
  <1>3. \A m \in Mounts : stage'[m] = "free" <=> stage[m] = "free"
    BY <1>1, <1>2
  <1> QED BY <1>i, <1>1, <1>3, NamesKeeps

LEMMA NamesUmount ==
  ASSUME IInv, NEW n \in Nss, umount(n) PROVE Names'
  <1>i. Places /\ Names /\ PlacesType
    BY DEF IInv, Places
  <1>1. PICK k \in 2..Len(list[n]) :
          /\ stage' = [stage EXCEPT ![list[n][k]] = "dead"]
          /\ list' = [list EXCEPT ![n] = RemoveAt(@, k)]
    BY DEF umount
  <1>2. UNCHANGED <<idas, names, ns, susfs_last_fake_mnt_id, copying>>
    BY DEF umount
  <1>3. list[n] \in Seq(Mounts) /\ k \in 1..Len(list[n]) /\ 1 < k /\ 1 \in 1..(Len(list[n]) - 1)
    BY <1>i, LenProperties DEF PlacesType
  <1>4. RemoveAt(list[n], k)[1] = list[n][1]
    BY <1>3, RemoveAtShifts
  <1>5. stage[list[n][k]] = "attached" /\ list[n][k] \in Mounts
    BY <1>3, <1>i, LenProperties, ElementOfSeq DEF Places, Listed
  <1>6. \A m \in Mounts : stage'[m] = "free" <=> stage[m] = "free"
    BY <1>1, <1>5, <1>i DEF PlacesType
  <1>7. \A u \in Tasks : list[ns[u]] # <<>> => list'[ns[u]][1] = list[ns[u]][1]
    BY <1>1, <1>4, <1>i DEF PlacesType
  <1> QED BY <1>i, <1>2, <1>6, <1>7, NamesKeeps

LEMMA NamesPutNs ==
  ASSUME IInv, NEW n \in Nss, put_mnt_ns(n) PROVE Names'
  <1>i. Places /\ Names /\ PlacesType
    BY DEF IInv, Places
  <1>1. /\ \A t \in Tasks : ns[t] # n
        /\ stage' = [m \in Mounts |-> IF m \in Range(list[n]) THEN "dead" ELSE stage[m]]
        /\ list' = [list EXCEPT ![n] = <<>>]
        /\ UNCHANGED <<idas, names, ns, susfs_last_fake_mnt_id, copying>>
    BY DEF put_mnt_ns
  <1>2. \A m \in Range(list[n]) : stage[m] = "attached"
    BY <1>i DEF Places, Listed, Range
  <1>3. \A m \in Mounts : stage'[m] = "free" <=> stage[m] = "free"
    BY <1>1, <1>2
  <1>4. \A u \in Tasks : list[ns[u]] # <<>> => list'[ns[u]][1] = list[ns[u]][1]
    BY <1>1, <1>i DEF PlacesType
  <1> QED BY <1>i, <1>1, <1>3, <1>4, NamesKeeps

-----------------------------------------------------------------------------
(* A mount is freed.                                                        *)

\* What a mount gives back is what it owns, or a sus id that is not found.
LEMMA FreeExact ==
  ASSUME Names, NEW m \in Mounts, stage[m] # "free", mnt_free_id(m),
         owned' = [owned EXCEPT ![m] = NoId]
  PROVE  /\ Exact' /\ HintSound'
         /\ mnt_id_ida' \subseteq OrdinaryIds /\ susfs_mnt_id_ida' \subseteq SusIds
         /\ mnt_id_start' \in 0..DEFAULT_SUS_MNT_ID
         /\ susfs_mnt_id_start' \in DEFAULT_SUS_MNT_ID..(MaxSusId + 1)
  <1>t. NamesType /\ Exact /\ HintSound /\ Tells(m)
    BY DEF Names, Owners
  <1>n. /\ mnt_id_ida \subseteq OrdinaryIds /\ susfs_mnt_id_ida \subseteq SusIds
        /\ mnt_id_start \in 0..DEFAULT_SUS_MNT_ID
        /\ susfs_mnt_id_start \in DEFAULT_SUS_MNT_ID..(MaxSusId + 1)
        /\ owned \in [Mounts -> AllocatedIds \cup {NoId}]
    BY <1>t DEF NamesType
  <1>o. owned'[m] = NoId /\ \A x \in Mounts \ {m} : owned'[x] = owned[x]
    BY <1>n
  <1>u. \A x, y \in Mounts : owned'[x] = owned'[y] /\ owned'[x] # NoId => x = y
    BY <1>o, <1>t DEF Exact
  <1>1. ASSUME NEW id \in OrdinaryIds, owned[m] = FromIda("mnt", id)
        PROVE  /\ Exact' /\ HintSound' /\ mnt_id_ida' \subseteq OrdinaryIds
               /\ mnt_id_start' \in 0..DEFAULT_SUS_MNT_ID
               /\ UNCHANGED <<susfs_mnt_id_ida, susfs_mnt_id_start>>
    <2>1. Released(m) = FromIda("mnt", id)
      BY <1>1, <1>t, ReleasedIs
    <2>2. /\ mnt_id_ida' = mnt_id_ida \ {id} /\ mnt_id_start' = Lower(mnt_id_start, id)
          /\ UNCHANGED <<susfs_mnt_id_ida, susfs_mnt_id_start>>
      BY <2>1, IdsDiffer, IdRanges DEF mnt_free_id
    <2>3. mnt_id_start' \in 0..DEFAULT_SUS_MNT_ID /\ mnt_id_start' <= mnt_id_start
          /\ mnt_id_start' <= id
      BY <2>2, <1>n, IdsAssumption DEF Lower, OrdinaryIds
    <2>4. \A i \in OrdinaryIds : i \in mnt_id_ida' <=> \E x \in Mounts : owned'[x] = FromIda("mnt", i)
      <3> SUFFICES ASSUME NEW i \in OrdinaryIds
                   PROVE  i \in mnt_id_ida \ {id} <=> \E x \in Mounts : owned'[x] = FromIda("mnt", i)
        BY <2>2
      <3>1. FromIda("mnt", i) # NoId
        BY IdsDiffer, IdRanges
      <3>2. ASSUME NEW x \in Mounts, owned'[x] = FromIda("mnt", i) PROVE i \in mnt_id_ida \ {id}
        <4>1. CASE x = m
          BY <4>1, <3>2, <1>o, IdsDiffer, IdRanges
        <4>2. CASE x # m
          <5>1. owned[x] = FromIda("mnt", i) /\ i \in mnt_id_ida
            BY <4>2, <3>2, <1>o, <1>t DEF Exact
          <5>2. i # id
            BY <4>2, <5>1, <3>1, <1>1, <1>t DEF Exact
          <5> QED BY <5>1, <5>2
        <4> QED BY <4>1, <4>2
      <3>3. ASSUME i \in mnt_id_ida \ {id} PROVE \E x \in Mounts : owned'[x] = FromIda("mnt", i)
        <4>1. PICK x \in Mounts : owned[x] = FromIda("mnt", i)
          BY <3>3, <1>t DEF Exact
        <4>2. x # m
          BY <4>1, <3>3, <1>1, IdsDiffer
        <4> QED BY <4>1, <4>2, <1>o
      <3> QED BY <3>2, <3>3
    <2>5. \A x \in Mounts : \A i \in SusIds :
            owned'[x] = FromIda("susfs", i) => i \in susfs_mnt_id_ida'
      BY <2>2, <1>o, <1>t, IdsDiffer, IdRanges DEF Exact
    <2>6. HintSound'
      BY <2>2, <2>3, <1>n, <1>t, IdRanges DEF HintSound
    <2> QED BY <2>2, <2>3, <2>4, <2>5, <2>6, <1>u, <1>n DEF Exact
  <1>2. ASSUME NEW id \in SusIds, owned[m] = FromIda("susfs", id)
        PROVE  /\ Exact' /\ HintSound' /\ UNCHANGED <<mnt_id_ida, mnt_id_start>>
               /\ susfs_mnt_id_ida' \subseteq SusIds
               /\ susfs_mnt_id_start' \in DEFAULT_SUS_MNT_ID..(MaxSusId + 1)
    <2>1. Released(m) \in {NoId, FromIda("susfs", id), FromIda("mnt", id)}
      BY <1>2, <1>t, ReleasedIs
    <2>2. /\ UNCHANGED <<mnt_id_ida, mnt_id_start>>
          /\ \/ UNCHANGED <<susfs_mnt_id_ida, susfs_mnt_id_start>>
             \/ /\ susfs_mnt_id_ida' = susfs_mnt_id_ida \ {id}
                /\ susfs_mnt_id_start' = Lower(susfs_mnt_id_start, id)
      <3>1. CASE Released(m) = NoId
        BY <3>1 DEF mnt_free_id, idas
      <3>2. CASE Released(m) = FromIda("susfs", id)
        BY <3>2, IdsDiffer, IdRanges DEF mnt_free_id
      <3>3. CASE Released(m) = FromIda("mnt", id)
        <4>1. /\ mnt_id_ida' = mnt_id_ida \ {id} /\ mnt_id_start' = Lower(mnt_id_start, id)
              /\ UNCHANGED <<susfs_mnt_id_ida, susfs_mnt_id_start>>
          BY <3>3, IdsDiffer, IdRanges DEF mnt_free_id
        <4>2. id \notin mnt_id_ida
          BY <1>n, IdRanges
        <4>3. ~(mnt_id_start > id)
          BY <1>n, IdsAssumption DEF SusIds
        <4> QED BY <4>1, <4>2, <4>3 DEF Lower
      <3> QED BY <2>1, <3>1, <3>2, <3>3
    <2>3. /\ susfs_mnt_id_start' \in DEFAULT_SUS_MNT_ID..(MaxSusId + 1)
          /\ \/ UNCHANGED <<susfs_mnt_id_ida, susfs_mnt_id_start>>
             \/ /\ susfs_mnt_id_ida' = susfs_mnt_id_ida \ {id}
                /\ susfs_mnt_id_start' <= susfs_mnt_id_start /\ susfs_mnt_id_start' <= id
      BY <2>2, <1>n, IdsAssumption DEF Lower, SusIds
    <2>4. \A i \in OrdinaryIds : i \in mnt_id_ida' <=> \E x \in Mounts : owned'[x] = FromIda("mnt", i)
      <3> SUFFICES ASSUME NEW i \in OrdinaryIds
                   PROVE  i \in mnt_id_ida <=> \E x \in Mounts : owned'[x] = FromIda("mnt", i)
        BY <2>2
      <3>1. FromIda("mnt", i) # NoId /\ FromIda("mnt", i) # owned[m]
        BY <1>2, IdsDiffer, IdRanges
      <3>2. \A x \in Mounts : owned'[x] = FromIda("mnt", i) <=> owned[x] = FromIda("mnt", i)
        BY <3>1, <1>o
      <3> QED BY <3>2, <1>t DEF Exact
    <2>5. ASSUME NEW x \in Mounts, NEW i \in SusIds, owned'[x] = FromIda("susfs", i)
          PROVE  i \in susfs_mnt_id_ida'
      <3>1. x # m /\ owned[x] = FromIda("susfs", i)
        BY <2>5, <1>o, IdsDiffer, IdRanges
      <3>2. i \in susfs_mnt_id_ida
        BY <3>1, <1>t DEF Exact
      <3>3. FromIda("susfs", i) # NoId
        BY IdsDiffer, IdRanges
      <3>4. i # id
        BY <3>1, <3>3, <1>2, <1>t DEF Exact
      <3> QED BY <3>2, <3>4, <2>3
    <2>6. HintSound'
      BY <2>2, <2>3, <1>n, <1>t, IdRanges DEF HintSound
    <2> QED BY <2>2, <2>3, <2>4, <2>5, <2>6, <1>u, <1>n DEF Exact
  <1>3. ASSUME owned[m] = NoId
        PROVE  Exact' /\ HintSound' /\ UNCHANGED idas
    <2>1. Released(m) = NoId
      BY <1>3, <1>t, ReleasedIs
    <2>2. UNCHANGED idas
      BY <2>1 DEF mnt_free_id
    <2>3. owned' = owned
      BY <1>3, <1>n
    <2> QED BY <2>2, <2>3, <1>t DEF Exact, HintSound, idas
  <1> QED BY <1>1, <1>2, <1>3, <1>n, <1>t, OwnedCases DEF idas

LEMMA NamesFree ==
  ASSUME IInv, NEW m \in Mounts, free_mount(m) PROVE Names'
  <1>i. Places /\ Names /\ PlacesType /\ NamesType
    BY DEF IInv, Places, Names
  <1>1. /\ stage[m] = "dead" /\ mnt_free_id(m) /\ stage' = [stage EXCEPT ![m] = "free"]
        /\ owned' = [owned EXCEPT ![m] = NoId]
        /\ UNCHANGED <<list, ns, copying, susfs_last_fake_mnt_id>>
    BY DEF free_mount
  <1>2. /\ Exact' /\ HintSound'
        /\ mnt_id_ida' \subseteq OrdinaryIds /\ susfs_mnt_id_ida' \subseteq SusIds
        /\ mnt_id_start' \in 0..DEFAULT_SUS_MNT_ID
        /\ susfs_mnt_id_start' \in DEFAULT_SUS_MNT_ID..(MaxSusId + 1)
    BY <1>1, <1>i, FreeExact
  <1>3. NamesType'
    BY <1>1, <1>2, <1>i, IdRanges DEF NamesType, free_mount
  <1>4. OnlyIdsOf(m) /\ owned'[m] = NoId
    BY <1>i DEF OnlyIdsOf, NamesType, free_mount
  <1>5. stage'[m] = "free" /\ \A x \in Mounts \ {m} : stage'[x] = stage[x]
    BY <1>1, <1>i DEF PlacesType
  <1>6. m # Root
    BY <1>1, <1>i, RootAttached
  <1>7. Owners'
    <2>1. \A x \in Mounts \ {m} : Tells(x)' <=> Tells(x)
      BY <1>4 DEF Tells, OnlyIdsOf
    <2>2. \A x \in Mounts : stage'[x] = "free" => owned'[x] = NoId
      BY <1>4, <1>5, <1>i DEF Names, Owners, OnlyIdsOf
    <2>3. owned'[Root] = FromIda("mnt", 0)
      BY <1>4, <1>6, <1>i, MountsAssumption DEF Names, Owners, OnlyIdsOf
    <2>4. \A x \in Mounts : stage'[x] # "free" => Tells(x)'
      BY <2>1, <1>5, <1>i DEF Names, Owners
    <2> QED BY <2>2, <2>3, <2>4 DEF Owners
  <1>8. ZygoteFirst'
    BY <1>1, <1>4, <1>i, ZygoteFrame
  <1> QED BY <1>2, <1>3, <1>7, <1>8 DEF Names

-----------------------------------------------------------------------------
(* The copy is complete, and zygote numbers it.                             *)

LEMMA RankGrows ==
  ASSUME NEW s \in Seq(Mounts)
  PROVE  /\ Rank(s, Len(s) + 1) \in Nat
         /\ \A k \in DOMAIN s : Rank(s, k) \in Nat
         /\ \A k \in DOMAIN s, i \in 1..(Len(s) + 1) :
              ~IsSus(s[k]) /\ k < i => Rank(s, k) < Rank(s, i)
  <1> DEFINE A(k) == {j \in 1..(k - 1) : ~IsSus(s[j])}
  <1>1. DOMAIN s = 1..Len(s) /\ Len(s) \in Nat
    BY LenProperties
  <1>2. \A k \in 1..(Len(s) + 1) : A(k) \subseteq 1..Len(s)
    BY <1>1
  <1>3. IsFiniteSet(1..Len(s))
    BY <1>1, FS_Interval
  <1>4. \A k \in 1..(Len(s) + 1) : IsFiniteSet(A(k)) /\ Cardinality(A(k)) \in Nat
    BY <1>2, <1>3, FS_Subset, FS_CardinalityType
  <1>5. \A k : Rank(s, k) = Cardinality(A(k))
    BY DEF Rank
  <1> HIDE DEF A
  <1>6. ASSUME NEW k \in DOMAIN s, NEW i \in 1..(Len(s) + 1), ~IsSus(s[k]), k < i
        PROVE  Rank(s, k) < Rank(s, i)
    <2>1. k \notin A(k) /\ A(k) \cup {k} \subseteq A(i) /\ k \in 1..(Len(s) + 1)
      BY <1>1, <1>6 DEF A
    <2>2. Cardinality(A(k) \cup {k}) = Cardinality(A(k)) + 1
      BY <2>1, <1>4, FS_AddElement
    <2>3. Cardinality(A(k) \cup {k}) <= Cardinality(A(i))
      BY <2>1, <1>4, FS_Subset
    <2>4. Cardinality(A(k)) \in Nat /\ Cardinality(A(i)) \in Nat
      BY <2>1, <1>4
    <2> QED BY <2>2, <2>3, <2>4, <1>5
  <1> QED BY <1>1, <1>4, <1>5, <1>6

LEMMA NamesRenumber ==
  ASSUME IInv, NEW t \in Tasks, Domain[t] = "zygote", copying # NoCopy, copying.task = t,
         copying.done # <<>>, Renumber(t, copying.done), UNCHANGED idas,
         stage' = [m \in Mounts |-> IF m \in Range(copying.done) THEN "attached" ELSE stage[m]]
  PROVE  /\ NamesType' /\ Exact' /\ HintSound' /\ Owners'
         /\ \A x \in Mounts : x = copying.done[1] => ~IsSus(x)'
         /\ \A x \in Mounts : (\A k \in DOMAIN copying.done : copying.done[k] # x) =>
              mnt_id'[x] = mnt_id[x] /\ namer'[x] = namer[x]
         /\ \A x \in Mounts : mnt_id'[x] >= DEFAULT_SUS_MNT_ID <=> IsSus(x)
         /\ \A u \in Tasks \ {t} : susfs_last_fake_mnt_id'[u] = susfs_last_fake_mnt_id[u]
         /\ \A j \in DOMAIN copying.done :
              \/ namer'[copying.done[j]] = namer[copying.done[j]]
              \/ /\ mnt_id'[copying.done[j]] < susfs_last_fake_mnt_id'[t]
                 /\ \A k \in 1..(j - 1) :
                      \/ namer'[copying.done[k]] = namer[copying.done[k]]
                      \/ mnt_id'[copying.done[k]] # mnt_id'[copying.done[j]]
  <1>i. Places /\ Names /\ PlacesType /\ NamesType /\ Exact /\ HintSound /\ Owners
    BY DEF IInv, Places, Names
  <1> DEFINE s      == copying.done
             base   == mnt_id[s[1]]
             count  == Rank(s, Len(s) + 1)
             fresh  == {k \in DOMAIN s : ~IsSus(s[k])}
             pos(m) == CHOOSE k \in fresh : s[k] = m
             faked  == {s[k] : k \in fresh}
  <1>1. /\ base < DEFAULT_SUS_MNT_ID => base + count <= DEFAULT_SUS_MNT_ID
        /\ mnt_id' = [m \in Mounts |-> IF m \in faked THEN base + Rank(s, pos(m)) ELSE mnt_id[m]]
        /\ susfs_mnt_id_backup' =
             [m \in Mounts |-> IF m \in faked THEN mnt_id[m] ELSE susfs_mnt_id_backup[m]]
        /\ susfs_last_fake_mnt_id' = [susfs_last_fake_mnt_id EXCEPT ![t] = base + count]
        /\ namer' = [m \in Mounts |-> IF m \in faked THEN t ELSE namer[m]]
        /\ UNCHANGED owned
    BY DEF Renumber
  <1>2. s \in Seq(Mounts) /\ DOMAIN s = 1..Len(s) /\ 1 \in DOMAIN s
        /\ \A k \in DOMAIN s : s[k] \in Mounts
    BY <1>i, EmptySeq, LenProperties, ElementOfSeq DEF PlacesType, Copyings
  <1>3. /\ \A k \in DOMAIN s : stage[s[k]] = "new" /\ Plain(s[k])
        /\ ~IsSus(s[1])
        /\ \A j, k \in DOMAIN s : s[j] = s[k] => j = k
    BY <1>i DEF Places, CopiedNew, Names, ZygoteFirst
  <1>4. \A m \in Mounts : mnt_id[m] \in OrdinaryIds <=> ~IsSus(m)
    <2>1. \A m \in Mounts : mnt_id[m] \in OrdinaryIds \cup SusIds
      BY <1>i DEF NamesType
    <2> QED BY <2>1, IdsAssumption DEF IsSus, OrdinaryIds, SusIds
  <1>5. /\ base \in OrdinaryIds /\ count \in Nat
        /\ \A k \in fresh : Rank(s, k) \in Nat /\ Rank(s, k) < count
    <2>1. \A k \in DOMAIN s : k \in Nat /\ k < Len(s) + 1 /\ Len(s) + 1 \in 1..(Len(s) + 1)
      BY <1>2
    <2> QED BY <2>1, <1>2, <1>3, <1>4, RankGrows
  <1> HIDE DEF count
  <1>6. base + count \in 0..DEFAULT_SUS_MNT_ID
        /\ \A k \in fresh : base + Rank(s, k) \in OrdinaryIds
    <2>1. base \in 0..(DEFAULT_SUS_MNT_ID - 1) /\ base + count <= DEFAULT_SUS_MNT_ID
      BY <1>1, <1>5, IdsAssumption DEF OrdinaryIds
    <2> HIDE DEF base
    <2>2. base + count \in 0..DEFAULT_SUS_MNT_ID
      BY <2>1, <1>5, IdsAssumption
    <2>3. ASSUME NEW k \in fresh PROVE base + Rank(s, k) \in 0..(DEFAULT_SUS_MNT_ID - 1)
      BY <2>1, <2>3, <1>5, IdsAssumption
    <2> QED BY <2>2, <2>3 DEF OrdinaryIds
  <1>7. \A m \in faked : /\ m \in Mounts /\ pos(m) \in fresh /\ stage[m] = "new"
                         /\ mnt_id[m] \in OrdinaryIds /\ Plain(m)
    <2> SUFFICES ASSUME NEW m \in faked
                 PROVE  /\ m \in Mounts /\ pos(m) \in fresh /\ stage[m] = "new"
                        /\ mnt_id[m] \in OrdinaryIds /\ Plain(m)
      OBVIOUS
    <2>1. PICK k \in fresh : s[k] = m
      OBVIOUS
    <2>2. pos(m) \in fresh
      BY <2>1
    <2> QED BY <2>1, <2>2, <1>2, <1>3, <1>4
  <1>8. s[1] \in faked
    BY <1>2, <1>3
  <1>9. \A m \in faked : mnt_id'[m] \in OrdinaryIds /\ susfs_mnt_id_backup'[m] = mnt_id[m]
    BY <1>1, <1>6, <1>7
  <1>10. \A m \in Mounts \ faked : mnt_id'[m] = mnt_id[m]
                                   /\ susfs_mnt_id_backup'[m] = susfs_mnt_id_backup[m]
                                   /\ namer'[m] = namer[m]
    BY <1>1
  <1>11. NamesType'
    <2>1. mnt_id' \in [Mounts -> OrdinaryIds \cup SusIds]
      <3>1. \A m \in Mounts : mnt_id'[m] \in OrdinaryIds \cup SusIds
        BY <1>9, <1>10, <1>i DEF NamesType
      <3> QED BY <1>1, <3>1
    <2>2. susfs_mnt_id_backup' \in [Mounts -> OrdinaryIds \cup SusIds \cup {UnshareMark}]
      <3>1. \A m \in Mounts : susfs_mnt_id_backup'[m] \in OrdinaryIds \cup SusIds \cup {UnshareMark}
        BY <1>7, <1>9, <1>10, <1>i DEF NamesType
      <3> QED BY <1>1, <3>1
    <2>3. susfs_last_fake_mnt_id' \in [Tasks -> 0..DEFAULT_SUS_MNT_ID]
      BY <1>1, <1>6, <1>i DEF NamesType
    <2>4. namer' \in [Mounts -> Tasks \cup {NoTask}]
      BY <1>1, <1>i DEF NamesType
    <2>5. UNCHANGED <<idas, owned>>
      BY <1>1
    <2> QED BY <2>1, <2>2, <2>3, <2>4, <2>5, <1>i DEF NamesType, idas
  <1>12. Exact' /\ HintSound'
    BY <1>1, <1>i DEF Exact, HintSound, idas
  <1>13. \A m \in faked : Tells(m)'
    <2> SUFFICES ASSUME NEW m \in faked PROVE Tells(m)'
      OBVIOUS
    <2>1. m \in Mounts /\ stage[m] = "new" /\ mnt_id[m] \in OrdinaryIds
      BY <1>7
    <2>2. owned[m] = FromIda("mnt", mnt_id[m])
      <3>1. owned[m] \in {FromIda("mnt", mnt_id[m]), FromIda("susfs", mnt_id[m])}
        BY <1>7 DEF Plain
      <3>2. owned[m] # FromIda("susfs", mnt_id[m])
        <4>1. mnt_id[m] \in Nat /\ mnt_id[m] \notin SusIds
          BY <2>1, IdRanges
        <4>2. \/ owned[m] = NoId
              \/ \E id \in OrdinaryIds : owned[m] = FromIda("mnt", id)
              \/ \E id \in SusIds : owned[m] = FromIda("susfs", id)
          BY <2>1, <1>i, OwnedCases
        <4> QED BY <4>1, <4>2, IdsDiffer
      <3> QED BY <3>1, <3>2
    <2>3. mnt_id[m] # 0
      <3>1. m # Root
        BY <2>1, <1>i, RootAttached
      <3>2. owned[Root] = FromIda("mnt", 0) /\ FromIda("mnt", 0) # NoId
        BY <1>i, IdsDiffer, IdRanges DEF Owners
      <3> QED BY <2>1, <2>2, <3>1, <3>2, <1>i, MountsAssumption DEF Exact
    <2>4. owned'[m] = FromIda("mnt", mnt_id[m]) /\ mnt_id'[m] \in OrdinaryIds
          /\ susfs_mnt_id_backup'[m] = mnt_id[m]
      BY <2>2, <1>1, <1>9
    <2>5. owned'[m] # NoId /\ \A id \in SusIds : owned'[m] # FromIda("susfs", id)
      BY <2>1, <2>4, IdsDiffer, IdRanges
    <2>6. \A id \in OrdinaryIds : owned'[m] = FromIda("mnt", id) => id = mnt_id[m]
      BY <2>4, IdsDiffer
    <2> QED BY <2>3, <2>4, <2>5, <2>6 DEF Tells
  <1>14. Owners'
    <2>1. \A m \in Mounts : stage'[m] = "free" <=> stage[m] = "free"
      BY <1>3 DEF Range
    <2>2. \A m \in Mounts \ faked : Tells(m)' <=> Tells(m)
      BY <1>1, <1>10 DEF Tells
    <2> QED BY <2>1, <2>2, <1>1, <1>7, <1>13, <1>i DEF Owners
  <1>15. \A x \in Mounts : x = s[1] => ~IsSus(x)'
    BY <1>8, <1>9, IdsAssumption DEF IsSus, OrdinaryIds
  <1>16. \A x \in Mounts : (\A k \in DOMAIN s : s[k] # x) =>
            mnt_id'[x] = mnt_id[x] /\ namer'[x] = namer[x]
    BY <1>1
  <1>17. \A u \in Tasks \ {t} : susfs_last_fake_mnt_id'[u] = susfs_last_fake_mnt_id[u]
    BY <1>1, <1>i DEF NamesType
  <1>18. \A j \in DOMAIN s :
           IF j \in fresh THEN mnt_id'[s[j]] = base + Rank(s, j) ELSE namer'[s[j]] = namer[s[j]]
    <2> TAKE j \in DOMAIN s
    <2>1. CASE j \in fresh
      <3>1. s[j] \in faked /\ pos(s[j]) \in fresh /\ s[pos(s[j])] = s[j]
        BY <2>1
      <3>2. pos(s[j]) = j
        BY <3>1, <1>3
      <3> QED BY <2>1, <3>1, <3>2, <1>1, <1>7
    <2>2. CASE j \notin fresh
      <3>1. s[j] \notin faked
        BY <2>2, <1>3
      <3> QED BY <2>2, <3>1, <1>1, <1>2
    <2> QED BY <2>1, <2>2
  <1>19. ASSUME NEW j \in fresh
         PROVE  /\ mnt_id'[s[j]] < susfs_last_fake_mnt_id'[t]
                /\ \A k \in fresh : k < j => mnt_id'[s[k]] # mnt_id'[s[j]]
    <2>1. base \in Int /\ count \in Int /\ susfs_last_fake_mnt_id'[t] = base + count
      <3>1. base \in Int /\ count \in Int
        <4>1. base \in OrdinaryIds /\ count \in Nat
          BY <1>5
        <4> HIDE DEF base, fresh, faked, pos
        <4> QED BY <4>1, IdRanges
      <3>2. susfs_last_fake_mnt_id \in [Tasks -> 0..DEFAULT_SUS_MNT_ID]
        BY <1>i DEF NamesType
      <3>3. susfs_last_fake_mnt_id' = [susfs_last_fake_mnt_id EXCEPT ![t] = base + count]
        BY <1>1
      <3> HIDE DEF base
      <3> QED BY <3>1, <3>2, <3>3
    <2> HIDE DEF base
    <2>2. mnt_id'[s[j]] = base + Rank(s, j) /\ Rank(s, j) \in Int /\ Rank(s, j) < count
      BY <1>5, <1>18
    <2>3. \A k \in fresh : k < j =>
            mnt_id'[s[k]] = base + Rank(s, k) /\ Rank(s, k) \in Int /\ Rank(s, k) < Rank(s, j)
      <3>1. j \in 1..(Len(s) + 1)
        BY <1>2
      <3> QED BY <3>1, <1>2, <1>5, <1>18, RankGrows
    <2> QED BY <2>1, <2>2, <2>3
  <1>20. \A j \in DOMAIN s :
              \/ namer'[s[j]] = namer[s[j]]
              \/ /\ mnt_id'[s[j]] < susfs_last_fake_mnt_id'[t]
                 /\ \A k \in 1..(j - 1) :
                      \/ namer'[s[k]] = namer[s[k]]
                      \/ mnt_id'[s[k]] # mnt_id'[s[j]]
    <2> TAKE j \in DOMAIN s
    <2>1. \A k \in 1..(j - 1) : k \in DOMAIN s /\ k < j
      BY <1>2
    <2> QED BY <2>1, <1>18, <1>19
  <1>21. \A x \in Mounts : mnt_id'[x] >= DEFAULT_SUS_MNT_ID <=> IsSus(x)
    <2>1. \A x \in faked : ~(mnt_id'[x] >= DEFAULT_SUS_MNT_ID) /\ ~IsSus(x)
      BY <1>4, <1>7, <1>9, IdsAssumption DEF OrdinaryIds
    <2> QED BY <2>1, <1>10 DEF IsSus
  <1> QED BY <1>11, <1>12, <1>14, <1>15, <1>16, <1>17, <1>20, <1>21

LEMMA NamesFinishCopy ==
  ASSUME IInv, FinishCopy PROVE Names'
  <1>i. Places /\ Names /\ PlacesType /\ NamesType
    BY DEF IInv, Places, Names
  <1> DEFINE t == copying.task
             s == copying.done
  <1>1. /\ copying # NoCopy /\ Len(s) = Len(list[ns[t]])
        /\ \/ Domain[t] = "zygote" /\ Renumber(t, s)
           \/ /\ Domain[t] # "zygote" /\ UNCHANGED names
              /\ susfs_last_fake_mnt_id' = [susfs_last_fake_mnt_id EXCEPT ![t] = 0]
        /\ stage' = [m \in Mounts |-> IF m \in Range(s) THEN "attached" ELSE stage[m]]
        /\ list' = [list EXCEPT ![copying.to] = s]
        /\ ns' = [ns EXCEPT ![t] = copying.to]
        /\ copying' = NoCopy /\ UNCHANGED idas
    BY DEF FinishCopy
  <1>2. copying.to \in Nss /\ t \in Tasks /\ s \in Seq(Mounts)
    BY <1>1, <1>i DEF PlacesType, Copyings
  <1>3. list[ns[t]] # <<>> /\ list[ns[t]] \in Seq(Mounts)
    BY <1>2, <1>i DEF Places, PlacesType, Homes
  <1>4. s # <<>>
    BY <1>1, <1>2, <1>3, EmptySeq
  <1>5. list[copying.to] = <<>> /\ \A k \in DOMAIN s : stage[s[k]] = "new"
    BY <1>1, <1>i DEF Places, CopiedNew
  \* The other tasks of a namespace see the lists they saw.
  <1>6. \A u \in Tasks \ {t} :
          /\ ns'[u] = ns[u] /\ list'[ns[u]] = list[ns[u]]
          /\ list[ns[u]][1] \in Mounts /\ stage[list[ns[u]][1]] = "attached"
    <2> TAKE u \in Tasks \ {t}
    <2>1. ns[u] \in Nss /\ list[ns[u]] # <<>> /\ list[ns[u]] \in Seq(Mounts)
      BY <1>i DEF Places, PlacesType, Homes
    <2>2. ns'[u] = ns[u] /\ list'[ns[u]] = list[ns[u]]
      BY <2>1, <1>1, <1>2, <1>5, <1>i DEF PlacesType
    <2>3. 1 \in DOMAIN list[ns[u]]
      BY <2>1, EmptySeq, LenProperties
    <2> QED BY <2>1, <2>2, <2>3, <1>i, ElementOfSeq, LenProperties DEF Places, Listed
  <1>7. ns'[t] = copying.to /\ list'[copying.to] = s
    BY <1>1, <1>2, <1>i DEF PlacesType
  <1>8. \A m \in Mounts : stage'[m] = "free" <=> stage[m] = "free"
    BY <1>1, <1>5 DEF Range
  <1>9. CASE Domain[t] # "zygote"
    <2>1. UNCHANGED names /\ susfs_last_fake_mnt_id' = [susfs_last_fake_mnt_id EXCEPT ![t] = 0]
      BY <1>1, <1>9
    <2>2. Exact' /\ HintSound' /\ Owners'
      BY <2>1, <1>1, <1>8, <1>i, NamesFrame
    <2>3. NamesType'
      <3>1. susfs_last_fake_mnt_id' \in [Tasks -> 0..DEFAULT_SUS_MNT_ID]
        <4>1. 0 \in 0..DEFAULT_SUS_MNT_ID
          BY IdsAssumption
        <4>2. susfs_last_fake_mnt_id \in [Tasks -> 0..DEFAULT_SUS_MNT_ID]
          BY <1>i DEF NamesType
        <4> QED BY <4>1, <4>2, <2>1
      <3>2. /\ mnt_id_ida' = mnt_id_ida /\ mnt_id_start' = mnt_id_start
            /\ susfs_mnt_id_ida' = susfs_mnt_id_ida /\ susfs_mnt_id_start' = susfs_mnt_id_start
            /\ mnt_id' = mnt_id /\ susfs_mnt_id_backup' = susfs_mnt_id_backup
            /\ owned' = owned /\ namer' = namer
        BY <2>1, <1>1 DEF names, idas
      <3> QED BY <3>1, <3>2, <1>i DEF NamesType
    <2>4. ASSUME NEW u \in Tasks, Domain[u] = "zygote" PROVE ~IsSus(list[ns[u]][1])'
      <3>1. u \in Tasks \ {t} /\ ~IsSus(list[ns[u]][1])
        BY <2>4, <1>9, <1>i DEF Names, ZygoteFirst
      <3> QED BY <3>1, <1>6, <2>1 DEF IsSus, names
    <2>5. ZygoteFirst'
      BY <2>4, <1>1 DEF ZygoteFirst
    <2> QED BY <2>2, <2>3, <2>5 DEF Names
  <1>10. CASE Domain[t] = "zygote"
    <2>1. Renumber(t, s)
      BY <1>1, <1>10
    <2>2. /\ NamesType' /\ Exact' /\ HintSound' /\ Owners'
          /\ \A x \in Mounts : x = s[1] => ~IsSus(x)'
          /\ \A x \in Mounts : (\A k \in DOMAIN s : s[k] # x) => mnt_id'[x] = mnt_id[x]
      BY <2>1, <1>1, <1>2, <1>4, <1>10, NamesRenumber
    <2>3. ASSUME NEW u \in Tasks, Domain[u] = "zygote" PROVE ~IsSus(list[ns[u]][1])'
      <3>1. CASE u = t
        <4>1. s[1] \in Mounts
          BY <1>2, <1>4, EmptySeq, LenProperties, ElementOfSeq
        <4> QED BY <3>1, <4>1, <2>2, <1>7 DEF IsSus
      <3>2. CASE u # t
        <4>1. ~IsSus(list[ns[u]][1])
          BY <2>3, <1>i DEF Names, ZygoteFirst
        <4>2. mnt_id'[list[ns[u]][1]] = mnt_id[list[ns[u]][1]]
          BY <3>2, <1>5, <1>6, <2>2
        <4> QED BY <3>2, <4>1, <4>2, <1>6 DEF IsSus
      <3> QED BY <3>1, <3>2
    <2>4. ZygoteFirst'
      BY <2>3, <1>1 DEF ZygoteFirst
    <2> QED BY <2>2, <2>4 DEF Names
  <1> QED BY <1>9, <1>10

-----------------------------------------------------------------------------

LEMMA InitNames == Init => Names
  <1> SUFFICES ASSUME Init PROVE Names
    OBVIOUS
  <1>1. NamesType
    BY IdsAssumption DEF Init, NamesType, AllocatedIds, FromIda, OrdinaryIds, SusIds
  <1>2. Exact
    BY IdsDiffer, IdRanges, MountsAssumption DEF Init, Exact
  <1>3. HintSound
    BY IdsAssumption DEF Init, HintSound
  <1>4. Owners
    BY IdsDiffer, IdRanges, MountsAssumption DEF Init, Owners, Tells
  <1>5. ZygoteFirst
    BY IdsAssumption, MountsAssumption DEF Init, ZygoteFirst, IsSus
  <1> QED BY <1>1, <1>2, <1>3, <1>4, <1>5 DEF Names

LEMMA NextIInv == IInv /\ [Next]_vars => IInv'
  <1> SUFFICES ASSUME IInv, [Next]_vars PROVE IInv'
    OBVIOUS
  <1>i. Places /\ Names
    BY DEF IInv
  <1>1. Places'
    BY <1>i, NextPlaces
  <1>2. ASSUME UNCHANGED vars PROVE Names'
    <2>1. /\ UNCHANGED <<idas, names, ns, susfs_last_fake_mnt_id>>
          /\ copying' \in {copying, NoCopy} /\ list' = list /\ stage' = stage
      BY <1>2 DEF vars
    <2> QED BY <2>1, <1>i, NamesKeeps
  <1>3. Names'
    BY <1>2, NamesKernMount, NamesLoopback, NamesPropagate, NamesAddMount, NamesStartCopy,
       NamesCopyOne, NamesFree, NamesCopyFails, NamesFinishCopy, NamesUmount, NamesPutNs DEF Next
  <1> QED BY <1>1, <1>3 DEF IInv

\* The two invariants together hold in every state.
THEOREM Invariance == Spec => []IInv
  <1>1. Init => IInv
    BY InitPlaces, InitNames DEF IInv
  <1> QED BY <1>1, NextIInv, PTL DEF Spec

\* No ordinary id is leaked or handed out twice, and no id is passed over: the two
\* allocators of fs/namespace.c and the hints they search from are exact.
THEOREM IdsSoundCorrect == Spec => []IdsSound
  <1>1. IInv => IdsSound
    <2> SUFFICES ASSUME IInv PROVE IdsSound
      OBVIOUS
    <2>i. Places /\ Names /\ PlacesType /\ NamesType /\ Exact /\ HintSound
      BY DEF IInv, Places, Names
    <2>1. TypeOK
      BY <2>i DEF TypeOK, PlacesType, NamesType, UnshareMark
    <2>2. mnt_id_ida = {owned[m].id : m \in Holders("mnt")}
      <3>1. \A m \in Mounts : m \in Holders("mnt") <=> \E id \in OrdinaryIds : owned[m] = FromIda("mnt", id)
        <4> TAKE m \in Mounts
        <4> QED BY <2>i, OwnedCases, IdsDiffer, IdRanges DEF Holders
      <3>2. ASSUME NEW id \in mnt_id_ida PROVE id \in {owned[m].id : m \in Holders("mnt")}
        <4>1. id \in OrdinaryIds
          BY <2>i DEF NamesType
        <4>2. PICK m \in Mounts : owned[m] = FromIda("mnt", id)
          BY <3>2, <4>1, <2>i DEF Exact
        <4> QED BY <4>1, <4>2, <3>1, IdsDiffer DEF Holders
      <3>3. ASSUME NEW m \in Holders("mnt") PROVE owned[m].id \in mnt_id_ida
        <4>1. m \in Mounts
          BY DEF Holders
        <4>2. PICK id \in OrdinaryIds : owned[m] = FromIda("mnt", id)
          BY <4>1, <3>1
        <4> QED BY <4>1, <4>2, <2>i, IdsDiffer DEF Exact
      <3> QED BY <3>2, <3>3
    <2>3. \A m \in Holders("susfs") : owned[m].id \in susfs_mnt_id_ida
      <3> TAKE m \in Holders("susfs")
      <3>1. m \in Mounts /\ owned[m] # NoId /\ owned[m].ida = "susfs"
        BY DEF Holders
      <3>2. PICK id \in SusIds : owned[m] = FromIda("susfs", id)
        BY <3>1, <2>i, OwnedCases, IdsDiffer
      <3> QED BY <3>1, <3>2, <2>i, IdsDiffer DEF Exact
    <2>4. AllocatorsExact
      BY <2>2, <2>3, <2>i DEF AllocatorsExact, Exact
    <2> QED BY <2>1, <2>4, <2>i DEF IdsSound
  <1> QED BY <1>1, Invariance, PTL

\* mnt_free_id: an ordinary id goes back to mnt_id_ida, whatever fake id has been
\* laid over it, nothing goes back for a copy that shares an id, and a sus id goes
\* back to susfs_mnt_id_ida but in the two cases in which the code loses it.  What
\* goes back is never the id of another mount.
THEOREM FreesOwnIdCorrect == Spec => []FreesOwnId
  <1>1. IInv => FreesOwnId
    <2> DEFINE WhatGoesBack(m) ==
                 CASE Unshared(m)                        -> NoId
                   [] ~Unshared(m) /\ namer[m] = NoTask  -> owned[m]
                   [] ~Unshared(m) /\ namer[m] \in Tasks -> FromIda("mnt", owned[m].id)
    <2> SUFFICES ASSUME IInv, NEW m \in Mounts, stage[m] # "free"
                 PROVE  /\ m \notin Holders("susfs") => Released(m) = owned[m]
                        /\ m \in Holders("susfs") => Released(m) = WhatGoesBack(m)
                        /\ \A other \in Mounts \ {m} :
                             Released(m) # NoId => Released(m) # owned[other]
      BY DEF FreesOwnId
    <2>1. NamesType /\ Tells(m) /\ Exact
      BY DEF IInv, Names, Owners
    <2>2. CASE owned[m] = NoId
      BY <2>1, <2>2, ReleasedIs DEF Holders
    <2>3. ASSUME NEW id \in OrdinaryIds, owned[m] = FromIda("mnt", id)
          PROVE  Released(m) = owned[m] /\ m \notin Holders("susfs")
      BY <2>1, <2>3, ReleasedIs, IdsDiffer DEF Holders
    <2>4. ASSUME NEW id \in SusIds, owned[m] = FromIda("susfs", id)
          PROVE  /\ m \in Holders("susfs") /\ Released(m) = WhatGoesBack(m)
                 /\ Released(m) \in {NoId, owned[m], FromIda("mnt", id)}
      <3>1. m \in Holders("susfs") /\ owned[m].id = id
        BY <2>4, IdsDiffer, IdRanges DEF Holders, FromIda
      <3>2. CASE Unshared(m) /\ Released(m) = NoId
        BY <3>1, <3>2
      <3>3. CASE ~Unshared(m) /\ namer[m] = NoTask /\ Released(m) = owned[m]
        BY <3>1, <3>3, MountsAssumption
      <3>4. CASE ~Unshared(m) /\ namer[m] \in Tasks /\ Released(m) = FromIda("mnt", id)
        BY <3>1, <3>4, MountsAssumption
      <3> QED BY <2>1, <2>4, <3>2, <3>3, <3>4, <3>1, ReleasedIs
    <2>5. \A id \in SusIds : \A other \in Mounts : owned[other] # FromIda("mnt", id)
      BY <2>1, OwnedCases, IdsDiffer, IdRanges
    <2>6. \A other \in Mounts \ {m} : Released(m) # NoId => Released(m) # owned[other]
      <3> SUFFICES ASSUME NEW other \in Mounts \ {m}, Released(m) # NoId
                   PROVE  Released(m) # owned[other]
        OBVIOUS
      <3>1. CASE Released(m) = owned[m]
        BY <2>1, <3>1 DEF Exact
      <3>2. CASE \E id \in SusIds : Released(m) = FromIda("mnt", id)
        BY <2>5, <3>2
      <3> QED BY <2>1, <2>2, <2>3, <2>4, <3>1, <3>2, OwnedCases, ReleasedIs
    <2> HIDE DEF WhatGoesBack
    <2> QED BY <2>1, <2>2, <2>3, <2>4, <2>6, OwnedCases, ReleasedIs DEF Holders
  <1> QED BY <1>1, Invariance, PTL

-----------------------------------------------------------------------------
(* The numbers of zygote.                                                   *)

\* The mounts a task will find in its namespace.
Seen(t) ==
  {list[ns[t]][k] : k \in DOMAIN list[ns[t]]} \cup (IF pending[t] = NoMount THEN {} ELSE {pending[t]})

Below == \A t \in Tasks : \A m \in Seen(t) : namer[m] = t => mnt_id[m] < susfs_last_fake_mnt_id[t]

Distinct ==
  \A t \in Tasks : \A m1, m2 \in Seen(t) :
    namer[m1] = t /\ namer[m2] = t /\ mnt_id[m1] = mnt_id[m2] => m1 = m2

\* Who has numbered a mount that is not attached yet.
Numberers ==
  /\ \A t \in Tasks : pending[t] # NoMount => namer[pending[t]] \in {t, NoTask}
  /\ copying # NoCopy => \A k \in DOMAIN copying.done : namer[copying.done[k]] = NoTask

Numbers == Below /\ Distinct /\ Numberers

LEMMA SeenPlaces ==
  ASSUME Places, NEW t \in Tasks, NEW m \in Seen(t)
  PROVE  /\ m \in Mounts /\ stage[m] \in {"new", "attached"}
         /\ copying # NoCopy => \A k \in DOMAIN copying.done : copying.done[k] # m
  <1>1. ns[t] \in Nss /\ list[ns[t]] \in Seq(Mounts)
    BY DEF Places, PlacesType
  <1>2. ASSUME NEW k \in DOMAIN list[ns[t]], m = list[ns[t]][k]
        PROVE  m \in Mounts /\ stage[m] = "attached"
    BY <1>1, <1>2, LenProperties, ElementOfSeq DEF Places, Listed
  <1>3. ASSUME pending[t] # NoMount, m = pending[t]
        PROVE  /\ m \in Mounts /\ stage[m] = "new"
               /\ copying # NoCopy => \A k \in DOMAIN copying.done : copying.done[k] # m
    BY <1>3 DEF Places, PlacesType, PendingNew
  <1>4. copying # NoCopy => \A k \in DOMAIN copying.done : stage[copying.done[k]] = "new"
    BY DEF Places, CopiedNew
  <1> QED BY <1>2, <1>3, <1>4 DEF Seen

\* Only one mount gets ids, and a task that sees it has numbered it now, or has not.
LEMMA NumbersGain ==
  ASSUME Places, NamesType, Below, Distinct, NEW m \in Mounts, stage[m] \in {"free", "dead"},
         \A x \in Mounts \ {m} : namer'[x] = namer[x] /\ mnt_id'[x] = mnt_id[x],
         \/ namer'[m] = NoTask /\ susfs_last_fake_mnt_id' = susfs_last_fake_mnt_id
         \/ \E t \in Tasks :
              /\ namer'[m] = t /\ mnt_id'[m] = susfs_last_fake_mnt_id[t]
              /\ susfs_last_fake_mnt_id' = [susfs_last_fake_mnt_id EXCEPT ![t] = @ + 1],
         \A t \in Tasks : \A x \in Seen(t)' : x \in Seen(t) \/ x = m
  PROVE  Below' /\ Distinct'
  <1>1. \A t \in Tasks : \A x \in Seen(t) : x \in Mounts \ {m}
    BY SeenPlaces
  <1>2. \A t \in Tasks : susfs_last_fake_mnt_id[t] \in Int
    BY IdsAssumption DEF NamesType
  <1>3. \A x \in Mounts : mnt_id[x] \in Int
    <2>1. mnt_id \in [Mounts -> OrdinaryIds \cup SusIds] /\ OrdinaryIds \cup SusIds \subseteq Int
      BY IdRanges DEF NamesType
    <2> QED BY <2>1
  <1>4. ASSUME NEW t \in Tasks
        PROVE  /\ namer'[m] = t => /\ mnt_id'[m] = susfs_last_fake_mnt_id[t]
                                   /\ susfs_last_fake_mnt_id'[t] = susfs_last_fake_mnt_id[t] + 1
               /\ \/ susfs_last_fake_mnt_id'[t] = susfs_last_fake_mnt_id[t]
                  \/ susfs_last_fake_mnt_id'[t] = susfs_last_fake_mnt_id[t] + 1
    BY MountsAssumption DEF NamesType
  <1>5. Below'
    <2> SUFFICES ASSUME NEW t \in Tasks, NEW x \in Seen(t)', namer'[x] = t
                 PROVE  mnt_id'[x] < susfs_last_fake_mnt_id'[t]
      BY DEF Below
    <2>1. CASE x = m
      BY <2>1, <1>2, <1>4
    <2>2. CASE x # m
      <3>1. x \in Seen(t) /\ x \in Mounts /\ namer[x] = t /\ mnt_id'[x] = mnt_id[x]
        BY <2>2, <1>1
      <3>2. mnt_id[x] < susfs_last_fake_mnt_id[t]
        BY <3>1 DEF Below
      <3> QED BY <3>1, <3>2, <1>2, <1>3, <1>4
    <2> QED BY <2>1, <2>2
  <1>6. Distinct'
    <2> SUFFICES ASSUME NEW t \in Tasks, NEW x \in Seen(t)', NEW y \in Seen(t)',
                        namer'[x] = t, namer'[y] = t, mnt_id'[x] = mnt_id'[y]
                 PROVE  x = y
      BY DEF Distinct
    <2>1. \A z \in Seen(t)' : z # m => /\ z \in Seen(t) /\ z \in Mounts
                                       /\ namer'[z] = namer[z] /\ mnt_id'[z] = mnt_id[z]
      BY <1>1
    <2>2. ASSUME NEW z \in Seen(t)', z # m, namer'[z] = t, namer'[m] = t
          PROVE  mnt_id'[z] # mnt_id'[m]
      <3>1. mnt_id'[z] < susfs_last_fake_mnt_id[t] /\ mnt_id'[z] \in Int
        BY <2>1, <2>2, <1>3 DEF Below
      <3> QED BY <3>1, <2>2, <1>2, <1>4
    <2>3. CASE x # m /\ y # m
      BY <2>1, <2>3 DEF Distinct
    <2> QED BY <2>2, <2>3
  <1> QED BY <1>5, <1>6

\* No mount gets ids.
LEMMA NumbersKeep ==
  ASSUME Below, Distinct, UNCHANGED <<namer, mnt_id, susfs_last_fake_mnt_id>>,
         \A t \in Tasks : \A x \in Seen(t)' : x \in Seen(t) \/ namer[x] # t
  PROVE  Below' /\ Distinct'
  BY DEF Below, Distinct

\* A list that grows by m, or stays.
LEMMA SeenGrows ==
  ASSUME Places, NEW m \in Mounts, NEW n \in Nss, UNCHANGED ns,
         list' \in {list, [list EXCEPT ![n] = Append(@, m)]},
         \A t \in Tasks : pending'[t] \in {pending[t], NoMount, m}
  PROVE  \A t \in Tasks : \A x \in Seen(t)' : x \in Seen(t) \/ x = m
  <1> SUFFICES ASSUME NEW t \in Tasks, NEW x \in Seen(t)' PROVE x \in Seen(t) \/ x = m
    OBVIOUS
  <1>1. ns[t] \in Nss /\ list \in [Nss -> Seq(Mounts)]
    BY DEF Places, PlacesType
  <1>2. CASE pending'[t] # NoMount /\ x = pending'[t]
    BY <1>2 DEF Seen
  <1>3. ASSUME NEW k \in DOMAIN list'[ns[t]], x = list'[ns[t]][k] PROVE x \in Seen(t) \/ x = m
    <2>1. CASE list'[ns[t]] = list[ns[t]]
      BY <2>1, <1>3 DEF Seen
    <2>2. CASE list'[ns[t]] = Append(list[ns[t]], m)
      <3>1. /\ DOMAIN list[ns[t]] = 1..Len(list[ns[t]])
            /\ \/ k \in 1..Len(list[ns[t]]) /\ x = list[ns[t]][k]
               \/ x = m
        BY <1>1, <2>2, <1>3, AppendProperties, LenProperties
      <3> QED BY <3>1 DEF Seen
    <2> QED BY <2>1, <2>2, <1>1
  <1> QED BY <1>2, <1>3 DEF Seen

\* What vfs_kern_mount and clone_mnt do to the numbers.
LEMMA NumbersShown ==
  ASSUME NamesType, NEW t \in Tasks, NEW m \in Mounts, NEW id, NEW own, NEW bk,
         Shown(m, id, own, bk) \/ Faked(t, m, id, own)
  PROVE  /\ \A x \in Mounts \ {m} : namer'[x] = namer[x] /\ mnt_id'[x] = mnt_id[x]
         /\ \/ namer'[m] = NoTask /\ susfs_last_fake_mnt_id' = susfs_last_fake_mnt_id
            \/ /\ namer'[m] = t /\ mnt_id'[m] = susfs_last_fake_mnt_id[t]
               /\ susfs_last_fake_mnt_id' = [susfs_last_fake_mnt_id EXCEPT ![t] = @ + 1]
  BY DEF NamesType, Shown, Faked

LEMMA NumbersKernMount ==
  ASSUME IInv, Numbers, NEW t \in Tasks, NEW m \in Mounts, vfs_kern_mount(t, m)
  PROVE  Numbers'
  <1>i. Places /\ PlacesType /\ NamesType /\ Below /\ Distinct /\ Numberers
    BY DEF IInv, Places, Names, Numbers
  <1>1. stage[m] = "free" /\ UNCHANGED <<list, ns, copying>>
        /\ pending' \in {pending, [pending EXCEPT ![t] = m]}
    BY DEF vfs_kern_mount
  <1>2. \E id, own : Shown(m, id, own, 0) \/ Faked(t, m, id, own)
    BY DEF vfs_kern_mount, Name, Shown, Faked
  <1>3. /\ \A x \in Mounts \ {m} : namer'[x] = namer[x] /\ mnt_id'[x] = mnt_id[x]
        /\ \/ namer'[m] = NoTask /\ susfs_last_fake_mnt_id' = susfs_last_fake_mnt_id
           \/ /\ namer'[m] = t /\ mnt_id'[m] = susfs_last_fake_mnt_id[t]
              /\ susfs_last_fake_mnt_id' = [susfs_last_fake_mnt_id EXCEPT ![t] = @ + 1]
    BY <1>2, <1>i, NumbersShown
  <1>4. \A u \in Tasks : pending'[u] = pending[u] \/ (u = t /\ pending'[u] = m)
    BY <1>1, <1>i DEF PlacesType
  <1>5. ns[t] \in Nss
    BY <1>i DEF PlacesType
  <1>6. \A u \in Tasks : \A x \in Seen(u)' : x \in Seen(u) \/ x = m
    BY <1>1, <1>4, <1>5, <1>i, SeenGrows
  <1>7. Below' /\ Distinct'
    BY <1>1, <1>3, <1>6, <1>i, NumbersGain
  <1>8. Numberers'
    <2>1. \A u \in Tasks : pending'[u] # NoMount => namer'[pending'[u]] \in {u, NoTask}
      <3> TAKE u \in Tasks
      <3>1. CASE pending'[u] = pending[u]
        <4>1. pending[u] # NoMount => pending[u] \in Mounts \ {m}
          BY <1>1, <1>i DEF PlacesType, Places, PendingNew
        <4> QED BY <3>1, <4>1, <1>3, <1>i DEF Numberers
      <3>2. CASE u = t /\ pending'[u] = m
        BY <3>2, <1>3
      <3> QED BY <1>4, <3>1, <3>2
    <2>2. copying # NoCopy => \A k \in DOMAIN copying.done :
            copying.done[k] \in Mounts \ {m} /\ namer[copying.done[k]] = NoTask
      BY <1>1, <1>i, LenProperties, ElementOfSeq
         DEF PlacesType, Copyings, Places, CopiedNew, Numberers
    <2> QED BY <2>1, <2>2, <1>1, <1>3 DEF Numberers
  <1> QED BY <1>7, <1>8 DEF Numbers

LEMMA NumbersClone ==
  ASSUME IInv, Numbers, copying = NoCopy, NEW t \in Tasks, NEW m \in Mounts, NEW old,
         clone_mnt(t, old, m, FALSE), NEW n \in Nss,
         list' \in {list, [list EXCEPT ![n] = Append(@, m)]}, UNCHANGED <<ns, pending, copying>>
  PROVE  Numbers'
  <1>i. Places /\ PlacesType /\ NamesType /\ Below /\ Distinct /\ Numberers
    BY DEF IInv, Places, Names, Numbers
  <1>1. stage[m] = "free"
    BY DEF clone_mnt
  <1>2. \E id, own, bk : Shown(m, id, own, bk) \/ Faked(t, m, id, own)
    BY DEF clone_mnt, Name, Shown, Faked
  <1>3. /\ \A x \in Mounts \ {m} : namer'[x] = namer[x] /\ mnt_id'[x] = mnt_id[x]
        /\ \/ namer'[m] = NoTask /\ susfs_last_fake_mnt_id' = susfs_last_fake_mnt_id
           \/ /\ namer'[m] = t /\ mnt_id'[m] = susfs_last_fake_mnt_id[t]
              /\ susfs_last_fake_mnt_id' = [susfs_last_fake_mnt_id EXCEPT ![t] = @ + 1]
    BY <1>2, <1>i, NumbersShown
  <1>4. \A u \in Tasks : \A x \in Seen(u)' : x \in Seen(u) \/ x = m
    BY <1>i, SeenGrows
  <1>5. Below' /\ Distinct'
    BY <1>1, <1>3, <1>4, <1>i, NumbersGain
  <1>6. \A u \in Tasks : pending[u] # NoMount => pending[u] \in Mounts \ {m}
    BY <1>1, <1>i DEF PlacesType, Places, PendingNew
  <1>7. Numberers'
    BY <1>3, <1>6, <1>i DEF Numberers
  <1> QED BY <1>5, <1>7 DEF Numbers

\* Steps that leave ids, numbers and the copies alone.
LEMMA NumbersFrame ==
  ASSUME IInv, Numbers, UNCHANGED <<names, susfs_last_fake_mnt_id>>,
         \A t \in Tasks : \A x \in Seen(t)' : x \in Seen(t) \/ namer[x] # t,
         \A t \in Tasks : pending'[t] \in {pending[t], NoMount},
         copying' = NoCopy \/ copying' = copying \/ copying'.done = <<>>
  PROVE  Numbers'
  <1>1. UNCHANGED <<namer, mnt_id>>
    BY DEF names
  <1>2. Below' /\ Distinct'
    BY <1>1, NumbersKeep DEF Numbers
  <1>3. \A t \in Tasks : pending'[t] # NoMount => namer'[pending'[t]] \in {t, NoTask}
    BY <1>1 DEF Numbers, Numberers
  <1>4. copying' # NoCopy => \A k \in DOMAIN copying'.done : namer'[copying'.done[k]] = NoTask
    <2>1. CASE copying' = copying
      BY <2>1, <1>1 DEF Numbers, Numberers
    <2>2. CASE copying'.done = <<>>
      BY <2>2
    <2> QED BY <2>1, <2>2
  <1> QED BY <1>2, <1>3, <1>4 DEF Numbers, Numberers

LEMMA NumbersAddMount ==
  ASSUME IInv, Numbers, NEW u \in Tasks, do_add_mount(u) PROVE Numbers'
  <1>i. Places /\ PlacesType /\ Numberers
    BY DEF IInv, Places, Numbers
  <1>1. /\ pending[u] \in Mounts /\ ns[u] \in Nss /\ pending[u] # NoMount
        /\ UNCHANGED <<names, susfs_last_fake_mnt_id, ns, copying>>
        /\ list' \in {list, [list EXCEPT ![ns[u]] = Append(@, pending[u])]}
        /\ pending' = [pending EXCEPT ![u] = NoMount]
    BY <1>i DEF do_add_mount, PlacesType
  <1>2. \A t \in Tasks : pending'[t] \in {pending[t], NoMount}
    BY <1>1, <1>i DEF PlacesType
  <1>3. \A t \in Tasks : \A x \in Seen(t)' : x \in Seen(t) \/ x = pending[u]
    BY <1>1, <1>2, <1>i, SeenGrows
  <1>4. pending[u] \in Seen(u) /\ \A t \in Tasks \ {u} : namer[pending[u]] # t
    BY <1>1, <1>i, MountsAssumption DEF Seen, Numberers
  <1>5. \A t \in Tasks : \A x \in Seen(t)' : x \in Seen(t) \/ namer[x] # t
    BY <1>3, <1>4
  <1> QED BY <1>1, <1>2, <1>5, NumbersFrame

LEMMA NumbersUmount ==
  ASSUME IInv, Numbers, NEW n \in Nss, umount(n) PROVE Numbers'
  <1>i. list \in [Nss -> Seq(Mounts)] /\ ns \in [Tasks -> Nss]
    BY DEF IInv, Places, PlacesType
  <1>1. /\ UNCHANGED <<names, susfs_last_fake_mnt_id, ns, pending, copying>>
        /\ \E k \in 2..Len(list[n]) : list' = [list EXCEPT ![n] = RemoveAt(@, k)]
    BY DEF umount
  <1>2. PICK k \in 2..Len(list[n]) : list' = [list EXCEPT ![n] = RemoveAt(@, k)]
    BY <1>1
  <1>3. k \in DOMAIN list[n] /\ list[n] \in Seq(Mounts)
    BY <1>i, LenProperties
  <1>4. \A i \in DOMAIN RemoveAt(list[n], k) : \E j \in DOMAIN list[n] : RemoveAt(list[n], k)[i] = list[n][j]
    <2> DEFINE r == RemoveAt(list[n], k)
    <2>1. k \in 1..Len(list[n]) /\ k \in Nat /\ Len(list[n]) \in Nat /\ DOMAIN list[n] = 1..Len(list[n])
      BY <1>3, LenProperties
    <2>2. /\ r \in Seq(Mounts) /\ Len(r) = Len(list[n]) - 1
          /\ \A i \in 1..(Len(list[n]) - 1) : r[i] = IF i < k THEN list[n][i] ELSE list[n][i + 1]
      BY <1>3, <2>1, RemoveAtShifts
    <2> HIDE DEF r
    <2>3. DOMAIN r = 1..(Len(list[n]) - 1)
      BY <2>2, LenProperties
    <2>4. ASSUME NEW i \in DOMAIN r PROVE \E j \in DOMAIN list[n] : r[i] = list[n][j]
      <3>1. i \in DOMAIN list[n] /\ i + 1 \in DOMAIN list[n]
        BY <2>1, <2>3
      <3>2. r[i] = list[n][i] \/ r[i] = list[n][i + 1]
        BY <2>2, <2>3
      <3> QED BY <3>1, <3>2
    <2> QED BY <2>4 DEF r
  <1>5. \A t \in Tasks : \A x \in Seen(t)' : x \in Seen(t)
    BY <1>1, <1>2, <1>4, <1>i DEF Seen
  <1> QED BY <1>1, <1>5, NumbersFrame

LEMMA NumbersPutNs ==
  ASSUME IInv, Numbers, NEW n \in Nss, put_mnt_ns(n) PROVE Numbers'
  <1>i. list \in [Nss -> Seq(Mounts)] /\ ns \in [Tasks -> Nss]
    BY DEF IInv, Places, PlacesType
  <1>1. /\ UNCHANGED <<names, susfs_last_fake_mnt_id, ns, pending, copying>>
        /\ list' = [list EXCEPT ![n] = <<>>] /\ \A t \in Tasks : ns[t] # n
    BY DEF put_mnt_ns
  <1>2. \A t \in Tasks : \A x \in Seen(t)' : x \in Seen(t)
    BY <1>1, <1>i DEF Seen
  <1> QED BY <1>1, <1>2, NumbersFrame

LEMMA NumbersStartCopy ==
  ASSUME IInv, Numbers, NEW t \in Tasks, NEW n \in Nss, StartCopy(t, n) PROVE Numbers'
  <1>1. /\ UNCHANGED <<names, susfs_last_fake_mnt_id, ns, pending, list>> /\ copying'.done = <<>>
    BY DEF StartCopy
  <1>2. \A u \in Tasks : \A x \in Seen(u)' : x \in Seen(u)
    BY <1>1 DEF Seen
  <1> QED BY <1>1, <1>2, NumbersFrame

LEMMA NumbersCopyFails ==
  ASSUME IInv, Numbers, CopyFails PROVE Numbers'
  <1>1. /\ UNCHANGED <<names, susfs_last_fake_mnt_id, ns, pending, list>> /\ copying' = NoCopy
    BY DEF CopyFails
  <1>2. \A u \in Tasks : \A x \in Seen(u)' : x \in Seen(u)
    BY <1>1 DEF Seen
  <1> QED BY <1>1, <1>2, NumbersFrame

LEMMA NumbersFree ==
  ASSUME IInv, Numbers, NEW m \in Mounts, free_mount(m) PROVE Numbers'
  <1>i. Places /\ PlacesType /\ NamesType /\ Below /\ Distinct /\ Numberers
    BY DEF IInv, Places, Names, Numbers
  <1>1. /\ stage[m] = "dead" /\ UNCHANGED <<list, ns, pending, copying, susfs_last_fake_mnt_id>>
        /\ namer' = [namer EXCEPT ![m] = NoTask] /\ mnt_id' = [mnt_id EXCEPT ![m] = 0]
    BY DEF free_mount
  <1>2. /\ \A x \in Mounts \ {m} : namer'[x] = namer[x] /\ mnt_id'[x] = mnt_id[x]
        /\ namer'[m] = NoTask
    BY <1>1, <1>i DEF NamesType
  <1>3. \A u \in Tasks : \A x \in Seen(u)' : x \in Seen(u)
    BY <1>1 DEF Seen
  <1>4. Below' /\ Distinct'
    BY <1>1, <1>2, <1>3, <1>i, NumbersGain
  <1>5. \A u \in Tasks : pending[u] # NoMount => pending[u] \in Mounts \ {m}
    BY <1>1, <1>i DEF PlacesType, Places, PendingNew
  <1>6. copying # NoCopy => \A k \in DOMAIN copying.done : copying.done[k] \in Mounts \ {m}
    BY <1>1, <1>i, LenProperties, ElementOfSeq DEF PlacesType, Copyings, Places, CopiedNew
  <1>7. Numberers'
    BY <1>1, <1>2, <1>5, <1>6, <1>i DEF Numberers
  <1> QED BY <1>4, <1>7 DEF Numbers

LEMMA NumbersCopyOne ==
  ASSUME IInv, Numbers, NEW m \in Mounts, CopyOne(m) PROVE Numbers'
  <1>i. Places /\ PlacesType /\ NamesType /\ Below /\ Distinct /\ Numberers
    BY DEF IInv, Places, Names, Numbers
  <1> DEFINE t    == copying.task
             done == copying.done
  <1>1. /\ copying # NoCopy /\ stage[m] = "free" /\ UNCHANGED <<list, ns, pending>>
        /\ copying' = [copying EXCEPT !.done = Append(@, m)]
        /\ clone_mnt(t, list[ns[t]][Len(done) + 1], m, TRUE)
    BY DEF CopyOne, clone_mnt
  <1>2. copying \in Copyings /\ done \in Seq(Mounts) /\ t \in Tasks
    BY <1>1, <1>i DEF PlacesType, Copyings
  <1>3. \E id, own, bk : Shown(m, id, own, bk)
    BY <1>1 DEF clone_mnt, Name, Shown
  <1>4. /\ \A x \in Mounts \ {m} : namer'[x] = namer[x] /\ mnt_id'[x] = mnt_id[x]
        /\ namer'[m] = NoTask /\ susfs_last_fake_mnt_id' = susfs_last_fake_mnt_id
    BY <1>3, <1>i DEF Shown, NamesType
  <1>5. \A u \in Tasks : \A x \in Seen(u)' : x \in Seen(u)
    BY <1>1 DEF Seen
  <1>6. Below' /\ Distinct'
    BY <1>1, <1>4, <1>5, <1>i, NumbersGain
  <1>7. \A u \in Tasks : pending[u] # NoMount => pending[u] \in Mounts \ {m}
    BY <1>1, <1>i DEF PlacesType, Places, PendingNew
  <1>8. /\ copying'.done = Append(done, m) /\ DOMAIN done = 1..Len(done) /\ Len(done) \in Nat
        /\ DOMAIN Append(done, m) = 1..(Len(done) + 1) /\ Append(done, m)[Len(done) + 1] = m
        /\ \A k \in 1..Len(done) : Append(done, m)[k] = done[k] /\ done[k] \in Mounts
    <2>1. copying' = [task |-> t, to |-> copying.to, done |-> Append(done, m)]
      BY <1>1, <1>2 DEF Copyings
    <2> QED BY <2>1, <1>2, AppendProperties, LenProperties, ElementOfSeq
  <1>9. \A k \in 1..Len(done) : done[k] \in Mounts \ {m} /\ namer[done[k]] = NoTask
    BY <1>1, <1>8, <1>i DEF Places, CopiedNew, Numberers
  <1> HIDE DEF t, done
  <1>10. \A k \in DOMAIN copying'.done : namer'[copying'.done[k]] = NoTask
    <2> TAKE k \in DOMAIN copying'.done
    <2>1. \/ k \in 1..Len(done) /\ copying'.done[k] = done[k]
          \/ copying'.done[k] = m
      BY <1>8
    <2> QED BY <2>1, <1>4, <1>9
  <1>11. Numberers'
    BY <1>1, <1>4, <1>7, <1>10, <1>i DEF Numberers
  <1> QED BY <1>6, <1>11 DEF Numbers

LEMMA NumbersFinishCopy ==
  ASSUME IInv, Numbers, FinishCopy PROVE Numbers'
  <1>i. Places /\ PlacesType /\ NamesType /\ Below /\ Distinct /\ Numberers
    BY DEF IInv, Places, Names, Numbers
  <1> DEFINE t == copying.task
             s == copying.done
  <1>1. /\ copying # NoCopy /\ Len(s) = Len(list[ns[t]])
        /\ \/ Domain[t] = "zygote" /\ Renumber(t, s)
           \/ /\ Domain[t] # "zygote" /\ UNCHANGED names
              /\ susfs_last_fake_mnt_id' = [susfs_last_fake_mnt_id EXCEPT ![t] = 0]
        /\ stage' = [m \in Mounts |-> IF m \in Range(s) THEN "attached" ELSE stage[m]]
        /\ list' = [list EXCEPT ![copying.to] = s]
        /\ ns' = [ns EXCEPT ![t] = copying.to]
        /\ copying' = NoCopy /\ UNCHANGED <<idas, pending>>
    BY DEF FinishCopy
  <1>2. copying.to \in Nss /\ t \in Tasks /\ s \in Seq(Mounts) /\ DOMAIN s = 1..Len(s)
        /\ Len(s) \in Nat
    BY <1>1, <1>i, LenProperties DEF PlacesType, Copyings
  <1>3. list[ns[t]] # <<>> /\ list[ns[t]] \in Seq(Mounts)
    BY <1>2, <1>i DEF Places, PlacesType, Homes
  <1>4. s # <<>>
    BY <1>1, <1>2, <1>3, EmptySeq
  <1>5. /\ list[copying.to] = <<>> /\ pending[t] = NoMount
        /\ \A j, k \in DOMAIN s : s[j] = s[k] => j = k
    BY <1>1, <1>i DEF Places, CopiedNew
  <1>6. \A k \in DOMAIN s : s[k] \in Mounts /\ namer[s[k]] = NoTask
    BY <1>1, <1>2, <1>i, ElementOfSeq DEF Numberers
  \* What the numbering leaves alone, and what it promises.
  <1>7. /\ \A x \in Mounts : (\A k \in DOMAIN s : s[k] # x) => mnt_id'[x] = mnt_id[x] /\ namer'[x] = namer[x]
        /\ \A u \in Tasks \ {t} : susfs_last_fake_mnt_id'[u] = susfs_last_fake_mnt_id[u]
        /\ \A j \in DOMAIN s :
              \/ namer'[s[j]] = NoTask
              \/ /\ mnt_id'[s[j]] < susfs_last_fake_mnt_id'[t]
                 /\ \A k \in 1..(j - 1) :
                      namer'[s[k]] = NoTask \/ mnt_id'[s[k]] # mnt_id'[s[j]]
    <2>1. CASE Domain[t] # "zygote"
      <3>1. UNCHANGED names /\ susfs_last_fake_mnt_id' = [susfs_last_fake_mnt_id EXCEPT ![t] = 0]
        BY <1>1, <2>1
      <3>2. \A u \in Tasks \ {t} : susfs_last_fake_mnt_id'[u] = susfs_last_fake_mnt_id[u]
        BY <3>1, <1>i DEF NamesType
      <3> QED BY <3>1, <3>2, <1>6 DEF names
    <2>2. CASE Domain[t] = "zygote"
      <3>1. Renumber(t, s)
        BY <1>1, <2>2
      <3>2. \A j \in DOMAIN s : \A k \in 1..(j - 1) : k \in DOMAIN s
        BY <1>2
      <3> QED BY <3>1, <3>2, <1>1, <1>2, <1>4, <1>6, <2>2, NamesRenumber
    <2> QED BY <2>1, <2>2
  <1>8. ASSUME NEW u \in Tasks \ {t}
        PROVE  Seen(u)' = Seen(u) /\ \A x \in Seen(u) : x \in Mounts /\ \A k \in DOMAIN s : s[k] # x
    <2>1. ns[u] \in Nss /\ list[ns[u]] # <<>>
      BY <1>i DEF Places, PlacesType, Homes
    <2>2. ns'[u] = ns[u] /\ list'[ns[u]] = list[ns[u]]
      BY <2>1, <1>1, <1>2, <1>5, <1>i DEF PlacesType
    <2>3. Seen(u)' = Seen(u)
      BY <2>2, <1>1 DEF Seen
    <2> QED BY <2>3, <1>1, <1>i, SeenPlaces
  <1>9. ASSUME NEW u \in Tasks, u = t
        PROVE  Seen(u)' = {s[k] : k \in DOMAIN s}
    <2>1. ns'[u] = copying.to /\ list'[copying.to] = s /\ pending'[u] = NoMount
      BY <1>1, <1>2, <1>5, <1>9, <1>i DEF PlacesType
    <2> QED BY <2>1 DEF Seen
  <1> HIDE DEF t, s
  <1>10. Below'
    <2> SUFFICES ASSUME NEW u \in Tasks, NEW x \in Seen(u)', namer'[x] = u
                 PROVE  mnt_id'[x] < susfs_last_fake_mnt_id'[u]
      BY DEF Below
    <2>1. CASE u = t
      <3>1. PICK j \in DOMAIN s : x = s[j]
        BY <2>1, <1>9
      <3>2. namer'[s[j]] # NoTask
        BY <3>1, MountsAssumption
      <3> QED BY <2>1, <3>1, <3>2, <1>7
    <2>2. CASE u # t
      <3>1. x \in Seen(u) /\ mnt_id'[x] = mnt_id[x] /\ namer'[x] = namer[x]
        BY <2>2, <1>7, <1>8
      <3> QED BY <2>2, <3>1, <1>7, <1>i DEF Below
    <2> QED BY <2>1, <2>2
  <1>11. Distinct'
    <2> SUFFICES ASSUME NEW u \in Tasks, NEW x \in Seen(u)', NEW y \in Seen(u)',
                        namer'[x] = u, namer'[y] = u, mnt_id'[x] = mnt_id'[y]
                 PROVE  x = y
      BY DEF Distinct
    <2>1. CASE u = t
      <3>1. PICK j \in DOMAIN s, k \in DOMAIN s : x = s[j] /\ y = s[k]
        BY <2>1, <1>9
      <3>2. namer'[s[j]] # NoTask /\ namer'[s[k]] # NoTask
        BY <3>1, MountsAssumption
      <3>3. ~(k \in 1..(j - 1)) /\ ~(j \in 1..(k - 1))
        BY <3>1, <3>2, <1>7
      <3>4. j = k
        BY <3>3, <1>2
      <3> QED BY <3>1, <3>4
    <2>2. CASE u # t
      <3>1. \A z \in {x, y} : z \in Seen(u) /\ mnt_id'[z] = mnt_id[z] /\ namer'[z] = namer[z]
        BY <2>2, <1>7, <1>8
      <3> QED BY <3>1, <1>i DEF Distinct
    <2> QED BY <2>1, <2>2
  <1>12. Numberers'
    <2>1. ASSUME NEW u \in Tasks, pending'[u] # NoMount
          PROVE  namer'[pending'[u]] \in {u, NoTask}
      <3>1. u # t /\ pending'[u] = pending[u] /\ pending[u] \in Seen(u)
        BY <2>1, <1>1, <1>5 DEF Seen
      <3>2. namer'[pending[u]] = namer[pending[u]]
        BY <3>1, <1>7, <1>8
      <3> QED BY <3>1, <3>2, <2>1, <1>i DEF Numberers
    <2> QED BY <2>1, <1>1 DEF Numberers
  <1> QED BY <1>10, <1>11, <1>12 DEF Numbers

LEMMA NextNumbers == IInv /\ Numbers /\ [Next]_vars => Numbers'
  <1> SUFFICES ASSUME IInv, Numbers, [Next]_vars PROVE Numbers'
    OBVIOUS
  <1>1. ASSUME NEW t \in Tasks, NEW m \in Mounts, do_loopback(t, m) PROVE Numbers'
    <2>1. /\ copying = NoCopy /\ UNCHANGED <<ns, pending, copying>>
          /\ \E k \in DOMAIN list[ns[t]] : clone_mnt(t, list[ns[t]][k], m, FALSE)
          /\ list' \in {list, [list EXCEPT ![ns[t]] = Append(@, m)]}
      BY <1>1 DEF do_loopback, Unlocked
    <2>2. ns[t] \in Nss
      BY DEF IInv, Places, PlacesType
    <2> QED BY <2>1, <2>2, NumbersClone
  <1>2. ASSUME NEW t \in Tasks, NEW m \in Mounts, NEW n \in Nss, propagate_one(t, n, m) PROVE Numbers'
    <2>1. /\ copying = NoCopy /\ UNCHANGED <<ns, pending, copying>>
          /\ \E k \in DOMAIN list[ns[t]] : clone_mnt(t, list[ns[t]][k], m, FALSE)
          /\ list' \in {list, [list EXCEPT ![n] = Append(@, m)]}
      BY <1>2 DEF propagate_one, Unlocked
    <2> QED BY <2>1, NumbersClone
  <1>3. ASSUME UNCHANGED vars PROVE Numbers'
    <2>1. /\ UNCHANGED <<names, susfs_last_fake_mnt_id, ns, pending, list>> /\ copying' = copying
      BY <1>3 DEF vars
    <2>2. \A u \in Tasks : \A x \in Seen(u)' : x \in Seen(u)
      BY <2>1 DEF Seen
    <2> QED BY <2>1, <2>2, NumbersFrame
  <1> QED BY <1>1, <1>2, <1>3, NumbersKernMount, NumbersAddMount, NumbersStartCopy, NumbersCopyOne,
             NumbersFree, NumbersCopyFails, NumbersFinishCopy, NumbersUmount, NumbersPutNs DEF Next

\* zygote never sees one of its numbers twice, in the tree it has copied and among
\* the mounts it and mount propagation have added since.
THEOREM FakeIdsDistinctCorrect == Spec => []FakeIdsDistinct
  <1>1. Init => Numbers
    BY MountsAssumption DEF Init, Numbers, Below, Distinct, Numberers, Seen
  <1>2. IInv /\ Numbers => FakeIdsDistinct
    BY DEF IInv, Places, PlacesType, ListedOnce, Numbers, Distinct, Seen, FakeIdsDistinct
  <1>3. IInv /\ Numbers /\ [Next]_vars => Numbers'
    BY NextNumbers
  <1> QED BY <1>1, <1>2, <1>3, Invariance, PTL DEF Spec

-----------------------------------------------------------------------------
(* A copy is hidden where its original is.                                  *)

\* The exception of CopyKeepsHidden.
Hideable(t, m) == Domain[t] = "ksu" => mnt_id[m] # 0

Mirror ==
  copying # NoCopy =>
    LET t == copying.task
    IN  /\ Len(copying.done) <= Len(list[ns[t]])
        /\ \A k \in DOMAIN copying.done :
             Hideable(t, list[ns[t]][k]) => (IsSus(copying.done[k]) <=> IsSus(list[ns[t]][k]))

\* The mounts in question are in use, so that their ids stay.
LEMMA MirrorMounts ==
  ASSUME Places, Mirror, copying # NoCopy
  PROVE  /\ copying.task \in Tasks /\ copying.done \in Seq(Mounts)
         /\ list[ns[copying.task]] \in Seq(Mounts)
         /\ \A k \in DOMAIN list[ns[copying.task]] :
              list[ns[copying.task]][k] \in Mounts /\ stage[list[ns[copying.task]][k]] = "attached"
         /\ \A k \in DOMAIN copying.done :
              /\ copying.done[k] \in Mounts /\ stage[copying.done[k]] = "new"
              /\ k \in DOMAIN list[ns[copying.task]]
  <1>1. copying.task \in Tasks /\ copying.done \in Seq(Mounts)
    BY DEF Places, PlacesType, Copyings
  <1>2. ns[copying.task] \in Nss /\ list[ns[copying.task]] \in Seq(Mounts)
    BY <1>1 DEF Places, PlacesType
  <1>3. \A k \in DOMAIN list[ns[copying.task]] :
          list[ns[copying.task]][k] \in Mounts /\ stage[list[ns[copying.task]][k]] = "attached"
    BY <1>2, LenProperties, ElementOfSeq DEF Places, Listed
  <1>4. \A k \in DOMAIN copying.done : copying.done[k] \in Mounts /\ stage[copying.done[k]] = "new"
    BY <1>1, LenProperties, ElementOfSeq DEF Places, CopiedNew
  <1>5. \A k \in DOMAIN copying.done : k \in DOMAIN list[ns[copying.task]]
    BY <1>1, <1>2, LenProperties DEF Mirror
  <1> QED BY <1>1, <1>2, <1>3, <1>4, <1>5

LEMMA MirrorKeep ==
  ASSUME Places, Mirror, UNCHANGED <<copying, ns, list>>,
         \A x \in Mounts : stage[x] \in {"new", "attached"} => mnt_id'[x] = mnt_id[x]
  PROVE  Mirror'
  <1> SUFFICES ASSUME copying # NoCopy PROVE Mirror'
    BY DEF Mirror
  <1>1. /\ \A k \in DOMAIN list[ns[copying.task]] :
             mnt_id'[list[ns[copying.task]][k]] = mnt_id[list[ns[copying.task]][k]]
        /\ \A k \in DOMAIN copying.done :
             /\ k \in DOMAIN list[ns[copying.task]]
             /\ mnt_id'[copying.done[k]] = mnt_id[copying.done[k]]
    BY MirrorMounts
  <1> QED BY <1>1 DEF Mirror, Hideable, IsSus

LEMMA MirrorCopyOne ==
  ASSUME IInv, Mirror, NEW m \in Mounts, CopyOne(m) PROVE Mirror'
  <1>i. Places /\ PlacesType /\ NamesType
    BY DEF IInv, Places, Names
  <1> DEFINE t    == copying.task
             done == copying.done
             all  == list[ns[t]]
             old  == all[Len(done) + 1]
  <1>1. /\ copying # NoCopy /\ stage[m] = "free" /\ UNCHANGED <<list, ns>>
        /\ copying' = [copying EXCEPT !.done = Append(@, m)]
        /\ clone_mnt(t, old, m, TRUE) /\ Len(done) < Len(all)
    BY DEF CopyOne, clone_mnt
  <1>2. /\ t \in Tasks /\ done \in Seq(Mounts) /\ all \in Seq(Mounts) /\ DOMAIN all = 1..Len(all)
        /\ Len(all) \in Nat /\ DOMAIN done = 1..Len(done) /\ Len(done) \in Nat
        /\ \A k \in DOMAIN all : all[k] \in Mounts \ {m}
        /\ \A k \in DOMAIN done : done[k] \in Mounts \ {m} /\ k \in DOMAIN all
    BY <1>1, <1>i, MirrorMounts, LenProperties
  <1>3. old \in Mounts \ {m}
    BY <1>1, <1>2
  <1>4. /\ copying'.task = t /\ copying'.done = Append(done, m)
        /\ DOMAIN Append(done, m) = 1..(Len(done) + 1) /\ Append(done, m)[Len(done) + 1] = m
        /\ Len(Append(done, m)) = Len(done) + 1
        /\ \A k \in 1..Len(done) : Append(done, m)[k] = done[k]
    <2>1. copying \in Copyings
      BY <1>1, <1>i DEF PlacesType
    <2>2. copying' = [task |-> t, to |-> copying.to, done |-> Append(done, m)]
      BY <1>1, <2>1 DEF Copyings
    <2> QED BY <2>2, <1>2, AppendProperties
  <1>5. PICK id \in OrdinaryIds \cup SusIds :
          /\ \E own \in Owns(id) :
               alloc_vfsmnt(should_spoof(t, old, TRUE), custom_mnt_id(t, old, TRUE), id, own)
          /\ mnt_id' = [mnt_id EXCEPT ![m] = id]
    BY <1>1 DEF clone_mnt, Name
  <1>6. \A x \in Mounts \ {m} : mnt_id'[x] = mnt_id[x]
    BY <1>5, <1>i DEF NamesType
  <1>7. mnt_id'[m] = id
    BY <1>5, <1>i DEF NamesType
  <1>8. Hideable(t, old) => (IsSus(old) <=> id >= DEFAULT_SUS_MNT_ID)
    <2> SUFFICES ASSUME Hideable(t, old) PROVE IsSus(old) <=> id >= DEFAULT_SUS_MNT_ID
      OBVIOUS
    <2>1. \A i \in OrdinaryIds : ~(i >= DEFAULT_SUS_MNT_ID)
      BY IdsAssumption DEF OrdinaryIds
    <2>2. \A i \in SusIds : i >= DEFAULT_SUS_MNT_ID
      BY IdRanges
    <2> HIDE DEF t, old
    <2>3. CASE Domain[t] = "ksu"
      <3>1. id = mnt_id[old]
        BY <1>5, <2>3 DEF Hideable, alloc_vfsmnt, should_spoof, custom_mnt_id
      <3> QED BY <3>1 DEF IsSus
    <2>4. CASE Domain[t] # "ksu" /\ IsSus(old)
      <3>1. id \in SusIds
        BY <1>5, <2>4 DEF alloc_vfsmnt, should_spoof, custom_mnt_id, susfs_mnt_alloc_id
      <3> QED BY <3>1, <2>2, <2>4
    <2>5. CASE Domain[t] # "ksu" /\ ~IsSus(old)
      <3>1. id \in OrdinaryIds
        BY <1>5, <2>5 DEF alloc_vfsmnt, should_spoof, custom_mnt_id, mnt_alloc_id
      <3> QED BY <3>1, <2>1, <2>5
    <2> QED BY <2>3, <2>4, <2>5
  <1>9. ASSUME NEW k \in 1..(Len(done) + 1), NEW x \in Mounts, NEW y \in Mounts,
               x = Append(done, m)[k], y = all[k], Domain[t] = "ksu" => mnt_id'[y] # 0
        PROVE  mnt_id'[x] >= DEFAULT_SUS_MNT_ID <=> mnt_id'[y] >= DEFAULT_SUS_MNT_ID
    <2>1. CASE k \in 1..Len(done)
      <3>1. x = done[k] /\ x # m /\ y # m
        BY <2>1, <1>2, <1>4, <1>9
      <3>2. Hideable(t, y)
        BY <3>1, <1>6, <1>9 DEF Hideable
      <3>3. IsSus(x) <=> IsSus(y)
        BY <2>1, <3>1, <3>2, <1>1, <1>2, <1>9 DEF Mirror
      <3> QED BY <3>1, <3>3, <1>6 DEF IsSus
    <2>2. CASE k = Len(done) + 1
      <3>1. x = m /\ y = old
        BY <2>2, <1>4, <1>9
      <3>2. Hideable(t, y)
        BY <3>1, <1>3, <1>6, <1>9 DEF Hideable
      <3> QED BY <3>1, <3>2, <1>3, <1>6, <1>7, <1>8 DEF IsSus
    <2> QED BY <1>2, <1>9, <2>1, <2>2
  <1>10. \A k \in 1..(Len(done) + 1) : all[k] \in Mounts /\ Append(done, m)[k] \in Mounts
    <2> TAKE k \in 1..(Len(done) + 1)
    <2>1. k \in DOMAIN all
      BY <1>1, <1>2
    <2>2. k \in 1..Len(done) \/ k = Len(done) + 1
      BY <1>2
    <2> QED BY <2>1, <2>2, <1>2, <1>4
  <1>11. Len(done) + 1 <= Len(all)
    BY <1>1, <1>2
  <1>12. list'[ns'[t]] = all
    BY <1>1
  <1> HIDE DEF t, done, all, old
  <1> QED BY <1>4, <1>9, <1>10, <1>11, <1>12 DEF Mirror, Hideable, IsSus

LEMMA NextMirror == IInv /\ Mirror /\ [Next]_vars => Mirror'
  <1> SUFFICES ASSUME IInv, Mirror, [Next]_vars PROVE Mirror'
    OBVIOUS
  <1>i. Places /\ PlacesType /\ NamesType
    BY DEF IInv, Places, Names
  <1>1. ASSUME NEW t \in Tasks, NEW m \in Mounts, vfs_kern_mount(t, m) PROVE Mirror'
    <2>1. stage[m] = "free" /\ UNCHANGED <<list, ns, copying>>
      BY <1>1 DEF vfs_kern_mount
    <2>2. \A x \in Mounts \ {m} : mnt_id'[x] = mnt_id[x]
      BY <1>1, <1>i DEF vfs_kern_mount, Name, NamesType
    <2> QED BY <2>1, <2>2, <1>i, MirrorKeep
  <1>2. ASSUME NEW m \in Mounts, free_mount(m) PROVE Mirror'
    <2>1. stage[m] = "dead" /\ UNCHANGED <<list, ns, copying>>
      BY <1>2 DEF free_mount
    <2>2. \A x \in Mounts \ {m} : mnt_id'[x] = mnt_id[x]
      BY <1>2, <1>i DEF free_mount, NamesType
    <2> QED BY <2>1, <2>2, <1>i, MirrorKeep
  <1>3. ASSUME NEW t \in Tasks, do_add_mount(t) PROVE Mirror'
    <2>1. UNCHANGED <<names, ns, copying>> /\ (copying # NoCopy => list' = list)
      BY <1>3 DEF do_add_mount, Unlocked
    <2>2. CASE copying = NoCopy
      BY <2>1, <2>2 DEF Mirror
    <2>3. CASE copying # NoCopy
      <3>1. UNCHANGED <<list, ns, copying>> /\ mnt_id' = mnt_id
        BY <2>1, <2>3 DEF names
      <3> QED BY <3>1, <1>i, MirrorKeep
    <2> QED BY <2>2, <2>3
  <1>4. ASSUME NEW t \in Tasks, NEW n \in Nss, StartCopy(t, n) PROVE Mirror'
    <2>1. /\ copying' = [task |-> t, to |-> n, done |-> <<>>] /\ UNCHANGED <<list, ns>>
          /\ Len(list[ns[t]]) \in Nat
      BY <1>4, <1>i, LenProperties DEF StartCopy, PlacesType
    <2>2. Len(<<>>) = 0 /\ DOMAIN <<>> = {} /\ copying'.done = <<>> /\ copying'.task = t
      BY <2>1
    <2> QED BY <2>1, <2>2 DEF Mirror
  <1>5. ASSUME copying' = NoCopy PROVE Mirror'
    BY <1>5 DEF Mirror
  <1>6. CASE UNCHANGED vars
    <2>1. UNCHANGED <<list, ns, copying>> /\ mnt_id' = mnt_id
      BY <1>6 DEF vars, names
    <2> QED BY <2>1, <1>i, MirrorKeep
  <1> QED BY <1>1, <1>2, <1>3, <1>4, <1>5, <1>6, MirrorCopyOne
          DEF Next, do_loopback, propagate_one, umount, put_mnt_ns, CopyFails, FinishCopy, Unlocked

\* When copy_mnt_ns is done, its copies of hidden mounts are hidden, and no others.
THEOREM CopyKeepsHiddenCorrect == Spec => CopyKeepsHidden
  <1> DEFINE Kept ==
        copying # NoCopy /\ copying' = NoCopy /\ stage # stage' =>
          LET t == copying.task
              n == copying.to
          IN  \A k \in DOMAIN list'[n] :
                (Domain[t] = "ksu" => mnt_id[list[ns[t]][k]] # 0)
                => (mnt_id'[list'[n][k]] >= DEFAULT_SUS_MNT_ID <=> IsSus(list[ns[t]][k]))
  <1>1. Init => Mirror
    BY DEF Init, Mirror
  <1>2. IInv /\ Mirror /\ [Next]_vars => [Kept]_vars
    <2> SUFFICES ASSUME IInv, Mirror, [Next]_vars, copying # NoCopy, copying' = NoCopy PROVE Kept
      OBVIOUS
    <2>i. Places /\ PlacesType /\ NamesType
      BY DEF IInv, Places, Names
    <2> DEFINE t == copying.task
               s == copying.done
    <2>1. copying.to \in Nss /\ list[copying.to] = <<>> /\ t \in Tasks /\ s \in Seq(Mounts)
      BY <2>i DEF Places, PlacesType, Copyings, CopiedNew
    <2>2. CASE CopyFails
      <3>1. list'[copying.to] = <<>>
        BY <2>1, <2>2 DEF CopyFails
      <3> QED BY <3>1
    <2>3. CASE FinishCopy
      <3>1. list' = [list EXCEPT ![copying.to] = s]
            /\ ((Domain[t] = "zygote" /\ Renumber(t, s)) \/ UNCHANGED names)
        BY <2>3 DEF FinishCopy
      <3>2. list'[copying.to] = s
        BY <3>1, <2>1, <2>i DEF PlacesType
      <3>3. \A k \in DOMAIN s : mnt_id'[s[k]] >= DEFAULT_SUS_MNT_ID <=> IsSus(s[k])
        <4>1. CASE UNCHANGED names
          BY <4>1 DEF names, IsSus
        <4>2. CASE Domain[t] = "zygote" /\ Renumber(t, s)
          <5> SUFFICES ASSUME NEW k \in DOMAIN s
                       PROVE  mnt_id'[s[k]] >= DEFAULT_SUS_MNT_ID <=> IsSus(s[k])
            OBVIOUS
          <5>1. s # <<>> /\ s[k] \in Mounts
            BY <2>1, LenProperties, ElementOfSeq
          <5>2. UNCHANGED idas
                /\ stage' = [m \in Mounts |-> IF m \in Range(s) THEN "attached" ELSE stage[m]]
            BY <2>3 DEF FinishCopy
          <5>3. copying.task \in Tasks /\ Domain[copying.task] = "zygote"
                /\ Renumber(copying.task, copying.done) /\ copying.done # <<>>
            BY <2>1, <4>2, <5>1
          <5>4. \A x \in Mounts : mnt_id'[x] >= DEFAULT_SUS_MNT_ID <=> IsSus(x)
            BY <5>2, <5>3, NamesRenumber
          <5> QED BY <5>1, <5>4
        <4> QED BY <3>1, <4>1, <4>2
      <3>4. \A k \in DOMAIN s : Hideable(t, list[ns[t]][k]) => (IsSus(s[k]) <=> IsSus(list[ns[t]][k]))
        BY DEF Mirror
      <3> QED BY <3>2, <3>3, <3>4 DEF Hideable
    <2>4. \/ UNCHANGED copying
          \/ \E u \in Tasks, n \in Nss : StartCopy(u, n)
          \/ \E m \in Mounts : CopyOne(m)
          \/ CopyFails \/ FinishCopy
      BY DEF Next, vars, vfs_kern_mount, do_loopback, propagate_one, do_add_mount, free_mount,
             umount, put_mnt_ns
    <2>5. CASE \E m \in Mounts : CopyOne(m)
      <3>1. PICK m \in Mounts : CopyOne(m)
        BY <2>5
      <3>2. list'[copying.to] = <<>>
        BY <2>1, <3>1 DEF CopyOne
      <3> QED BY <3>2
    <2>6. CASE \E u \in Tasks, n \in Nss : StartCopy(u, n)
      BY <2>6 DEF StartCopy, Unlocked
    <2>7. CASE UNCHANGED copying
      BY <2>7
    <2> HIDE DEF Kept, t, s
    <2> QED BY <2>2, <2>3, <2>4, <2>5, <2>6, <2>7
  <1>3. IInv /\ Mirror /\ [Next]_vars => Mirror'
    BY NextMirror
  <1> QED BY <1>1, <1>2, <1>3, Invariance, PTL DEF Spec, CopyKeepsHidden

-----------------------------------------------------------------------------
(* What KernelSU marks as its own mounts (SusMount).                         *)

Steps == {"idle", "search", "lookup", "test", "flag", "add", "unlock", "hook", "loopback"}
Reached == [mnt : AllMounts, inode : Inodes, steady : BOOLEAN]

\* The tables are well typed; a mount lies in one place, and while it does it has
\* a root.
SMTables ==
  /\ LH_SUS_MOUNT \in Seq(Requests) /\ flagged \subseteq Inodes
  /\ mounted \in [Paths -> Seq(AllMounts)] /\ root \in [AllMounts -> Inodes \cup {None}]
  /\ mnt_group_id \in [AllMounts -> {"none", "legit", "sus"}]
  /\ DOMAIN acked = Paths /\ recent \in [Paths -> BOOLEAN]
  /\ \A p, q \in Paths : \A i \in DOMAIN mounted[p], j \in DOMAIN mounted[q] :
       mounted[p][i] = mounted[q][j] => p = q /\ i = j
  /\ \A p \in Paths : \A i \in DOMAIN mounted[p] : root[mounted[p][i]] \in Inodes

\* What a command has in hand at its steps, ...
ToolTyped(t) ==
  /\ pc[t] \in {"idle", "search", "lookup", "test", "flag", "add", "unlock"}
  /\ IF pc[t] = "idle" THEN info[t] = None ELSE info[t] \in Requests
  /\ susfs_spin_lock = t => pc[t] \in {"lookup", "test", "flag", "unlock"}
  /\ pc[t] = "unlock" => susfs_spin_lock = t

\* ... and what a task that mounts has.
MounterTyped(t) ==
  /\ pc[t] \in {"idle", "hook", "flag", "loopback"}
  /\ info[t] \in [path : Paths, made : KsuMounts \cup {None}] \cup {None}
  /\ pc[t] \in {"hook", "flag"} => info[t] # None

TaskTyped(t) ==
  /\ IF t \in Tools THEN ToolTyped(t) ELSE MounterTyped(t)
  /\ pc[t] \in {"test", "flag", "loopback"} => reached[t] # None

SMTyped ==
  /\ SMTables
  /\ pc \in [KsuTasks -> Steps] /\ DOMAIN info = KsuTasks
  /\ reached \in [KsuTasks -> Reached \cup {None}]
  /\ susfs_spin_lock \in Tools \cup {NoHolder}
  /\ \A t \in KsuTasks : TaskTyped(t)

\* A command that is going to append an entry.
Adds(t, p) ==
  /\ pc[t] \in {"lookup", "test", "flag", "add"} /\ susfs_spin_lock # t
  /\ info[t].path = p

\* A command that has the lock, for an entry that it has found.
Holds(t, p) == susfs_spin_lock = t /\ info[t].path = p

\* The entry that a search finds has the device of the command that holds the lock
\* or, if none for the path does, of one that has returned 0.
FirstTells(p) ==
  /\ \A t \in Tools : Holds(t, p) =>
       \E i \in First(p) : LH_SUS_MOUNT[i].dev = info[t].dev
  /\ (\A t \in Tools : ~Holds(t, p)) =>
       \A i \in First(p) : LH_SUS_MOUNT[i].dev \in acked[p]
  /\ acked[p] # {} => First(p) # {}
  /\ recent[p] => \A t \in Tools : Adds(t, p) => First(p) = {}

SMEntries == \A p \in Paths : FirstTells(p)

\* The mount that a command has found not to be legit does not become one without
\* being seen to, ...
ToolGroups(t) == pc[t] = "flag" /\ reached[t].steady => ~IsLegit(reached[t].mnt)

\* ... and the one that a task has made does not while it is mounted.
MadeGroups(t) ==
  info[t] # None /\ info[t].made # None =>
    /\ ~IsLegit(info[t].made)
    /\ \E p \in Paths : \E i \in DOMAIN mounted[p] : mounted[p][i] = info[t].made

SMGroups == (\A t \in Tools : ToolGroups(t)) /\ (\A t \in Mounters : MadeGroups(t))

SMInv == SMTyped /\ SMEntries /\ SMGroups

LEMMA TypedTells == SMTyped => SMTypeOK
<1> SUFFICES ASSUME SMTyped PROVE SMTypeOK
  OBVIOUS
<1> USE DEF SMTyped, KsuTasks
<1>1. /\ LH_SUS_MOUNT \in Seq(Requests) /\ flagged \subseteq Inodes
      /\ mounted \in [Paths -> Seq(AllMounts)] /\ root \in [AllMounts -> Inodes \cup {None}]
      /\ mnt_group_id \in [AllMounts -> {"none", "legit", "sus"}]
      /\ susfs_spin_lock \in Tools \cup {NoHolder}
      /\ DOMAIN acked = Paths /\ recent \in [Paths -> BOOLEAN]
  BY DEF SMTables
<1>2. ASSUME NEW t \in Tools
      PROVE  /\ pc[t] \in {"idle", "search", "lookup", "test", "flag", "add", "unlock"}
             /\ IF pc[t] = "idle" THEN info[t] = None ELSE info[t] \in Requests
             /\ susfs_spin_lock = t => pc[t] \in {"lookup", "test", "flag", "unlock"}
  BY <1>2 DEF TaskTyped, ToolTyped
<1>3. ASSUME NEW t \in Mounters
      PROVE  /\ pc[t] \in {"idle", "hook", "flag", "loopback"}
             /\ info[t] \in [path : Paths, made : KsuMounts \cup {None}] \cup {None}
  BY <1>3, SusMountAssumption DEF TaskTyped, MounterTyped
<1>4. \A t \in KsuTasks : pc[t] \in {"test", "flag", "loopback"} => reached[t] # None
  BY DEF TaskTyped
<1>5. /\ pc \in [KsuTasks -> Steps] /\ reached \in [KsuTasks -> Reached \cup {None}]
  OBVIOUS
<1> QED BY <1>1, <1>2, <1>3, <1>4, <1>5 DEF SMTypeOK, Steps, Reached

-----------------------------------------------------------------------------
(* The types are kept.                                                       *)
(* A task that does nothing keeps what it has.                               *)
LEMMA TaskKeeps ==
  ASSUME NEW u \in KsuTasks, TaskTyped(u),
         pc'[u] = pc[u], info'[u] = info[u], reached'[u] = reached[u],
         susfs_spin_lock' = u <=> susfs_spin_lock = u
  PROVE  TaskTyped(u)'
  BY DEF TaskTyped, ToolTyped, MounterTyped

(* A task that returns has nothing in hand.                                  *)
LEMMA TaskReturns ==
  ASSUME NEW t \in KsuTasks, SMTyped, Return(t), susfs_spin_lock' # t
  PROVE  TaskTyped(t)'
<1>1. pc'[t] = "idle" /\ info'[t] = None /\ reached'[t] = None
  BY DEF SMTyped, Return, Goto
<1> QED BY <1>1 DEF TaskTyped, ToolTyped, MounterTyped

(* When one task takes a step, its own types are all there is to look at.    *)
LEMMA TasksStep ==
  ASSUME SMTyped, NEW t \in KsuTasks, NEW step \in Steps, Goto(t, step),
         \/ info' = info
         \/ \E x : info' = [info EXCEPT ![t] = x],
         \/ reached' = reached
         \/ \E x \in Reached \cup {None} : reached' = [reached EXCEPT ![t] = x],
         \/ susfs_spin_lock' = susfs_spin_lock
         \/ t \in Tools /\ susfs_spin_lock = NoHolder /\ susfs_spin_lock' = t
         \/ t \in Tools /\ susfs_spin_lock = t /\ susfs_spin_lock' = NoHolder,
         TaskTyped(t)', SMTables'
  PROVE  SMTyped'
<1> USE SusMountAssumption DEF SMTyped
<1>1. pc' \in [KsuTasks -> Steps] /\ DOMAIN info' = KsuTasks
  BY DEF Goto
<1>2. reached' \in [KsuTasks -> Reached \cup {None}]
  OBVIOUS
<1>3. susfs_spin_lock' \in Tools \cup {NoHolder}
  OBVIOUS
<1>4. ASSUME NEW u \in KsuTasks \ {t} PROVE TaskTyped(u)'
  <2>1. pc'[u] = pc[u] /\ info'[u] = info[u]
    BY DEF Goto
  <2>2. reached'[u] = reached[u]
    OBVIOUS
  <2>3. susfs_spin_lock' = u <=> susfs_spin_lock = u
    OBVIOUS
  <2> QED BY <2>1, <2>2, <2>3, TaskKeeps
<1> QED BY <1>1, <1>2, <1>3, <1>4

(* The mounts on a path.                                                     *)
LEMMA TopOf ==
  ASSUME SMTables, NEW p \in Paths, mounted[p] # <<>>
  PROVE  /\ Len(mounted[p]) \in DOMAIN mounted[p]
         /\ Last(mounted[p]) = mounted[p][Len(mounted[p])]
         /\ Last(mounted[p]) \in AllMounts
         /\ root[Last(mounted[p])] \in Inodes
<1>1. mounted[p] \in Seq(AllMounts)
  BY DEF SMTables
<1>2. Len(mounted[p]) \in Nat /\ DOMAIN mounted[p] = 1..Len(mounted[p]) /\ Len(mounted[p]) # 0
  BY <1>1, EmptySeq, LenProperties
<1>3. Len(mounted[p]) \in DOMAIN mounted[p] /\ mounted[p][Len(mounted[p])] \in AllMounts
  BY <1>1, <1>2
<1> QED BY <1>3 DEF Last, SMTables

(* A pathname leads to a mount, and to an inode.                             *)
LEMMA LeadsTyped ==
  ASSUME SMTables, NEW p \in Paths
  PROVE  Leads(p) \in Reached /\ Leads(p) # None
<1>1. Rootfs \in AllMounts /\ Dir[p] \in Inodes /\ None \notin Reached
  BY SusMountAssumption DEF AllMounts, LegitMounts, Reached
<1>2. CASE mounted[p] = <<>>
  <2>1. Leads(p) = [mnt |-> Rootfs, inode |-> Dir[p], steady |-> TRUE]
    BY <1>2 DEF Leads
  <2>2. Leads(p) \in Reached
    BY <1>1, <2>1 DEF Reached
  <2> QED BY <1>1, <2>2
<1>3. CASE mounted[p] # <<>>
  <2> DEFINE m == Last(mounted[p])
  <2>1. Leads(p) = [mnt |-> m, inode |-> root[m], steady |-> TRUE]
    BY <1>3 DEF Leads
  <2>2. m \in AllMounts /\ root[m] \in Inodes
    BY <1>3, TopOf
  <2> HIDE DEF m
  <2>3. Leads(p) \in Reached
    BY <2>1, <2>2 DEF Reached
  <2> QED BY <1>1, <2>3
<1> QED BY <1>2, <1>3

(* A sequence that gets another element at its end, or loses its last one.   *)
LEMMA AppendAt ==
  ASSUME NEW S, NEW s \in Seq(S), NEW x \in S, NEW i \in DOMAIN Append(s, x)
  PROVE  \/ i \in DOMAIN s /\ Append(s, x)[i] = s[i]
         \/ i = Len(s) + 1 /\ Append(s, x)[i] = x
<1>1. Append(s, x) \in Seq(S) /\ Len(Append(s, x)) = Len(s) + 1 /\ Len(s) \in Nat
  BY AppendProperties, LenProperties
<1>2. DOMAIN Append(s, x) = 1..(Len(s) + 1) /\ DOMAIN s = 1..Len(s)
  BY <1>1, LenProperties
<1>3. i \in 1..Len(s) \/ i = Len(s) + 1
  BY <1>1, <1>2
<1> QED BY <1>2, <1>3, AppendProperties

LEMMA UpTo ==
  ASSUME NEW n \in Nat
  PROVE  \A i : i \in 1..(n - 1) <=> i \in 1..n /\ i # n
  OBVIOUS

LEMMA FrontAt ==
  ASSUME NEW S, NEW s \in Seq(S), s # <<>>
  PROVE  /\ Front(s) \in Seq(S)
         /\ \A i \in DOMAIN Front(s) : i \in DOMAIN s /\ i # Len(s) /\ Front(s)[i] = s[i]
         /\ \A i \in DOMAIN s : i # Len(s) => i \in DOMAIN Front(s)
<1>1. Len(s) \in Nat /\ DOMAIN s = 1..Len(s) /\ Len(s) # 0
  BY EmptySeq, LenProperties
<1> DEFINE f == SubSeq(s, 1, Len(s) - 1)
<1>2. f \in Seq(S) /\ Len(f) = Len(s) - 1 /\ \A i \in 1..(Len(s) - 1) : f[i] = s[i]
  BY <1>1
<1>3. Front(s) = f
  BY DEF Front
<1> HIDE DEF f
<1>4. DOMAIN f = 1..(Len(s) - 1)
  BY <1>2, LenProperties
<1>5. \A i : i \in 1..(Len(s) - 1) <=> i \in 1..Len(s) /\ i # Len(s)
  BY <1>1, UpTo
<1> QED BY <1>1, <1>2, <1>3, <1>4, <1>5

(* The tables keep their types when only the history of the commands changes. *)
LEMMA TablesKeep ==
  ASSUME SMTables, UNCHANGED <<LH_SUS_MOUNT, table, flagged>>,
         DOMAIN acked' = Paths, recent' \in [Paths -> BOOLEAN]
  PROVE  SMTables'
  BY DEF SMTables, table

LEMMA TypedCall ==
  ASSUME SMTyped, NEW t \in Tools, NEW r \in Requests, Call(t, r)
  PROVE  SMTyped'
<1> USE DEF KsuTasks
<1>1. Goto(t, "search") /\ info' = [info EXCEPT ![t] = r] /\ t \in KsuTasks
  BY DEF Call
<1>2. UNCHANGED <<LH_SUS_MOUNT, table, flagged, acked, reached, susfs_spin_lock>>
  BY DEF Call
<1>3. recent' \in [Paths -> BOOLEAN]
  BY DEF Call, SMTyped, SMTables
<1>4. SMTables'
  BY <1>2, <1>3, TablesKeep DEF SMTyped, SMTables
<1>5. pc[t] = "idle" /\ pc'[t] = "search" /\ info'[t] = r
  BY <1>1 DEF Call, SMTyped, Goto
<1>6. TaskTyped(t)'
  BY <1>2, <1>5 DEF SMTyped, TaskTyped, ToolTyped
<1> QED BY <1>1, <1>2, <1>4, <1>6, TasksStep DEF Steps

(* memcpy replaces an entry by one with the same path.                       *)
LEMMA CopiedEntry ==
  ASSUME SMTyped, NEW t \in Tools, memcpy(t)
  PROVE  /\ info[t] \in Requests
         /\ \E i \in First(info[t].path) : LH_SUS_MOUNT' = [LH_SUS_MOUNT EXCEPT ![i] = info[t]]
  BY DEF memcpy, SMTyped, TaskTyped, ToolTyped, KsuTasks

LEMMA TypedMemcpy ==
  ASSUME SMTyped, NEW t \in Tools, memcpy(t)
  PROVE  SMTyped'
<1> USE DEF KsuTasks
<1>1. Goto(t, "lookup") /\ susfs_spin_lock = NoHolder /\ susfs_spin_lock' = t
  BY DEF memcpy
<1>2. UNCHANGED <<acked, recent, table, info, reached, flagged>>
  BY DEF memcpy
<1>3. PICK i \in First(info[t].path) : LH_SUS_MOUNT' = [LH_SUS_MOUNT EXCEPT ![i] = info[t]]
  BY CopiedEntry
<1>4. LH_SUS_MOUNT' \in Seq(Requests)
  <2>1. i \in DOMAIN LH_SUS_MOUNT /\ LH_SUS_MOUNT \in Seq(Requests) /\ info[t] \in Requests
    BY CopiedEntry DEF First, EntriesOf, SMTyped, SMTables
  <2> QED BY <1>3, <2>1, ExceptSeq
<1>5. SMTables'
  BY <1>2, <1>4 DEF SMTyped, SMTables, table
<1>6. pc'[t] = "lookup" /\ info'[t] = info[t] /\ info[t] \in Requests
  BY <1>1, <1>2, CopiedEntry DEF SMTyped, Goto
<1>7. TaskTyped(t)'
  BY <1>1, <1>6 DEF TaskTyped, ToolTyped
<1> QED BY <1>1, <1>2, <1>5, <1>7, TasksStep DEF Steps

LEMMA TypedNotFound ==
  ASSUME SMTyped, NEW t \in Tools, not_found(t)
  PROVE  SMTyped'
<1> USE DEF KsuTasks
<1>1. UNCHANGED <<LH_SUS_MOUNT, table, flagged, acked, recent, susfs_spin_lock>>
  BY DEF not_found, registry
<1>2. SMTables'
  BY <1>1, TablesKeep DEF SMTyped, SMTables
<1>3. pc[t] = "search" /\ susfs_spin_lock # t /\ info[t] \in Requests
  BY DEF not_found, SMTyped, TaskTyped, ToolTyped
<1>4. CASE Goto(t, "lookup") /\ UNCHANGED <<info, reached>>
  <2>1. pc'[t] = "lookup" /\ info'[t] = info[t]
    BY <1>4 DEF SMTyped, Goto
  <2>2. TaskTyped(t)'
    BY <1>1, <1>3, <2>1 DEF TaskTyped, ToolTyped
  <2> QED BY <1>1, <1>2, <1>4, <2>2, TasksStep DEF Steps
<1>5. CASE Return(t)
  <2>1. TaskTyped(t)'
    BY <1>1, <1>3, <1>5, TaskReturns
  <2> QED BY <1>1, <1>2, <1>5, <2>1, TasksStep DEF Steps, Return
<1> QED BY <1>4, <1>5 DEF not_found

LEMMA TypedKernPath ==
  ASSUME SMTyped, NEW t \in Tools, kern_path(t)
  PROVE  SMTyped'
<1> USE DEF KsuTasks
<1>1. UNCHANGED <<LH_SUS_MOUNT, table, flagged, acked, recent, susfs_spin_lock, info>>
  BY DEF kern_path, registry
<1>2. SMTables'
  BY <1>1, TablesKeep DEF SMTyped, SMTables
<1>3. pc[t] = "lookup" /\ info[t] \in Requests /\ info[t].path \in Paths
  BY SusMountAssumption DEF kern_path, SMTyped, TaskTyped, ToolTyped
<1>4. CASE reached' = [reached EXCEPT ![t] = Leads(info[t].path)] /\ Goto(t, "test")
  <2>1. Leads(info[t].path) \in Reached /\ Leads(info[t].path) # None
    BY <1>3, LeadsTyped DEF SMTyped
  <2>2. pc'[t] = "test" /\ info'[t] = info[t] /\ reached'[t] # None
    BY <1>1, <1>4, <2>1 DEF SMTyped, Goto
  <2>3. TaskTyped(t)'
    BY <1>1, <1>3, <2>2 DEF TaskTyped, ToolTyped
  <2> QED BY <1>1, <1>2, <1>4, <2>1, <2>3, TasksStep DEF Steps
<1>5. CASE Goto(t, Updated(t)) /\ UNCHANGED reached
  <2>1. pc'[t] = Updated(t) /\ info'[t] = info[t]
    BY <1>1, <1>5 DEF SMTyped, Goto
  <2>2. TaskTyped(t)' /\ Updated(t) \in Steps
    BY <1>1, <1>3, <2>1 DEF TaskTyped, ToolTyped, Updated, Steps
  <2> QED BY <1>1, <1>2, <1>5, <2>2, TasksStep
<1> QED BY <1>4, <1>5 DEF kern_path

LEMMA TypedTest ==
  ASSUME SMTyped, NEW t \in Tools, test(t)
  PROVE  SMTyped'
<1> USE DEF KsuTasks
<1> DEFINE step == IF IsLegit(reached[t].mnt) THEN Updated(t) ELSE "flag"
<1>1. UNCHANGED <<LH_SUS_MOUNT, table, flagged, acked, recent, susfs_spin_lock, info, reached>>
  BY DEF test, registry
<1>2. SMTables'
  BY <1>1, TablesKeep DEF SMTyped, SMTables
<1>3. pc[t] = "test" /\ info[t] \in Requests /\ reached[t] # None
  BY DEF test, SMTyped, TaskTyped, ToolTyped
<1>4. Goto(t, step)
  BY DEF test
<1>5. step \in {"flag", Updated(t)}
  OBVIOUS
<1> HIDE DEF step
<1>6. pc'[t] = step /\ info'[t] = info[t] /\ reached'[t] = reached[t]
  BY <1>1, <1>4 DEF SMTyped, Goto
<1>7. TaskTyped(t)' /\ step \in Steps
  BY <1>1, <1>3, <1>5, <1>6 DEF TaskTyped, ToolTyped, Updated, Steps
<1> QED BY <1>1, <1>2, <1>4, <1>7, TasksStep

LEMMA TypedSetFlag ==
  ASSUME SMTyped, NEW t \in KsuTasks, set_flag(t)
  PROVE  SMTyped'
<1>1. UNCHANGED <<LH_SUS_MOUNT, table, acked, recent, susfs_spin_lock>> /\ pc[t] = "flag"
  BY DEF set_flag, registry
<1>2. reached[t].inode \in Inodes
  BY <1>1 DEF SMTyped, TaskTyped, Reached
<1>3. flagged' \subseteq Inodes
  BY <1>2 DEF set_flag, SMTyped, SMTables
<1>4. SMTables'
  BY <1>1, <1>3 DEF SMTyped, SMTables, table
<1>5. CASE t \in Tools
  <2>1. Goto(t, Updated(t)) /\ UNCHANGED <<info, reached>>
    BY <1>5 DEF set_flag
  <2>2. info[t] \in Requests
    BY <1>1, <1>5 DEF SMTyped, TaskTyped, ToolTyped
  <2>3. pc'[t] = Updated(t) /\ info'[t] = info[t]
    BY <2>1 DEF SMTyped, Goto
  <2>4. TaskTyped(t)' /\ Updated(t) \in Steps
    BY <1>1, <1>5, <2>2, <2>3 DEF TaskTyped, ToolTyped, Updated, Steps
  <2> QED BY <1>1, <1>4, <2>1, <2>4, TasksStep
<1>6. CASE t \notin Tools
  <2>1. Return(t)
    BY <1>6 DEF set_flag
  <2>2. susfs_spin_lock # t
    BY <1>6, SusMountAssumption DEF SMTyped
  <2>3. TaskTyped(t)'
    BY <1>1, <2>1, <2>2, TaskReturns
  <2> QED BY <1>1, <1>4, <2>1, <2>3, TasksStep DEF Steps, Return
<1> QED BY <1>5, <1>6

LEMMA AckedTyped ==
  ASSUME SMTables, NEW t, Acked(t)
  PROVE  DOMAIN acked' = Paths /\ recent' \in [Paths -> BOOLEAN]
  BY DEF SMTables, Acked

LEMMA TypedAddTail ==
  ASSUME SMTyped, NEW t \in Tools, list_add_tail(t)
  PROVE  SMTyped'
<1> USE DEF KsuTasks
<1>1. Return(t) /\ UNCHANGED <<table, susfs_spin_lock, flagged>>
  BY DEF list_add_tail
<1>2. pc[t] = "add" /\ info[t] \in Requests /\ susfs_spin_lock # t
  BY DEF list_add_tail, SMTyped, TaskTyped, ToolTyped
<1>3. LH_SUS_MOUNT' \in Seq(Requests)
  BY <1>2, AppendProperties DEF list_add_tail, SMTyped, SMTables
<1>4. DOMAIN acked' = Paths /\ recent' \in [Paths -> BOOLEAN]
  BY AckedTyped DEF list_add_tail, SMTyped
<1>5. SMTables'
  BY <1>1, <1>3, <1>4 DEF SMTyped, SMTables, table
<1>6. TaskTyped(t)'
  BY <1>1, <1>2, TaskReturns
<1> QED BY <1>1, <1>5, <1>6, TasksStep DEF Steps, Return

LEMMA TypedUnlock ==
  ASSUME SMTyped, NEW t \in Tools, spin_unlock(t)
  PROVE  SMTyped'
<1> USE DEF KsuTasks
<1>1. Return(t) /\ UNCHANGED <<LH_SUS_MOUNT, table, flagged>> /\ susfs_spin_lock' = NoHolder
  BY DEF spin_unlock
<1>2. susfs_spin_lock = t /\ NoHolder # t
  BY SusMountAssumption DEF spin_unlock, SMTyped, TaskTyped, ToolTyped
<1>3. DOMAIN acked' = Paths /\ recent' \in [Paths -> BOOLEAN]
  BY AckedTyped DEF spin_unlock, SMTyped
<1>4. SMTables'
  BY <1>1, <1>3, TablesKeep DEF SMTyped
<1>5. TaskTyped(t)'
  BY <1>1, <1>2, TaskReturns
<1> QED BY <1>1, <1>2, <1>4, <1>5, TasksStep DEF Steps, Return

(* A mount that is found unused gets a place, and there a root.              *)
LEMMA TablesGain ==
  ASSUME SMTables, NEW p \in Paths, NEW m \in Unused, NEW i \in Inodes,
         NEW g \in {"none", "legit", "sus"},
         mounted' = [mounted EXCEPT ![p] = Append(@, m)],
         root' = [root EXCEPT ![m] = i],
         mnt_group_id' = [mnt_group_id EXCEPT ![m] = g],
         UNCHANGED registry, flagged' \subseteq Inodes
  PROVE  SMTables'
<1> USE DEF SMTables
<1>1. m \in AllMounts /\ \A q \in Paths : \A j \in DOMAIN mounted[q] : mounted[q][j] # m
  BY DEF Unused, AllMounts, ToSet
<1>2. \A q \in Paths \ {p} : mounted'[q] = mounted[q]
  OBVIOUS
<1>3. mounted'[p] = Append(mounted[p], m) /\ mounted[p] \in Seq(AllMounts)
  OBVIOUS
<1>4. mounted'[p] \in Seq(AllMounts)
  BY <1>1, <1>3, AppendProperties
<1>5. mounted' \in [Paths -> Seq(AllMounts)]
  BY <1>4
<1>6. root' \in [AllMounts -> Inodes \cup {None}] /\ root'[m] = i
  BY <1>1
<1>7. mnt_group_id' \in [AllMounts -> {"none", "legit", "sus"}]
  OBVIOUS
<1>8. ASSUME NEW q \in Paths, NEW j \in DOMAIN mounted'[q]
      PROVE  \/ j \in DOMAIN mounted[q] /\ mounted'[q][j] = mounted[q][j] /\ mounted[q][j] # m
             \/ q = p /\ j = Len(mounted[p]) + 1 /\ mounted'[q][j] = m
  BY <1>1, <1>2, <1>3, AppendAt
<1>9. ASSUME NEW q \in Paths, NEW r \in Paths,
             NEW j \in DOMAIN mounted'[q], NEW k \in DOMAIN mounted'[r],
             mounted'[q][j] = mounted'[r][k]
      PROVE  q = r /\ j = k
  BY <1>8, <1>9
<1>10. ASSUME NEW q \in Paths, NEW j \in DOMAIN mounted'[q]
       PROVE  root'[mounted'[q][j]] \in Inodes
  <2>1. CASE mounted'[q][j] = m
    BY <1>6, <2>1
  <2>2. CASE mounted'[q][j] # m
    <3>1. j \in DOMAIN mounted[q] /\ mounted'[q][j] = mounted[q][j]
      BY <1>8, <2>2
    <3> QED BY <2>2, <3>1
  <2> QED BY <2>1, <2>2
<1> QED BY <1>5, <1>6, <1>7, <1>9, <1>10 DEF registry

(* The top mount of a path goes away, or to another path.                    *)
LEMMA PlacesFront ==
  ASSUME SMTables, NEW p \in Paths, mounted[p] # <<>>
  PROVE  /\ Front(mounted[p]) \in Seq(AllMounts)
         /\ \A j \in DOMAIN Front(mounted[p]) :
              /\ j \in DOMAIN mounted[p] /\ Front(mounted[p])[j] = mounted[p][j]
              /\ mounted[p][j] # Last(mounted[p])
         /\ \A q \in Paths \ {p} : \A j \in DOMAIN mounted[q] : mounted[q][j] # Last(mounted[p])
<1>1. mounted[p] \in Seq(AllMounts)
  BY DEF SMTables
<1>2. /\ Len(mounted[p]) \in DOMAIN mounted[p]
      /\ Last(mounted[p]) = mounted[p][Len(mounted[p])]
  BY TopOf
<1>3. \A q \in Paths : \A j \in DOMAIN mounted[q] :
        mounted[q][j] = Last(mounted[p]) => q = p /\ j = Len(mounted[p])
  BY <1>2 DEF SMTables
<1>4. /\ Front(mounted[p]) \in Seq(AllMounts)
      /\ \A j \in DOMAIN Front(mounted[p]) :
           j \in DOMAIN mounted[p] /\ j # Len(mounted[p]) /\ Front(mounted[p])[j] = mounted[p][j]
  BY <1>1, FrontAt
<1> QED BY <1>3, <1>4

LEMMA MounterIs ==
  ASSUME NEW t \in Mounters
  PROVE  t \in KsuTasks /\ t \notin Tools
  BY SusMountAssumption DEF KsuTasks

LEMMA TypedNewMount ==
  ASSUME SMTyped, NEW t \in Mounters, NEW p \in Paths, do_new_mount(t, p)
  PROVE  SMTyped'
<1>1. PICK m \in Unused, i \in Inodes :
        /\ mounted' = [mounted EXCEPT ![p] = Append(@, m)]
        /\ root' = [root EXCEPT ![m] = i]
        /\ mnt_group_id' =
             [mnt_group_id EXCEPT ![m] = IF mnt_group_id[Leads(p).mnt] = "none" THEN "none" ELSE "sus"]
        /\ info' = [info EXCEPT ![t] = [path |-> p, made |-> m]]
  BY DEF do_new_mount
<1>2. /\ Goto(t, "hook") /\ pc[t] = "idle" /\ t \in KsuTasks
      /\ UNCHANGED <<registry, reached, susfs_spin_lock, flagged>>
  BY MounterIs DEF do_new_mount
<1>3. \E g \in {"none", "legit", "sus"} : mnt_group_id' = [mnt_group_id EXCEPT ![m] = g]
  BY <1>1
<1>4. SMTables'
  <2>1. flagged' \subseteq Inodes /\ SMTables
    BY <1>2 DEF SMTyped, SMTables
  <2>2. UNCHANGED registry
    BY <1>2
  <2> QED BY <1>1, <1>3, <2>1, <2>2, TablesGain
<1>5. info'[t] = [path |-> p, made |-> m] /\ pc'[t] = "hook"
  BY <1>1, <1>2 DEF SMTyped, Goto
<1>6. info'[t] \in [path : Paths, made : KsuMounts \cup {None}]
  BY <1>5 DEF Unused
<1>7. info'[t] # None
  BY <1>6, SusMountAssumption
<1>8. TaskTyped(t)'
  BY <1>5, <1>6, <1>7, MounterIs DEF TaskTyped, MounterTyped
<1>9. reached' = reached /\ susfs_spin_lock' = susfs_spin_lock
  BY <1>2
<1>10. \E x : info' = [info EXCEPT ![t] = x]
  BY <1>1
<1> QED BY <1>2, <1>4, <1>8, <1>9, <1>10, TasksStep DEF Steps

LEMMA TypedMoveMount ==
  ASSUME SMTyped, NEW t \in Mounters, NEW p \in Paths, NEW q \in Paths, do_move_mount(t, p, q)
  PROVE  SMTyped'
<1>1. /\ mounted' = [mounted EXCEPT ![p] = Front(@), ![q] = Append(@, Last(mounted[p]))]
      /\ p # q /\ mounted[p] # <<>>
      /\ Goto(t, "hook") /\ pc[t] = "idle" /\ t \in KsuTasks
      /\ info' = [info EXCEPT ![t] = [path |-> q, made |-> None]]
      /\ UNCHANGED <<registry, reached, root, mnt_group_id, susfs_spin_lock, flagged>>
  BY MounterIs DEF do_move_mount
<1>2. SMTables'
  <2> USE DEF SMTyped
  <2> DEFINE m == Last(mounted[p])
  <2>t. mounted \in [Paths -> Seq(AllMounts)]
    BY DEF SMTables
  <2>1. /\ mounted'[p] = Front(mounted[p]) /\ mounted'[q] = Append(mounted[q], m)
        /\ \A r \in Paths \ {p, q} : mounted'[r] = mounted[r]
        /\ DOMAIN mounted' = Paths
    BY <1>1, <2>t
  <2>2. m \in AllMounts /\ root[m] \in Inodes
    BY <1>1, TopOf
  <2>3. /\ Front(mounted[p]) \in Seq(AllMounts)
        /\ \A j \in DOMAIN Front(mounted[p]) :
             /\ j \in DOMAIN mounted[p] /\ Front(mounted[p])[j] = mounted[p][j]
             /\ mounted[p][j] # m
        /\ \A r \in Paths \ {p} : \A j \in DOMAIN mounted[r] : mounted[r][j] # m
    BY <1>1, PlacesFront
  <2>4. mounted[q] \in Seq(AllMounts)
    BY <2>t
  <2> HIDE DEF m
  <2>5. ASSUME NEW r \in Paths, NEW j \in DOMAIN mounted'[r]
        PROVE  \/ j \in DOMAIN mounted[r] /\ mounted'[r][j] = mounted[r][j] /\ mounted[r][j] # m
               \/ r = q /\ j = Len(mounted[q]) + 1 /\ mounted'[r][j] = m
    <3>1. CASE r = p
      BY <3>1, <2>1, <2>3
    <3>2. CASE r = q
      BY <1>1, <3>2, <2>1, <2>2, <2>3, <2>4, AppendAt
    <3>3. CASE r \notin {p, q}
      BY <3>3, <2>1, <2>3
    <3> QED BY <3>1, <3>2, <3>3
  <2>6. mounted' \in [Paths -> Seq(AllMounts)]
    <3>1. Append(mounted[q], m) \in Seq(AllMounts)
      BY <2>2, <2>4, AppendProperties
    <3>2. \A r \in Paths : mounted'[r] \in Seq(AllMounts)
      BY <2>1, <2>3, <2>t, <3>1
    <3>3. mounted' = [r \in Paths |-> mounted'[r]]
      BY <1>1, <2>t
    <3> QED BY <3>2, <3>3
  <2>7. ASSUME NEW r \in Paths, NEW s \in Paths,
               NEW j \in DOMAIN mounted'[r], NEW k \in DOMAIN mounted'[s],
               mounted'[r][j] = mounted'[s][k]
        PROVE  r = s /\ j = k
    <3>1. \A v, w \in Paths : \A x \in DOMAIN mounted[v], y \in DOMAIN mounted[w] :
            mounted[v][x] = mounted[w][y] => v = w /\ x = y
      BY DEF SMTables
    <3>2. CASE mounted'[r][j] = m
      <4>1. r = q /\ j = Len(mounted[q]) + 1
        BY <2>5, <3>2
      <4>2. s = q /\ k = Len(mounted[q]) + 1
        BY <2>5, <2>7, <3>2
      <4> QED BY <4>1, <4>2
    <3>3. CASE mounted'[r][j] # m
      <4>1. j \in DOMAIN mounted[r] /\ mounted'[r][j] = mounted[r][j]
        BY <2>5, <3>3
      <4>2. k \in DOMAIN mounted[s] /\ mounted'[s][k] = mounted[s][k]
        BY <2>5, <2>7, <3>3
      <4>3. mounted[r][j] = mounted[s][k]
        BY <2>7, <4>1, <4>2
      <4> QED BY <3>1, <4>1, <4>2, <4>3
    <3> QED BY <3>2, <3>3
  <2>8. ASSUME NEW r \in Paths, NEW j \in DOMAIN mounted'[r]
        PROVE  root'[mounted'[r][j]] \in Inodes
    <3>1. root' = root
      BY <1>1
    <3>2. \A s \in Paths : \A k \in DOMAIN mounted[s] : root[mounted[s][k]] \in Inodes
      BY DEF SMTables
    <3> QED BY <2>2, <2>5, <3>1, <3>2
  <2>9. UNCHANGED <<LH_SUS_MOUNT, acked, recent, root, mnt_group_id, flagged>>
    BY <1>1 DEF registry
  <2> QED BY <2>6, <2>7, <2>8, <2>9 DEF SMTables
<1>3. info'[t] = [path |-> q, made |-> None] /\ pc'[t] = "hook"
  BY <1>1 DEF SMTyped, Goto
<1>4. info'[t] \in [path : Paths, made : KsuMounts \cup {None}]
  BY <1>3
<1>5. info'[t] # None
  BY <1>4, SusMountAssumption
<1>6. TaskTyped(t)'
  BY <1>3, <1>4, <1>5, MounterIs DEF TaskTyped, MounterTyped
<1>7. reached' = reached /\ susfs_spin_lock' = susfs_spin_lock
  BY <1>1
<1>8. \E x : info' = [info EXCEPT ![t] = x]
  BY <1>1
<1> QED BY <1>1, <1>2, <1>6, <1>7, <1>8, TasksStep DEF Steps

LEMMA MounterFree ==
  ASSUME SMTyped, NEW t \in Mounters
  PROVE  susfs_spin_lock # t
  BY SusMountAssumption, MounterIs DEF SMTyped

LEMMA TypedDefaultMount ==
  ASSUME SMTyped, NEW t \in Mounters, susfs_auto_add_sus_ksu_default_mount(t)
  PROVE  SMTyped'
<1>1. /\ UNCHANGED <<LH_SUS_MOUNT, acked, recent, table, susfs_spin_lock, flagged>>
      /\ pc[t] = "hook" /\ t \in KsuTasks
  BY MounterIs DEF susfs_auto_add_sus_ksu_default_mount, registry
<1>2. SMTables'
  BY <1>1, TablesKeep DEF SMTyped, SMTables
<1>3. info[t] \in [path : Paths, made : KsuMounts \cup {None}] /\ info[t] # None
  BY <1>1, MounterIs DEF SMTyped, TaskTyped, MounterTyped
<1>4. CASE reached' = [reached EXCEPT ![t] = Leads(info[t].path)] /\ Goto(t, "flag") /\ UNCHANGED info
  <2>1. Leads(info[t].path) \in Reached /\ Leads(info[t].path) # None
    BY <1>3, LeadsTyped DEF SMTyped
  <2>2. pc'[t] = "flag" /\ info'[t] = info[t] /\ reached'[t] # None
    BY <1>1, <1>4, <2>1 DEF SMTyped, Goto
  <2>3. TaskTyped(t)'
    BY <1>3, <2>2, MounterIs DEF TaskTyped, MounterTyped
  <2> QED BY <1>1, <1>2, <1>4, <2>1, <2>3, TasksStep DEF Steps
<1>5. CASE Return(t)
  <2>1. TaskTyped(t)'
    BY <1>1, <1>5, TaskReturns, MounterFree
  <2> QED BY <1>1, <1>2, <1>5, <2>1, TasksStep DEF Steps, Return
<1> QED BY <1>4, <1>5 DEF susfs_auto_add_sus_ksu_default_mount

LEMMA TypedLookup ==
  ASSUME SMTyped, NEW t \in Mounters, NEW p \in Paths, do_loopback_lookup(t, p)
  PROVE  SMTyped'
<1>1. /\ UNCHANGED <<LH_SUS_MOUNT, acked, recent, table, info, susfs_spin_lock, flagged>>
      /\ pc[t] = "idle" /\ t \in KsuTasks /\ Goto(t, "loopback")
      /\ reached' = [reached EXCEPT ![t] = Leads(p)]
  BY MounterIs DEF do_loopback_lookup, registry
<1>2. SMTables'
  BY <1>1, TablesKeep DEF SMTyped, SMTables
<1>3. Leads(p) \in Reached /\ Leads(p) # None
  BY LeadsTyped DEF SMTyped
<1>4. pc'[t] = "loopback" /\ info'[t] = info[t] /\ reached'[t] # None
  BY <1>1, <1>3 DEF SMTyped, Goto
<1>5. TaskTyped(t) /\ TaskTyped(t)'
  BY <1>1, <1>4, MounterIs DEF SMTyped, TaskTyped, MounterTyped
<1> QED BY <1>1, <1>2, <1>3, <1>5, TasksStep DEF Steps

LEMMA TypedBindMount ==
  ASSUME SMTyped, NEW t \in Mounters, susfs_auto_add_sus_bind_mount(t)
  PROVE  SMTyped'
<1>1. /\ UNCHANGED <<registry, susfs_spin_lock>> /\ Return(t)
      /\ pc[t] = "loopback" /\ t \in KsuTasks
  BY MounterIs DEF susfs_auto_add_sus_bind_mount
<1>2. reached[t].inode \in Inodes /\ reached[t].mnt \in AllMounts
  BY <1>1 DEF SMTyped, TaskTyped, Reached
<1>3. flagged' \subseteq Inodes
  BY <1>2 DEF susfs_auto_add_sus_bind_mount, SMTyped, SMTables
<1>4. SMTables'
  <2>1. ASSUME NEW m \in Unused, NEW q \in Paths,
               mounted' = [mounted EXCEPT ![q] = Append(@, m)],
               root' = [root EXCEPT ![m] = reached[t].inode],
               mnt_group_id' = [mnt_group_id EXCEPT ![m] = mnt_group_id[reached[t].mnt]]
        PROVE  SMTables'
    <3>1. mnt_group_id[reached[t].mnt] \in {"none", "legit", "sus"} /\ UNCHANGED registry
      BY <1>1, <1>2 DEF SMTyped, SMTables
    <3> QED BY <1>2, <1>3, <2>1, <3>1, TablesGain DEF SMTyped
  <2>2. ASSUME UNCHANGED table
        PROVE  SMTables'
    BY <1>1, <1>3, <2>2 DEF SMTyped, SMTables, table, registry
  <2> QED BY <2>1, <2>2 DEF susfs_auto_add_sus_bind_mount
<1>5. TaskTyped(t)'
  BY <1>1, TaskReturns, MounterFree
<1> QED BY <1>1, <1>4, <1>5, TasksStep DEF Steps, Return

(* What a task has led to keeps its mount and its inode.                     *)
LEMMA UnsteadyAt ==
  ASSUME SMTyped, NEW m, Unsteady(m)
  PROVE  /\ reached' \in [KsuTasks -> Reached \cup {None}]
         /\ \A t \in KsuTasks : /\ reached[t] # None <=> reached'[t] # None
                                /\ reached'[t].mnt = reached[t].mnt \/ reached[t] = None
                                /\ reached[t] # None /\ reached'[t].steady =>
                                     reached[t].steady /\ reached[t].mnt # m
<1> USE DEF SMTyped
<1>1. \A t \in KsuTasks :
        reached'[t] = IF reached[t] # None /\ reached[t].mnt = m
                      THEN [reached[t] EXCEPT !.steady = FALSE] ELSE reached[t]
  BY DEF Unsteady
<1>2. None \notin Reached
  BY SusMountAssumption DEF Reached
<1>3. \A x \in Reached : /\ [x EXCEPT !.steady = FALSE] \in Reached
                         /\ [x EXCEPT !.steady = FALSE].mnt = x.mnt
                         /\ [x EXCEPT !.steady = FALSE].steady = FALSE
  BY DEF Reached
<1>4. ASSUME NEW t \in KsuTasks
      PROVE  /\ reached'[t] \in Reached \cup {None}
             /\ reached[t] # None <=> reached'[t] # None
             /\ reached'[t].mnt = reached[t].mnt \/ reached[t] = None
             /\ reached[t] # None /\ reached'[t].steady =>
                  reached[t].steady /\ reached[t].mnt # m
  <2>1. reached[t] \in Reached \cup {None}
    OBVIOUS
  <2>2. CASE reached[t] # None /\ reached[t].mnt = m
    <3>1. reached[t] \in Reached /\ reached'[t] = [reached[t] EXCEPT !.steady = FALSE]
      BY <1>1, <2>1, <2>2
    <3>2. /\ reached'[t] \in Reached /\ reached'[t].mnt = reached[t].mnt
          /\ reached'[t].steady = FALSE
      BY <1>3, <3>1
    <3> QED BY <1>2, <2>2, <3>2
  <2>3. CASE ~(reached[t] # None /\ reached[t].mnt = m)
    <3>1. reached'[t] = reached[t]
      BY <1>1, <2>3
    <3> QED BY <2>1, <2>3, <3>1
  <2> QED BY <2>2, <2>3
<1>5. reached' = [t \in KsuTasks |-> reached'[t]]
  BY DEF Unsteady
<1>6. \A t \in KsuTasks : reached'[t] \in Reached \cup {None}
  BY <1>4
<1>7. reached' \in [KsuTasks -> Reached \cup {None}]
  BY <1>5, <1>6
<1> QED BY <1>4, <1>7

LEMMA TypedChangeType ==
  ASSUME SMTyped, NEW m \in AllMounts, do_change_type(m)
  PROVE  SMTyped'
<1>1. /\ Unsteady(m)
      /\ UNCHANGED <<registry, mounted, root, pc, info, susfs_spin_lock, flagged>>
  BY DEF do_change_type
<1>2. mnt_group_id' \in [AllMounts -> {"none", "legit", "sus"}]
  <2>1. \E g \in {"none", "legit", "sus"} : mnt_group_id' = [mnt_group_id EXCEPT ![m] = g]
    BY DEF do_change_type
  <2> QED BY <2>1 DEF SMTyped, SMTables
<1>3. SMTables'
  BY <1>1, <1>2 DEF SMTyped, SMTables, registry
<1>4. /\ reached' \in [KsuTasks -> Reached \cup {None}]
      /\ \A t \in KsuTasks : reached[t] # None <=> reached'[t] # None
  BY <1>1, UnsteadyAt
<1>5. ASSUME NEW t \in KsuTasks PROVE TaskTyped(t)'
  <2>1. pc'[t] = pc[t] /\ info'[t] = info[t] /\ susfs_spin_lock' = susfs_spin_lock
    BY <1>1
  <2>2. TaskTyped(t)
    BY DEF SMTyped
  <2> QED BY <1>4, <2>1, <2>2 DEF TaskTyped, ToolTyped, MounterTyped
<1> QED BY <1>1, <1>3, <1>4, <1>5 DEF SMTyped

(* A task forgets that it has made the mount that is unmounted.              *)
LEMMA UnmadeAt ==
  ASSUME SMTyped, NEW m \in AllMounts, Unmade(m)
  PROVE  /\ DOMAIN info' = KsuTasks
         /\ \A t \in Tools : info'[t] = info[t]
         /\ \A t \in Mounters :
              /\ info'[t] \in [path : Paths, made : KsuMounts \cup {None}] \cup {None}
              /\ info[t] # None <=> info'[t] # None
              /\ info'[t] # None /\ info'[t].made # None =>
                   info'[t].made = info[t].made /\ info[t].made # m
<1> DEFINE Made == [path : Paths, made : KsuMounts \cup {None}]
<1>1. DOMAIN info' = KsuTasks /\ \A t \in Tools : info'[t] = info[t]
  BY SusMountAssumption DEF Unmade, KsuTasks
<1>2. None \notin Made /\ m # None
  BY SusMountAssumption
<1>3. ASSUME NEW t \in Mounters PROVE info[t] \in Made \cup {None}
  BY MounterIs DEF SMTyped, TaskTyped, MounterTyped
<1>4. ASSUME NEW t \in Mounters
      PROVE  info'[t] = IF info[t] # None /\ info[t].made = m
                        THEN [info[t] EXCEPT !.made = None] ELSE info[t]
  BY MounterIs DEF Unmade
<1>5. \A x \in Made : [x EXCEPT !.made = None] \in Made /\ [x EXCEPT !.made = None].made = None
  OBVIOUS
<1> HIDE DEF Made
<1>6. ASSUME NEW t \in Mounters
      PROVE  /\ info'[t] \in Made \cup {None}
             /\ info[t] # None <=> info'[t] # None
             /\ info'[t] # None /\ info'[t].made # None =>
                  info'[t].made = info[t].made /\ info[t].made # m
  <2>1. CASE info[t] # None /\ info[t].made = m
    <3>1. info[t] \in Made /\ info'[t] = [info[t] EXCEPT !.made = None]
      BY <1>3, <1>4, <2>1
    <3>2. info'[t] \in Made /\ info'[t].made = None
      BY <1>5, <3>1
    <3> QED BY <1>2, <2>1, <3>2
  <2>2. CASE ~(info[t] # None /\ info[t].made = m)
    <3>1. info'[t] = info[t]
      BY <1>4, <2>2
    <3> QED BY <1>3, <2>2, <3>1
  <2> QED BY <2>1, <2>2
<1> QED BY <1>1, <1>6 DEF Made

LEMMA TypedUmount ==
  ASSUME SMTyped, NEW p \in Paths, do_umount(p)
  PROVE  SMTyped'
<1> DEFINE m == Last(mounted[p])
<1>1. /\ mounted[p] # <<>>
      /\ mounted' = [mounted EXCEPT ![p] = Front(@)]
      /\ mnt_group_id' = [mnt_group_id EXCEPT ![m] = "none"]
      /\ root' = [root EXCEPT ![m] = None]
      /\ Unsteady(m) /\ Unmade(m)
      /\ UNCHANGED <<registry, pc, susfs_spin_lock, flagged>>
  BY DEF do_umount
<1>2. /\ m \in AllMounts
      /\ Front(mounted[p]) \in Seq(AllMounts)
      /\ \A j \in DOMAIN Front(mounted[p]) :
           /\ j \in DOMAIN mounted[p] /\ Front(mounted[p])[j] = mounted[p][j]
           /\ mounted[p][j] # m
      /\ \A r \in Paths \ {p} : \A j \in DOMAIN mounted[r] : mounted[r][j] # m
  BY <1>1, TopOf, PlacesFront DEF SMTyped
<1> HIDE DEF m
<1>3. SMTables'
  <2> USE DEF SMTyped
  <2>t. mounted \in [Paths -> Seq(AllMounts)]
    BY DEF SMTables
  <2>1. /\ mounted'[p] = Front(mounted[p])
        /\ \A r \in Paths \ {p} : mounted'[r] = mounted[r]
    BY <1>1, <2>t
  <2>2. ASSUME NEW r \in Paths, NEW j \in DOMAIN mounted'[r]
        PROVE  j \in DOMAIN mounted[r] /\ mounted'[r][j] = mounted[r][j] /\ mounted[r][j] # m
    BY <1>2, <2>1
  <2>3. mounted' \in [Paths -> Seq(AllMounts)]
    BY <1>1, <1>2, <2>t
  <2>4. /\ root' \in [AllMounts -> Inodes \cup {None}]
        /\ \A x \in AllMounts : x # m => root'[x] = root[x]
    BY <1>1 DEF SMTables
  <2>5. mnt_group_id' \in [AllMounts -> {"none", "legit", "sus"}]
    BY <1>1 DEF SMTables
  <2>6. ASSUME NEW r \in Paths, NEW s \in Paths,
               NEW j \in DOMAIN mounted'[r], NEW k \in DOMAIN mounted'[s],
               mounted'[r][j] = mounted'[s][k]
        PROVE  r = s /\ j = k
    <3>1. \A v, w \in Paths : \A x \in DOMAIN mounted[v], y \in DOMAIN mounted[w] :
            mounted[v][x] = mounted[w][y] => v = w /\ x = y
      BY DEF SMTables
    <3>2. j \in DOMAIN mounted[r] /\ mounted'[r][j] = mounted[r][j]
      BY <2>2
    <3>3. k \in DOMAIN mounted[s] /\ mounted'[s][k] = mounted[s][k]
      BY <2>2
    <3>4. mounted[r][j] = mounted[s][k]
      BY <2>6, <3>2, <3>3
    <3> QED BY <3>1, <3>2, <3>3, <3>4
  <2>7. ASSUME NEW r \in Paths, NEW j \in DOMAIN mounted'[r]
        PROVE  root'[mounted'[r][j]] \in Inodes
    <3>1. /\ j \in DOMAIN mounted[r] /\ mounted'[r][j] = mounted[r][j] /\ mounted[r][j] # m
      BY <2>2
    <3>2. root[mounted[r][j]] \in Inodes
      BY <3>1 DEF SMTables
    <3>3. mounted[r][j] \in AllMounts
      BY <2>t, <3>1, LenProperties
    <3> QED BY <2>4, <3>1, <3>2, <3>3
  <2>8. UNCHANGED <<LH_SUS_MOUNT, acked, recent, flagged>>
    BY <1>1 DEF registry
  <2> QED BY <2>3, <2>4, <2>5, <2>6, <2>7, <2>8 DEF SMTables
<1>4. /\ reached' \in [KsuTasks -> Reached \cup {None}]
      /\ \A t \in KsuTasks : reached[t] # None <=> reached'[t] # None
  BY <1>1, UnsteadyAt
<1>5. /\ DOMAIN info' = KsuTasks
      /\ \A t \in Tools : info'[t] = info[t]
      /\ \A t \in Mounters :
           /\ info'[t] \in [path : Paths, made : KsuMounts \cup {None}] \cup {None}
           /\ info[t] # None <=> info'[t] # None
  BY <1>1, <1>2, UnmadeAt
<1>6. pc' = pc /\ susfs_spin_lock' = susfs_spin_lock
  BY <1>1
<1>7. ASSUME NEW t \in KsuTasks PROVE TaskTyped(t)'
  <2>1. TaskTyped(t)
    BY DEF SMTyped
  <2>2. CASE t \in Tools
    BY <1>4, <1>5, <1>6, <2>1, <2>2 DEF TaskTyped, ToolTyped
  <2>3. CASE t \notin Tools
    <3>1. t \in Mounters
      BY <2>3 DEF KsuTasks
    <3> QED BY <1>4, <1>5, <1>6, <2>1, <2>3, <3>1 DEF TaskTyped, MounterTyped
  <2> QED BY <2>2, <2>3
<1> QED BY <1>3, <1>4, <1>5, <1>6, <1>7 DEF SMTyped

LEMMA SMInitTyped == SMInit => SMTyped
<1> SUFFICES ASSUME SMInit PROVE SMTyped
  OBVIOUS
<1> USE SusMountAssumption DEF SMInit
<1>1. LH_SUS_MOUNT \in Seq(Requests) /\ flagged \subseteq Inodes
  OBVIOUS
<1>2. \A p \in Paths : Boot[p] \in Seq(LegitMounts) /\ Boot[p] \in Seq(AllMounts)
  <2>1. LegitMounts \subseteq AllMounts
    BY DEF AllMounts
  <2>2. \A p \in Paths : Boot[p] \in Seq(LegitMounts)
    OBVIOUS
  <2> QED BY <2>1, <2>2
<1>3. mounted \in [Paths -> Seq(AllMounts)]
  BY <1>2
<1>4. root \in [AllMounts -> Inodes \cup {None}]
  BY DEF AllMounts
<1>5. mnt_group_id \in [AllMounts -> {"none", "legit", "sus"}]
  OBVIOUS
<1>6. \A p \in Paths : \A i \in DOMAIN mounted[p] : mounted[p][i] \in LegitMounts
  BY <1>2, LenProperties
<1>7. \A p \in Paths : \A i \in DOMAIN mounted[p] : root[mounted[p][i]] \in Inodes
  <2>1. \A m \in LegitMounts : root[m] \in Inodes
    BY DEF AllMounts
  <2> QED BY <1>6, <2>1
<1>8. SMTables
  BY <1>1, <1>3, <1>4, <1>5, <1>7 DEF SMTables
<1>9. ASSUME NEW t \in KsuTasks PROVE TaskTyped(t)
  BY DEF TaskTyped, ToolTyped, MounterTyped, KsuTasks
<1>10. pc \in [KsuTasks -> Steps] /\ DOMAIN info = KsuTasks
       /\ reached \in [KsuTasks -> Reached \cup {None}]
  BY DEF Steps
<1> QED BY <1>8, <1>9, <1>10 DEF SMTyped

(* The steps of the whole.                                                   *)
LEMMA SMNextCases ==
  ASSUME SMNext
  PROVE  \/ \E t \in Tools, r \in Requests : Call(t, r)
         \/ \E t \in Tools : \/ memcpy(t) \/ not_found(t) \/ kern_path(t) \/ test(t)
                             \/ set_flag(t) \/ list_add_tail(t) \/ spin_unlock(t)
         \/ \E t \in Mounters : \/ susfs_auto_add_sus_ksu_default_mount(t)
                                \/ susfs_auto_add_sus_bind_mount(t) \/ set_flag(t)
         \/ \E t \in Mounters, p \in Paths : do_new_mount(t, p) \/ do_loopback_lookup(t, p)
         \/ \E t \in Mounters, p \in Paths, q \in Paths : do_move_mount(t, p, q)
         \/ \E p \in Paths : do_umount(p)
         \/ \E m \in AllMounts : do_change_type(m)
  BY DEF SMNext, susfs_add_sus_mount, hook

LEMMA SMNextTyped == SMTyped /\ [SMNext]_SMvars => SMTyped'
<1> SUFFICES ASSUME SMTyped, [SMNext]_SMvars PROVE SMTyped'
  OBVIOUS
<1>1. CASE UNCHANGED SMvars
  <2>1. UNCHANGED <<LH_SUS_MOUNT, acked, recent, table, flagged>> /\ SMTables
    BY <1>1 DEF SMvars, registry, SMTyped
  <2>2. SMTables'
    BY <2>1 DEF SMTables, table
  <2>3. UNCHANGED <<pc, info, reached, susfs_spin_lock>>
    BY <1>1 DEF SMvars, task
  <2>4. \A t \in KsuTasks : TaskTyped(t)'
    BY <2>3, TaskKeeps DEF SMTyped
  <2> QED BY <2>2, <2>3, <2>4 DEF SMTyped
<1>2. CASE SMNext
  <2>1. ASSUME NEW t \in Tools, NEW r \in Requests, Call(t, r) PROVE SMTyped'
    BY <2>1, TypedCall
  <2>2. ASSUME NEW t \in Tools,
               \/ memcpy(t) \/ not_found(t) \/ kern_path(t) \/ test(t)
               \/ set_flag(t) \/ list_add_tail(t) \/ spin_unlock(t)
        PROVE  SMTyped'
    <3>1. t \in KsuTasks
      BY DEF KsuTasks
    <3> QED BY <2>2, <3>1, TypedMemcpy, TypedNotFound, TypedKernPath, TypedTest, TypedSetFlag,
               TypedAddTail, TypedUnlock
  <2>3. ASSUME NEW t \in Mounters,
               \/ susfs_auto_add_sus_ksu_default_mount(t)
               \/ susfs_auto_add_sus_bind_mount(t) \/ set_flag(t)
        PROVE  SMTyped'
    BY <2>3, MounterIs, TypedDefaultMount, TypedBindMount, TypedSetFlag
  <2>4. ASSUME NEW t \in Mounters, NEW p \in Paths, do_new_mount(t, p) \/ do_loopback_lookup(t, p)
        PROVE  SMTyped'
    BY <2>4, TypedNewMount, TypedLookup
  <2>5. ASSUME NEW t \in Mounters, NEW p \in Paths, NEW q \in Paths, do_move_mount(t, p, q)
        PROVE  SMTyped'
    BY <2>5, TypedMoveMount
  <2>6. ASSUME NEW p \in Paths, do_umount(p) PROVE SMTyped'
    BY <2>6, TypedUmount
  <2>7. ASSUME NEW m \in AllMounts, do_change_type(m) PROVE SMTyped'
    BY <2>7, TypedChangeType
  <2> QED BY <1>2, <2>1, <2>2, <2>3, <2>4, <2>5, <2>6, <2>7, SMNextCases
<1> QED BY <1>1, <1>2

\* For any paths, mounts, inodes and tasks, the type of the state is kept; only a
\* command that updates an entry holds susfs_spin_lock across its steps, and it gives
\* it back.
THEOREM SMTypeCorrect == SMSpec => []SMTypeOK
<1>1. SMSpec => []SMTyped
  BY SMInitTyped, SMNextTyped, PTL DEF SMSpec
<1> QED BY <1>1, TypedTells, PTL

-----------------------------------------------------------------------------
(* The entry that a search finds.                                            *)
LEMMA LeastExists ==
  ASSUME NEW T \in SUBSET Nat, T # {}
  PROVE  \E m \in T : \A l \in T : m <= l
  <1> DEFINE R == OpToRel(<, Nat)
  <1>1. IsWellFoundedOn(R, Nat)
    BY NatLessThanWellFounded
  <1> HIDE DEF R
  <1>2. PICK m \in T : \A l \in T : ~(<<l, m>> \in R)
    BY <1>1, WFMin
  <1>3. \A l \in T : ~(l < m)
    BY <1>2 DEF R, OpToRel
  <1> QED BY <1>3

(* A path that has an entry has one first entry.                             *)
LEMMA FirstIs ==
  ASSUME SMTables, NEW p
  PROVE  /\ EntriesOf(p) \subseteq Nat
         /\ EntriesOf(p) # {} => First(p) # {}
         /\ First(p) \subseteq EntriesOf(p)
         /\ \A i, j \in First(p) : i = j
<1>1. Len(LH_SUS_MOUNT) \in Nat /\ DOMAIN LH_SUS_MOUNT = 1..Len(LH_SUS_MOUNT)
  BY LenProperties DEF SMTables
<1>2. EntriesOf(p) \in SUBSET Nat
  BY <1>1 DEF EntriesOf
<1>3. EntriesOf(p) # {} => First(p) # {}
  BY <1>2, LeastExists DEF First
<1>4. First(p) \subseteq EntriesOf(p)
  BY DEF First
<1>5. ASSUME NEW i \in First(p), NEW j \in First(p) PROVE i = j
  <2>1. i \in Nat /\ j \in Nat /\ i <= j /\ j <= i
    BY <1>2 DEF First
  <2> QED BY <2>1
<1> QED BY <1>2, <1>3, <1>4, <1>5

(* A step that leaves the entries alone, and makes no command that overlaps   *)
(* the others look like the first.                                           *)
LEMMA EntriesKeep ==
  ASSUME SMEntries, UNCHANGED <<LH_SUS_MOUNT, acked, susfs_spin_lock>>,
         \A t \in Tools : susfs_spin_lock = t => info'[t] = info[t],
         \A p \in Paths, t \in Tools : Adds(t, p)' => Adds(t, p) \/ First(p) = {},
         \A p \in Paths : recent'[p] => recent[p] \/ \A t \in Tools : ~Adds(t, p)'
  PROVE  SMEntries'
<1> SUFFICES ASSUME NEW p \in Paths PROVE FirstTells(p)'
  BY DEF SMEntries
<1>1. FirstTells(p)
  BY DEF SMEntries
<1>2. First(p)' = First(p)
  BY DEF First, EntriesOf
<1>3. \A t \in Tools : /\ Holds(t, p)' <=> Holds(t, p)
                       /\ Holds(t, p) => info'[t] = info[t]
  BY DEF Holds
<1>4. \A t \in Tools : Holds(t, p)' => \E i \in First(p)' : LH_SUS_MOUNT'[i].dev = info'[t].dev
  BY <1>1, <1>2, <1>3 DEF FirstTells
<1>5. (\A t \in Tools : ~Holds(t, p)') => \A i \in First(p)' : LH_SUS_MOUNT'[i].dev \in acked'[p]
  BY <1>1, <1>2, <1>3 DEF FirstTells
<1>6. acked'[p] # {} => First(p)' # {}
  BY <1>1, <1>2 DEF FirstTells
<1>7. recent'[p] => \A t \in Tools : Adds(t, p)' => First(p)' = {}
  BY <1>1, <1>2 DEF FirstTells
<1> QED BY <1>4, <1>5, <1>6, <1>7 DEF FirstTells

LEMMA EntriesCall ==
  ASSUME SMTyped, SMEntries, NEW t \in Tools, NEW r \in Requests, Call(t, r)
  PROVE  SMEntries'
<1>1. UNCHANGED <<LH_SUS_MOUNT, acked, susfs_spin_lock>> /\ pc[t] = "idle"
  BY DEF Call
<1>2. /\ pc'[t] = "search"
      /\ \A u \in Tools \ {t} : pc'[u] = pc[u] /\ info'[u] = info[u]
  BY DEF Call, Goto, SMTyped, KsuTasks
<1>3. susfs_spin_lock # t
  BY <1>1 DEF SMTyped, TaskTyped, ToolTyped, KsuTasks
<1>4. \A p \in Paths, u \in Tools : Adds(u, p)' => Adds(u, p) /\ pc[u] # "idle" /\ info[u].path = p
  BY <1>1, <1>2 DEF Adds
<1>5. ASSUME NEW p \in Paths, recent'[p] PROVE recent[p] \/ Busy(p) = {}
  BY <1>5 DEF Call, SMTyped, SMTables
<1>6. \A p \in Paths : recent'[p] => recent[p] \/ \A u \in Tools : ~Adds(u, p)'
  BY <1>4, <1>5 DEF Busy
<1>7. \A u \in Tools : susfs_spin_lock = u => info'[u] = info[u]
  BY <1>2, <1>3
<1>8. \A p \in Paths, u \in Tools : Adds(u, p)' => Adds(u, p) \/ First(p) = {}
  BY <1>4
<1> QED BY <1>1, <1>6, <1>7, <1>8, EntriesKeep

LEMMA EntriesNotFound ==
  ASSUME SMTyped, SMEntries, NEW t \in Tools, not_found(t)
  PROVE  SMEntries'
<1>1. UNCHANGED <<LH_SUS_MOUNT, acked, recent, susfs_spin_lock>> /\ pc[t] = "search"
  BY DEF not_found, registry
<1>2. First(info[t].path) = {}
  BY DEF not_found
<1>3. susfs_spin_lock # t
  BY <1>1 DEF SMTyped, TaskTyped, ToolTyped, KsuTasks
<1>4. /\ \A u \in Tools \ {t} : pc'[u] = pc[u] /\ info'[u] = info[u]
      /\ info'[t] = info[t] \/ pc'[t] = "idle"
  BY DEF not_found, Goto, Return, SMTyped, KsuTasks
<1>5. \A p \in Paths, u \in Tools : Adds(u, p)' => Adds(u, p) \/ First(p) = {}
  BY <1>1, <1>2, <1>4 DEF Adds
<1>6. \A u \in Tools : susfs_spin_lock = u => info'[u] = info[u]
  BY <1>3, <1>4
<1> QED BY <1>1, <1>5, <1>6, EntriesKeep

(* The steps of the path lookup, and those of the mounters and the kernel.   *)
LEMMA EntriesElse ==
  ASSUME SMEntries, UNCHANGED <<registry, susfs_spin_lock>>,
         \A u \in Tools : info'[u] = info[u],
         \A u \in Tools : pc'[u] \in {"lookup", "test", "flag", "add"} =>
                            pc[u] \in {"lookup", "test", "flag", "add"}
  PROVE  SMEntries'
<1>1. UNCHANGED <<LH_SUS_MOUNT, acked, recent, susfs_spin_lock>>
  BY DEF registry
<1>2. \A p \in Paths, u \in Tools : Adds(u, p)' => Adds(u, p)
  BY <1>1 DEF Adds
<1> QED BY <1>1, <1>2, EntriesKeep

LEMMA EntriesMemcpy ==
  ASSUME SMTyped, SMEntries, NEW t \in Tools, memcpy(t)
  PROVE  SMEntries'
<1>1. /\ Goto(t, "lookup") /\ susfs_spin_lock = NoHolder /\ susfs_spin_lock' = t
      /\ UNCHANGED <<acked, recent, info>> /\ pc[t] = "search"
  BY DEF memcpy
<1>2. PICK k \in First(info[t].path) : LH_SUS_MOUNT' = [LH_SUS_MOUNT EXCEPT ![k] = info[t]]
  BY CopiedEntry
<1>3. /\ k \in DOMAIN LH_SUS_MOUNT /\ LH_SUS_MOUNT[k].path = info[t].path
      /\ DOMAIN LH_SUS_MOUNT' = DOMAIN LH_SUS_MOUNT /\ LH_SUS_MOUNT'[k] = info[t]
      /\ \A j \in DOMAIN LH_SUS_MOUNT : j # k => LH_SUS_MOUNT'[j] = LH_SUS_MOUNT[j]
  BY <1>2 DEF First, EntriesOf, SMTyped, SMTables
<1>4. \A p : EntriesOf(p)' = EntriesOf(p)
  BY <1>3 DEF EntriesOf
<1>5. \A p : First(p)' = First(p)
  BY <1>4 DEF First
<1> SUFFICES ASSUME NEW p \in Paths PROVE FirstTells(p)'
  BY DEF SMEntries
<1>6. FirstTells(p)
  BY DEF SMEntries
<1>7. \A u \in Tools : ~Holds(u, p)
  BY <1>1, SusMountAssumption DEF Holds, KsuTasks
<1>8. \A u \in Tools : Holds(u, p)' => u = t /\ info[t].path = p
  BY <1>1 DEF Holds
<1>9. \A u \in Tools : Holds(u, p)' => \E i \in First(p)' : LH_SUS_MOUNT'[i].dev = info'[u].dev
  BY <1>1, <1>2, <1>3, <1>5, <1>8
<1>10. ASSUME \A u \in Tools : ~Holds(u, p)', NEW i \in First(p)'
       PROVE  LH_SUS_MOUNT'[i].dev \in acked'[p]
  <2>1. info[t].path # p
    BY <1>1, <1>10 DEF Holds
  <2>2. i \in First(p) /\ i \in DOMAIN LH_SUS_MOUNT /\ LH_SUS_MOUNT[i].path = p
    BY <1>5 DEF First, EntriesOf
  <2>3. LH_SUS_MOUNT'[i] = LH_SUS_MOUNT[i]
    BY <1>3, <2>1, <2>2
  <2>4. LH_SUS_MOUNT[i].dev \in acked[p]
    BY <1>6, <1>7, <2>2 DEF FirstTells
  <2> QED BY <1>1, <2>3, <2>4
<1>11. acked'[p] # {} => First(p)' # {}
  BY <1>1, <1>5, <1>6 DEF FirstTells
<1>12. \A u \in Tools : Adds(u, p)' => Adds(u, p)
  BY <1>1, SusMountAssumption DEF Adds, Goto, SMTyped, KsuTasks
<1>13. recent'[p] => \A u \in Tools : Adds(u, p)' => First(p)' = {}
  BY <1>1, <1>5, <1>6, <1>12 DEF FirstTells
<1> QED BY <1>9, <1>10, <1>11, <1>13 DEF FirstTells

(* A command that returns 0 leaves its device in the history of its path.    *)
LEMMA AckedAt ==
  ASSUME SMTables, NEW t, info[t] \in Requests, Acked(t)
  PROVE  /\ info[t].path \in Paths
         /\ acked'[info[t].path] = IF recent[info[t].path] THEN {info[t].dev}
                                   ELSE acked[info[t].path] \cup {info[t].dev}
         /\ recent'[info[t].path] = FALSE
         /\ \A q \in Paths \ {info[t].path} : acked'[q] = acked[q] /\ recent'[q] = recent[q]
  BY SusMountAssumption DEF SMTables, Acked

LEMMA EntriesAddTail ==
  ASSUME SMTyped, SMEntries, NEW t \in Tools, list_add_tail(t)
  PROVE  SMEntries'
<1>1. /\ pc[t] = "add" /\ susfs_spin_lock = NoHolder /\ susfs_spin_lock' = NoHolder
      /\ LH_SUS_MOUNT' = Append(LH_SUS_MOUNT, info[t]) /\ Acked(t) /\ Return(t)
  BY DEF list_add_tail
<1>2. info[t] \in Requests /\ LH_SUS_MOUNT \in Seq(Requests) /\ SMTables
  BY <1>1 DEF SMTyped, SMTables, TaskTyped, ToolTyped, KsuTasks
<1>e. PICK e \in Requests : e = info[t]
  BY <1>2
<1>n. PICK n : n = Len(LH_SUS_MOUNT) + 1
  OBVIOUS
<1>3. /\ e.path \in Paths /\ recent'[e.path] = FALSE
      /\ acked'[e.path] = IF recent[e.path] THEN {e.dev} ELSE acked[e.path] \cup {e.dev}
      /\ \A q \in Paths \ {e.path} : acked'[q] = acked[q] /\ recent'[q] = recent[q]
  BY <1>1, <1>2, <1>e, AckedAt
<1>4. /\ DOMAIN LH_SUS_MOUNT = 1..Len(LH_SUS_MOUNT) /\ Len(LH_SUS_MOUNT) \in Nat
      /\ DOMAIN LH_SUS_MOUNT' = 1..n /\ LH_SUS_MOUNT'[n] = e
      /\ \A i \in DOMAIN LH_SUS_MOUNT : LH_SUS_MOUNT'[i] = LH_SUS_MOUNT[i]
  <2>1. /\ LH_SUS_MOUNT' \in Seq(Requests) /\ Len(LH_SUS_MOUNT') = n /\ LH_SUS_MOUNT'[n] = e
        /\ \A i \in 1..Len(LH_SUS_MOUNT) : LH_SUS_MOUNT'[i] = LH_SUS_MOUNT[i]
    BY <1>1, <1>2, <1>e, <1>n, AppendProperties
  <2>2. DOMAIN LH_SUS_MOUNT = 1..Len(LH_SUS_MOUNT) /\ Len(LH_SUS_MOUNT) \in Nat
    BY <1>2, LenProperties
  <2>3. DOMAIN LH_SUS_MOUNT' = 1..n
    BY <2>1, LenProperties
  <2> QED BY <2>1, <2>2, <2>3
<1>5. /\ DOMAIN LH_SUS_MOUNT' = DOMAIN LH_SUS_MOUNT \cup {n}
      /\ \A i \in DOMAIN LH_SUS_MOUNT : i <= n /\ ~(n <= i)
  BY <1>4, <1>n
<1>6. ASSUME NEW p \in Paths, p # e.path PROVE First(p)' = First(p)
  <2>1. EntriesOf(p)' = EntriesOf(p)
    BY <1>4, <1>5, <1>6 DEF EntriesOf
  <2> QED BY <2>1 DEF First
<1>7. EntriesOf(e.path)' = EntriesOf(e.path) \cup {n}
  BY <1>4, <1>5 DEF EntriesOf
<1>8. EntriesOf(e.path) \subseteq DOMAIN LH_SUS_MOUNT
  BY DEF EntriesOf
<1>9. First(e.path) # {} => First(e.path)' = First(e.path)
  BY <1>5, <1>7, <1>8 DEF First
<1>10. ASSUME First(e.path) = {} PROVE First(e.path)' = {n}
  <2>1. EntriesOf(e.path) = {}
    BY <1>2, <1>10, FirstIs
  <2>2. EntriesOf(e.path)' = {n} /\ n <= n
    BY <1>4, <1>7, <1>n, <2>1
  <2> QED BY <2>2 DEF First
<1>11. First(e.path)' # {}
  BY <1>9, <1>10
<1> SUFFICES ASSUME NEW p \in Paths PROVE FirstTells(p)'
  BY DEF SMEntries
<1>12. FirstTells(p)
  BY DEF SMEntries
<1>13. \A u \in Tools : ~Holds(u, p) /\ ~Holds(u, p)'
  BY <1>1, SusMountAssumption DEF Holds, KsuTasks
<1>14. \A u \in Tools : Adds(u, p)' => Adds(u, p)
  BY <1>1, SusMountAssumption DEF Adds, Return, Goto, SMTyped, KsuTasks
<1>15. CASE p # e.path
  <2>1. First(p)' = First(p) /\ acked'[p] = acked[p] /\ recent'[p] = recent[p]
    BY <1>3, <1>6, <1>15
  <2>2. \A i \in First(p) : LH_SUS_MOUNT'[i] = LH_SUS_MOUNT[i]
    BY <1>4 DEF First, EntriesOf
  <2> QED BY <1>12, <1>13, <1>14, <2>1, <2>2 DEF FirstTells
<1>16. CASE p = e.path
  <2>1. ASSUME NEW i \in First(p)' PROVE LH_SUS_MOUNT'[i].dev \in acked'[p]
    <3>1. CASE First(p) = {}
      BY <1>3, <1>4, <1>10, <1>16, <2>1, <3>1
    <3>2. CASE First(p) # {}
      <4>1. i \in First(p)
        BY <1>9, <1>16, <2>1, <3>2
      <4>2. LH_SUS_MOUNT[i].dev \in acked[p]
        BY <1>12, <1>13, <4>1 DEF FirstTells
      <4>3. i \in DOMAIN LH_SUS_MOUNT
        BY <4>1 DEF First, EntriesOf
      <4>4. Adds(t, p)
        BY <1>1, <1>13, <1>16, <1>e, SusMountAssumption DEF Adds, KsuTasks
      <4>5. ~recent[p]
        BY <1>12, <3>2, <4>4 DEF FirstTells
      <4> QED BY <1>3, <1>4, <1>16, <4>2, <4>3, <4>5
    <3> QED BY <3>1, <3>2
  <2>2. ~recent'[p] /\ First(p)' # {}
    BY <1>3, <1>11, <1>16
  <2> QED BY <1>13, <2>1, <2>2 DEF FirstTells
<1> QED BY <1>15, <1>16

LEMMA EntriesUnlock ==
  ASSUME SMTyped, SMEntries, NEW t \in Tools, spin_unlock(t)
  PROVE  SMEntries'
<1>1. /\ pc[t] = "unlock" /\ susfs_spin_lock' = NoHolder
      /\ LH_SUS_MOUNT' = LH_SUS_MOUNT /\ Acked(t) /\ Return(t)
  BY DEF spin_unlock
<1>2. info[t] \in Requests /\ SMTables /\ susfs_spin_lock = t
  BY <1>1 DEF SMTyped, SMTables, TaskTyped, ToolTyped, KsuTasks
<1>3. /\ info[t].path \in Paths /\ recent'[info[t].path] = FALSE
      /\ acked'[info[t].path] = IF recent[info[t].path] THEN {info[t].dev}
                                ELSE acked[info[t].path] \cup {info[t].dev}
      /\ \A q \in Paths \ {info[t].path} : acked'[q] = acked[q] /\ recent'[q] = recent[q]
  BY <1>1, <1>2, AckedAt
<1> SUFFICES ASSUME NEW p \in Paths PROVE FirstTells(p)'
  BY DEF SMEntries
<1>4. FirstTells(p)
  BY DEF SMEntries
<1>5. First(p)' = First(p)
  BY <1>1 DEF First, EntriesOf
<1>6. \A u \in Tools : ~Holds(u, p)'
  BY <1>1, SusMountAssumption DEF Holds, KsuTasks
<1>7. \A u \in Tools : Adds(u, p)' => Adds(u, p)
  BY <1>1, <1>2, SusMountAssumption DEF Adds, Return, Goto, SMTyped, KsuTasks
<1>8. CASE p # info[t].path
  <2>1. \A u \in Tools : ~Holds(u, p)
    BY <1>2, <1>8 DEF Holds
  <2>2. acked'[p] = acked[p] /\ recent'[p] = recent[p]
    BY <1>3, <1>8
  <2> QED BY <1>1, <1>4, <1>5, <1>6, <1>7, <2>1, <2>2 DEF FirstTells
<1>9. CASE p = info[t].path
  <2>1. PICK i \in First(p) : LH_SUS_MOUNT[i].dev = info[t].dev
    BY <1>2, <1>4, <1>9 DEF FirstTells, Holds
  <2>2. \A j \in First(p) : j = i
    BY <1>2, FirstIs
  <2>3. info[t].dev \in acked'[p] /\ ~recent'[p]
    BY <1>3, <1>9
  <2> QED BY <1>1, <1>5, <1>6, <2>1, <2>2, <2>3 DEF FirstTells
<1> QED BY <1>8, <1>9

LEMMA SMNextEntries == SMTyped /\ SMEntries /\ [SMNext]_SMvars => SMEntries'
<1> SUFFICES ASSUME SMTyped, SMEntries, [SMNext]_SMvars PROVE SMEntries'
  OBVIOUS
<1>m. ASSUME NEW t \in Mounters PROVE \A u \in Tools : u # t
  BY MounterIs
<1>d. DOMAIN pc = KsuTasks /\ DOMAIN info = KsuTasks /\ Tools \subseteq KsuTasks
  BY DEF SMTyped, KsuTasks
<1>1. CASE UNCHANGED SMvars
  BY <1>1, EntriesElse DEF SMvars, registry, task
<1>2. CASE SMNext
  <2>1. ASSUME NEW t \in Tools, NEW r \in Requests, Call(t, r) PROVE SMEntries'
    BY <2>1, EntriesCall
  <2>2. ASSUME NEW t \in Tools, memcpy(t) \/ not_found(t) \/ list_add_tail(t) \/ spin_unlock(t)
        PROVE  SMEntries'
    BY <2>2, EntriesMemcpy, EntriesNotFound, EntriesAddTail, EntriesUnlock
  <2>3. ASSUME NEW t \in Tools, kern_path(t) \/ test(t) \/ set_flag(t)
        PROVE  SMEntries'
    <3>1. UNCHANGED <<registry, susfs_spin_lock, info>>
      BY <2>3 DEF kern_path, test, set_flag
    <3>2. pc[t] \in {"lookup", "test", "flag"} /\ \A u \in Tools : u # t => pc'[u] = pc[u]
      BY <2>3, <1>d DEF kern_path, test, set_flag, Goto
    <3> QED BY <3>1, <3>2, EntriesElse
  <2>4. ASSUME NEW t \in Mounters,
               \/ susfs_auto_add_sus_ksu_default_mount(t)
               \/ susfs_auto_add_sus_bind_mount(t) \/ set_flag(t)
        PROVE  SMEntries'
    <3>1. UNCHANGED <<registry, susfs_spin_lock>>
      BY <2>4 DEF susfs_auto_add_sus_ksu_default_mount, susfs_auto_add_sus_bind_mount, set_flag
    <3>2. /\ info' = info \/ \E x : info' = [info EXCEPT ![t] = x]
          /\ \E x : pc' = [pc EXCEPT ![t] = x]
      BY <2>4, MounterIs DEF susfs_auto_add_sus_ksu_default_mount, susfs_auto_add_sus_bind_mount,
                             set_flag, Return, Goto
    <3>3. \A u \in Tools : info'[u] = info[u] /\ pc'[u] = pc[u]
      BY <1>m, <1>d, <3>2
    <3> QED BY <3>1, <3>3, EntriesElse
  <2>5. ASSUME NEW t \in Mounters, NEW p \in Paths, NEW q \in Paths,
               do_new_mount(t, p) \/ do_loopback_lookup(t, p) \/ do_move_mount(t, p, q)
        PROVE  SMEntries'
    <3>1. UNCHANGED <<registry, susfs_spin_lock>>
      BY <2>5 DEF do_new_mount, do_loopback_lookup, do_move_mount
    <3>2. /\ info' = info \/ \E x : info' = [info EXCEPT ![t] = x]
          /\ \E x : pc' = [pc EXCEPT ![t] = x]
      BY <2>5 DEF do_new_mount, do_loopback_lookup, do_move_mount, Goto
    <3>3. \A u \in Tools : info'[u] = info[u] /\ pc'[u] = pc[u]
      BY <1>m, <1>d, <3>2
    <3> QED BY <3>1, <3>3, EntriesElse
  <2>6. ASSUME NEW p \in Paths, do_umount(p) PROVE SMEntries'
    <3>1. UNCHANGED <<registry, susfs_spin_lock, pc>>
      BY <2>6 DEF do_umount
    <3>2. \A u \in Tools : info'[u] = info[u]
      BY <2>6, <1>d, SusMountAssumption DEF do_umount, Unmade
    <3> QED BY <3>1, <3>2, EntriesElse
  <2>7. ASSUME NEW m \in AllMounts, do_change_type(m) PROVE SMEntries'
    BY <2>7, EntriesElse DEF do_change_type
  <2>8. ASSUME NEW t \in Mounters, NEW p \in Paths, do_new_mount(t, p) \/ do_loopback_lookup(t, p)
        PROVE  SMEntries'
    BY <2>5, <2>8
  <2> QED BY <1>2, <2>1, <2>2, <2>3, <2>4, <2>5, <2>6, <2>7, <2>8, SMNextCases
<1> QED BY <1>1, <1>2

LEMMA SMInitEntries == SMInit => SMEntries
<1> SUFFICES ASSUME SMInit PROVE SMEntries
  OBVIOUS
<1>1. LH_SUS_MOUNT = <<>> /\ \A p \in Paths : First(p) = {}
  BY DEF SMInit, First, EntriesOf
<1>2. \A p \in Paths : acked[p] = {}
  BY DEF SMInit
<1>3. \A u \in Tools : susfs_spin_lock # u
  BY SusMountAssumption DEF SMInit, KsuTasks
<1> QED BY <1>1, <1>2, <1>3 DEF SMEntries, FirstTells, Holds

LEMMA EntriesTell == SMTyped /\ SMEntries => SearchFindsAcked
<1> SUFFICES ASSUME SMTyped, SMEntries, NEW p \in Paths, Busy(p) = {}, acked[p] # {}
             PROVE  \E i \in First(p) : LH_SUS_MOUNT[i].dev \in acked[p]
  BY DEF SearchFindsAcked
<1>1. FirstTells(p)
  BY DEF SMEntries
<1>2. \A t \in Tools : ~Holds(t, p)
  BY DEF Busy, Holds, SMTyped, TaskTyped, ToolTyped, KsuTasks
<1> QED BY <1>1, <1>2 DEF FirstTells

\* For any paths, tools and mounts, and however commands for a path overlap: once none
\* is under way, the entry that a search finds is of one of those that overlapped
\* last and returned 0.
THEOREM SearchFindsAckedCorrect == SMSpec => []SearchFindsAcked
<1>1. SMInit => SMTyped /\ SMEntries
  BY SMInitTyped, SMInitEntries
<1>2. SMTyped /\ SMEntries /\ [SMNext]_SMvars => (SMTyped /\ SMEntries)'
  BY SMNextTyped, SMNextEntries
<1>3. SMSpec => [](SMTyped /\ SMEntries)
  BY <1>1, <1>2, PTL DEF SMSpec
<1> QED BY <1>3, EntriesTell, PTL

-----------------------------------------------------------------------------
(* The groups of the mounts that tasks have in hand.                         *)
(* A step that leaves the mounts alone.                                      *)
LEMMA GroupsKeep ==
  ASSUME SMGroups, UNCHANGED <<mnt_group_id, mounted>>,
         \A u \in Tools : pc'[u] = "flag" =>
           \/ pc[u] = "flag" /\ reached'[u] = reached[u]
           \/ ~IsLegit(reached'[u].mnt),
         \A u \in Mounters : info'[u] = info[u] \/ info'[u] = None
  PROVE  SMGroups'
<1>1. \A m : IsLegit(m)' <=> IsLegit(m)
  BY DEF IsLegit
<1>2. ASSUME NEW u \in Tools PROVE ToolGroups(u)'
  BY <1>1 DEF SMGroups, ToolGroups, IsLegit
<1>3. ASSUME NEW u \in Mounters PROVE MadeGroups(u)'
  BY <1>1 DEF SMGroups, MadeGroups, IsLegit
<1> QED BY <1>2, <1>3 DEF SMGroups

(* A task that has a mount in hand keeps it when another mount is made.      *)
LEMMA GroupsGain ==
  ASSUME SMTyped, SMGroups, NEW p \in Paths, NEW m \in Unused, NEW g,
         mounted' = [mounted EXCEPT ![p] = Append(@, m)],
         mnt_group_id' = [mnt_group_id EXCEPT ![m] = g],
         \A u \in Tools : pc'[u] = pc[u] /\ reached'[u] = reached[u],
         \A u \in Mounters : \/ info'[u] = info[u] \/ info'[u] = None
                             \/ info'[u].made = m /\ g # "legit"
  PROVE  SMGroups'
<1> USE DEF SMTyped, SMTables
<1>1. /\ m \in AllMounts
      /\ \A q \in Paths : \A j \in DOMAIN mounted[q] : mounted[q][j] # m
      /\ \A u \in KsuTasks : reached[u] # None => reached[u].mnt # m
  BY DEF Unused, AllMounts, ToSet
<1>2. /\ mounted'[p] = Append(mounted[p], m) /\ mounted[p] \in Seq(AllMounts)
      /\ \A q \in Paths \ {p} : mounted'[q] = mounted[q]
  OBVIOUS
<1>3. /\ Len(mounted[p]) + 1 \in DOMAIN mounted'[p] /\ mounted'[p][Len(mounted[p]) + 1] = m
      /\ \A j \in DOMAIN mounted[p] : j \in DOMAIN mounted'[p] /\ mounted'[p][j] = mounted[p][j]
  <2>1. /\ mounted'[p] \in Seq(AllMounts) /\ Len(mounted'[p]) = Len(mounted[p]) + 1
        /\ mounted'[p][Len(mounted[p]) + 1] = m
        /\ \A j \in 1..Len(mounted[p]) : mounted'[p][j] = mounted[p][j]
    BY <1>1, <1>2, AppendProperties
  <2>2. DOMAIN mounted[p] = 1..Len(mounted[p]) /\ Len(mounted[p]) \in Nat
    BY <1>2, LenProperties
  <2>3. DOMAIN mounted'[p] = 1..(Len(mounted[p]) + 1)
    BY <2>1, LenProperties
  <2> QED BY <2>1, <2>2, <2>3
<1>4. /\ mnt_group_id'[m] = g
      /\ \A x : x # m => (IsLegit(x)' <=> IsLegit(x))
  BY <1>1 DEF IsLegit
<1>5. ASSUME NEW u \in Tools PROVE ToolGroups(u)'
  <2>1. SUFFICES ASSUME pc[u] = "flag", reached[u].steady PROVE ~IsLegit(reached[u].mnt)'
    BY DEF ToolGroups
  <2>2. reached[u] # None
    BY <2>1 DEF TaskTyped, KsuTasks
  <2>3. reached[u].mnt # m
    BY <1>1, <2>2 DEF KsuTasks
  <2>4. ~IsLegit(reached[u].mnt)
    BY <2>1 DEF SMGroups, ToolGroups
  <2> QED BY <1>4, <2>3, <2>4 DEF IsLegit
<1>6. ASSUME NEW u \in Mounters PROVE MadeGroups(u)'
  <2>1. CASE info'[u] = None
    BY <2>1 DEF MadeGroups
  <2>2. CASE info'[u].made = m /\ g # "legit"
    <3>1. ~IsLegit(info[u].made)'
      BY <1>4, <2>2 DEF IsLegit
    <3> QED BY <1>3, <2>2, <3>1 DEF MadeGroups
  <2>3. CASE info'[u] = info[u] /\ info[u] # None /\ info[u].made # None
    <3>1. ~IsLegit(info[u].made)
      BY <2>3 DEF SMGroups, MadeGroups
    <3>2. PICK q \in Paths : \E j \in DOMAIN mounted[q] : mounted[q][j] = info[u].made
      BY <2>3 DEF SMGroups, MadeGroups
    <3>j. PICK j \in DOMAIN mounted[q] : mounted[q][j] = info[u].made
      BY <3>2
    <3>3. info[u].made # m
      BY <1>1, <3>j
    <3>4. ~IsLegit(info[u].made)'
      BY <1>4, <2>3, <3>1, <3>3 DEF IsLegit
    <3>5. j \in DOMAIN mounted'[q] /\ mounted'[q][j] = mounted[q][j]
      BY <1>2, <1>3
    <3> QED BY <2>3, <3>j, <3>4, <3>5 DEF MadeGroups
  <2> QED BY <2>1, <2>2, <2>3 DEF MadeGroups
<1> QED BY <1>5, <1>6 DEF SMGroups

LEMMA GroupsMoveMount ==
  ASSUME SMTyped, SMGroups, NEW t \in Mounters, NEW p \in Paths, NEW q \in Paths,
         do_move_mount(t, p, q)
  PROVE  SMGroups'
<1>1. /\ mounted' = [mounted EXCEPT ![p] = Front(@), ![q] = Append(@, Last(mounted[p]))]
      /\ p # q /\ mounted[p] # <<>> /\ Goto(t, "hook")
      /\ info' = [info EXCEPT ![t] = [path |-> q, made |-> None]]
      /\ UNCHANGED <<reached, mnt_group_id>>
  BY DEF do_move_mount
<1>2. mounted[p] \in Seq(AllMounts) /\ mounted[q] \in Seq(AllMounts) /\ DOMAIN mounted = Paths
  BY DEF SMTyped, SMTables
<1>3. /\ Last(mounted[p]) = mounted[p][Len(mounted[p])] /\ Last(mounted[p]) \in AllMounts
      /\ \A j \in DOMAIN mounted[p] : j # Len(mounted[p]) =>
           j \in DOMAIN Front(mounted[p]) /\ Front(mounted[p])[j] = mounted[p][j]
  BY <1>1, <1>2, TopOf, FrontAt DEF SMTyped
<1>4. /\ mounted'[p] = Front(mounted[p])
      /\ mounted'[q] = Append(mounted[q], Last(mounted[p]))
      /\ \A r \in Paths \ {p, q} : mounted'[r] = mounted[r]
  BY <1>1, <1>2
<1>5. /\ Len(mounted[q]) + 1 \in DOMAIN mounted'[q]
      /\ mounted'[q][Len(mounted[q]) + 1] = Last(mounted[p])
      /\ \A j \in DOMAIN mounted[q] : j \in DOMAIN mounted'[q] /\ mounted'[q][j] = mounted[q][j]
  <2>1. /\ mounted'[q] \in Seq(AllMounts) /\ Len(mounted'[q]) = Len(mounted[q]) + 1
        /\ mounted'[q][Len(mounted[q]) + 1] = Last(mounted[p])
        /\ \A j \in 1..Len(mounted[q]) : mounted'[q][j] = mounted[q][j]
    BY <1>2, <1>3, <1>4, AppendProperties
  <2>2. DOMAIN mounted[q] = 1..Len(mounted[q]) /\ Len(mounted[q]) \in Nat
    BY <1>2, LenProperties
  <2>3. DOMAIN mounted'[q] = 1..(Len(mounted[q]) + 1)
    BY <2>1, LenProperties
  <2> QED BY <2>1, <2>2, <2>3
<1>6. ASSUME NEW r \in Paths, NEW j \in DOMAIN mounted[r]
      PROVE  \E s \in Paths : \E k \in DOMAIN mounted'[s] : mounted'[s][k] = mounted[r][j]
  <2>1. CASE r = p /\ j = Len(mounted[p])
    BY <1>3, <1>5, <2>1
  <2>2. CASE r = p /\ j # Len(mounted[p])
    BY <1>3, <1>4, <2>2
  <2>3. CASE r = q
    BY <1>5, <2>3
  <2>4. CASE r \notin {p, q}
    BY <1>4, <2>4
  <2> QED BY <2>1, <2>2, <2>3, <2>4
<1>7. ASSUME NEW u \in Tools PROVE ToolGroups(u)'
  <2>1. u # t /\ pc'[u] = pc[u]
    BY <1>1, MounterIs DEF Goto, SMTyped, KsuTasks
  <2> QED BY <1>1, <2>1 DEF SMGroups, ToolGroups, IsLegit
<1>8. ASSUME NEW u \in Mounters PROVE MadeGroups(u)'
  <2>1. u \in KsuTasks
    BY MounterIs
  <2>2. CASE u = t
    <3>1. info'[u].made = None
      BY <1>1, <2>1, <2>2 DEF SMTyped
    <3> QED BY <3>1 DEF MadeGroups
  <2>3. CASE u # t
    <3>1. info'[u] = info[u]
      BY <1>1, <2>3
    <3>2. SUFFICES ASSUME info[u] # None, info[u].made # None
                   PROVE  /\ ~IsLegit(info[u].made)'
                          /\ \E s \in Paths : \E k \in DOMAIN mounted'[s] : mounted'[s][k] = info[u].made
      BY <3>1 DEF MadeGroups
    <3>3. /\ ~IsLegit(info[u].made)
          /\ \E r \in Paths : \E j \in DOMAIN mounted[r] : mounted[r][j] = info[u].made
      BY <3>2 DEF SMGroups, MadeGroups
    <3>4. ~IsLegit(info[u].made)'
      BY <1>1, <3>1, <3>3 DEF IsLegit
    <3>5. \E s \in Paths : \E k \in DOMAIN mounted'[s] : mounted'[s][k] = info[u].made
      BY <1>6, <3>3
    <3> QED BY <3>4, <3>5
  <2> QED BY <2>2, <2>3
<1> QED BY <1>7, <1>8 DEF SMGroups

LEMMA GroupsUmount ==
  ASSUME SMTyped, SMGroups, NEW p \in Paths, do_umount(p)
  PROVE  SMGroups'
<1> DEFINE m == Last(mounted[p])
<1>1. /\ mounted[p] # <<>>
      /\ mounted' = [mounted EXCEPT ![p] = Front(@)]
      /\ mnt_group_id' = [mnt_group_id EXCEPT ![m] = "none"]
      /\ Unsteady(m) /\ Unmade(m) /\ pc' = pc
  BY DEF do_umount
<1>2. mounted[p] \in Seq(AllMounts) /\ DOMAIN mounted = Paths
  BY DEF SMTyped, SMTables
<1>3. /\ m = mounted[p][Len(mounted[p])] /\ m \in AllMounts
      /\ \A j \in DOMAIN mounted[p] : j # Len(mounted[p]) =>
           j \in DOMAIN Front(mounted[p]) /\ Front(mounted[p])[j] = mounted[p][j]
  BY <1>1, <1>2, TopOf, FrontAt DEF SMTyped
<1> HIDE DEF m
<1>4. mounted'[p] = Front(mounted[p]) /\ \A r \in Paths \ {p} : mounted'[r] = mounted[r]
  BY <1>1, <1>2
<1>5. ASSUME NEW r \in Paths, NEW j \in DOMAIN mounted[r], mounted[r][j] # m
      PROVE  \E s \in Paths : \E k \in DOMAIN mounted'[s] : mounted'[s][k] = mounted[r][j]
  <2>1. CASE r = p
    <3>1. j # Len(mounted[p])
      BY <1>3, <1>5, <2>1
    <3> QED BY <1>3, <1>4, <2>1, <3>1
  <2>2. CASE r # p
    BY <1>4, <2>2
  <2> QED BY <2>1, <2>2
<1>6. \A x : x # m => (mnt_group_id'[x] = "legit" <=> mnt_group_id[x] = "legit")
  BY <1>1
<1>7. ASSUME NEW u \in Tools PROVE ToolGroups(u)'
  <2>1. SUFFICES ASSUME pc[u] = "flag", reached'[u].steady
                 PROVE  mnt_group_id'[reached'[u].mnt] # "legit"
    BY <1>1 DEF ToolGroups, IsLegit
  <2>2. u \in KsuTasks /\ reached[u] # None
    BY <2>1 DEF SMTyped, TaskTyped, KsuTasks
  <2>3. reached'[u].mnt = reached[u].mnt /\ reached[u].steady /\ reached[u].mnt # m
    BY <1>1, <2>1, <2>2, UnsteadyAt
  <2>4. mnt_group_id[reached[u].mnt] # "legit"
    BY <2>1, <2>3 DEF SMGroups, ToolGroups, IsLegit
  <2> QED BY <1>6, <2>3, <2>4
<1>8. ASSUME NEW u \in Mounters PROVE MadeGroups(u)'
  <2>1. SUFFICES ASSUME info'[u] # None, info'[u].made # None
                 PROVE  /\ mnt_group_id'[info'[u].made] # "legit"
                        /\ \E s \in Paths : \E k \in DOMAIN mounted'[s] : mounted'[s][k] = info'[u].made
    BY DEF MadeGroups, IsLegit
  <2>2. info'[u].made = info[u].made /\ info[u].made # m /\ info[u] # None
    BY <1>1, <1>3, <2>1, UnmadeAt
  <2>3. /\ mnt_group_id[info[u].made] # "legit"
        /\ \E r \in Paths : \E j \in DOMAIN mounted[r] : mounted[r][j] = info[u].made
    BY <2>1, <2>2 DEF SMGroups, MadeGroups, IsLegit
  <2>4. mnt_group_id'[info'[u].made] # "legit"
    BY <1>6, <2>2, <2>3
  <2>5. \E s \in Paths : \E k \in DOMAIN mounted'[s] : mounted'[s][k] = info'[u].made
    BY <1>5, <2>2, <2>3
  <2> QED BY <2>4, <2>5
<1> QED BY <1>7, <1>8 DEF SMGroups

LEMMA GroupsChangeType ==
  ASSUME SMTyped, SMGroups, NEW m \in AllMounts, do_change_type(m)
  PROVE  SMGroups'
<1>1. Unsteady(m) /\ UNCHANGED <<mounted, pc, info>>
  BY DEF do_change_type
<1>2. \A x : x # m => (mnt_group_id'[x] = "legit" <=> mnt_group_id[x] = "legit")
  BY DEF do_change_type, SMTyped, SMTables
<1>3. m \notin LegitMounts => mnt_group_id'[m] # "legit"
  BY DEF do_change_type, SMTyped, SMTables
<1>4. ASSUME NEW u \in Tools PROVE ToolGroups(u)'
  <2>1. SUFFICES ASSUME pc[u] = "flag", reached'[u].steady
                 PROVE  mnt_group_id'[reached'[u].mnt] # "legit"
    BY <1>1 DEF ToolGroups, IsLegit
  <2>2. u \in KsuTasks /\ reached[u] # None
    BY <2>1 DEF SMTyped, TaskTyped, KsuTasks
  <2>3. reached'[u].mnt = reached[u].mnt /\ reached[u].steady /\ reached[u].mnt # m
    BY <1>1, <2>1, <2>2, UnsteadyAt
  <2>4. mnt_group_id[reached[u].mnt] # "legit"
    BY <2>1, <2>3 DEF SMGroups, ToolGroups, IsLegit
  <2> QED BY <1>2, <2>3, <2>4
<1>5. ASSUME NEW u \in Mounters PROVE MadeGroups(u)'
  <2>1. SUFFICES ASSUME info[u] # None, info[u].made # None
                 PROVE  /\ mnt_group_id'[info[u].made] # "legit"
                        /\ \E s \in Paths : \E k \in DOMAIN mounted[s] : mounted[s][k] = info[u].made
    BY <1>1 DEF MadeGroups, IsLegit
  <2>2. /\ mnt_group_id[info[u].made] # "legit"
        /\ \E r \in Paths : \E j \in DOMAIN mounted[r] : mounted[r][j] = info[u].made
    BY <2>1 DEF SMGroups, MadeGroups, IsLegit
  <2>3. info[u].made \in KsuMounts
    BY <2>1, MounterIs DEF SMTyped, TaskTyped, MounterTyped
  <2>4. info[u].made \notin LegitMounts
    BY <2>3, SusMountAssumption
  <2> QED BY <1>2, <1>3, <2>2, <2>4
<1> QED BY <1>4, <1>5 DEF SMGroups

LEMMA SMNextGroups == SMTyped /\ SMGroups /\ [SMNext]_SMvars => SMGroups'
<1> SUFFICES ASSUME SMTyped, SMGroups, [SMNext]_SMvars PROVE SMGroups'
  OBVIOUS
<1>d. /\ DOMAIN pc = KsuTasks /\ DOMAIN info = KsuTasks /\ DOMAIN reached = KsuTasks
      /\ \A t \in Tools : t \in KsuTasks /\ t \notin Mounters
      /\ \A t \in Mounters : t \in KsuTasks /\ t \notin Tools
  BY SusMountAssumption DEF SMTyped, KsuTasks
<1>1. CASE UNCHANGED SMvars
  BY <1>1, GroupsKeep DEF SMvars, table, task
<1>2. CASE SMNext
  <2>1. ASSUME NEW t \in Tools, NEW r \in Requests, Call(t, r) PROVE SMGroups'
    <3>1. UNCHANGED <<mnt_group_id, mounted, reached>>
      BY <2>1 DEF Call, table
    <3>2. \A u \in Tools : pc'[u] = "flag" => pc[u] = "flag"
      BY <2>1, <1>d DEF Call, Goto
    <3>3. \A u \in Mounters : info'[u] = info[u]
      BY <2>1, <1>d DEF Call
    <3> QED BY <3>1, <3>2, <3>3, GroupsKeep
  <2>2. ASSUME NEW t \in Tools, memcpy(t) PROVE SMGroups'
    <3>1. UNCHANGED <<mnt_group_id, mounted, reached, info>>
      BY <2>2 DEF memcpy, table
    <3>2. \A u \in Tools : pc'[u] = "flag" => pc[u] = "flag"
      BY <2>2, <1>d DEF memcpy, Goto
    <3> QED BY <3>1, <3>2, GroupsKeep
  <2>3. ASSUME NEW t \in Tools, not_found(t) \/ list_add_tail(t) \/ spin_unlock(t) PROVE SMGroups'
    <3>1. UNCHANGED <<mnt_group_id, mounted>>
      BY <2>3 DEF not_found, list_add_tail, spin_unlock, table
    <3>2. /\ pc'[t] # "flag"
          /\ \A u \in KsuTasks : u # t => /\ pc'[u] = pc[u] /\ reached'[u] = reached[u]
                                          /\ info'[u] = info[u]
      BY <2>3, <1>d DEF not_found, list_add_tail, spin_unlock, Goto, Return
    <3>3. \A u \in Tools : pc'[u] = "flag" => pc[u] = "flag" /\ reached'[u] = reached[u]
      BY <1>d, <3>2
    <3>4. \A u \in Mounters : info'[u] = info[u]
      BY <1>d, <3>2
    <3> QED BY <3>1, <3>3, <3>4, GroupsKeep
  <2>4. ASSUME NEW t \in Tools, kern_path(t) \/ set_flag(t) PROVE SMGroups'
    <3>1. UNCHANGED <<mnt_group_id, mounted, info>>
      BY <2>4 DEF kern_path, set_flag, table
    <3>2. /\ pc'[t] # "flag"
          /\ \A u \in KsuTasks : u # t => pc'[u] = pc[u] /\ reached'[u] = reached[u]
      BY <2>4, <1>d DEF kern_path, set_flag, Goto, Updated
    <3>3. \A u \in Tools : pc'[u] = "flag" => pc[u] = "flag" /\ reached'[u] = reached[u]
      BY <1>d, <3>2
    <3> QED BY <3>1, <3>3, GroupsKeep
  <2>5. ASSUME NEW t \in Tools, test(t) PROVE SMGroups'
    <3>1. UNCHANGED <<mnt_group_id, mounted, info, reached>>
      BY <2>5 DEF test, table
    <3>2. /\ pc'[t] = "flag" => ~IsLegit(reached[t].mnt)
          /\ \A u \in KsuTasks : u # t => pc'[u] = pc[u]
      BY <2>5, <1>d DEF test, Goto, Updated
    <3>3. \A u \in Tools : pc'[u] = "flag" =>
            \/ pc[u] = "flag" /\ reached'[u] = reached[u]
            \/ ~IsLegit(reached'[u].mnt)
      BY <1>d, <3>1, <3>2
    <3> QED BY <3>1, <3>3, GroupsKeep
  <2>6. ASSUME NEW t \in Mounters, susfs_auto_add_sus_ksu_default_mount(t) \/ set_flag(t)
        PROVE  SMGroups'
    <3>1. UNCHANGED <<mnt_group_id, mounted>>
      BY <2>6 DEF susfs_auto_add_sus_ksu_default_mount, set_flag, table
    <3>2. \A u \in KsuTasks : u # t => pc'[u] = pc[u] /\ reached'[u] = reached[u]
      BY <2>6, <1>d DEF susfs_auto_add_sus_ksu_default_mount, set_flag, Goto, Return
    <3>3. \A u \in Mounters : info'[u] = info[u] \/ info'[u] = None
      BY <2>6, <1>d DEF susfs_auto_add_sus_ksu_default_mount, set_flag, Return
    <3> QED BY <1>d, <3>1, <3>2, <3>3, GroupsKeep
  <2>7. ASSUME NEW t \in Mounters, susfs_auto_add_sus_bind_mount(t) PROVE SMGroups'
    <3>1. \A u \in KsuTasks : u # t => pc'[u] = pc[u] /\ reached'[u] = reached[u]
      BY <2>7, <1>d DEF susfs_auto_add_sus_bind_mount, Goto, Return
    <3>2. \A u \in Mounters : info'[u] = info[u] \/ info'[u] = None
      BY <2>7, <1>d DEF susfs_auto_add_sus_bind_mount, Return
    <3>3. \A u \in Tools : pc'[u] = pc[u] /\ reached'[u] = reached[u]
      BY <1>d, <3>1
    <3>4. CASE UNCHANGED table
      BY <3>2, <3>3, <3>4, GroupsKeep DEF table
    <3>5. ASSUME NEW m \in Unused, NEW q \in Paths,
                 mounted' = [mounted EXCEPT ![q] = Append(@, m)],
                 mnt_group_id' = [mnt_group_id EXCEPT ![m] = mnt_group_id[reached[t].mnt]]
          PROVE  SMGroups'
      BY <3>2, <3>3, <3>5, GroupsGain
    <3> QED BY <2>7, <3>4, <3>5 DEF susfs_auto_add_sus_bind_mount
  <2>8. ASSUME NEW t \in Mounters, NEW p \in Paths, do_new_mount(t, p) PROVE SMGroups'
    <3>1. PICK m \in Unused, i \in Inodes :
            /\ mounted' = [mounted EXCEPT ![p] = Append(@, m)]
            /\ mnt_group_id' =
                 [mnt_group_id EXCEPT ![m] = IF mnt_group_id[Leads(p).mnt] = "none" THEN "none" ELSE "sus"]
            /\ info' = [info EXCEPT ![t] = [path |-> p, made |-> m]]
      BY <2>8 DEF do_new_mount
    <3>2. PICK g \in {"none", "sus"} : mnt_group_id' = [mnt_group_id EXCEPT ![m] = g]
      BY <3>1
    <3>3. \A u \in Tools : pc'[u] = pc[u] /\ reached'[u] = reached[u]
      BY <2>8, <1>d DEF do_new_mount, Goto
    <3>4. \A u \in Mounters : info'[u] = info[u] \/ info'[u].made = m
      BY <1>d, <3>1
    <3>5. mounted' = [mounted EXCEPT ![p] = Append(@, m)]
      BY <3>1
    <3> QED BY <3>2, <3>3, <3>4, <3>5, GroupsGain
  <2>9. ASSUME NEW t \in Mounters, NEW p \in Paths, do_loopback_lookup(t, p) PROVE SMGroups'
    <3>1. UNCHANGED <<mnt_group_id, mounted, info>>
      BY <2>9 DEF do_loopback_lookup, table
    <3>2. \A u \in Tools : pc'[u] = pc[u] /\ reached'[u] = reached[u]
      BY <2>9, <1>d DEF do_loopback_lookup, Goto
    <3> QED BY <3>1, <3>2, GroupsKeep
  <2>10. ASSUME NEW t \in Mounters, NEW p \in Paths, NEW q \in Paths, do_move_mount(t, p, q)
         PROVE  SMGroups'
    BY <2>10, GroupsMoveMount
  <2>11. ASSUME NEW p \in Paths, do_umount(p) PROVE SMGroups'
    BY <2>11, GroupsUmount
  <2>12. ASSUME NEW m \in AllMounts, do_change_type(m) PROVE SMGroups'
    BY <2>12, GroupsChangeType
  <2> QED BY <1>2, <2>1, <2>2, <2>3, <2>4, <2>5, <2>6, <2>7, <2>8, <2>9, <2>10, <2>11, <2>12,
             SMNextCases
<1> QED BY <1>1, <1>2

LEMMA SMInitGroups == SMInit => SMGroups
  BY SusMountAssumption DEF SMInit, SMGroups, ToolGroups, MadeGroups, KsuTasks

LEMMA SMNextInv == SMInv /\ [SMNext]_SMvars => SMInv'
  BY SMNextTyped, SMNextEntries, SMNextGroups DEF SMInv

\* The invariant of SusMount.
THEOREM SusMountInvariance == SMSpec => []SMInv
<1>1. SMInit => SMInv
  BY SMInitTyped, SMInitEntries, SMInitGroups DEF SMInv
<1> QED BY <1>1, SMNextInv, PTL DEF SMSpec

(* An inode is only flagged by who has a pathname that led to it.            *)
LEMMA FlaggedBy ==
  ASSUME SMTyped, SMGroups, [SMNext]_SMvars, NEW i \in flagged' \ flagged
  PROVE  \E t \in KsuTasks : /\ reached[t] # None /\ reached[t].inode = i
                             /\ \/ ~IsLegit(reached[t].mnt)
                                \/ ~reached[t].steady
                                \/ t \in Mounters /\ pc[t] = "flag" /\ reached[t].mnt # info[t].made
<1>1. flagged' # flagged
  OBVIOUS
<1>2. \/ \E t \in KsuTasks : set_flag(t)
      \/ \E t \in Mounters : susfs_auto_add_sus_bind_mount(t)
  <2>1. SMNext
    BY <1>1 DEF SMvars
  <2>2. ~\E t \in Tools, r \in Requests : Call(t, r)
    BY <1>1 DEF Call
  <2>3. ~\E t \in Tools : \/ memcpy(t) \/ not_found(t) \/ kern_path(t) \/ test(t)
                          \/ list_add_tail(t) \/ spin_unlock(t)
    BY <1>1 DEF memcpy, not_found, kern_path, test, list_add_tail, spin_unlock
  <2>4. ~\E t \in Mounters : susfs_auto_add_sus_ksu_default_mount(t)
    BY <1>1 DEF susfs_auto_add_sus_ksu_default_mount
  <2>5. ~\E t \in Mounters, p \in Paths : do_new_mount(t, p) \/ do_loopback_lookup(t, p)
    BY <1>1 DEF do_new_mount, do_loopback_lookup
  <2>6. ~\E t \in Mounters, p \in Paths, q \in Paths : do_move_mount(t, p, q)
    BY <1>1 DEF do_move_mount
  <2>7. ~\E p \in Paths : do_umount(p)
    BY <1>1 DEF do_umount
  <2>8. ~\E m \in AllMounts : do_change_type(m)
    BY <1>1 DEF do_change_type
  <2>9. Tools \subseteq KsuTasks /\ Mounters \subseteq KsuTasks
    BY DEF KsuTasks
  <2> QED BY <2>1, <2>2, <2>3, <2>4, <2>5, <2>6, <2>7, <2>8, <2>9, SMNextCases
<1>3. CASE \E t \in KsuTasks : set_flag(t)
  <2>1. PICK t \in KsuTasks : set_flag(t)
    BY <1>3
  <2>2. pc[t] = "flag" /\ reached[t].inode = i
    BY <2>1 DEF set_flag
  <2>3. reached[t] # None
    BY <2>2 DEF SMTyped, TaskTyped
  <2>4. CASE t \in Tools
    BY <2>2, <2>3, <2>4 DEF SMGroups, ToolGroups
  <2>5. CASE t \in Mounters
    <3>1. info[t] # None
      BY <2>2, <2>5, MounterIs DEF SMTyped, TaskTyped, MounterTyped
    <3>2. reached[t].mnt # None
      BY <2>3, SusMountAssumption DEF SMTyped, Reached
    <3>3. reached[t].mnt = info[t].made => ~IsLegit(reached[t].mnt)
      BY <2>5, <3>1, <3>2 DEF SMGroups, MadeGroups
    <3> QED BY <2>2, <2>3, <2>5, <3>3
  <2> QED BY <2>4, <2>5 DEF KsuTasks
<1>4. CASE \E t \in Mounters : susfs_auto_add_sus_bind_mount(t)
  <2>1. PICK t \in Mounters : susfs_auto_add_sus_bind_mount(t)
    BY <1>4
  <2>2. /\ pc[t] = "loopback"
        /\ flagged' = IF IsLegit(reached[t].mnt) THEN flagged ELSE flagged \cup {reached[t].inode}
    BY <2>1 DEF susfs_auto_add_sus_bind_mount
  <2>3. reached[t].inode = i /\ ~IsLegit(reached[t].mnt)
    BY <2>2
  <2>4. reached[t] # None /\ t \in KsuTasks
    BY <2>2, MounterIs DEF SMTyped, TaskTyped
  <2> QED BY <2>3, <2>4
<1> QED BY <1>2, <1>3, <1>4

\* For any paths, mounts, tools and mounters, an inode is only flagged by a task whose
\* pathname led to it, and not through a legit mount, with the exceptions that the
\* property names.
THEOREM LegitNotFlaggedCorrect == SMSpec => LegitNotFlagged
<1> DEFINE Asked ==
      \A i \in flagged' \ flagged :
        \E t \in KsuTasks : /\ reached[t] # None /\ reached[t].inode = i
                           /\ \/ ~IsLegit(reached[t].mnt)
                              \/ ~reached[t].steady
                              \/ t \in Mounters /\ pc[t] = "flag" /\ reached[t].mnt # info[t].made
<1>1. SMInv /\ [SMNext]_SMvars => [Asked]_SMvars
  BY FlaggedBy DEF SMInv
<1> QED BY <1>1, SusMountInvariance, PTL DEF SMSpec, LegitNotFlagged
=============================================================================
