--------------------------- MODULE SusHlistProofs ---------------------------
(***************************************************************************)
(* Theorems about SusHlist, for any number of tasks, pathnames and inodes: *)
(* type correctness, the bound on duplicate entries, that a registration   *)
(* is only lost by an add that reports an error, that the flag of an       *)
(* inode precedes its entry, and that the readers show what the last       *)
(* command asked for; and about HlistWalk, for any number of commands,     *)
(* walks and nodes: that a bucket is a list without a cycle, and what a    *)
(* walk through it is sure to meet.                                        *)
(*                                                                         *)
(* The tables are sequences: hash_add is Append, hash_del is RemoveAt.     *)
(***************************************************************************)
EXTENDS SusHlist, HlistWalk, WellFoundedInduction, FiniteSetTheorems, FunctionTheorems, SequenceTheorems, TLAPS

-----------------------------------------------------------------------------
(* How many elements of a sequence belong to a set, which of them is the    *)
(* last, and how appending an element or removing one changes that.         *)
\* The positions of s that hold an element of A.
Pos(s, A) == {k \in DOMAIN s : s[k] \in A}

(* RemoveAt keeps the other elements of a list in their order.              *)
LEMMA RemoveAtShifts ==
  ASSUME NEW S, NEW s \in Seq(S), NEW k \in 1..Len(s)
  PROVE  /\ RemoveAt(s, k) \in Seq(S)
         /\ Len(RemoveAt(s, k)) = Len(s) - 1
         /\ \A i \in 1..(Len(s) - 1) :
              RemoveAt(s, k)[i] = IF i < k THEN s[i] ELSE s[i + 1]
<1> DEFINE a == SubSeq(s, 1, k - 1)
           b == SubSeq(s, k + 1, Len(s))
<1>1. a \in Seq(S) /\ Len(a) = k - 1 /\ \A i \in 1..(k - 1) : a[i] = s[i]
  OBVIOUS
<1>2. b \in Seq(S) /\ Len(b) = Len(s) - k /\ \A i \in 1..(Len(s) - k) : b[i] = s[i + k]
  OBVIOUS
<1>3. RemoveAt(s, k) = a \o b /\ Len(s) \in Nat
  BY DEF RemoveAt
<1> HIDE DEF a, b
<1>4. a \o b \in Seq(S) /\ Len(a \o b) = Len(s) - 1
  BY <1>1, <1>2, <1>3
<1>5. ASSUME NEW i \in 1..(Len(s) - 1) PROVE (a \o b)[i] = IF i < k THEN s[i] ELSE s[i + 1]
  <2>1. (a \o b)[i] = IF i < k THEN a[i] ELSE b[i - (k - 1)]
    BY <1>1, <1>2, <1>3
  <2>2. ~(i < k) => i - (k - 1) \in 1..(Len(s) - k) /\ (i - (k - 1)) + k = i + 1
    BY <1>3
  <2> QED BY <1>1, <1>2, <1>3, <2>1, <2>2
<1> QED BY <1>3, <1>4, <1>5

(* Removing a position brings in no new element.                            *)
LEMMA RemoveAtElements ==
  ASSUME NEW S, NEW s \in Seq(S), NEW k \in DOMAIN s
  PROVE  /\ RemoveAt(s, k) \in Seq(S)
         /\ \A i \in DOMAIN RemoveAt(s, k) : \E j \in DOMAIN s : RemoveAt(s, k)[i] = s[j]
<1>1. DOMAIN s = 1..Len(s) /\ Len(s) \in Nat /\ k \in 1..Len(s) /\ k \in Nat
  BY LenProperties
<1> DEFINE r == RemoveAt(s, k)
<1>2. /\ r \in Seq(S) /\ Len(r) = Len(s) - 1
      /\ \A i \in 1..(Len(s) - 1) : r[i] = IF i < k THEN s[i] ELSE s[i + 1]
  BY <1>1, RemoveAtShifts
<1> HIDE DEF r
<1>3. DOMAIN r = 1..(Len(s) - 1)
  BY <1>2, LenProperties
<1>4. ASSUME NEW i \in DOMAIN r PROVE \E j \in DOMAIN s : r[i] = s[j]
  <2>1. i \in Nat /\ i \in DOMAIN s /\ i + 1 \in DOMAIN s
    BY <1>1, <1>3
  <2>2. r[i] = s[i] \/ r[i] = s[i + 1]
    BY <1>2, <1>3
  <2> QED BY <2>1, <2>2
<1> QED BY <1>2, <1>4 DEF r

(* The positions of a set are finitely many.                                *)
LEMMA PosFinite ==
  ASSUME NEW S, NEW s \in Seq(S), NEW A
  PROVE  IsFiniteSet(Pos(s, A)) /\ Cardinality(Pos(s, A)) \in Nat
<1>1. DOMAIN s = 1..Len(s) /\ Len(s) \in Nat
  BY LenProperties
<1>2. IsFiniteSet(1..Len(s))
  BY <1>1, FS_Interval
<1>3. Pos(s, A) \in SUBSET (1..Len(s))
  BY <1>1 DEF Pos
<1> QED BY <1>2, <1>3, FS_Subset, FS_CardinalityType

(* Appending an element adds one position to the sets it belongs to.        *)
LEMMA PosAppend ==
  ASSUME NEW S, NEW s \in Seq(S), NEW e \in S, NEW A
  PROVE  Cardinality(Pos(Append(s, e), A)) =
           Cardinality(Pos(s, A)) + (IF e \in A THEN 1 ELSE 0)
<1>1. /\ DOMAIN s = 1..Len(s) /\ Len(s) \in Nat
      /\ Append(s, e) \in Seq(S)
      /\ DOMAIN Append(s, e) = 1..(Len(s) + 1)
      /\ \A i \in 1..Len(s) : Append(s, e)[i] = s[i]
      /\ Append(s, e)[Len(s) + 1] = e
  BY LenProperties, AppendProperties
<1>2. IsFiniteSet(Pos(s, A)) /\ Cardinality(Pos(s, A)) \in Nat
  BY PosFinite
<1>3. CASE e \in A
  <2>1. Pos(Append(s, e), A) = Pos(s, A) \cup {Len(s) + 1}
    BY <1>1, <1>3 DEF Pos
  <2>2. Len(s) + 1 \notin Pos(s, A)
    BY <1>1 DEF Pos
  <2> QED BY <1>2, <1>3, <2>1, <2>2, FS_AddElement
<1>4. CASE e \notin A
  <2>1. Pos(Append(s, e), A) = Pos(s, A)
    BY <1>1, <1>4 DEF Pos
  <2> QED BY <1>2, <1>4, <2>1
<1> QED BY <1>3, <1>4

(* Removing a position takes one from the sets its element belongs to.      *)
LEMMA PosRemoveAt ==
  ASSUME NEW S, NEW s \in Seq(S), NEW k \in 1..Len(s), NEW A
  PROVE  Cardinality(Pos(RemoveAt(s, k), A)) =
           Cardinality(Pos(s, A)) - (IF s[k] \in A THEN 1 ELSE 0)
<1> DEFINE r    == RemoveAt(s, k)
           old  == Pos(s, A) \ {k}
           f    == [i \in Pos(r, A) |-> IF i < k THEN i ELSE i + 1]
<1>1. /\ DOMAIN s = 1..Len(s) /\ Len(s) \in Nat /\ k \in Nat
      /\ r \in Seq(S) /\ DOMAIN r = 1..(Len(s) - 1)
      /\ \A i \in 1..(Len(s) - 1) : r[i] = IF i < k THEN s[i] ELSE s[i + 1]
  <2>1. /\ r \in Seq(S) /\ Len(r) = Len(s) - 1
        /\ \A i \in 1..(Len(s) - 1) : r[i] = IF i < k THEN s[i] ELSE s[i + 1]
    BY RemoveAtShifts
  <2> HIDE DEF r
  <2>2. DOMAIN s = 1..Len(s) /\ Len(s) \in Nat /\ DOMAIN r = 1..Len(r)
    BY <2>1, LenProperties
  <2> QED BY <2>1, <2>2
<1>2. f \in [Pos(r, A) -> old]
  <2> SUFFICES ASSUME NEW i \in Pos(r, A)
               PROVE  (IF i < k THEN i ELSE i + 1) \in old
    OBVIOUS
  <2>1. i \in 1..(Len(s) - 1) /\ r[i] \in A /\ i \in Nat
    BY <1>1 DEF Pos
  <2> HIDE DEF r
  <2> QED BY <1>1, <2>1 DEF Pos
<1>3. \A i, j \in Pos(r, A) : f[i] = f[j] => i = j
  <2> TAKE i, j \in Pos(r, A)
  <2>1. i \in Nat /\ j \in Nat
    BY <1>1 DEF Pos
  <2> HIDE DEF r
  <2> QED BY <1>1, <2>1
<1>4. \A m \in old : \E i \in Pos(r, A) : f[i] = m
  <2> TAKE m \in old
  <2>1. m \in 1..Len(s) /\ s[m] \in A /\ m # k /\ m \in Nat
    BY <1>1 DEF Pos
  <2> DEFINE i == IF m < k THEN m ELSE m - 1
  <2>2. i \in 1..(Len(s) - 1) /\ i \in Nat /\ r[i] = s[m]
    BY <1>1, <2>1
  <2>3. i \in Pos(r, A)
    BY <1>1, <2>1, <2>2 DEF Pos
  <2>4. f[i] = m
    BY <1>1, <2>1, <2>3
  <2> QED BY <2>3, <2>4
<1> HIDE DEF f
<1>5. f \in Bijection(Pos(r, A), old)
  BY <1>2, <1>3, <1>4, Fun_IsBij
<1>6. ExistsBijection(Pos(r, A), old)
  BY <1>5 DEF ExistsBijection
<1>7. IsFiniteSet(Pos(r, A)) /\ IsFiniteSet(Pos(s, A)) /\ Cardinality(Pos(s, A)) \in Nat
  BY <1>1, PosFinite
<1>8. Cardinality(old) = Cardinality(Pos(r, A))
  BY <1>6, <1>7, FS_Bijection
<1>9. Cardinality(old) = IF k \in Pos(s, A) THEN Cardinality(Pos(s, A)) - 1
                                            ELSE Cardinality(Pos(s, A))
  BY <1>7, FS_RemoveElement
<1>10. k \in Pos(s, A) <=> s[k] \in A
  BY <1>1 DEF Pos
<1> QED BY <1>7, <1>8, <1>9, <1>10

\* e is the last element of s that belongs to A.
LastIn(s, A, e) == \E k \in Pos(s, A) : s[k] = e /\ \A j \in Pos(s, A) : j <= k

(* An element of A that is appended is the last one of A; any other element *)
(* that is appended or removed leaves the last one what it is.              *)
LEMMA LastInAppended ==
  ASSUME NEW S, NEW s \in Seq(S), NEW A, NEW e \in S \cap A
  PROVE  LastIn(Append(s, e), A, e)
<1>1. /\ Len(s) \in Nat /\ DOMAIN Append(s, e) = 1..(Len(s) + 1)
      /\ Append(s, e)[Len(s) + 1] = e
  BY LenProperties, AppendProperties
<1>2. Len(s) + 1 \in Pos(Append(s, e), A)
  BY <1>1 DEF Pos
<1>3. \A j \in Pos(Append(s, e), A) : j <= Len(s) + 1
  BY <1>1 DEF Pos
<1> QED BY <1>1, <1>2, <1>3 DEF LastIn

LEMMA LastInOtherAppended ==
  ASSUME NEW S, NEW s \in Seq(S), NEW A, NEW x \in S, x \notin A, NEW e, LastIn(s, A, e)
  PROVE  LastIn(Append(s, x), A, e)
<1>1. /\ Len(s) \in Nat /\ DOMAIN s = 1..Len(s) /\ DOMAIN Append(s, x) = 1..(Len(s) + 1)
      /\ \A i \in 1..Len(s) : Append(s, x)[i] = s[i]
      /\ Append(s, x)[Len(s) + 1] = x
  BY LenProperties, AppendProperties
<1>2. Pos(Append(s, x), A) = Pos(s, A)
  BY <1>1 DEF Pos
<1>3. \A k \in Pos(s, A) : Append(s, x)[k] = s[k]
  BY <1>1 DEF Pos
<1> QED BY <1>2, <1>3 DEF LastIn

LEMMA LastInOtherRemoved ==
  ASSUME NEW S, NEW s \in Seq(S), NEW A, NEW k \in DOMAIN s, s[k] \notin A,
         NEW e, LastIn(s, A, e)
  PROVE  LastIn(RemoveAt(s, k), A, e)
<1> DEFINE r == RemoveAt(s, k)
<1>1. /\ Len(s) \in Nat /\ DOMAIN s = 1..Len(s) /\ k \in Nat /\ k \in 1..Len(s)
  BY LenProperties
<1>2. /\ r \in Seq(S) /\ Len(r) = Len(s) - 1
      /\ \A i \in 1..(Len(s) - 1) : r[i] = IF i < k THEN s[i] ELSE s[i + 1]
  BY <1>1, RemoveAtShifts
<1>3. DOMAIN r = 1..(Len(s) - 1)
  BY <1>2, LenProperties
<1> HIDE DEF r
<1>4. PICK m \in Pos(s, A) : s[m] = e /\ \A j \in Pos(s, A) : j <= m
  BY DEF LastIn
<1>5. m \in 1..Len(s) /\ m \in Nat /\ m # k /\ s[m] \in A
  BY <1>1, <1>4 DEF Pos
<1> DEFINE n == IF m < k THEN m ELSE m - 1
<1>6. n \in DOMAIN r /\ r[n] = s[m] /\ n \in Nat
  BY <1>1, <1>2, <1>3, <1>5
<1>7. n \in Pos(r, A)
  BY <1>5, <1>6 DEF Pos
<1>8. ASSUME NEW j \in Pos(r, A) PROVE j <= n
  <2>1. j \in 1..(Len(s) - 1) /\ j \in Nat /\ r[j] \in A
    BY <1>1, <1>3 DEF Pos
  <2>2. CASE j < k
    <3>1. j \in Pos(s, A)
      BY <1>1, <1>2, <2>1, <2>2 DEF Pos
    <3> QED BY <1>1, <1>4, <1>5, <2>1, <2>2, <3>1
  <2>3. CASE ~(j < k)
    <3>1. j + 1 \in Pos(s, A)
      BY <1>1, <1>2, <2>1, <2>3 DEF Pos
    <3>2. j + 1 <= m
      BY <1>4, <3>1
    <3> QED BY <1>1, <1>5, <2>1, <2>3, <3>2
  <2> QED BY <2>2, <2>3
<1> HIDE DEF n
<1>9. LastIn(r, A, e)
  BY <1>4, <1>6, <1>7, <1>8 DEF LastIn
<1> QED BY <1>9 DEF r

(* A set of numbers has a least one, and the positions of a sequence in a   *)
(* set have a last one.                                                     *)
LEMMA LeastExists ==
  ASSUME NEW T \in SUBSET Nat, T # {}
  PROVE  \E m \in T : \A l \in T : m <= l
  <1> DEFINE R == OpToRel(<, Nat)
  <1>1. IsWellFoundedOn(R, Nat)
    BY NatLessThanWellFounded
  <1> HIDE DEF R
  <1>2. PICK m \in T : \A l \in T : ~(<<l, m>> \in R)
    BY <1>1, WFMin
  <1>3. \A l \in T : ~(l < m)
    BY <1>2 DEF R, OpToRel
  <1> QED BY <1>3

LEMMA LastExists ==
  ASSUME NEW S, NEW s \in Seq(S), NEW A, Pos(s, A) # {}
  PROVE  \E k \in Pos(s, A) : \A j \in Pos(s, A) : j <= k
<1>1. Len(s) \in Nat /\ Pos(s, A) \subseteq 1..Len(s)
  BY LenProperties DEF Pos
<1> DEFINE T == {Len(s) - k : k \in Pos(s, A)}
<1>2. T \subseteq Nat /\ T # {}
  BY <1>1
<1>3. PICK x \in T : \A y \in T : x <= y
  <2> HIDE DEF T
  <2> QED BY <1>2, LeastExists
<1>4. PICK k \in Pos(s, A) : x = Len(s) - k
  OBVIOUS
<1>5. ASSUME NEW j \in Pos(s, A) PROVE j <= k
  <2>1. x <= Len(s) - j
    BY <1>3
  <2> QED BY <1>1, <1>4, <2>1
<1> QED BY <1>5

-----------------------------------------------------------------------------
(* Entries and their positions.                                             *)
EntriesOf(p) == {e \in Entry : e.path = p}

LEMMA EntryFacts ==
  ASSUME TypeOK, NEW tbl \in Tables
  PROVE  /\ hlist[tbl] \in Seq(Entry)
         /\ Len(hlist[tbl]) \in Nat
         /\ DOMAIN hlist[tbl] = 1..Len(hlist[tbl])
         /\ \A k \in DOMAIN hlist[tbl] : hlist[tbl][k] \in Entry
<1>1. hlist[tbl] \in Seq(Entry)
  BY DEF TypeOK
<1> QED BY <1>1, LenProperties, ElementOfSeq

LEMMA DupsArePos ==
  ASSUME TypeOK, NEW tbl \in Tables, NEW p \in Paths
  PROVE  /\ Dups(tbl, p) = Pos(hlist[tbl], EntriesOf(p))
         /\ IsFiniteSet(Dups(tbl, p))
         /\ Cardinality(Dups(tbl, p)) \in Nat
<1>1. Dups(tbl, p) = Pos(hlist[tbl], EntriesOf(p))
  BY EntryFacts DEF Dups, Pos, EntriesOf
<1> QED BY <1>1, EntryFacts, PosFinite

\* The same fact about the next state, which the lemma above does not reach.
LEMMA DupsArePosNext ==
  ASSUME TypeOK', NEW tbl \in Tables, NEW p \in Paths
  PROVE  Dups(tbl, p)' = Pos(hlist'[tbl], EntriesOf(p))
<1>1. hlist'[tbl] \in Seq(Entry)
  BY DEF TypeOK
<1>2. \A k \in DOMAIN hlist'[tbl] : hlist'[tbl][k] \in Entry
  BY <1>1, LenProperties, ElementOfSeq
<1> QED BY <1>2 DEF Dups, Pos, EntriesOf

(* The three ways an action changes a table, and what they do to the        *)
(* number of entries of each pathname.                                      *)
LEMMA Removal ==
  ASSUME TypeOK, NEW tbl \in Tables, NEW k \in DOMAIN hlist[tbl],
         hlist' = [hlist EXCEPT ![tbl] = RemoveAt(hlist[tbl], k)],
         TypeOK'
  PROVE  \A b \in Tables, p \in Paths :
           Cardinality(Dups(b, p)') = Cardinality(Dups(b, p))
             - (IF b = tbl /\ hlist[tbl][k].path = p THEN 1 ELSE 0)
<1> TAKE b \in Tables, p \in Paths
<1>1. Dups(b, p) = Pos(hlist[b], EntriesOf(p)) /\ Cardinality(Dups(b, p)) \in Nat
  BY DupsArePos
<1>2. Dups(b, p)' = Pos(hlist'[b], EntriesOf(p))
  BY DupsArePosNext
<1>3. CASE b = tbl
  <2>1. hlist'[b] = RemoveAt(hlist[b], k)
    BY <1>3 DEF TypeOK
  <2>2. hlist[b][k] \in EntriesOf(p) <=> hlist[tbl][k].path = p
    BY <1>3, EntryFacts DEF EntriesOf
  <2>3. hlist[b] \in Seq(Entry) /\ k \in 1..Len(hlist[b])
    BY <1>3, EntryFacts
  <2>4. Cardinality(Pos(RemoveAt(hlist[b], k), EntriesOf(p))) =
          Cardinality(Pos(hlist[b], EntriesOf(p)))
            - (IF hlist[b][k] \in EntriesOf(p) THEN 1 ELSE 0)
    BY <2>3, PosRemoveAt
  <2> QED BY <1>1, <1>2, <1>3, <2>1, <2>2, <2>4
<1>4. CASE b # tbl
  <2>1. hlist'[b] = hlist[b]
    BY <1>4 DEF TypeOK
  <2> QED BY <1>1, <1>2, <1>4, <2>1
<1> QED BY <1>3, <1>4

LEMMA Addition ==
  ASSUME TypeOK, NEW tbl \in Tables, NEW e \in Entry,
         hlist' = [hlist EXCEPT ![tbl] = Append(hlist[tbl], e)],
         TypeOK'
  PROVE  \A b \in Tables, p \in Paths :
           Cardinality(Dups(b, p)') = Cardinality(Dups(b, p))
             + (IF b = tbl /\ e.path = p THEN 1 ELSE 0)
<1> TAKE b \in Tables, p \in Paths
<1>1. Dups(b, p) = Pos(hlist[b], EntriesOf(p)) /\ Cardinality(Dups(b, p)) \in Nat
  BY DupsArePos
<1>2. Dups(b, p)' = Pos(hlist'[b], EntriesOf(p))
  BY DupsArePosNext
<1>3. CASE b = tbl
  <2>1. hlist'[b] = Append(hlist[b], e)
    BY <1>3 DEF TypeOK
  <2>2. Cardinality(Pos(Append(hlist[b], e), EntriesOf(p))) =
          Cardinality(Pos(hlist[b], EntriesOf(p)))
            + (IF e \in EntriesOf(p) THEN 1 ELSE 0)
    BY EntryFacts, PosAppend
  <2>3. e \in EntriesOf(p) <=> e.path = p
    BY DEF EntriesOf
  <2> QED BY <1>1, <1>2, <1>3, <2>1, <2>2, <2>3
<1>4. CASE b # tbl
  <2>1. hlist'[b] = hlist[b]
    BY <1>4 DEF TypeOK
  <2> QED BY <1>1, <1>2, <1>4, <2>1
<1> QED BY <1>3, <1>4

LEMMA Replacement ==
  ASSUME TypeOK, NEW tbl \in Tables, NEW k \in DOMAIN hlist[tbl], NEW e \in Entry,
         e.path = hlist[tbl][k].path,
         hlist' = [hlist EXCEPT ![tbl] = Append(RemoveAt(hlist[tbl], k), e)],
         TypeOK'
  PROVE  \A b \in Tables, p \in Paths :
           Cardinality(Dups(b, p)') = Cardinality(Dups(b, p))
<1> TAKE b \in Tables, p \in Paths
<1>1. Dups(b, p) = Pos(hlist[b], EntriesOf(p)) /\ Cardinality(Dups(b, p)) \in Nat
  BY DupsArePos
<1>2. Dups(b, p)' = Pos(hlist'[b], EntriesOf(p))
  BY DupsArePosNext
<1>3. CASE b = tbl
  <2> DEFINE r == RemoveAt(hlist[b], k)
             A == EntriesOf(p)
  <2>1. hlist'[b] = Append(r, e)
    BY <1>3 DEF TypeOK
  <2>2. hlist[b] \in Seq(Entry) /\ k \in 1..Len(hlist[b])
    BY <1>3, EntryFacts
  <2>3. /\ r \in Seq(Entry)
        /\ Cardinality(Pos(r, A)) = Cardinality(Pos(hlist[b], A))
                                      - (IF hlist[b][k] \in A THEN 1 ELSE 0)
    BY <2>2, RemoveAtShifts, PosRemoveAt
  <2>4. Cardinality(Pos(Append(r, e), A)) = Cardinality(Pos(r, A))
                                              + (IF e \in A THEN 1 ELSE 0)
    BY <2>3, PosAppend
  <2>5. e \in A <=> hlist[b][k] \in A
    BY <1>3, EntryFacts DEF EntriesOf
  <2> HIDE DEF r, A
  <2>6. Cardinality(Pos(Append(r, e), A)) = Cardinality(Pos(hlist[b], A))
    BY <1>1, <2>3, <2>4, <2>5 DEF A
  <2> QED BY <1>1, <1>2, <2>1, <2>6 DEF A
<1>4. CASE b # tbl
  <2>1. hlist'[b] = hlist[b]
    BY <1>4 DEF TypeOK
  <2> QED BY <1>1, <1>2, <1>4, <2>1
<1> QED BY <1>3, <1>4

-----------------------------------------------------------------------------
(* Type correctness, one lemma per action.                                  *)
LEMMA TypeCall ==
  ASSUME TypeOK, NEW t \in Tasks, NEW tbl \in Tables, NEW p \in Paths, NEW v \in Val,
         NEW to \in {"del", "upd"}, to = "upd" => tbl = "kstat",
         Call(t, tbl, p, v, to)
  PROVE  TypeOK'
<1> DEFINE a == [tbl |-> tbl, path |-> p, ino |-> InoOf[resolve[p]], val |-> v,
                 node |-> NoInode]
<1>1. InoOf[resolve[p]] \in Inos
  BY InodesAssumption DEF TypeOK, Call
<1>2. a \in Arg
  BY <1>1 DEF Arg
<1>3. arg' = [arg EXCEPT ![t] = a] /\ pc' = [pc EXCEPT ![t] = to]
  BY DEF Call
<1>4. UNCHANGED <<hlist, flags, resolve, acked, evicted>>
  BY DEF Call
<1>5. a.tbl = tbl
  OBVIOUS
<1> HIDE DEF a
<1> QED BY <1>2, <1>3, <1>4, <1>5 DEF TypeOK, Idle

LEMMA TypeReturn ==
  ASSUME TypeOK, NEW t \in Tasks, pc[t] # Idle, NEW r \in Entry \cup {NoEntry},
         Return(t, r),
         hlist' \in [Tables -> Seq(Entry)], flags' \in [Inodes -> SUBSET Tables],
         UNCHANGED <<resolve, evicted>>
  PROVE  TypeOK'
<1>1. arg[t].tbl \in Tables /\ arg[t].path \in Paths
  BY DEF TypeOK, Arg
<1>2. /\ pc' = [pc EXCEPT ![t] = Idle]
      /\ arg' = [arg EXCEPT ![t] = NoArg]
      /\ acked' = [acked EXCEPT ![arg[t].tbl][arg[t].path] = r]
  BY DEF Return
<1>3. acked' \in [Tables -> [Paths -> Entry \cup {NoEntry}]]
  BY <1>1, <1>2 DEF TypeOK
<1> QED BY <1>2, <1>3 DEF TypeOK, Idle

LEMMA TypeDeleteOld ==
  ASSUME TypeOK, NEW t \in Tasks, delete_old(t)
  PROVE  TypeOK'
<1>1. /\ pc[t] = "del" /\ pc' = [pc EXCEPT ![t] = "alloc"]
      /\ UNCHANGED <<flags, resolve, arg, acked, evicted>>
  BY DEF delete_old
<1>2. arg[t].tbl \in Tables
  BY <1>1 DEF TypeOK, Arg, Idle
<1>3. hlist' \in [Tables -> Seq(Entry)]
  <2>1. CASE UNCHANGED hlist
    BY <2>1 DEF TypeOK
  <2>2. ASSUME NEW k \in Dups(arg[t].tbl, arg[t].path),
               hlist' = [hlist EXCEPT ![arg[t].tbl] = RemoveAt(hlist[arg[t].tbl], k)]
        PROVE  hlist' \in [Tables -> Seq(Entry)]
    <3>1. k \in 1..Len(hlist[arg[t].tbl]) /\ hlist[arg[t].tbl] \in Seq(Entry)
      BY <1>2, EntryFacts DEF Dups
    <3>2. RemoveAt(hlist[arg[t].tbl], k) \in Seq(Entry)
      BY <3>1, RemoveAtShifts
    <3> QED BY <1>2, <2>2, <3>2 DEF TypeOK
  <2> QED BY <2>1, <2>2 DEF delete_old
<1> QED BY <1>1, <1>3 DEF TypeOK, Idle

LEMMA TypeFails ==
  ASSUME TypeOK, NEW t \in Tasks, kmalloc_fails(t) \/ update_inode_fails(t)
  PROVE  TypeOK'
<1>1. pc[t] # Idle /\ Return(t, NoEntry) /\ UNCHANGED <<hlist, flags, resolve, evicted>>
  BY DEF kmalloc_fails, update_inode_fails, ReturnError, Idle
<1>2. hlist' \in [Tables -> Seq(Entry)] /\ flags' \in [Inodes -> SUBSET Tables]
  BY <1>1 DEF TypeOK
<1> QED BY <1>1, <1>2, TypeReturn

LEMMA TypeUpdateInode ==
  ASSUME TypeOK, NEW t \in Tasks, update_inode(t)
  PROVE  TypeOK'
<1> DEFINE n == resolve[arg[t].path]
<1>1. pc[t] = "alloc" /\ arg[t] \in Arg
  BY DEF update_inode, TypeOK, Idle
<1>2. n \in Inodes
  BY DEF update_inode, Refused
<1>3. /\ flags' = [flags EXCEPT ![n] = flags[n] \cup {arg[t].tbl}]
      /\ arg' = [arg EXCEPT ![t] = [arg[t] EXCEPT !.node = n]]
      /\ pc' = [pc EXCEPT ![t] = "add"]
      /\ UNCHANGED <<hlist, resolve, acked, evicted>>
  BY DEF update_inode
<1> HIDE DEF n
<1>4. [arg[t] EXCEPT !.node = n] \in Arg /\ [arg[t] EXCEPT !.node = n].node = n
  BY <1>1, <1>2 DEF Arg
<1>5. flags' \in [Inodes -> SUBSET Tables]
  BY <1>1, <1>2, <1>3 DEF TypeOK, Arg
<1>6. \A u \in Tasks : /\ arg'[u] = IF u = t THEN [arg[t] EXCEPT !.node = n] ELSE arg[u]
                     /\ pc'[u] = IF u = t THEN "add" ELSE pc[u]
  BY <1>3 DEF TypeOK
<1>7. arg' \in [Tasks -> Arg \cup {NoArg}]
  BY <1>3, <1>4 DEF TypeOK
<1> QED BY <1>2, <1>3, <1>4, <1>5, <1>6, <1>7 DEF TypeOK, Idle

LEMMA NewEntryType ==
  ASSUME TypeOK, NEW t \in Tasks, pc[t] = "add"
  PROVE  /\ arg[t].tbl \in Tables
         /\ NewEntry(t, arg[t].node) \in Entry
         /\ NewEntry(t, arg[t].node).path = arg[t].path
         /\ NewEntry(t, arg[t].node).node = arg[t].node
<1>1. arg[t] \in Arg /\ arg[t].node \in Inodes
  BY DEF TypeOK, Idle
<1> QED BY <1>1 DEF Arg, Entry, NewEntry

LEMMA TypeAddEntry ==
  ASSUME TypeOK, NEW t \in Tasks, add_entry(t)
  PROVE  TypeOK'
<1> DEFINE e == NewEntry(t, arg[t].node)
           b == arg[t].tbl
<1>1. /\ pc[t] = "add"
      /\ hlist' = [hlist EXCEPT ![b] = Append(hlist[b], e)]
      /\ Return(t, e)
      /\ UNCHANGED <<flags, resolve, evicted>>
  BY DEF add_entry, hash_add
<1>2. b \in Tables /\ e \in Entry
  BY <1>1, NewEntryType
<1> HIDE DEF e, b
<1>3. hlist' \in [Tables -> Seq(Entry)]
  <2>1. Append(hlist[b], e) \in Seq(Entry)
    BY <1>2, EntryFacts, AppendProperties
  <2> QED BY <1>1, <1>2, <2>1 DEF TypeOK
<1>4. pc[t] # Idle /\ flags' \in [Inodes -> SUBSET Tables]
  BY <1>1 DEF TypeOK, Idle
<1> QED BY <1>1, <1>2, <1>3, <1>4, TypeReturn

\* The entry update_replace puts in the place of the one at position k.
Updated(t, k) ==
  [path |-> arg[t].path, ino |-> arg[t].ino, node |-> resolve[arg[t].path],
   val |-> NewSize(hlist["kstat"][k].val, arg[t].val.size)]

LEMMA UpdatedType ==
  ASSUME TypeOK, NEW t \in Tasks, pc[t] = "upd", ~Refused("kstat", arg[t].path),
         NEW k \in Dups("kstat", arg[t].path)
  PROVE  /\ "kstat" \in Tables
         /\ arg[t].path \in Paths /\ resolve[arg[t].path] \in Inodes
         /\ k \in DOMAIN hlist["kstat"]
         /\ Updated(t, k) \in Entry
         /\ Updated(t, k).path = hlist["kstat"][k].path
         /\ Updated(t, k).path = arg[t].path
         /\ Updated(t, k).node = resolve[arg[t].path]
<1>1. arg[t] \in Arg /\ arg[t].tbl = "kstat"
  BY DEF TypeOK, Idle
<1>2. "kstat" \in Tables /\ arg[t].path \in Paths /\ arg[t].ino \in Inos /\ arg[t].val \in Val
  BY <1>1 DEF Arg
<1>3. resolve[arg[t].path] \in Inodes
  BY DEF Refused
<1>4. k \in DOMAIN hlist["kstat"] /\ hlist["kstat"][k] \in Entry
      /\ hlist["kstat"][k].path = arg[t].path
  BY <1>2, EntryFacts DEF Dups
<1> DEFINE w == NewSize(hlist["kstat"][k].val, arg[t].val.size)
<1>5. w \in Val
  BY <1>2, <1>4 DEF Val, Entry, NewSize
<1> HIDE DEF w
<1> QED BY <1>2, <1>3, <1>4, <1>5 DEF Entry, Updated, w

LEMMA TypeUpdateReplace ==
  ASSUME TypeOK, NEW t \in Tasks, pc[t] = "upd", update_replace(t),
         UNCHANGED <<resolve, evicted>>
  PROVE  TypeOK'
<1> DEFINE p == arg[t].path
           n == resolve[p]
<1>1. /\ ~Refused("kstat", p)
      /\ flags' = [flags EXCEPT ![n] = flags[n] \cup {"kstat"}]
  BY DEF update_replace
<1>2. PICK k \in Dups("kstat", p) :
         \/ Return(t, acked["kstat"][arg[t].path]) /\ UNCHANGED hlist
         \/ /\ hlist' = [hlist EXCEPT !["kstat"] =
                            Append(RemoveAt(hlist["kstat"], k), Updated(t, k))]
            /\ Return(t, Updated(t, k))
  BY DEF update_replace, ReturnAsBefore, hash_add, Updated, TypeOK
<1>3. "kstat" \in Tables /\ n \in Inodes /\ Updated(t, k) \in Entry
      /\ k \in DOMAIN hlist["kstat"]
  BY <1>1, UpdatedType
<1>4. flags' \in [Inodes -> SUBSET Tables]
  BY <1>1, <1>3 DEF TypeOK
<1>5. acked["kstat"][arg[t].path] \in Entry \cup {NoEntry}
  <2>1. arg[t].path \in Paths
    BY DEF TypeOK, Arg, Idle
  <2> QED BY <1>3, <2>1 DEF TypeOK
<1> HIDE DEF n, p
<1>6. CASE Return(t, acked["kstat"][arg[t].path]) /\ UNCHANGED hlist
  <2>1. hlist' \in [Tables -> Seq(Entry)] /\ pc[t] # Idle
    BY <1>6 DEF TypeOK, Idle
  <2> QED BY <1>4, <1>5, <1>6, <2>1, TypeReturn
<1>7. CASE /\ hlist' = [hlist EXCEPT !["kstat"] =
                           Append(RemoveAt(hlist["kstat"], k), Updated(t, k))]
           /\ Return(t, Updated(t, k))
  <2>1. Append(RemoveAt(hlist["kstat"], k), Updated(t, k)) \in Seq(Entry)
    <3>1. hlist["kstat"] \in Seq(Entry) /\ k \in 1..Len(hlist["kstat"])
      BY <1>3, EntryFacts
    <3>2. RemoveAt(hlist["kstat"], k) \in Seq(Entry)
      BY <3>1, RemoveAtShifts
    <3> QED BY <1>3, <3>2, AppendProperties
  <2>2. hlist' \in [Tables -> Seq(Entry)]
    BY <1>3, <1>7, <2>1 DEF TypeOK
  <2>3. pc[t] # Idle
    BY DEF Idle
  <2> QED BY <1>3, <1>4, <1>7, <2>2, <2>3, TypeReturn
<1> QED BY <1>2, <1>6, <1>7

-----------------------------------------------------------------------------
(* The steps of the specification, without the commands they belong to.     *)
CallStep == \E t \in Tasks, tbl \in Tables, p \in Paths, v \in Val, to \in {"del", "upd"} :
              (to = "upd" => tbl = "kstat") /\ Call(t, tbl, p, v, to)

FailStep(t) == kmalloc_fails(t) \/ update_inode_fails(t)

UpdateStep(t) ==
  /\ pc[t] = "upd"
  /\ update_not_found(t) \/ update_refused(t) \/ update_replace(t)
  /\ UNCHANGED <<resolve, evicted>>

LEMMA NextSteps ==
  ASSUME TypeOK, Next
  PROVE  \/ CallStep
         \/ \E t \in Tasks : \/ delete_old(t) \/ FailStep(t) \/ update_inode(t)
                             \/ add_entry(t) \/ UpdateStep(t)
         \/ \E p \in Paths : Relink(p)
         \/ \E n \in Inodes : Evict(n)
<1>1. ASSUME NEW t \in Tasks, NEW tbl, add_steps(t, tbl)
      PROVE  delete_old(t) \/ FailStep(t) \/ update_inode(t) \/ add_entry(t)
  BY <1>1 DEF add_steps, FailStep
<1>2. ASSUME NEW t \in Tasks, NEW tbl, NEW p \in Paths, NEW v \in Val,
             NEW to \in {"del", "upd"}, to = "upd" => tbl = "kstat",
             Call(t, tbl, p, v, to)
      PROVE  CallStep
  <2>1. tbl \in Tables
    BY <1>2 DEF Call
  <2> QED BY <1>2, <2>1 DEF CallStep
<1>3. \A d \in Data, z \in Sizes : [data |-> d, size |-> z] \in Val
  BY DEF Val
<1>4. NoData \in Data /\ 0 \in Sizes
  BY InodesAssumption
<1>5. ASSUME NEW t \in Tasks, susfs_add_sus_path(t)
      PROVE  CallStep \/ delete_old(t) \/ FailStep(t) \/ update_inode(t) \/ add_entry(t)
  <2>1. CASE add_steps(t, "path")
    BY <1>1, <2>1
  <2>2. ASSUME NEW p \in Paths, Call(t, "path", p, [data |-> NoData, size |-> 0], "del")
        PROVE  CallStep
    BY <1>2, <1>3, <1>4, <2>2
  <2> QED BY <1>5, <2>1, <2>2 DEF susfs_add_sus_path
<1>6. ASSUME NEW t \in Tasks, susfs_add_sus_kstat(t)
      PROVE  CallStep \/ delete_old(t) \/ FailStep(t) \/ update_inode(t) \/ add_entry(t)
  <2>1. CASE add_steps(t, "kstat")
    BY <1>1, <2>1
  <2>2. ASSUME NEW p \in Paths, NEW d \in Data, NEW z \in Sizes,
               Call(t, "kstat", p, [data |-> d, size |-> z], "del")
        PROVE  CallStep
    BY <1>2, <1>3, <2>2
  <2> QED BY <1>6, <2>1, <2>2 DEF susfs_add_sus_kstat
<1>7. ASSUME NEW t \in Tasks, susfs_add_open_redirect(t)
      PROVE  CallStep \/ delete_old(t) \/ FailStep(t) \/ update_inode(t) \/ add_entry(t)
  <2>1. CASE add_steps(t, "redirect")
    BY <1>1, <2>1
  <2>2. ASSUME NEW p \in Paths, NEW d \in Data,
               Call(t, "redirect", p, [data |-> d, size |-> 0], "del")
        PROVE  CallStep
    BY <1>2, <1>3, <1>4, <2>2
  <2> QED BY <1>7, <2>1, <2>2 DEF susfs_add_open_redirect
<1>8. ASSUME NEW t \in Tasks, susfs_update_sus_kstat(t)
      PROVE  CallStep \/ UpdateStep(t)
  <2>1. ASSUME NEW p \in Paths, NEW z \in Sizes,
               Call(t, "kstat", p, [data |-> NoData, size |-> z], "upd")
        PROVE  CallStep
    BY <1>2, <1>3, <1>4, <2>1
  <2> QED BY <1>8, <2>1 DEF susfs_update_sus_kstat, UpdateStep
<1> QED BY <1>5, <1>6, <1>7, <1>8, InodesAssumption DEF Next

LEMMA TypeInit == Init => TypeOK
<1> SUFFICES ASSUME Init PROVE TypeOK
  OBVIOUS
<1>1. <<>> \in Seq(Entry)
  BY EmptySeq
<1> QED BY <1>1, InodesAssumption DEF Init, TypeOK, Idle

LEMMA TypeUpdateStep ==
  ASSUME TypeOK, NEW t \in Tasks, UpdateStep(t)
  PROVE  TypeOK'
<1>1. pc[t] = "upd" /\ pc[t] # Idle /\ arg[t] \in Arg /\ arg[t].tbl = "kstat"
  BY DEF UpdateStep, Idle, TypeOK
<1>2. CASE update_replace(t)
  BY <1>1, <1>2, TypeUpdateReplace DEF UpdateStep
<1>3. CASE update_not_found(t) \/ update_refused(t)
  <2>1. PICK r \in Entry \cup {NoEntry} : Return(t, r)
    <3>1. acked["kstat"][arg[t].path] \in Entry \cup {NoEntry}
      BY <1>1 DEF TypeOK, Arg
    <3> QED BY <1>1, <1>3, <3>1 DEF update_not_found, update_refused, ReturnAsBefore
  <2>2. /\ UNCHANGED <<hlist, flags, resolve, evicted>>
        /\ hlist' \in [Tables -> Seq(Entry)] /\ flags' \in [Inodes -> SUBSET Tables]
    BY <1>3 DEF UpdateStep, update_not_found, update_refused, TypeOK
  <2> QED BY <1>1, <2>1, <2>2, TypeReturn
<1> QED BY <1>2, <1>3 DEF UpdateStep

LEMMA TypeNext == TypeOK /\ [Next]_vars => TypeOK'
<1> SUFFICES ASSUME TypeOK, [Next]_vars PROVE TypeOK'
  OBVIOUS
<1>1. CASE UNCHANGED vars
  BY <1>1 DEF vars, TypeOK
<1>2. CASE CallStep
  BY <1>2, TypeCall DEF CallStep
<1>3. CASE \E t \in Tasks : delete_old(t)
  BY <1>3, TypeDeleteOld
<1>4. CASE \E t \in Tasks : FailStep(t)
  BY <1>4, TypeFails DEF FailStep
<1>5. CASE \E t \in Tasks : update_inode(t)
  BY <1>5, TypeUpdateInode
<1>6. CASE \E t \in Tasks : add_entry(t)
  BY <1>6, TypeAddEntry
<1>7. CASE \E t \in Tasks : UpdateStep(t)
  BY <1>7, TypeUpdateStep
<1>8. CASE \E p \in Paths : Relink(p)
  BY <1>8 DEF Relink, TypeOK
<1>9. CASE \E n \in Inodes : Evict(n)
  BY <1>9 DEF Evict, TypeOK
<1> QED BY <1>1, <1>2, <1>3, <1>4, <1>5, <1>6, <1>7, <1>8, <1>9, NextSteps

(* Every reachable state of the registries is well typed: in particular no  *)
(* entry is inserted for a pathname whose inode was not found.              *)
THEOREM TypeCorrect == Spec => []TypeOK
<1> QED BY TypeInit, TypeNext, PTL DEF Spec

-----------------------------------------------------------------------------
(* Duplicates.  What each step does to the tasks in flight.                 *)
LEMMA InFlightFinite ==
  ASSUME NEW tbl \in Tables, NEW p \in Paths
  PROVE  /\ InFlight(tbl, p) \subseteq Tasks /\ InFlight(tbl, p)' \subseteq Tasks
         /\ IsFiniteSet(InFlight(tbl, p))
         /\ Cardinality(InFlight(tbl, p)) \in Nat
         /\ Cardinality(InFlight(tbl, p)') \in Nat
         /\ Cardinality(InFlight(tbl, p)') <= Cardinality(Tasks)
         /\ Cardinality(Tasks) \in Nat
<1>1. InFlight(tbl, p) \in SUBSET Tasks /\ InFlight(tbl, p)' \in SUBSET Tasks
  BY DEF InFlight
<1> QED BY <1>1, TasksAssumption, FS_Subset, FS_CardinalityType

LEMMA ReturnLeaves ==
  ASSUME TypeOK, NEW t \in Tasks, NEW r, Return(t, r),
         NEW tbl \in Tables, NEW p \in Paths
  PROVE  /\ InFlight(tbl, p)' = InFlight(tbl, p) \ {t}
         /\ Cardinality(InFlight(tbl, p)') =
              Cardinality(InFlight(tbl, p)) - (IF t \in InFlight(tbl, p) THEN 1 ELSE 0)
<1>1. InFlight(tbl, p)' = InFlight(tbl, p) \ {t}
  BY DEF InFlight, Return, TypeOK, Idle
<1>2. IsFiniteSet(InFlight(tbl, p)) /\ Cardinality(InFlight(tbl, p)) \in Nat
  BY InFlightFinite
<1>3. Cardinality(InFlight(tbl, p) \ {t}) =
        IF t \in InFlight(tbl, p) THEN Cardinality(InFlight(tbl, p)) - 1
                                  ELSE Cardinality(InFlight(tbl, p))
  BY <1>2, FS_RemoveElement
<1> QED BY <1>1, <1>2, <1>3

LEMMA SameCounts ==
  ASSUME UNCHANGED hlist, \A tbl \in Tables, p \in Paths : InFlight(tbl, p)' \subseteq InFlight(tbl, p),
         DuplicatesBounded, TypeOK
  PROVE  DuplicatesBounded'
<1> SUFFICES ASSUME NEW tbl \in Tables, NEW p \in Paths
             PROVE  Cardinality(Dups(tbl, p)') + Cardinality(InFlight(tbl, p)')
                      <= Cardinality(Tasks)
  BY DEF DuplicatesBounded
<1>1. Dups(tbl, p)' = Dups(tbl, p) /\ Cardinality(Dups(tbl, p)) \in Nat
  BY DupsArePos DEF Dups
<1>2. InFlight(tbl, p)' \in SUBSET InFlight(tbl, p)
  OBVIOUS
<1>3. Cardinality(InFlight(tbl, p)') <= Cardinality(InFlight(tbl, p))
  BY <1>2, InFlightFinite, FS_Subset
<1> QED BY <1>1, <1>3, InFlightFinite DEF DuplicatesBounded

LEMMA BoundDeleteOld ==
  ASSUME TypeOK, TypeOK', DuplicatesBounded, NEW t \in Tasks, delete_old(t)
  PROVE  DuplicatesBounded'
<1> SUFFICES ASSUME NEW tbl \in Tables, NEW p \in Paths
             PROVE  Cardinality(Dups(tbl, p)') + Cardinality(InFlight(tbl, p)')
                      <= Cardinality(Tasks)
  BY DEF DuplicatesBounded
<1> DEFINE own == arg[t].tbl = tbl /\ arg[t].path = p
<1>1. /\ pc[t] = "del" /\ pc' = [pc EXCEPT ![t] = "alloc"]
      /\ UNCHANGED <<flags, resolve, arg, acked, evicted>>
      /\ arg[t].tbl \in Tables /\ arg[t].path \in Paths
  BY DEF delete_old, TypeOK, Arg, Idle
<1>2. InFlight(tbl, p)' = InFlight(tbl, p) \cup (IF own THEN {t} ELSE {})
  <2>1. \A u \in Tasks : pc'[u] = IF u = t THEN "alloc" ELSE pc[u]
    BY <1>1 DEF TypeOK
  <2>2. \A u \in Tasks : u \in InFlight(tbl, p)' <=> u \in InFlight(tbl, p) \/ (own /\ u = t)
    BY <1>1, <2>1 DEF InFlight
  <2>3. InFlight(tbl, p)' \subseteq Tasks /\ InFlight(tbl, p) \subseteq Tasks
    BY DEF InFlight
  <2> QED BY <2>2, <2>3
<1>3. t \notin InFlight(tbl, p)
  BY <1>1 DEF InFlight
<1>4. Cardinality(InFlight(tbl, p)') =
        Cardinality(InFlight(tbl, p)) + (IF own THEN 1 ELSE 0)
  <2>1. CASE own
    <3>1. InFlight(tbl, p)' = InFlight(tbl, p) \cup {t}
      BY <1>2, <2>1
    <3>2. Cardinality(InFlight(tbl, p) \cup {t}) = Cardinality(InFlight(tbl, p)) + 1
      BY <1>3, InFlightFinite, FS_AddElement
    <3> QED BY <2>1, <3>1, <3>2
  <2>2. CASE ~own
    <3>1. InFlight(tbl, p)' = InFlight(tbl, p)
      BY <1>2, <2>2
    <3> QED BY <2>2, <3>1, InFlightFinite
  <2> QED BY <2>1, <2>2
<1>5. Cardinality(Dups(tbl, p)) + Cardinality(InFlight(tbl, p)) <= Cardinality(Tasks)
  BY DEF DuplicatesBounded
<1>6. Cardinality(Dups(tbl, p)) \in Nat /\ Cardinality(InFlight(tbl, p)) \in Nat
  BY DupsArePos, InFlightFinite
<1>7. CASE Dups(arg[t].tbl, arg[t].path) = {} /\ UNCHANGED hlist
  <2>1. Dups(tbl, p)' = Dups(tbl, p)
    BY <1>7 DEF Dups
  <2>2. CASE own
    <3>1. Dups(tbl, p)' = {}
      BY <1>7, <2>1, <2>2
    <3> QED BY <3>1, FS_EmptySet, InFlightFinite
  <2>3. CASE ~own
    BY <1>4, <1>5, <2>1, <2>3, <1>6
  <2> QED BY <2>2, <2>3
<1>8. ASSUME NEW k \in Dups(arg[t].tbl, arg[t].path),
             hlist' = [hlist EXCEPT ![arg[t].tbl] = RemoveAt(hlist[arg[t].tbl], k)]
      PROVE  Cardinality(Dups(tbl, p)') + Cardinality(InFlight(tbl, p)') <= Cardinality(Tasks)
  <2>1. k \in DOMAIN hlist[arg[t].tbl] /\ hlist[arg[t].tbl][k].path = arg[t].path
    BY DEF Dups
  <2>2. \A c \in Tables, q \in Paths : Cardinality(Dups(c, q)') = Cardinality(Dups(c, q))
          - (IF c = arg[t].tbl /\ hlist[arg[t].tbl][k].path = q THEN 1 ELSE 0)
    BY <1>1, <1>8, <2>1, Removal
  <2>3. Cardinality(Dups(tbl, p)') = Cardinality(Dups(tbl, p)) - (IF own THEN 1 ELSE 0)
    BY <2>1, <2>2
  <2> HIDE DEF own
  <2> QED BY <1>4, <1>5, <1>6, <2>3
<1> QED BY <1>7, <1>8 DEF delete_old

LEMMA BoundAddEntry ==
  ASSUME TypeOK, TypeOK', DuplicatesBounded, NEW t \in Tasks, add_entry(t)
  PROVE  DuplicatesBounded'
<1> SUFFICES ASSUME NEW tbl \in Tables, NEW p \in Paths
             PROVE  Cardinality(Dups(tbl, p)') + Cardinality(InFlight(tbl, p)')
                      <= Cardinality(Tasks)
  BY DEF DuplicatesBounded
<1> DEFINE e == NewEntry(t, arg[t].node)
           b == arg[t].tbl
<1>1. /\ pc[t] = "add"
      /\ hlist' = [hlist EXCEPT ![b] = Append(hlist[b], e)]
      /\ Return(t, e)
      /\ b \in Tables /\ e \in Entry /\ e.path = arg[t].path
  BY NewEntryType DEF add_entry, hash_add
<1> HIDE DEF e
<1>2. \A c \in Tables, q \in Paths : Cardinality(Dups(c, q)') = Cardinality(Dups(c, q))
        + (IF c = b /\ e.path = q THEN 1 ELSE 0)
  <2> HIDE DEF b
  <2> QED BY <1>1, Addition
<1>3. Cardinality(InFlight(tbl, p)') =
        Cardinality(InFlight(tbl, p)) - (IF t \in InFlight(tbl, p) THEN 1 ELSE 0)
  <2>1. Return(t, e)
    BY <1>1
  <2> QED BY <2>1, ReturnLeaves
<1>4. t \in InFlight(tbl, p) <=> tbl = b /\ e.path = p
  BY <1>1 DEF InFlight
<1>5. Cardinality(Dups(tbl, p)) + Cardinality(InFlight(tbl, p)) <= Cardinality(Tasks)
  BY DEF DuplicatesBounded
<1>6. Cardinality(Dups(tbl, p)) \in Nat /\ Cardinality(InFlight(tbl, p)) \in Nat
      /\ Cardinality(Tasks) \in Nat
  BY DupsArePos, InFlightFinite
<1> QED BY <1>2, <1>3, <1>4, <1>5, <1>6

LEMMA BoundUpdateStep ==
  ASSUME TypeOK, TypeOK', DuplicatesBounded, NEW t \in Tasks, UpdateStep(t)
  PROVE  DuplicatesBounded'
<1>1. PICK r : Return(t, r)
  BY DEF UpdateStep, update_not_found, update_refused, update_replace, ReturnAsBefore
<1>2. \A tbl \in Tables, p \in Paths : InFlight(tbl, p)' \subseteq InFlight(tbl, p)
  BY <1>1, ReturnLeaves
<1>3. CASE UNCHANGED hlist
  BY <1>2, <1>3, SameCounts
<1>4. CASE update_replace(t) /\ ~(UNCHANGED hlist)
  <2>1. PICK k \in Dups("kstat", arg[t].path) :
          hlist' = [hlist EXCEPT !["kstat"] =
                      Append(RemoveAt(hlist["kstat"], k), Updated(t, k))]
    BY <1>4 DEF update_replace, hash_add, Updated
  <2>2. /\ "kstat" \in Tables /\ k \in DOMAIN hlist["kstat"]
        /\ Updated(t, k) \in Entry /\ Updated(t, k).path = hlist["kstat"][k].path
    BY <1>4, UpdatedType DEF UpdateStep, update_replace
  <2>3. \A tbl \in Tables, p \in Paths :
          Cardinality(Dups(tbl, p)') = Cardinality(Dups(tbl, p))
    BY <2>1, <2>2, Replacement
  <2>4. SUFFICES ASSUME NEW tbl \in Tables, NEW p \in Paths
                 PROVE  Cardinality(Dups(tbl, p)') + Cardinality(InFlight(tbl, p)')
                          <= Cardinality(Tasks)
    BY DEF DuplicatesBounded
  <2>5. Cardinality(InFlight(tbl, p)') <= Cardinality(InFlight(tbl, p))
    <3>1. InFlight(tbl, p)' \in SUBSET InFlight(tbl, p)
      BY <1>2
    <3> QED BY <3>1, InFlightFinite, FS_Subset
  <2> QED BY <2>3, <2>5, DupsArePos, InFlightFinite DEF DuplicatesBounded
<1> QED BY <1>3, <1>4 DEF UpdateStep, update_not_found, update_refused

LEMMA BoundNext == TypeOK /\ TypeOK' /\ DuplicatesBounded /\ [Next]_vars => DuplicatesBounded'
<1> SUFFICES ASSUME TypeOK, TypeOK', DuplicatesBounded, [Next]_vars
             PROVE  DuplicatesBounded'
  OBVIOUS
<1>1. CASE UNCHANGED vars
  BY <1>1, SameCounts DEF vars, InFlight
<1>2. CASE CallStep
  <2>1. PICK t \in Tasks, to \in {"del", "upd"} :
          /\ pc[t] = Idle /\ pc' = [pc EXCEPT ![t] = to] /\ UNCHANGED hlist
          /\ \E a : arg' = [arg EXCEPT ![t] = a]
    BY <1>2 DEF CallStep, Call
  <2>2. \A tbl \in Tables, p \in Paths : InFlight(tbl, p)' \subseteq InFlight(tbl, p)
    BY <2>1 DEF InFlight, TypeOK
  <2> QED BY <2>1, <2>2, SameCounts
<1>3. CASE \E t \in Tasks : delete_old(t)
  BY <1>3, BoundDeleteOld
<1>4. CASE \E t \in Tasks : FailStep(t)
  <2>1. PICK t \in Tasks : Return(t, NoEntry) /\ UNCHANGED hlist
    BY <1>4 DEF FailStep, kmalloc_fails, update_inode_fails, ReturnError
  <2>2. \A tbl \in Tables, p \in Paths : InFlight(tbl, p)' \subseteq InFlight(tbl, p)
    BY <2>1, ReturnLeaves
  <2> QED BY <2>1, <2>2, SameCounts
<1>5. CASE \E t \in Tasks : update_inode(t)
  <2>1. PICK t \in Tasks :
          /\ pc[t] = "alloc" /\ pc' = [pc EXCEPT ![t] = "add"] /\ UNCHANGED hlist
          /\ arg' = [arg EXCEPT ![t].node = resolve[arg[t].path]]
    BY <1>5 DEF update_inode
  <2>2. arg[t] \in Arg
    BY <2>1 DEF TypeOK, Idle
  <2>3. \A u \in Tasks : pc'[u] \in {"alloc", "add"} =>
          /\ pc[u] \in {"alloc", "add"}
          /\ arg'[u].tbl = arg[u].tbl /\ arg'[u].path = arg[u].path
    BY <2>1, <2>2 DEF TypeOK, Arg
  <2>4. \A tbl \in Tables, p \in Paths : InFlight(tbl, p)' \subseteq InFlight(tbl, p)
    BY <2>3 DEF InFlight
  <2> QED BY <2>1, <2>4, SameCounts
<1>6. CASE \E t \in Tasks : add_entry(t)
  BY <1>6, BoundAddEntry
<1>7. CASE \E t \in Tasks : UpdateStep(t)
  BY <1>7, BoundUpdateStep
<1>8. CASE (\E p \in Paths : Relink(p)) \/ (\E n \in Inodes : Evict(n))
  BY <1>8, SameCounts DEF Relink, Evict, InFlight
<1> QED BY <1>1, <1>2, <1>3, <1>4, <1>5, <1>6, <1>7, <1>8, NextSteps

(* However the commands of the tasks interleave, no pathname ever has more  *)
(* entries than there are tasks: the delete-then-insert of the add commands *)
(* leaks no entries.                                                        *)
THEOREM DuplicatesBoundedCorrect == Spec => []DuplicatesBounded
<1>1. Init => DuplicatesBounded
  <2> SUFFICES ASSUME Init, NEW tbl \in Tables, NEW p \in Paths
               PROVE  Cardinality(Dups(tbl, p)) + Cardinality(InFlight(tbl, p))
                        <= Cardinality(Tasks)
    BY DEF DuplicatesBounded
  <2>1. Dups(tbl, p) = {} /\ InFlight(tbl, p) = {}
    BY DEF Init, Dups, InFlight, Idle
  <2> QED BY <2>1, FS_EmptySet, InFlightFinite
<1> QED BY <1>1, TypeCorrect, BoundNext, PTL DEF Spec

-----------------------------------------------------------------------------
(* Registration.                                                            *)
LEMMA DupsNonEmpty ==
  ASSUME TypeOK, TypeOK', NEW tbl \in Tables, NEW p \in Paths
  PROVE  /\ Dups(tbl, p) # {} <=> Cardinality(Dups(tbl, p)) # 0
         /\ Dups(tbl, p)' # {} <=> Cardinality(Dups(tbl, p)') # 0
<1>1. IsFiniteSet(Dups(tbl, p))
  BY DupsArePos
<1>2. IsFiniteSet(Dups(tbl, p)')
  BY DupsArePosNext, PosFinite DEF TypeOK
<1> QED BY <1>1, <1>2, FS_EmptySet

\* A step that lets go of no pathname.
LEMMA StillRegistered ==
  ASSUME TypeOK, TypeOK', RegisteredUntilError,
         \A tbl \in Tables, p \in Paths :
           \/ acked'[tbl][p] = NoEntry
           \/ InFlight(tbl, p)' # {}
           \/ /\ acked'[tbl][p] = acked[tbl][p]
              /\ InFlight(tbl, p) \subseteq InFlight(tbl, p)'
              /\ Cardinality(Dups(tbl, p)') = Cardinality(Dups(tbl, p))
           \/ Cardinality(Dups(tbl, p)') # 0
  PROVE  RegisteredUntilError'
<1> SUFFICES ASSUME NEW tbl \in Tables, NEW p \in Paths, acked'[tbl][p] # NoEntry,
                    InFlight(tbl, p)' = {}
             PROVE  Dups(tbl, p)' # {}
  BY DEF RegisteredUntilError
<1> QED BY DupsNonEmpty DEF RegisteredUntilError

LEMMA RegisteredNext ==
  TypeOK /\ TypeOK' /\ RegisteredUntilError /\ [Next]_vars => RegisteredUntilError'
<1> SUFFICES ASSUME TypeOK, TypeOK', RegisteredUntilError, [Next]_vars
             PROVE  RegisteredUntilError'
  OBVIOUS
<1>0. ASSUME UNCHANGED <<hlist, acked>>,
             \A tbl \in Tables, p \in Paths : InFlight(tbl, p) \subseteq InFlight(tbl, p)'
      PROVE  RegisteredUntilError'
  <2>1. \A tbl \in Tables, p \in Paths :
          /\ acked'[tbl][p] = acked[tbl][p]
          /\ Cardinality(Dups(tbl, p)') = Cardinality(Dups(tbl, p))
    BY <1>0 DEF Dups
  <2> QED BY <1>0, <2>1, StillRegistered
<1>1. CASE UNCHANGED vars
  BY <1>0, <1>1 DEF vars, InFlight
<1>2. CASE CallStep
  <2>1. PICK t \in Tasks : /\ pc[t] = Idle /\ UNCHANGED <<hlist, acked>>
                           /\ \E to : pc' = [pc EXCEPT ![t] = to]
                           /\ \E a : arg' = [arg EXCEPT ![t] = a]
    BY <1>2 DEF CallStep, Call
  <2>2. \A tbl \in Tables, p \in Paths : InFlight(tbl, p) \subseteq InFlight(tbl, p)'
    BY <2>1 DEF InFlight, TypeOK, Idle
  <2> QED BY <1>0, <2>1, <2>2
<1>3. ASSUME NEW t \in Tasks, delete_old(t)
      PROVE  RegisteredUntilError'
  <2>1. /\ pc[t] = "del" /\ pc' = [pc EXCEPT ![t] = "alloc"]
        /\ UNCHANGED <<arg, acked>> /\ arg[t].tbl \in Tables /\ arg[t].path \in Paths
    BY <1>3 DEF delete_old, TypeOK, Arg, Idle
  <2>2. ASSUME NEW tbl \in Tables, NEW p \in Paths, ~(arg[t].tbl = tbl /\ arg[t].path = p)
        PROVE  Cardinality(Dups(tbl, p)') = Cardinality(Dups(tbl, p))
    <3>1. CASE UNCHANGED hlist
      BY <3>1 DEF Dups
    <3>2. ASSUME NEW k \in Dups(arg[t].tbl, arg[t].path),
                 hlist' = [hlist EXCEPT ![arg[t].tbl] = RemoveAt(hlist[arg[t].tbl], k)]
          PROVE  Cardinality(Dups(tbl, p)') = Cardinality(Dups(tbl, p))
      <4>1. k \in DOMAIN hlist[arg[t].tbl] /\ hlist[arg[t].tbl][k].path = arg[t].path
        BY DEF Dups
      <4>2. \A c \in Tables, q \in Paths : Cardinality(Dups(c, q)') = Cardinality(Dups(c, q))
              - (IF c = arg[t].tbl /\ hlist[arg[t].tbl][k].path = q THEN 1 ELSE 0)
        BY <2>1, <3>2, <4>1, Removal
      <4> QED BY <2>2, <4>1, <4>2, DupsArePos
    <3> QED BY <1>3, <3>1, <3>2 DEF delete_old
  <2>3. ASSUME NEW tbl \in Tables, NEW p \in Paths, arg[t].tbl = tbl /\ arg[t].path = p
        PROVE  InFlight(tbl, p)' # {}
    BY <2>1, <2>3 DEF InFlight, TypeOK
  <2>4. \A tbl \in Tables, p \in Paths : /\ acked'[tbl][p] = acked[tbl][p]
                                        /\ InFlight(tbl, p) \subseteq InFlight(tbl, p)'
    BY <2>1 DEF InFlight, TypeOK
  <2> QED BY <2>2, <2>3, <2>4, StillRegistered
<1>4. CASE \E t \in Tasks : FailStep(t)
  <2>1. PICK t \in Tasks : Return(t, NoEntry) /\ UNCHANGED hlist /\ pc[t] = "alloc"
    BY <1>4 DEF FailStep, kmalloc_fails, update_inode_fails, ReturnError
  <2>2. arg[t].tbl \in Tables /\ arg[t].path \in Paths
    BY <2>1 DEF TypeOK, Arg, Idle
  <2>3. ASSUME NEW tbl \in Tables, NEW p \in Paths, arg[t].tbl = tbl /\ arg[t].path = p
        PROVE  acked'[tbl][p] = NoEntry
    BY <2>1, <2>2, <2>3 DEF Return, TypeOK
  <2>4. ASSUME NEW tbl \in Tables, NEW p \in Paths, ~(arg[t].tbl = tbl /\ arg[t].path = p)
        PROVE  /\ acked'[tbl][p] = acked[tbl][p]
               /\ InFlight(tbl, p) \subseteq InFlight(tbl, p)'
    BY <2>1, <2>2, <2>4 DEF Return, TypeOK, InFlight
  <2>5. \A tbl \in Tables, p \in Paths : Cardinality(Dups(tbl, p)') = Cardinality(Dups(tbl, p))
    BY <2>1 DEF Dups
  <2> QED BY <2>3, <2>4, <2>5, StillRegistered
<1>5. CASE \E t \in Tasks : update_inode(t)
  <2>1. PICK t \in Tasks :
          /\ pc[t] = "alloc" /\ pc' = [pc EXCEPT ![t] = "add"] /\ UNCHANGED <<hlist, acked>>
          /\ arg' = [arg EXCEPT ![t].node = resolve[arg[t].path]]
    BY <1>5 DEF update_inode
  <2>2. arg[t] \in Arg
    BY <2>1 DEF TypeOK, Idle
  <2>3. \A u \in Tasks : pc[u] \in {"alloc", "add"} =>
          /\ pc'[u] \in {"alloc", "add"}
          /\ arg'[u].tbl = arg[u].tbl /\ arg'[u].path = arg[u].path
    BY <2>1, <2>2 DEF TypeOK, Arg
  <2>4. \A tbl \in Tables, p \in Paths : InFlight(tbl, p) \subseteq InFlight(tbl, p)'
    BY <2>3 DEF InFlight
  <2> QED BY <1>0, <2>1, <2>4
<1>6. ASSUME NEW t \in Tasks, add_entry(t)
      PROVE  RegisteredUntilError'
  <2> DEFINE e == NewEntry(t, arg[t].node)
             b == arg[t].tbl
  <2>1. /\ pc[t] = "add"
        /\ hlist' = [hlist EXCEPT ![b] = Append(hlist[b], e)]
        /\ Return(t, e)
        /\ b \in Tables /\ e \in Entry /\ e.path = arg[t].path /\ arg[t].path \in Paths
    BY <1>6, NewEntryType DEF add_entry, hash_add, TypeOK, Arg, Idle
  <2> HIDE DEF e
  <2>2. \A c \in Tables, q \in Paths : Cardinality(Dups(c, q)') = Cardinality(Dups(c, q))
          + (IF c = b /\ e.path = q THEN 1 ELSE 0)
    <3> HIDE DEF b
    <3> QED BY <2>1, Addition
  <2>3. ASSUME NEW tbl \in Tables, NEW p \in Paths, b = tbl /\ arg[t].path = p
        PROVE  Cardinality(Dups(tbl, p)') # 0
    <3> HIDE DEF b
    <3> QED BY <2>1, <2>2, <2>3, DupsArePos
  <2>4. ASSUME NEW tbl \in Tables, NEW p \in Paths, ~(b = tbl /\ arg[t].path = p)
        PROVE  /\ acked'[tbl][p] = acked[tbl][p]
               /\ InFlight(tbl, p) \subseteq InFlight(tbl, p)'
    BY <2>1, <2>4 DEF Return, TypeOK, InFlight
  <2>5. ASSUME NEW tbl \in Tables, NEW p \in Paths, ~(b = tbl /\ arg[t].path = p)
        PROVE  Cardinality(Dups(tbl, p)') = Cardinality(Dups(tbl, p))
    <3> HIDE DEF b
    <3> QED BY <2>1, <2>2, <2>5, DupsArePos
  <2> HIDE DEF b
  <2> QED BY <2>3, <2>4, <2>5, StillRegistered
<1>7. ASSUME NEW t \in Tasks, UpdateStep(t)
      PROVE  RegisteredUntilError'
  <2>1. /\ pc[t] = "upd" /\ "kstat" \in Tables /\ arg[t].tbl = "kstat" /\ arg[t].path \in Paths
    BY <1>7 DEF UpdateStep, TypeOK, Idle, Arg
  <2>2. PICK r : Return(t, r)
    BY <1>7 DEF UpdateStep, update_not_found, update_refused, update_replace, ReturnAsBefore
  <2>3. \A tbl \in Tables, p \in Paths : InFlight(tbl, p) \subseteq InFlight(tbl, p)'
    BY <2>1, <2>2 DEF InFlight, Return, TypeOK
  <2>4. \A tbl \in Tables, p \in Paths :
          ~(tbl = "kstat" /\ p = arg[t].path) => acked'[tbl][p] = acked[tbl][p]
    BY <2>1, <2>2 DEF Return, TypeOK
  <2>5. acked'["kstat"][arg[t].path] = r
    BY <2>1, <2>2 DEF Return, TypeOK
  <2>6. CASE UNCHANGED hlist
    <3>1. \A tbl \in Tables, p \in Paths : Cardinality(Dups(tbl, p)') = Cardinality(Dups(tbl, p))
      BY <2>6 DEF Dups
    <3>2. CASE update_not_found(t) \/ update_refused(t)
      <4>1. acked' = [acked EXCEPT !["kstat"][arg[t].path] = acked["kstat"][arg[t].path]]
        BY <2>1, <3>2 DEF update_not_found, update_refused, ReturnAsBefore, Return
      <4>2. \A tbl \in Tables, p \in Paths : acked'[tbl][p] = acked[tbl][p]
        BY <2>1, <4>1 DEF TypeOK
      <4> QED BY <2>3, <3>1, <4>2, StillRegistered
    <3>3. CASE update_replace(t)
      <4>1. Dups("kstat", arg[t].path) # {}
        BY <3>3 DEF update_replace
      <4>2. \A p \in Paths : p = arg[t].path => Cardinality(Dups("kstat", p)') # 0
        BY <2>1, <3>1, <4>1, DupsNonEmpty
      <4> QED BY <2>3, <2>4, <3>1, <4>2, StillRegistered
    <3> QED BY <1>7, <3>2, <3>3 DEF UpdateStep
  <2>7. CASE update_replace(t) /\ ~(UNCHANGED hlist)
    <3>1. PICK k \in Dups("kstat", arg[t].path) :
            hlist' = [hlist EXCEPT !["kstat"] =
                        Append(RemoveAt(hlist["kstat"], k), Updated(t, k))]
      BY <2>7 DEF update_replace, hash_add, Updated
    <3>2. /\ k \in DOMAIN hlist["kstat"]
          /\ Updated(t, k) \in Entry /\ Updated(t, k).path = hlist["kstat"][k].path
      BY <2>1, <2>7, UpdatedType DEF update_replace
    <3>3. \A tbl \in Tables, p \in Paths :
            Cardinality(Dups(tbl, p)') = Cardinality(Dups(tbl, p))
      BY <2>1, <3>1, <3>2, Replacement
    <3>4. \A p \in Paths : p = arg[t].path => Cardinality(Dups("kstat", p)') # 0
      BY <2>1, <3>3, DupsNonEmpty
    <3> QED BY <2>3, <2>4, <3>3, <3>4, StillRegistered
  <2> QED BY <1>7, <2>6, <2>7 DEF UpdateStep, update_not_found, update_refused
<1>8. CASE (\E p \in Paths : Relink(p)) \/ (\E n \in Inodes : Evict(n))
  BY <1>0, <1>8 DEF Relink, Evict, InFlight
<1> QED BY <1>1, <1>2, <1>3, <1>4, <1>5, <1>6, <1>7, <1>8, NextSteps

(* A pathname whose last command returned 0 keeps an entry until a command  *)
(* for the same pathname takes it: neither an update that fails nor any     *)
(* command for another pathname can lose a registration.                    *)
THEOREM RegisteredCorrect == Spec => []RegisteredUntilError
<1>1. Init => RegisteredUntilError
  BY DEF Init, RegisteredUntilError
<1> QED BY <1>1, TypeCorrect, RegisteredNext, PTL DEF Spec

-----------------------------------------------------------------------------
(* Flags.  FlagPrecedesEntry is not inductive: an entry is inserted with    *)
(* the node its command flagged earlier, so the invariant also speaks of    *)
(* the commands that are about to insert.                                   *)
MarkedIn(f, ev, tbl, n) == tbl \in f[n] \/ n \in ev

Marked(tbl, n) == MarkedIn(flags, evicted, tbl, n)

PendingMarked == \A t \in Tasks : pc[t] = "add" => Marked(arg[t].tbl, arg[t].node)

FlagInv == FlagPrecedesEntry /\ PendingMarked

\* No step unmarks an inode: only Evict clears flags, and it records that.
LEMMA MarkedStable ==
  ASSUME TypeOK, [Next]_vars
  PROVE  \A tbl \in Tables, n \in Inodes : Marked(tbl, n) => MarkedIn(flags', evicted', tbl, n)
<1>1. CASE UNCHANGED vars
  BY <1>1 DEF vars, Marked, MarkedIn
<1>2. CASE CallStep
  BY <1>2 DEF CallStep, Call, Marked, MarkedIn
<1>3. ASSUME NEW t \in Tasks,
             delete_old(t) \/ FailStep(t) \/ add_entry(t)
      PROVE  UNCHANGED <<flags, evicted>>
  BY <1>3 DEF delete_old, FailStep, kmalloc_fails, update_inode_fails, add_entry
<1>4. ASSUME NEW t \in Tasks, update_inode(t) \/ UpdateStep(t)
      PROVE  /\ UNCHANGED evicted
             /\ \A n \in Inodes : flags[n] \subseteq flags'[n]
  <2>1. CASE update_inode(t)
    BY <2>1 DEF update_inode, TypeOK
  <2>2. CASE UpdateStep(t)
    BY <2>2 DEF UpdateStep, update_not_found, update_refused, update_replace, TypeOK
  <2> QED BY <1>4, <2>1, <2>2
<1>5. CASE \E p \in Paths : Relink(p)
  BY <1>5 DEF Relink, Marked, MarkedIn
<1>6. CASE \E n \in Inodes : Evict(n)
  BY <1>6 DEF Evict, Marked, MarkedIn, TypeOK
<1> QED BY <1>1, <1>2, <1>3, <1>4, <1>5, <1>6, NextSteps DEF Marked, MarkedIn

\* A table whose new elements are marked.
LEMMA StillMarked ==
  ASSUME TypeOK, TypeOK', [Next]_vars, FlagPrecedesEntry,
         \A tbl \in Tables : \A k \in DOMAIN hlist'[tbl] :
           \/ \E j \in DOMAIN hlist[tbl] : hlist'[tbl][k] = hlist[tbl][j]
           \/ MarkedIn(flags', evicted', tbl, hlist'[tbl][k].node)
  PROVE  FlagPrecedesEntry'
<1> SUFFICES ASSUME NEW tbl \in Tables, NEW k \in DOMAIN hlist'[tbl],
                    NEW j \in DOMAIN hlist[tbl], hlist'[tbl][k] = hlist[tbl][j]
             PROVE  MarkedIn(flags', evicted', tbl, hlist'[tbl][k].node)
  BY DEF FlagPrecedesEntry, Marked, MarkedIn
<1>1. hlist[tbl][j].node \in Inodes
  BY EntryFacts DEF Entry
<1>2. Marked(tbl, hlist[tbl][j].node)
  BY DEF FlagPrecedesEntry, Marked, MarkedIn
<1>3. \A n \in Inodes : Marked(tbl, n) => MarkedIn(flags', evicted', tbl, n)
  BY MarkedStable
<1> QED BY <1>1, <1>2, <1>3 DEF Marked, MarkedIn

LEMMA SameMarked ==
  ASSUME TypeOK, TypeOK', [Next]_vars, FlagPrecedesEntry, UNCHANGED hlist
  PROVE  FlagPrecedesEntry'
BY StillMarked

LEMMA FlagNext == TypeOK /\ TypeOK' /\ FlagInv /\ [Next]_vars => FlagInv'
<1> SUFFICES ASSUME TypeOK, TypeOK', FlagInv, [Next]_vars PROVE FlagInv'
  OBVIOUS
<1> USE DEF FlagInv
<1>1. ASSUME \A t \in Tasks : pc'[t] = "add" => /\ pc[t] = "add"
                                              /\ arg'[t] = arg[t]
      PROVE  PendingMarked'
  <2> SUFFICES ASSUME NEW t \in Tasks, pc'[t] = "add"
               PROVE  MarkedIn(flags', evicted', arg'[t].tbl, arg'[t].node)
    BY DEF PendingMarked, Marked, MarkedIn
  <2>1. arg[t].tbl \in Tables /\ arg[t].node \in Inodes /\ pc[t] = "add" /\ arg'[t] = arg[t]
    BY <1>1 DEF TypeOK, Arg, Idle
  <2> QED BY <2>1, MarkedStable DEF PendingMarked, Marked, MarkedIn
<1>2. ASSUME NEW t \in Tasks, NEW r, Return(t, r)
      PROVE  PendingMarked'
  BY <1>1, <1>2 DEF Return, TypeOK, Idle
<1>3. CASE UNCHANGED vars
  BY <1>1, <1>3, SameMarked DEF vars
<1>4. CASE CallStep
  <2>1. UNCHANGED hlist
    BY <1>4 DEF CallStep, Call
  <2>2. \A t \in Tasks : pc'[t] = "add" => pc[t] = "add" /\ arg'[t] = arg[t]
    BY <1>4 DEF CallStep, Call, TypeOK
  <2> QED BY <1>1, <2>1, <2>2, SameMarked
<1>5. ASSUME NEW t \in Tasks, delete_old(t)
      PROVE  FlagInv'
  <2>1. PendingMarked'
    BY <1>1, <1>5 DEF delete_old, TypeOK
  <2>2. CASE UNCHANGED hlist
    BY <2>1, <2>2, SameMarked
  <2>3. ASSUME NEW k \in Dups(arg[t].tbl, arg[t].path),
               hlist' = [hlist EXCEPT ![arg[t].tbl] = RemoveAt(hlist[arg[t].tbl], k)]
        PROVE  FlagPrecedesEntry'
    <3> DEFINE b == arg[t].tbl
    <3>1. b \in Tables
      BY <1>5 DEF delete_old, TypeOK, Arg, Idle
    <3>2. hlist[b] \in Seq(Entry) /\ k \in 1..Len(hlist[b]) /\ DOMAIN hlist[b] = 1..Len(hlist[b])
          /\ Len(hlist[b]) \in Nat
      BY <3>1, EntryFacts DEF Dups
    <3>3. hlist'[b] = RemoveAt(hlist[b], k) /\ \A c \in Tables \ {b} : hlist'[c] = hlist[c]
      BY <2>3, <3>1 DEF TypeOK
    <3> HIDE DEF b
    <3>4. \A i \in DOMAIN hlist'[b] : \E j \in DOMAIN hlist[b] : hlist'[b][i] = hlist[b][j]
      <4>1. k \in DOMAIN hlist[b]
        BY <3>2
      <4>2. \A i \in DOMAIN RemoveAt(hlist[b], k) :
              \E j \in DOMAIN hlist[b] : RemoveAt(hlist[b], k)[i] = hlist[b][j]
        BY <3>2, <4>1, RemoveAtElements
      <4> QED BY <3>3, <4>2
    <3>5. \A c \in Tables : \A i \in DOMAIN hlist'[c] :
            \E j \in DOMAIN hlist[c] : hlist'[c][i] = hlist[c][j]
      BY <3>3, <3>4
    <3> QED BY <3>5, StillMarked
  <2> QED BY <1>5, <2>1, <2>2, <2>3 DEF delete_old
<1>6. CASE \E t \in Tasks : FailStep(t)
  <2>1. PICK t \in Tasks : Return(t, NoEntry) /\ UNCHANGED hlist
    BY <1>6 DEF FailStep, kmalloc_fails, update_inode_fails, ReturnError
  <2> QED BY <1>2, <2>1, SameMarked
<1>7. ASSUME NEW t \in Tasks, update_inode(t)
      PROVE  FlagInv'
  <2> DEFINE n == resolve[arg[t].path]
  <2>1. /\ n \in Inodes /\ UNCHANGED hlist
        /\ flags' = [flags EXCEPT ![n] = flags[n] \cup {arg[t].tbl}]
        /\ pc' = [pc EXCEPT ![t] = "add"]
        /\ arg' = [arg EXCEPT ![t] = [arg[t] EXCEPT !.node = n]]
        /\ arg[t] \in Arg
    BY <1>7 DEF update_inode, Refused, TypeOK, Idle
  <2> HIDE DEF n
  <2>2. MarkedIn(flags', evicted', arg'[t].tbl, arg'[t].node)
    <3>1. arg'[t].tbl = arg[t].tbl /\ arg'[t].node = n
      BY <2>1 DEF TypeOK, Arg
    <3> QED BY <2>1, <3>1 DEF Marked, MarkedIn, TypeOK
  <2>3. ASSUME NEW u \in Tasks, u # t, pc'[u] = "add"
        PROVE  MarkedIn(flags', evicted', arg'[u].tbl, arg'[u].node)
    <3>1. pc[u] = "add" /\ arg'[u] = arg[u]
      BY <2>1, <2>3 DEF TypeOK
    <3>2. arg[u].tbl \in Tables /\ arg[u].node \in Inodes
      BY <3>1 DEF TypeOK, Arg, Idle
    <3> QED BY <3>1, <3>2, MarkedStable DEF PendingMarked, Marked, MarkedIn
  <2>4. PendingMarked'
    BY <2>2, <2>3 DEF PendingMarked, Marked, MarkedIn
  <2> QED BY <2>1, <2>4, SameMarked
<1>8. ASSUME NEW t \in Tasks, add_entry(t)
      PROVE  FlagInv'
  <2> DEFINE e == NewEntry(t, arg[t].node)
             b == arg[t].tbl
  <2>1. /\ pc[t] = "add"
        /\ hlist' = [hlist EXCEPT ![b] = Append(hlist[b], e)]
        /\ Return(t, e)
        /\ UNCHANGED <<flags, evicted>>
        /\ b \in Tables /\ e \in Entry /\ e.node = arg[t].node
    BY <1>8, NewEntryType DEF add_entry, hash_add
  <2>2. MarkedIn(flags', evicted', b, e.node)
    BY <2>1 DEF PendingMarked, Marked, MarkedIn
  <2> HIDE DEF e, b
  <2>3. hlist[b] \in Seq(Entry) /\ hlist'[b] = Append(hlist[b], e)
        /\ \A c \in Tables \ {b} : hlist'[c] = hlist[c]
    BY <2>1, EntryFacts DEF TypeOK
  <2>4. \A k \in DOMAIN hlist'[b] : \/ \E j \in DOMAIN hlist[b] : hlist'[b][k] = hlist[b][j]
                                   \/ hlist'[b][k] = e
    BY <2>1, <2>3, AppendProperties, LenProperties
  <2>5. \A c \in Tables : \A k \in DOMAIN hlist'[c] :
          \/ \E j \in DOMAIN hlist[c] : hlist'[c][k] = hlist[c][j]
          \/ MarkedIn(flags', evicted', c, hlist'[c][k].node)
    BY <2>2, <2>3, <2>4 DEF Marked, MarkedIn
  <2>6. FlagPrecedesEntry'
    BY <2>5, StillMarked
  <2> QED BY <1>2, <2>1, <2>6
<1>9. ASSUME NEW t \in Tasks, UpdateStep(t)
      PROVE  FlagInv'
  <2>1. PICK r : Return(t, r)
    BY <1>9 DEF UpdateStep, update_not_found, update_refused, update_replace, ReturnAsBefore
  <2>2. PendingMarked'
    BY <1>2, <2>1
  <2>3. CASE UNCHANGED hlist
    BY <2>2, <2>3, SameMarked
  <2>4. CASE update_replace(t) /\ ~(UNCHANGED hlist)
    <3> DEFINE s == hlist["kstat"]
    <3>1. PICK k \in Dups("kstat", arg[t].path) :
            hlist' = [hlist EXCEPT !["kstat"] = Append(RemoveAt(s, k), Updated(t, k))]
      BY <2>4 DEF update_replace, hash_add, Updated
    <3>2. /\ "kstat" \in Tables /\ k \in DOMAIN s
          /\ Updated(t, k) \in Entry /\ Updated(t, k).node = resolve[arg[t].path]
          /\ resolve[arg[t].path] \in Inodes
      BY <1>9, <2>4, UpdatedType DEF UpdateStep, update_replace
    <3>3. flags' = [flags EXCEPT ![resolve[arg[t].path]] = @ \cup {"kstat"}]
      BY <2>4 DEF update_replace
    <3>5. "kstat" \in flags'[resolve[arg[t].path]]
      BY <3>2, <3>3 DEF TypeOK
    <3>6. s \in Seq(Entry) /\ k \in 1..Len(s) /\ DOMAIN s = 1..Len(s) /\ Len(s) \in Nat
      BY <3>2, EntryFacts
    <3>7. hlist'["kstat"] = Append(RemoveAt(s, k), Updated(t, k))
          /\ \A c \in Tables \ {"kstat"} : hlist'[c] = hlist[c]
      BY <3>1, <3>2 DEF TypeOK
    <3>8. \A i \in DOMAIN hlist'["kstat"] :
            (\E j \in DOMAIN s : hlist'["kstat"][i] = s[j]) \/ hlist'["kstat"][i] = Updated(t, k)
      <4> HIDE DEF s
      <4>1. s \in Seq(Entry) /\ k \in DOMAIN s
        BY <3>6
      <4>a. /\ RemoveAt(s, k) \in Seq(Entry)
            /\ \A i \in DOMAIN RemoveAt(s, k) : \E j \in DOMAIN s : RemoveAt(s, k)[i] = s[j]
        BY ONLY <4>1, RemoveAtElements
      <4> DEFINE q == RemoveAt(s, k)
      <4>2. q \in Seq(Entry) /\ \A i \in DOMAIN q : \E j \in DOMAIN s : q[i] = s[j]
        BY <4>a
      <4> HIDE DEF q
      <4>3. \A i \in DOMAIN Append(q, Updated(t, k)) :
              \/ i \in DOMAIN q /\ Append(q, Updated(t, k))[i] = q[i]
              \/ Append(q, Updated(t, k))[i] = Updated(t, k)
        BY <3>2, <4>2, AppendProperties, LenProperties
      <4> QED BY <3>7, <4>2, <4>3 DEF q
    <3>9. \A c \in Tables : \A i \in DOMAIN hlist'[c] :
            \/ \E j \in DOMAIN hlist[c] : hlist'[c][i] = hlist[c][j]
            \/ c \in flags'[hlist'[c][i].node]
      BY <3>2, <3>5, <3>7, <3>8
    <3>10. FlagPrecedesEntry'
      BY <3>9, StillMarked DEF Marked, MarkedIn
    <3> QED BY <2>2, <3>10
  <2> QED BY <1>9, <2>3, <2>4 DEF UpdateStep, update_not_found, update_refused
<1>10. CASE (\E p \in Paths : Relink(p)) \/ (\E n \in Inodes : Evict(n))
  BY <1>1, <1>10, SameMarked DEF Relink, Evict
<1> QED BY <1>3, <1>4, <1>5, <1>6, <1>7, <1>8, <1>9, <1>10, NextSteps

(* An entry never becomes visible before the inode it was registered for is *)
(* flagged; only the eviction of that inode can part them.                  *)
THEOREM FlagPrecedesEntryCorrect == Spec => []FlagPrecedesEntry
<1>1. Init => FlagInv
  BY DEF Init, FlagInv, FlagPrecedesEntry, PendingMarked, Idle
<1>2. FlagInv => FlagPrecedesEntry
  BY DEF FlagInv
<1> QED BY <1>1, <1>2, TypeCorrect, FlagNext, PTL DEF Spec

-----------------------------------------------------------------------------
(* What the last command has registered.  LastCommandEffective is not       *)
(* inductive: it says nothing while a rival claim to the number is under    *)
(* way, or once the inode was evicted, and both may end.  NewestAcked keeps *)
(* what it follows from: once nobody is between its deletion and its        *)
(* insertion, the entry of the command that returned 0 last is the newest   *)
(* one of its pathname, whatever duplicates there are and whatever updates  *)
(* have failed since.                                                       *)
NewestAcked ==
  \A tbl \in Tables, p \in Paths :
    acked[tbl][p] # NoEntry /\ InFlight(tbl, p) = {} =>
      LastIn(hlist[tbl], EntriesOf(p), acked[tbl][p])

\* A step that leaves the newest entry of a pathname what it is, or replaces it.
LEMMA StillNewest ==
  ASSUME NewestAcked,
         \A tbl \in Tables, p \in Paths :
           \/ acked'[tbl][p] = NoEntry
           \/ InFlight(tbl, p)' # {}
           \/ /\ acked'[tbl][p] = acked[tbl][p]
              /\ InFlight(tbl, p) \subseteq InFlight(tbl, p)'
              /\ \A e : LastIn(hlist[tbl], EntriesOf(p), e) => LastIn(hlist'[tbl], EntriesOf(p), e)
           \/ LastIn(hlist'[tbl], EntriesOf(p), acked'[tbl][p])
  PROVE  NewestAcked'
<1> SUFFICES ASSUME NEW tbl \in Tables, NEW p \in Paths, acked'[tbl][p] # NoEntry,
                    InFlight(tbl, p)' = {}
             PROVE  LastIn(hlist'[tbl], EntriesOf(p), acked'[tbl][p])
  BY DEF NewestAcked, LastIn, Pos, EntriesOf, Entry
<1> QED BY DEF NewestAcked

LEMMA RemovalNewest ==
  ASSUME TypeOK, NEW b \in Tables, NEW k \in DOMAIN hlist[b],
         hlist' = [hlist EXCEPT ![b] = RemoveAt(hlist[b], k)],
         NEW tbl \in Tables, NEW p \in Paths, tbl # b \/ hlist[b][k].path # p,
         NEW e, LastIn(hlist[tbl], EntriesOf(p), e)
  PROVE  LastIn(hlist'[tbl], EntriesOf(p), e)
<1>1. CASE tbl # b
  BY <1>1 DEF TypeOK
<1>2. CASE tbl = b
  <2>1. hlist[b] \in Seq(Entry) /\ hlist[b][k] \notin EntriesOf(p)
    BY <1>2, EntryFacts DEF EntriesOf
  <2>2. LastIn(RemoveAt(hlist[b], k), EntriesOf(p), e)
    BY <1>2, <2>1, LastInOtherRemoved
  <2> QED BY <1>2, <2>2 DEF TypeOK
<1> QED BY <1>1, <1>2

LEMMA AdditionNewest ==
  ASSUME TypeOK, NEW b \in Tables, NEW s \in Seq(Entry), NEW x \in Entry,
         hlist' = [hlist EXCEPT ![b] = Append(s, x)],
         NEW p \in Paths
  PROVE  /\ x.path = p => LastIn(hlist'[b], EntriesOf(p), x)
         /\ \A e : x.path # p /\ LastIn(s, EntriesOf(p), e) => LastIn(hlist'[b], EntriesOf(p), e)
         /\ \A tbl \in Tables \ {b} : hlist'[tbl] = hlist[tbl]
<1>1. hlist'[b] = Append(s, x) /\ \A tbl \in Tables \ {b} : hlist'[tbl] = hlist[tbl]
  BY DEF TypeOK
<1>2. x.path = p => x \in EntriesOf(p)
  BY DEF EntriesOf
<1>3. x.path # p => x \notin EntriesOf(p)
  BY DEF EntriesOf
<1>4. x.path = p => LastIn(Append(s, x), EntriesOf(p), x)
  BY <1>2, LastInAppended
<1>5. ASSUME NEW e, x.path # p, LastIn(s, EntriesOf(p), e)
      PROVE  LastIn(Append(s, x), EntriesOf(p), e)
  BY <1>3, <1>5, LastInOtherAppended
<1> QED BY <1>1, <1>4, <1>5

LEMMA NewestDeleteOld ==
  ASSUME TypeOK, NewestAcked, NEW t \in Tasks, delete_old(t)
  PROVE  NewestAcked'
<1>1. /\ pc[t] = "del" /\ pc' = [pc EXCEPT ![t] = "alloc"]
      /\ UNCHANGED <<arg, acked>> /\ arg[t].tbl \in Tables /\ arg[t].path \in Paths
  BY DEF delete_old, TypeOK, Arg, Idle
<1>2. ASSUME NEW tbl \in Tables, NEW p \in Paths, ~(arg[t].tbl = tbl /\ arg[t].path = p),
             NEW e, LastIn(hlist[tbl], EntriesOf(p), e)
      PROVE  LastIn(hlist'[tbl], EntriesOf(p), e)
  <2>1. CASE UNCHANGED hlist
    BY <1>2, <2>1
  <2>2. ASSUME NEW k \in Dups(arg[t].tbl, arg[t].path),
               hlist' = [hlist EXCEPT ![arg[t].tbl] = RemoveAt(hlist[arg[t].tbl], k)]
        PROVE  LastIn(hlist'[tbl], EntriesOf(p), e)
    <3>1. k \in DOMAIN hlist[arg[t].tbl] /\ hlist[arg[t].tbl][k].path = arg[t].path
      BY DEF Dups
    <3>2. tbl # arg[t].tbl \/ hlist[arg[t].tbl][k].path # p
      BY <1>2, <3>1
    <3> QED BY <1>1, <1>2, <2>2, <3>1, <3>2, RemovalNewest
  <2> QED BY <2>1, <2>2 DEF delete_old
<1>3. ASSUME NEW tbl \in Tables, NEW p \in Paths, arg[t].tbl = tbl /\ arg[t].path = p
      PROVE  InFlight(tbl, p)' # {}
  BY <1>1, <1>3 DEF InFlight, TypeOK
<1>4. \A tbl \in Tables, p \in Paths : /\ acked'[tbl][p] = acked[tbl][p]
                                      /\ InFlight(tbl, p) \subseteq InFlight(tbl, p)'
  BY <1>1 DEF InFlight, TypeOK
<1> QED BY <1>2, <1>3, <1>4, StillNewest

\* A command that returns says so for its own pathname, and is in flight no more.
LEMMA ReturnAcked ==
  ASSUME TypeOK, NEW t \in Tasks, pc[t] # Idle, NEW r, Return(t, r)
  PROVE  /\ arg[t].tbl \in Tables /\ arg[t].path \in Paths
         /\ acked'[arg[t].tbl][arg[t].path] = r
         /\ \A tbl \in Tables, p \in Paths : ~(arg[t].tbl = tbl /\ arg[t].path = p) =>
              acked'[tbl][p] = acked[tbl][p] /\ InFlight(tbl, p) \subseteq InFlight(tbl, p)'
<1>1. arg[t].tbl \in Tables /\ arg[t].path \in Paths
  BY DEF TypeOK, Arg
<1>2. acked' = [acked EXCEPT ![arg[t].tbl][arg[t].path] = r]
  BY DEF Return
<1>3. acked'[arg[t].tbl][arg[t].path] = r
  BY <1>1, <1>2 DEF TypeOK
<1>4. ASSUME NEW tbl \in Tables, NEW p \in Paths, ~(arg[t].tbl = tbl /\ arg[t].path = p)
      PROVE  acked'[tbl][p] = acked[tbl][p] /\ InFlight(tbl, p) \subseteq InFlight(tbl, p)'
  <2>1. acked'[tbl][p] = acked[tbl][p]
    BY <1>1, <1>2, <1>4 DEF TypeOK
  <2>2. InFlight(tbl, p) \subseteq InFlight(tbl, p)'
    BY <1>4 DEF Return, TypeOK, InFlight
  <2> QED BY <2>1, <2>2
<1> QED BY <1>1, <1>3, <1>4

LEMMA NewestFail ==
  ASSUME TypeOK, NewestAcked, NEW t \in Tasks, pc[t] # Idle, Return(t, NoEntry), UNCHANGED hlist
  PROVE  NewestAcked'
<1>1. \A tbl \in Tables, p \in Paths :
        \/ acked'[tbl][p] = NoEntry
        \/ acked'[tbl][p] = acked[tbl][p] /\ InFlight(tbl, p) \subseteq InFlight(tbl, p)'
  BY ReturnAcked
<1> QED BY <1>1, StillNewest

LEMMA NewestAddEntry ==
  ASSUME TypeOK, NewestAcked, NEW t \in Tasks, add_entry(t)
  PROVE  NewestAcked'
<1> DEFINE x == NewEntry(t, arg[t].node)
           b == arg[t].tbl
<1>1. /\ pc[t] = "add" /\ pc[t] # Idle /\ Return(t, x)
      /\ hlist' = [hlist EXCEPT ![b] = Append(hlist[b], x)]
      /\ b \in Tables /\ x \in Entry /\ x.path = arg[t].path
  BY NewEntryType DEF add_entry, hash_add, Idle
<1> HIDE DEF x
<1>2. /\ acked'[b][arg[t].path] = x /\ arg[t].path \in Paths
      /\ \A tbl \in Tables, p \in Paths : ~(b = tbl /\ arg[t].path = p) =>
           acked'[tbl][p] = acked[tbl][p] /\ InFlight(tbl, p) \subseteq InFlight(tbl, p)'
  BY <1>1, ReturnAcked
<1> HIDE DEF b
<1>3. hlist[b] \in Seq(Entry)
  BY <1>1, EntryFacts
<1>4. LastIn(hlist'[b], EntriesOf(arg[t].path), acked'[b][arg[t].path])
  BY <1>1, <1>2, <1>3, AdditionNewest
<1>5. ASSUME NEW tbl \in Tables, NEW p \in Paths, ~(b = tbl /\ arg[t].path = p),
             NEW e, LastIn(hlist[tbl], EntriesOf(p), e)
      PROVE  LastIn(hlist'[tbl], EntriesOf(p), e)
  <2>1. CASE tbl = b
    <3>1. x.path # p /\ LastIn(hlist[b], EntriesOf(p), e)
      BY <1>1, <1>5, <2>1
    <3> QED BY <1>1, <1>3, <2>1, <3>1, AdditionNewest
  <2>2. CASE tbl # b
    BY <1>1, <1>5, <2>2 DEF TypeOK
  <2> QED BY <2>1, <2>2
<1> QED BY <1>2, <1>4, <1>5, StillNewest

LEMMA NewestReplace ==
  ASSUME TypeOK, NewestAcked, NEW t \in Tasks, pc[t] = "upd", ~Refused("kstat", arg[t].path),
         NEW k \in Dups("kstat", arg[t].path),
         hlist' = [hlist EXCEPT !["kstat"] = Append(RemoveAt(hlist["kstat"], k), Updated(t, k))],
         Return(t, Updated(t, k))
  PROVE  NewestAcked'
<1> DEFINE x == Updated(t, k)
           q == arg[t].path
           s == RemoveAt(hlist["kstat"], k)
<1>1. /\ "kstat" \in Tables /\ q \in Paths /\ arg[t].tbl = "kstat" /\ pc[t] # Idle
      /\ k \in DOMAIN hlist["kstat"] /\ x \in Entry /\ x.path = q
      /\ hlist["kstat"][k].path = q
  BY UpdatedType DEF TypeOK, Idle
<1>2. hlist["kstat"] \in Seq(Entry) /\ k \in 1..Len(hlist["kstat"])
  BY <1>1, EntryFacts
<1>3. s \in Seq(Entry) /\ hlist' = [hlist EXCEPT !["kstat"] = Append(s, x)]
  BY <1>2, RemoveAtShifts
<1>4. /\ acked'["kstat"][q] = x
      /\ \A tbl \in Tables, p \in Paths : ~("kstat" = tbl /\ q = p) =>
           acked'[tbl][p] = acked[tbl][p] /\ InFlight(tbl, p) \subseteq InFlight(tbl, p)'
  BY <1>1, ReturnAcked
<1>5. ASSUME NEW p \in Paths, q # p, NEW e, LastIn(hlist["kstat"], EntriesOf(p), e)
      PROVE  LastIn(s, EntriesOf(p), e)
  <2>1. hlist["kstat"][k] \notin EntriesOf(p)
    BY <1>1, <1>5 DEF EntriesOf
  <2> QED BY <1>1, <1>2, <1>5, <2>1, LastInOtherRemoved
<1> HIDE DEF x, q, s
<1>6. LastIn(hlist'["kstat"], EntriesOf(q), acked'["kstat"][q])
  BY <1>1, <1>3, <1>4, AdditionNewest
<1>7. ASSUME NEW tbl \in Tables, NEW p \in Paths, ~("kstat" = tbl /\ q = p),
             NEW e, LastIn(hlist[tbl], EntriesOf(p), e)
      PROVE  LastIn(hlist'[tbl], EntriesOf(p), e)
  <2>1. CASE tbl = "kstat"
    <3>1. x.path # p /\ LastIn(s, EntriesOf(p), e)
      BY <1>1, <1>5, <1>7, <2>1
    <3> QED BY <1>1, <1>3, <2>1, <3>1, AdditionNewest
  <2>2. CASE tbl # "kstat"
    BY <1>1, <1>3, <1>7, <2>2 DEF TypeOK
  <2> QED BY <2>1, <2>2
<1> QED BY <1>4, <1>6, <1>7, StillNewest

LEMMA NewestUpdateStep ==
  ASSUME TypeOK, NewestAcked, NEW t \in Tasks, UpdateStep(t)
  PROVE  NewestAcked'
<1>1. pc[t] = "upd" /\ pc[t] # Idle /\ arg[t].tbl = "kstat"
  BY DEF UpdateStep, Idle, TypeOK
<1>2. ASSUME Return(t, acked["kstat"][arg[t].path]), UNCHANGED hlist
      PROVE  NewestAcked'
  <2>1. \A tbl \in Tables, p \in Paths : acked'[tbl][p] = acked[tbl][p]
    BY <1>1, <1>2, ReturnAcked
  <2>2. \A tbl \in Tables, p \in Paths : InFlight(tbl, p) \subseteq InFlight(tbl, p)'
    BY <1>1, <1>2 DEF InFlight, Return, TypeOK
  <2> QED BY <1>2, <2>1, <2>2, StillNewest
<1>3. CASE update_not_found(t) \/ update_refused(t)
  BY <1>1, <1>2, <1>3 DEF update_not_found, update_refused, ReturnAsBefore
<1>4. CASE update_replace(t)
  <2>1. ~Refused("kstat", arg[t].path)
    BY <1>4 DEF update_replace
  <2>2. PICK k \in Dups("kstat", arg[t].path) :
           \/ Return(t, acked["kstat"][arg[t].path]) /\ UNCHANGED hlist
           \/ /\ hlist' = [hlist EXCEPT !["kstat"] =
                              Append(RemoveAt(hlist["kstat"], k), Updated(t, k))]
              /\ Return(t, Updated(t, k))
    BY <1>1, <1>4 DEF update_replace, ReturnAsBefore, hash_add, Updated
  <2> QED BY <1>1, <1>2, <2>1, <2>2, NewestReplace
<1> QED BY <1>3, <1>4 DEF UpdateStep

LEMMA NewestNext == TypeOK /\ NewestAcked /\ [Next]_vars => NewestAcked'
<1> SUFFICES ASSUME TypeOK, NewestAcked, [Next]_vars PROVE NewestAcked'
  OBVIOUS
<1>0. ASSUME UNCHANGED <<hlist, acked>>,
             \A tbl \in Tables, p \in Paths : InFlight(tbl, p) \subseteq InFlight(tbl, p)'
      PROVE  NewestAcked'
  BY <1>0, StillNewest
<1>1. CASE UNCHANGED vars
  BY <1>0, <1>1 DEF vars, InFlight
<1>2. CASE CallStep
  <2>1. PICK t \in Tasks : /\ pc[t] = Idle /\ UNCHANGED <<hlist, acked>>
                           /\ \E to : pc' = [pc EXCEPT ![t] = to]
                           /\ \E a : arg' = [arg EXCEPT ![t] = a]
    BY <1>2 DEF CallStep, Call
  <2>2. \A tbl \in Tables, p \in Paths : InFlight(tbl, p) \subseteq InFlight(tbl, p)'
    BY <2>1 DEF InFlight, TypeOK, Idle
  <2> QED BY <1>0, <2>1, <2>2
<1>3. CASE \E t \in Tasks : delete_old(t)
  BY <1>3, NewestDeleteOld
<1>4. CASE \E t \in Tasks : FailStep(t)
  <2>1. PICK t \in Tasks : Return(t, NoEntry) /\ UNCHANGED hlist /\ pc[t] # Idle
    BY <1>4 DEF FailStep, kmalloc_fails, update_inode_fails, ReturnError, Idle
  <2> QED BY <2>1, NewestFail
<1>5. CASE \E t \in Tasks : update_inode(t)
  <2>1. PICK t \in Tasks :
          /\ pc[t] = "alloc" /\ pc' = [pc EXCEPT ![t] = "add"] /\ UNCHANGED <<hlist, acked>>
          /\ arg' = [arg EXCEPT ![t].node = resolve[arg[t].path]]
    BY <1>5 DEF update_inode
  <2>2. arg[t] \in Arg
    BY <2>1 DEF TypeOK, Idle
  <2>3. \A u \in Tasks : pc[u] \in {"alloc", "add"} =>
          /\ pc'[u] \in {"alloc", "add"}
          /\ arg'[u].tbl = arg[u].tbl /\ arg'[u].path = arg[u].path
    BY <2>1, <2>2 DEF TypeOK, Arg
  <2>4. \A tbl \in Tables, p \in Paths : InFlight(tbl, p) \subseteq InFlight(tbl, p)'
    BY <2>3 DEF InFlight
  <2> QED BY <1>0, <2>1, <2>4
<1>6. CASE \E t \in Tasks : add_entry(t)
  BY <1>6, NewestAddEntry
<1>7. CASE \E t \in Tasks : UpdateStep(t)
  BY <1>7, NewestUpdateStep
<1>8. CASE (\E p \in Paths : Relink(p)) \/ (\E n \in Inodes : Evict(n))
  BY <1>0, <1>8 DEF Relink, Evict, InFlight
<1> QED BY <1>1, <1>2, <1>3, <1>4, <1>5, <1>6, <1>7, <1>8, NextSteps

\* hash_for_each_possible finds the newest entry with a number.
LEMMA LookupLast ==
  ASSUME TypeOK, NEW tbl \in Tables, NEW ino, NEW e,
         LastIn(hlist[tbl], {x \in Entry : x.ino = ino}, e)
  PROVE  Lookup(tbl, ino) = e
<1> DEFINE K == {k \in DOMAIN hlist[tbl] : hlist[tbl][k].ino = ino}
<1>1. K = Pos(hlist[tbl], {x \in Entry : x.ino = ino})
  BY EntryFacts DEF Pos
<1>2. PICK k \in K : hlist[tbl][k] = e /\ \A j \in K : j <= k
  BY <1>1 DEF LastIn
<1>3. K \subseteq Nat
  BY EntryFacts
<1>4. Lookup(tbl, ino) = IF K = {} THEN NoEntry ELSE hlist[tbl][Max(K)]
  BY DEF Lookup
<1> HIDE DEF K
<1>5. ASSUME NEW x \in K PROVE (\A y \in K : x >= y) <=> x = k
  <2>1. x \in Nat /\ k \in Nat /\ k \in K /\ x <= k
    BY <1>2, <1>3
  <2>2. ASSUME x = k PROVE \A y \in K : x >= y
    BY <1>2, <1>3, <2>2
  <2>3. ASSUME \A y \in K : x >= y PROVE x = k
    <3>1. x >= k
      BY <2>1, <2>3
    <3> QED BY <2>1, <3>1
  <2> QED BY <2>2, <2>3
<1>6. Max(K) = k
  <2>1. \E x \in K : \A y \in K : x >= y
    BY <1>2, <1>5
  <2>2. Max(K) \in K /\ \A y \in K : Max(K) >= y
    BY <2>1 DEF Max
  <2> QED BY <1>5, <2>2
<1> QED BY <1>2, <1>4, <1>6

\* The entry that readers find for a number that is claimed by pathnames at rest.
LEMMA FirstClaim ==
  ASSUME TypeOK, NewestAcked, NEW tbl \in Tables, NEW ino, Claimants(tbl, ino) # {},
         \A q \in Claimants(tbl, ino) : Settled(tbl, q, ino)
  PROVE  \E q \in Claimants(tbl, ino) : Lookup(tbl, ino) = acked[tbl][q]
<1> DEFINE s == hlist[tbl]
           B == {x \in Entry : x.ino = ino}
<1>1. s \in Seq(Entry) /\ \A k \in DOMAIN s : s[k] \in Entry
  BY EntryFacts
<1>2. \A k \in Pos(s, B) : s[k].path \in Claimants(tbl, ino)
  BY <1>1 DEF Pos, Claimants, Dups, Entry
<1>3. Pos(s, B) # {}
  BY <1>1 DEF Claimants, Dups, Pos
<1> HIDE DEF s
<1>4. PICK k \in Pos(s, B) : \A j \in Pos(s, B) : j <= k
  BY <1>1, <1>3, LastExists
<1> DEFINE q == s[k].path
<1>5. q \in Claimants(tbl, ino) /\ q \in Paths /\ k \in Pos(s, EntriesOf(q))
  BY <1>1, <1>2, <1>4 DEF EntriesOf, Claimants, Pos
<1>6. LastIn(s, EntriesOf(q), acked[tbl][q]) /\ acked[tbl][q] \in B
  BY <1>5 DEF Settled, NewestAcked, TypeOK, s
<1>7. PICK m \in Pos(s, EntriesOf(q)) : s[m] = acked[tbl][q] /\ \A j \in Pos(s, EntriesOf(q)) : j <= m
  BY <1>6 DEF LastIn
<1>8. m \in Pos(s, B) /\ m \in Int /\ k \in Int
  BY <1>1, <1>4, <1>6, <1>7, LenProperties DEF Pos
<1>9. m = k
  BY <1>4, <1>5, <1>7, <1>8
<1>10. LastIn(s, B, acked[tbl][q])
  BY <1>4, <1>7, <1>9 DEF LastIn
<1> QED BY <1>5, <1>10, LookupLast DEF s

LEMMA NewestEffective == TypeOK /\ NewestAcked /\ FlagPrecedesEntry => LastCommandEffective
<1> SUFFICES ASSUME TypeOK, NewestAcked, FlagPrecedesEntry,
                    NEW tbl \in Tables, NEW p \in Paths,
                    acked[tbl][p] # NoEntry, Settled(tbl, p, acked[tbl][p].ino),
                    \A q \in Claimants(tbl, acked[tbl][p].ino) : Settled(tbl, q, acked[tbl][p].ino),
                    InoOf[acked[tbl][p].node] = acked[tbl][p].ino,
                    acked[tbl][p].node \notin evicted
             PROVE  \E q \in Claimants(tbl, acked[tbl][p].ino) :
                      Shows(tbl, acked[tbl][p].node, acked[tbl][q])
  BY DEF LastCommandEffective
<1> DEFINE n == acked[tbl][p].node
           ino == acked[tbl][p].ino
<1>1. PICK k \in DOMAIN hlist[tbl] : hlist[tbl][k] = acked[tbl][p]
  BY DEF Settled, NewestAcked, LastIn, Pos
<1>2. p \in Claimants(tbl, ino) /\ tbl \in flags[n]
  <2>1. LastIn(hlist[tbl], EntriesOf(p), acked[tbl][p])
    BY DEF Settled, NewestAcked
  <2>2. acked[tbl][p] \in EntriesOf(p)
    BY <2>1 DEF LastIn, Pos
  <2> QED BY <1>1, <2>2 DEF Claimants, Dups, FlagPrecedesEntry, EntriesOf
<1>3. PICK q \in Claimants(tbl, ino) : Lookup(tbl, ino) = acked[tbl][q]
  BY <1>2, FirstClaim
<1> DEFINE e == acked[tbl][q]
<1>4. Lookup(tbl, InoOf[n]) = e /\ e # NoEntry /\ e \in Entry
  BY <1>3 DEF Settled, TypeOK, Claimants
<1> HIDE DEF e, n
<1>5. ASSUME tbl = "path" PROVE Shows(tbl, n, e)
  BY <1>4, <1>5 DEF Shows, filldir64_hides, susfs_sus_ino_for_filldir64
<1>6. ASSUME tbl = "kstat" PROVE Shows(tbl, n, e)
  BY <1>2, <1>4, <1>6 DEF Shows, generic_fillattr, show_map_vma
<1>7. ASSUME tbl = "redirect" PROVE Shows(tbl, n, e)
  <2>1. e.val.data # "-ENOENT"
    BY <1>4, DataAssumption DEF Entry, Val
  <2> QED BY <1>2, <1>4, <1>7, <2>1 DEF Shows, do_filp_open, susfs_get_redirected_path
<1>8. Shows(tbl, n, e)
  BY <1>5, <1>6, <1>7, TablesAssumption DEF AllTables
<1> QED BY <1>3, <1>8 DEF e, n

(* Once no command for a pathname is under way, the readers show what the   *)
(* last command that made an entry of it asked for, or what that of another *)
(* pathname with the number did, unless the number the tool read is not     *)
(* that of the flagged inode, or the inode was evicted.                     *)
THEOREM LastCommandEffectiveCorrect == Spec => []LastCommandEffective
<1>1. Init => NewestAcked
  BY DEF Init, NewestAcked
<1> QED BY <1>1, TypeCorrect, NewestNext, NewestEffective, FlagPrecedesEntryCorrect, PTL DEF Spec

-----------------------------------------------------------------------------
(* One bucket at the level of its pointers (HlistWalk).                      *)

\* The nodes that a command is removing, and those it has unlinked already.
Victims == {victim[w] : w \in {v \in Writers : wpc[v] \in {"hash_del", "init", "kfree"}}}
Gone    == {victim[w] : w \in {v \in Writers : wpc[v] \in {"init", "kfree"}}}

\* The nodes that the pointers lead through.
Chain == Linked \ Gone

\* The node that the command has made is still its own.
HasNode(w) ==
  \/ wpc[w] \in {"spin_lock", "hash_add", "publish"}
  \/ wpc[w] \in {"hash_del", "init", "kfree"} /\ info[w].update

\* What a command has in hand.
WritersInv ==
  /\ \A w \in Writers : wpc[w] # "idle" => info[w] \in Issued
  /\ \A w \in Writers : IF wpc[w] \in {"hash_del", "init", "kfree"}
                        THEN victim[w] \in Linked ELSE victim[w] = NULL
  /\ \A w \in Writers : HasNode(w) => node[w] \in Nodes /\ state[node[w]] = "private"
  /\ \A v, w \in Writers : HasNode(v) /\ HasNode(w) /\ node[v] = node[w] => v = w

\* Where the pointers of the nodes that are not in the chain lead.
PointersInv ==
  /\ \A w \in Writers : wpc[w] = "publish" => next[node[w]] = first
  /\ \A w \in Writers : wpc[w] = "init" => next[victim[w]] \in Chain \cup {NULL}
  /\ \A w \in Writers : wpc[w] = "kfree" => next[victim[w]] = NULL

\* A walk that has read no foreign memory.
Sane == Walking \ stray

\* It stands on a linked node, and knows every node of the chain with its key.
Placed(r) ==
  /\ at[r] # NULL => at[r] \in Linked /\ (entry[at[r]].key = want[r] => at[r] \in had[r])
  /\ rpc[r] = "use" => at[r] # NULL /\ entry[at[r]].key = want[r]
  /\ rpc[r] = "next" => at[r] # NULL /\ entry[at[r]].key # want[r]
  /\ \A n \in Chain : entry[n].key = want[r] => n \in had[r]
  /\ \A n \in stable[r] : n \in Chain /\ n \notin Victims /\ entry[n].key = want[r]

ReadersInv == \A r \in Sane : Placed(r)

\* x is the highest of S, or NULL if there is none.
Highest(x, S, rank) ==
  IF S = {} THEN x = NULL ELSE x \in S /\ \A m \in S : rank[m] <= rank[x]

Below(n, rank) == {m \in Chain : rank[m] < rank[n]}

\* The pointers lead from each node of the chain to the one next below it.
Ordered(rank) ==
  /\ \A m, n \in Chain : rank[m] = rank[n] => m = n
  /\ Highest(first, Chain, rank)
  /\ \A n \in Chain : Highest(next[n], Below(n, rank), rank)

\* A walk that no removal has led astray has before it what stayed all the while.
Before(r, rank) ==
  \A m \in stable[r] : at[r] # NULL /\ rank[m] <= rank[at[r]]

Ahead(rank) == \A r \in Sane \ cut : at[r] \notin Victims => Before(r, rank)

\* One that came to the end has met all that stayed.
Missed(r) == rpc[r] = "none" /\ r \notin stray /\ r \notin cut => stable[r] = {}

MissedInv == \A r \in Readers : Missed(r)

HWInv ==
  /\ HWTypeOK /\ WritersInv /\ PointersInv /\ ReadersInv /\ MissedInv
  /\ \E rank \in [Nodes -> Nat] : Ordered(rank) /\ Ahead(rank)

-----------------------------------------------------------------------------
(* The type of the state, and what the commands have in hand.                *)
HWTyped == HWTypeOK /\ WritersInv

\* Who is in a critical section is there alone.
LEMMA Alone ==
  ASSUME HWTypeOK, NEW w \in Writers, wpc[w] \in Inside
  PROVE  /\ \A v \in Writers : wpc[v] \in Inside => v = w
         /\ Gone = IF wpc[w] \in {"init", "kfree"} THEN {victim[w]} ELSE {}
         /\ Victims = IF wpc[w] \in {"hash_del", "init", "kfree"} THEN {victim[w]} ELSE {}
  <1>1. \A v \in Writers : wpc[v] \in Inside => v = w
    BY DEF HWTypeOK
  <1>2. \A v \in Writers : wpc[v] \in {"hash_del", "init", "kfree"} => v = w
    BY <1>1 DEF Inside
  <1> QED BY <1>1, <1>2 DEF Gone, Victims

\* Nobody is, while the lock is free.
LEMMA Nobody ==
  ASSUME HWTypeOK, lock = NoTask
  PROVE  /\ \A v \in Writers : wpc[v] \notin Inside
         /\ Gone = {} /\ Victims = {}
  <1>1. \A v \in Writers : wpc[v] \notin Inside
    BY NodesAssumption DEF HWTypeOK
  <1>2. \A v \in Writers : wpc[v] \notin {"hash_del", "init", "kfree"}
    BY <1>1 DEF Inside
  <1> QED BY <1>1, <1>2 DEF Gone, Victims

LEMMA IssuedFields ==
  ASSUME NEW c \in Issued
  PROVE  c.entry \in BucketEntry /\ c.update \in BOOLEAN
  BY IssuedAssumption

LEMMA TypeIssue ==
  ASSUME HWTyped, NEW w \in Writers, NEW c \in Issued, Issue(w, c)
  PROVE  HWTyped'
  <1> USE DEF HWTyped
  <1>1. /\ wpc[w] = "idle" /\ wpc' = [wpc EXCEPT ![w] = "find"]
        /\ info' = [info EXCEPT ![w] = c]
        /\ UNCHANGED <<bucket, lock, node, victim, readers, walks>>
    BY DEF Issue
  <1>2. HWTypeOK'
    BY <1>1 DEF HWTypeOK, Inside, bucket, readers, walks
  <1>3. \A v \in Writers : v # w => wpc'[v] = wpc[v] /\ info'[v] = info[v]
    BY <1>1 DEF HWTypeOK
  <1>4. wpc'[w] = "find" /\ info'[w] = c
    BY <1>1 DEF HWTypeOK
  <1>5. \A v \in Writers : HasNode(v)' => v # w /\ HasNode(v)
    BY <1>3, <1>4 DEF HasNode
  <1>6. WritersInv'
    BY <1>1, <1>3, <1>4, <1>5 DEF WritersInv, Linked, bucket
  <1> QED BY <1>2, <1>6

\* The commands but w are as they were, in pc and memory.
LEMMA WritersElse ==
  ASSUME HWTyped, NEW w \in Writers,
         \A v \in Writers \ {w} :
           /\ wpc'[v] = wpc[v] /\ info'[v] = info[v] /\ node'[v] = node[v] /\ victim'[v] = victim[v],
         \A v \in Writers \ {w} : HasNode(v) => state'[node[v]] = "private",
         \A v \in Writers \ {w} : victim[v] \in Linked => victim[v] \in Linked',
         wpc'[w] # "idle" => info'[w] \in Issued,
         IF wpc'[w] \in {"hash_del", "init", "kfree"}
           THEN victim'[w] \in Linked' ELSE victim'[w] = NULL,
         HasNode(w)' => /\ node'[w] \in Nodes /\ state'[node'[w]] = "private"
                        /\ \A v \in Writers \ {w} : HasNode(v) => node[v] # node'[w]
  PROVE  WritersInv'
  <1> USE DEF HWTyped
  <1>1. \A v \in Writers \ {w} : HasNode(v)' <=> HasNode(v)
    BY DEF HasNode
  <1>2. \A v \in Writers : wpc'[v] # "idle" => info'[v] \in Issued
    BY DEF WritersInv
  <1>3. \A v \in Writers : IF wpc'[v] \in {"hash_del", "init", "kfree"}
                           THEN victim'[v] \in Linked' ELSE victim'[v] = NULL
    BY DEF WritersInv
  <1>4. \A v \in Writers : HasNode(v)' => node'[v] \in Nodes /\ state'[node'[v]] = "private"
    BY <1>1 DEF WritersInv
  <1>5. ASSUME NEW u \in Writers, NEW v \in Writers, HasNode(u)', HasNode(v)', node'[u] = node'[v]
        PROVE  u = v
    BY <1>1, <1>5 DEF WritersInv
  <1> QED BY <1>2, <1>3, <1>4, <1>5 DEF WritersInv

\* What an entry in hand is, by the step of the command.
LEMMA InHand ==
  ASSUME HWTyped, NEW w \in Writers
  PROVE  /\ wpc[w] # "idle" => info[w] \in Issued /\ info[w].entry \in BucketEntry
         /\ wpc[w] \in {"hash_del", "init", "kfree"} =>
              victim[w] \in Nodes /\ state[victim[w]] = "linked"
         /\ wpc[w] \notin {"hash_del", "init", "kfree"} => victim[w] = NULL
         /\ HasNode(w) => node[w] \in Nodes /\ state[node[w]] = "private"
  <1>1. wpc[w] # "idle" => info[w] \in Issued
    BY DEF HWTyped, WritersInv
  <1>2. wpc[w] # "idle" => info[w].entry \in BucketEntry
    BY <1>1, IssuedFields
  <1> QED BY <1>1, <1>2 DEF HWTyped, WritersInv, Linked

LEMMA FreeFacts ==
  ASSUME NEW m \in Free
  PROVE  m \in Nodes /\ state[m] = "free"
  BY DEF Free

LEMMA TypeBeginRemoval ==
  ASSUME HWTyped, NEW w \in Writers, wpc[w] = "find", lock = NoTask, NEW n \in Found(w),
         BeginRemoval(w, n)
  PROVE  /\ n \in Linked
         /\ wpc' = [wpc EXCEPT ![w] = "hash_del"] /\ lock' = w
         /\ wpc' \in [Writers -> {"idle", "find", "kmalloc", "spin_lock"} \cup Inside]
         /\ \A v \in Writers : lock' = v <=> wpc'[v] \in Inside
         /\ victim' = [victim EXCEPT ![w] = n] /\ victim' \in [Writers -> Nodes \cup {NULL}]
         /\ stable' = [r \in Readers |-> stable[r] \ {n}]
         /\ stable' \in [Readers -> SUBSET Nodes]
  <1>1. n \in Linked
    BY DEF Found, HasName
  <1>2. /\ wpc' = [wpc EXCEPT ![w] = "hash_del"] /\ lock' = w
        /\ victim' = [victim EXCEPT ![w] = n]
        /\ stable' = [r \in Readers |-> stable[r] \ {n}]
    BY DEF BeginRemoval
  <1>3. n \in Nodes
    BY <1>1 DEF Linked
  <1>4. victim' \in [Writers -> Nodes \cup {NULL}] /\ stable' \in [Readers -> SUBSET Nodes]
    BY <1>2, <1>3 DEF HWTyped, HWTypeOK
  <1>5. wpc' \in [Writers -> {"idle", "find", "kmalloc", "spin_lock"} \cup Inside]
    BY <1>2 DEF HWTyped, HWTypeOK, Inside
  <1>6. \A v \in Writers : wpc[v] \notin Inside
    BY Nobody DEF HWTyped
  <1>7. \A v \in Writers : lock' = v <=> wpc'[v] \in Inside
    <2>1. wpc'[w] = "hash_del" /\ \A v \in Writers : v # w => wpc'[v] = wpc[v]
      BY <1>2 DEF HWTyped, HWTypeOK
    <2> QED BY <1>2, <1>6, <2>1 DEF Inside
  <1> QED BY <1>1, <1>2, <1>4, <1>5, <1>7

LEMMA TypeDone ==
  ASSUME HWTyped, NEW w \in Writers, Done(w)
  PROVE  /\ wpc' = [wpc EXCEPT ![w] = "idle"] /\ wpc'[w] = "idle" /\ victim'[w] = NULL
         /\ wpc' \in [Writers -> {"idle", "find", "kmalloc", "spin_lock"} \cup Inside]
         /\ info' \in [Writers -> Issued \cup {NULL}]
         /\ node' \in [Writers -> Nodes \cup {NULL}] /\ victim' \in [Writers -> Nodes \cup {NULL}]
         /\ \A v \in Writers \ {w} :
           /\ wpc'[v] = wpc[v] /\ info'[v] = info[v] /\ node'[v] = node[v] /\ victim'[v] = victim[v]
  BY DEF HWTyped, HWTypeOK, Done

LEMMA TypeHashForEach ==
  ASSUME HWTyped, NEW w \in Writers, hash_for_each(w)
  PROVE  HWTyped'
  <1> USE DEF HWTyped
  <1>1. /\ wpc[w] = "find" /\ lock = NoTask /\ info[w] \in Issued /\ victim[w] = NULL
        /\ info[w].update = FALSE
        /\ UNCHANGED <<bucket, info, node, readers, had, cut, stray>>
    <2>1. /\ wpc[w] = "find" /\ lock = NoTask /\ ~info[w].update
          /\ UNCHANGED <<bucket, info, node, readers, had, cut, stray>>
      BY DEF hash_for_each
    <2> QED BY <2>1, InHand, IssuedFields
  <1>2. CASE wpc' = [wpc EXCEPT ![w] = "kmalloc"] /\ UNCHANGED <<lock, victim, stable>>
    <2>1. HWTypeOK'
      BY <1>1, <1>2 DEF HWTypeOK, Inside, bucket, readers
    <2>2. wpc'[w] = "kmalloc" /\ \A v \in Writers : v # w => wpc'[v] = wpc[v]
      BY <1>2 DEF HWTypeOK
    <2>3. WritersInv'
      <3>1. \A v \in Writers \ {w} : HasNode(v) => state'[node[v]] = "private"
        BY <1>1 DEF WritersInv, bucket
      <3>2. ~HasNode(w)'
        BY <2>2 DEF HasNode
      <3> QED BY <1>1, <1>2, <2>2, <3>1, <3>2, WritersElse DEF bucket, Linked
    <2> QED BY <2>1, <2>3
  <1>3. CASE \E n \in Found(w) : BeginRemoval(w, n)
    <2>1. PICK n \in Found(w) : BeginRemoval(w, n)
      BY <1>3
    <2>2. /\ n \in Linked
          /\ wpc' = [wpc EXCEPT ![w] = "hash_del"] /\ lock' = w
          /\ wpc' \in [Writers -> {"idle", "find", "kmalloc", "spin_lock"} \cup Inside]
          /\ \A v \in Writers : lock' = v <=> wpc'[v] \in Inside
          /\ victim' = [victim EXCEPT ![w] = n] /\ victim' \in [Writers -> Nodes \cup {NULL}]
          /\ stable' \in [Readers -> SUBSET Nodes]
      BY <1>1, <2>1, TypeBeginRemoval
    <2>3. HWTypeOK'
      BY <1>1, <2>2 DEF HWTypeOK, bucket, readers
    <2>4. /\ wpc'[w] = "hash_del" /\ victim'[w] = n
          /\ \A v \in Writers : v # w => wpc'[v] = wpc[v] /\ victim'[v] = victim[v]
      BY <2>2 DEF HWTypeOK
    <2>5. WritersInv'
      <3>1. \A v \in Writers \ {w} : HasNode(v) => state'[node[v]] = "private"
        BY <1>1 DEF WritersInv, bucket
      <3>2. ~HasNode(w)'
        BY <1>1, <2>4 DEF HasNode
      <3>3. Linked' = Linked
        BY <1>1 DEF bucket, Linked
      <3> QED BY <1>1, <2>2, <2>4, <3>1, <3>2, <3>3, WritersElse
    <2> QED BY <2>3, <2>5
  <1> QED BY <1>2, <1>3 DEF hash_for_each

\* A free node that a command takes for its entry.
LEMMA TakeNode ==
  ASSUME HWTyped, NEW w \in Writers, wpc[w] # "idle", NEW m \in Free,
         state' = [state EXCEPT ![m] = "private"],
         entry' = [entry EXCEPT ![m] = info[w].entry],
         node' = [node EXCEPT ![w] = m]
  PROVE  /\ state' \in [Nodes -> {"free", "private", "linked"}]
         /\ entry' \in [Nodes -> BucketEntry \cup {NULL}]
         /\ node' \in [Writers -> Nodes \cup {NULL}]
         /\ Linked' = Linked
         /\ \A n \in Linked : entry'[n] = entry[n]
         /\ node'[w] \in Nodes /\ state'[node'[w]] = "private"
         /\ \A v \in Writers \ {w} :
              node'[v] = node[v] /\ (HasNode(v) => state'[node[v]] = "private" /\ node[v] # node'[w])
  <1> USE DEF HWTyped
  <1>1. m \in Nodes /\ state[m] = "free" /\ info[w].entry \in BucketEntry
    BY FreeFacts, InHand
  <1>2. node'[w] = m /\ \A v \in Writers \ {w} : node'[v] = node[v]
    BY DEF HWTypeOK
  <1>3. state'[m] = "private" /\ \A n \in Nodes : n # m => state'[n] = state[n]
    BY <1>1 DEF HWTypeOK
  <1>4. \A v \in Writers : HasNode(v) => node[v] \in Nodes /\ state[node[v]] = "private"
    BY DEF WritersInv
  <1>5. Linked' = Linked /\ m \notin Linked
    BY <1>1, <1>3 DEF Linked
  <1>6. \A n \in Linked : entry'[n] = entry[n]
    BY <1>5 DEF Linked, HWTypeOK
  <1>7. /\ state' \in [Nodes -> {"free", "private", "linked"}]
        /\ entry' \in [Nodes -> BucketEntry \cup {NULL}]
        /\ node' \in [Writers -> Nodes \cup {NULL}]
    BY <1>1 DEF HWTypeOK
  <1> QED BY <1>1, <1>2, <1>3, <1>4, <1>5, <1>6, <1>7

LEMMA TypeHashForEachUpdate ==
  ASSUME HWTyped, NEW w \in Writers, hash_for_each_update(w)
  PROVE  HWTyped'
  <1> USE DEF HWTyped
  <1>1. /\ wpc[w] = "find" /\ lock = NoTask /\ info[w] \in Issued
        /\ UNCHANGED <<first, next, readers, had, cut, stray>>
    <2>1. wpc[w] = "find" /\ lock = NoTask /\ UNCHANGED <<first, next, readers, had, cut, stray>>
      BY DEF hash_for_each_update
    <2> QED BY <2>1, InHand
  <1>2. CASE Done(w) /\ UNCHANGED <<state, entry, lock, stable>>
    <2>1. /\ wpc' = [wpc EXCEPT ![w] = "idle"] /\ wpc'[w] = "idle" /\ victim'[w] = NULL
          /\ wpc' \in [Writers -> {"idle", "find", "kmalloc", "spin_lock"} \cup Inside]
          /\ info' \in [Writers -> Issued \cup {NULL}]
          /\ node' \in [Writers -> Nodes \cup {NULL}] /\ victim' \in [Writers -> Nodes \cup {NULL}]
          /\ \A v \in Writers \ {w} :
            /\ wpc'[v] = wpc[v] /\ info'[v] = info[v] /\ node'[v] = node[v] /\ victim'[v] = victim[v]
      BY <1>2, TypeDone
    <2>2. \A v \in Writers : lock' = v <=> wpc'[v] \in Inside
      BY <1>1, <1>2, <2>1 DEF HWTypeOK, Inside
    <2>3. HWTypeOK'
      BY <1>1, <1>2, <2>1, <2>2 DEF HWTypeOK, readers
    <2>4. WritersInv'
      <3>1. \A v \in Writers \ {w} : HasNode(v) => state'[node[v]] = "private"
        BY <1>2 DEF WritersInv
      <3>2. ~HasNode(w)'
        BY <2>1 DEF HasNode
      <3>3. Linked' = Linked
        BY <1>2 DEF Linked
      <3> QED BY <2>1, <3>1, <3>2, <3>3, WritersElse
    <2> QED BY <2>3, <2>4
  <1>3. CASE \E n \in Found(w), m \in Free :
               /\ state' = [state EXCEPT ![m] = "private"]
               /\ entry' = [entry EXCEPT ![m] = info[w].entry]
               /\ node' = [node EXCEPT ![w] = m]
               /\ BeginRemoval(w, n)
               /\ UNCHANGED info
    <2>1. PICK n \in Found(w), m \in Free :
               /\ state' = [state EXCEPT ![m] = "private"]
               /\ entry' = [entry EXCEPT ![m] = info[w].entry]
               /\ node' = [node EXCEPT ![w] = m]
               /\ BeginRemoval(w, n)
               /\ UNCHANGED info
      BY <1>3
    <2>2. /\ n \in Linked
          /\ wpc' = [wpc EXCEPT ![w] = "hash_del"]
          /\ wpc' \in [Writers -> {"idle", "find", "kmalloc", "spin_lock"} \cup Inside]
          /\ \A v \in Writers : lock' = v <=> wpc'[v] \in Inside
          /\ victim' = [victim EXCEPT ![w] = n] /\ victim' \in [Writers -> Nodes \cup {NULL}]
          /\ stable' \in [Readers -> SUBSET Nodes]
      BY <1>1, <2>1, TypeBeginRemoval
    <2>3. /\ state' \in [Nodes -> {"free", "private", "linked"}]
          /\ entry' \in [Nodes -> BucketEntry \cup {NULL}]
          /\ node' \in [Writers -> Nodes \cup {NULL}]
          /\ Linked' = Linked
          /\ node'[w] \in Nodes /\ state'[node'[w]] = "private"
          /\ \A v \in Writers \ {w} :
               node'[v] = node[v] /\ (HasNode(v) => state'[node[v]] = "private" /\ node[v] # node'[w])
      BY <1>1, <2>1, TakeNode
    <2>4. HWTypeOK'
      BY <1>1, <2>1, <2>2, <2>3 DEF HWTypeOK, readers
    <2>5. /\ wpc'[w] = "hash_del" /\ victim'[w] = n
          /\ \A v \in Writers : v # w => wpc'[v] = wpc[v] /\ victim'[v] = victim[v]
      BY <2>2 DEF HWTypeOK
    <2>6. WritersInv'
      BY <1>1, <2>1, <2>2, <2>3, <2>5, WritersElse
    <2> QED BY <2>4, <2>6
  <1> QED BY <1>2, <1>3 DEF hash_for_each_update

\* A step inside of a critical section that goes on with it.
LEMMA StaysInside ==
  ASSUME HWTyped, NEW w \in Writers, wpc[w] \in Inside, NEW step \in Inside,
         wpc' = [wpc EXCEPT ![w] = step], lock' = lock
  PROVE  /\ wpc' \in [Writers -> {"idle", "find", "kmalloc", "spin_lock"} \cup Inside]
         /\ \A v \in Writers : lock' = v <=> wpc'[v] \in Inside
         /\ wpc'[w] = step /\ \A v \in Writers : v # w => wpc'[v] = wpc[v]
  BY DEF HWTyped, HWTypeOK

\* While w is inside, no other command has a victim.
LEMMA NoOtherVictim ==
  ASSUME HWTyped, NEW w \in Writers, wpc[w] \in Inside
  PROVE  \A v \in Writers \ {w} : victim[v] = NULL /\ NULL \notin Linked
  <1>1. \A v \in Writers \ {w} : wpc[v] \notin {"hash_del", "init", "kfree"}
    BY Alone DEF HWTyped, Inside
  <1> QED BY <1>1, InHand, NodesAssumption DEF Linked

LEMMA TypeBypass ==
  ASSUME HWTyped, NEW w \in Writers, bypass(w)
  PROVE  HWTyped'
  <1> USE DEF HWTyped
  <1> DEFINE n == victim[w]
  <1>1. /\ wpc[w] = "hash_del" /\ wpc' = [wpc EXCEPT ![w] = "init"]
        /\ first' = IF first = n THEN next[n] ELSE first
        /\ next' = [p \in Nodes |-> IF state[p] = "linked" /\ next[p] = n THEN next[n] ELSE next[p]]
        /\ UNCHANGED <<entry, state, lock, info, node, victim, readers, walks>>
    BY DEF bypass
  <1>2. n \in Nodes
    BY <1>1, InHand
  <1> HIDE DEF n
  <1>3. first' \in Nodes \cup {NULL} /\ next' \in [Nodes -> Nodes \cup {NULL}]
    BY <1>1, <1>2 DEF HWTypeOK
  <1>4. /\ wpc' \in [Writers -> {"idle", "find", "kmalloc", "spin_lock"} \cup Inside]
        /\ \A v \in Writers : lock' = v <=> wpc'[v] \in Inside
        /\ wpc'[w] = "init" /\ \A v \in Writers : v # w => wpc'[v] = wpc[v]
    <2>1. "init" \in Inside /\ wpc[w] \in Inside
      BY <1>1 DEF Inside
    <2> QED BY <1>1, <2>1, StaysInside
  <1>5. HWTypeOK'
    BY <1>1, <1>3, <1>4 DEF HWTypeOK, readers, walks
  <1>6. HasNode(w)' <=> HasNode(w)
    BY <1>1, <1>4 DEF HasNode
  <1>7. Linked' = Linked
    BY <1>1 DEF Linked
  <1>8. \A v \in Writers : HasNode(v) => state'[node[v]] = "private"
    BY <1>1, InHand
  <1>9. WritersInv'
    <2>1. HasNode(w) => \A v \in Writers \ {w} : HasNode(v) => node[v] # node[w]
      BY DEF WritersInv
    <2>2. victim[w] \in Linked /\ info[w] \in Issued
      BY <1>1 DEF WritersInv
    <2> QED BY <1>1, <1>4, <1>6, <1>7, <1>8, <2>1, <2>2, InHand, WritersElse
  <1> QED BY <1>5, <1>9

LEMMA TypeInitNode ==
  ASSUME HWTyped, NEW w \in Writers, init_node(w)
  PROVE  HWTyped'
  <1> USE DEF HWTyped
  <1>1. /\ wpc[w] = "init" /\ wpc' = [wpc EXCEPT ![w] = "kfree"]
        /\ next' = [next EXCEPT ![victim[w]] = NULL]
        /\ UNCHANGED <<first, entry, state, lock, info, node, victim, readers, walks>>
    BY DEF init_node
  <1>2. next' \in [Nodes -> Nodes \cup {NULL}]
    BY <1>1 DEF HWTypeOK
  <1>4. /\ wpc' \in [Writers -> {"idle", "find", "kmalloc", "spin_lock"} \cup Inside]
        /\ \A v \in Writers : lock' = v <=> wpc'[v] \in Inside
        /\ wpc'[w] = "kfree" /\ \A v \in Writers : v # w => wpc'[v] = wpc[v]
    <2>1. "kfree" \in Inside /\ wpc[w] \in Inside
      BY <1>1 DEF Inside
    <2> QED BY <1>1, <2>1, StaysInside
  <1>5. HWTypeOK'
    BY <1>1, <1>2, <1>4 DEF HWTypeOK, readers, walks
  <1>6. HasNode(w)' <=> HasNode(w)
    BY <1>1, <1>4 DEF HasNode
  <1>7. Linked' = Linked
    BY <1>1 DEF Linked
  <1>8. \A v \in Writers : HasNode(v) => state'[node[v]] = "private"
    BY <1>1, InHand
  <1>9. WritersInv'
    <2>1. HasNode(w) => \A v \in Writers \ {w} : HasNode(v) => node[v] # node[w]
      BY DEF WritersInv
    <2>2. victim[w] \in Linked /\ info[w] \in Issued
      BY <1>1 DEF WritersInv
    <2> QED BY <1>1, <1>4, <1>6, <1>7, <1>8, <2>1, <2>2, InHand, WritersElse
  <1> QED BY <1>5, <1>9

LEMMA TypeKfree ==
  ASSUME HWTyped, NEW w \in Writers, kfree(w)
  PROVE  HWTyped'
  <1> USE DEF HWTyped
  <1> DEFINE n == victim[w]
             step == IF info[w].update THEN "hash_add" ELSE "kmalloc"
  <1>1. /\ wpc[w] = "kfree"
        /\ state' = [state EXCEPT ![n] = "free"]
        /\ entry' = [entry EXCEPT ![n] = NULL]
        /\ stray' = stray \cup {r \in Walking : at[r] = n}
        /\ at' = [r \in Readers |-> IF at[r] = n THEN NULL ELSE at[r]]
        /\ had' = [r \in Readers |-> had[r] \ {n}]
        /\ victim' = [victim EXCEPT ![w] = NULL]
        /\ UNCHANGED <<first, next, info, node, rpc, want, stable, cut>>
    BY DEF kfree
  <1>2. wpc' = [wpc EXCEPT ![w] = step] /\ lock' = IF info[w].update THEN lock ELSE NoTask
    BY DEF kfree
  <1>3. n \in Nodes /\ state[n] = "linked" /\ lock = w /\ wpc[w] \in Inside
    BY <1>1, InHand DEF HWTypeOK, Inside
  <1>4. wpc'[w] = step /\ \A v \in Writers \ {w} : wpc'[v] = wpc[v] /\ wpc[v] \notin Inside
    BY <1>1, <1>2, <1>3, Alone DEF HWTypeOK
  <1>5. /\ wpc' \in [Writers -> {"idle", "find", "kmalloc", "spin_lock"} \cup Inside]
        /\ \A v \in Writers : lock' = v <=> wpc'[v] \in Inside
    <2>1. wpc' \in [Writers -> {"idle", "find", "kmalloc", "spin_lock"} \cup Inside]
      BY <1>2 DEF HWTypeOK, Inside
    <2>2. \A v \in Writers : v # w => lock' # v /\ wpc'[v] \notin Inside
      BY <1>2, <1>3, <1>4, NodesAssumption
    <2>3. lock' = w <=> wpc'[w] \in Inside
      BY <1>2, <1>3, <1>4, NodesAssumption DEF Inside
    <2> QED BY <2>1, <2>2, <2>3
  <1>6. HasNode(w)' => HasNode(w) /\ info[w].update
    BY <1>1, <1>4 DEF HasNode
  <1>f. /\ wpc'[w] # "idle" /\ wpc'[w] \notin {"hash_del", "init", "kfree"}
        /\ victim'[w] = NULL /\ \A v \in Writers \ {w} : victim'[v] = victim[v]
    BY <1>1, <1>4 DEF HWTypeOK
  <1> HIDE DEF n, step
  <1>7. /\ state' \in [Nodes -> {"free", "private", "linked"}]
        /\ entry' \in [Nodes -> BucketEntry \cup {NULL}]
        /\ at' \in [Readers -> Nodes \cup {NULL}] /\ had' \in [Readers -> SUBSET Nodes]
        /\ stray' \subseteq Readers /\ victim' \in [Writers -> Nodes \cup {NULL}]
    BY <1>1 DEF HWTypeOK, Walking
  <1>8. HWTypeOK'
    BY <1>1, <1>5, <1>7 DEF HWTypeOK
  <1>9. \A m \in Nodes : m # n => state'[m] = state[m]
    BY <1>1 DEF HWTypeOK
  <1>10. \A v \in Writers : HasNode(v) => node[v] \in Nodes /\ node[v] # n
    BY <1>3, InHand
  <1>11. \A v \in Writers : HasNode(v) => state'[node[v]] = "private"
    BY <1>9, <1>10, InHand
  <1>12. \A v \in Writers \ {w} : victim[v] = NULL /\ NULL \notin Linked
    BY <1>3, NoOtherVictim
  <1>13. HasNode(w) => \A v \in Writers \ {w} : HasNode(v) => node[v] # node[w]
    BY DEF WritersInv
  <1>14. WritersInv'
    BY <1>1, <1>4, <1>6, <1>f, <1>10, <1>11, <1>12, <1>13, InHand, WritersElse
  <1> QED BY <1>8, <1>14

LEMMA TypeKmalloc ==
  ASSUME HWTyped, NEW w \in Writers, kmalloc(w)
  PROVE  HWTyped'
  <1> USE DEF HWTyped
  <1>1. /\ wpc[w] = "kmalloc" /\ info[w] \in Issued /\ lock # w /\ victim[w] = NULL
        /\ UNCHANGED <<first, next, lock, readers, walks>>
    <2>1. wpc[w] = "kmalloc" /\ UNCHANGED <<first, next, lock, readers, walks>>
      BY DEF kmalloc
    <2> QED BY <2>1, InHand DEF HWTypeOK, Inside
  <1>2. CASE Done(w) /\ UNCHANGED <<state, entry>>
    <2>1. /\ wpc' = [wpc EXCEPT ![w] = "idle"] /\ wpc'[w] = "idle" /\ victim'[w] = NULL
          /\ wpc' \in [Writers -> {"idle", "find", "kmalloc", "spin_lock"} \cup Inside]
          /\ info' \in [Writers -> Issued \cup {NULL}]
          /\ node' \in [Writers -> Nodes \cup {NULL}] /\ victim' \in [Writers -> Nodes \cup {NULL}]
          /\ \A v \in Writers \ {w} :
            /\ wpc'[v] = wpc[v] /\ info'[v] = info[v] /\ node'[v] = node[v] /\ victim'[v] = victim[v]
      BY <1>2, TypeDone
    <2>2. \A v \in Writers : lock' = v <=> wpc'[v] \in Inside
      BY <1>1, <1>2, <2>1 DEF HWTypeOK, Inside
    <2>3. HWTypeOK'
      BY <1>1, <1>2, <2>1, <2>2 DEF HWTypeOK, readers, walks
    <2>4. WritersInv'
      <3>1. \A v \in Writers \ {w} : HasNode(v) => state'[node[v]] = "private"
        BY <1>2 DEF WritersInv
      <3>2. ~HasNode(w)'
        BY <2>1 DEF HasNode
      <3>3. Linked' = Linked
        BY <1>2 DEF Linked
      <3> QED BY <2>1, <3>1, <3>2, <3>3, WritersElse
    <2> QED BY <2>3, <2>4
  <1>3. CASE \E m \in Free :
               /\ state' = [state EXCEPT ![m] = "private"]
               /\ entry' = [entry EXCEPT ![m] = info[w].entry]
               /\ node' = [node EXCEPT ![w] = m]
               /\ wpc' = [wpc EXCEPT ![w] = "spin_lock"]
               /\ UNCHANGED <<info, victim>>
    <2>1. PICK m \in Free :
               /\ state' = [state EXCEPT ![m] = "private"]
               /\ entry' = [entry EXCEPT ![m] = info[w].entry]
               /\ node' = [node EXCEPT ![w] = m]
               /\ wpc' = [wpc EXCEPT ![w] = "spin_lock"]
               /\ UNCHANGED <<info, victim>>
      BY <1>3
    <2>2. /\ wpc' \in [Writers -> {"idle", "find", "kmalloc", "spin_lock"} \cup Inside]
          /\ \A v \in Writers : lock' = v <=> wpc'[v] \in Inside
          /\ wpc'[w] = "spin_lock" /\ \A v \in Writers : v # w => wpc'[v] = wpc[v]
      BY <1>1, <2>1 DEF HWTypeOK, Inside
    <2>3. /\ state' \in [Nodes -> {"free", "private", "linked"}]
          /\ entry' \in [Nodes -> BucketEntry \cup {NULL}]
          /\ node' \in [Writers -> Nodes \cup {NULL}]
          /\ Linked' = Linked
          /\ node'[w] \in Nodes /\ state'[node'[w]] = "private"
          /\ \A v \in Writers \ {w} :
               node'[v] = node[v] /\ (HasNode(v) => state'[node[v]] = "private" /\ node[v] # node'[w])
      BY <1>1, <2>1, TakeNode
    <2>4. HWTypeOK'
      BY <1>1, <2>1, <2>2, <2>3 DEF HWTypeOK, readers, walks
    <2>6. WritersInv'
      BY <1>1, <2>1, <2>2, <2>3, WritersElse
    <2> QED BY <2>4, <2>6
  <1> QED BY <1>2, <1>3 DEF kmalloc

LEMMA TypeSpinLock ==
  ASSUME HWTyped, NEW w \in Writers, spin_lock(w)
  PROVE  HWTyped'
  <1> USE DEF HWTyped
  <1>1. /\ wpc[w] = "spin_lock" /\ lock = NoTask /\ lock' = w
        /\ wpc' = [wpc EXCEPT ![w] = "hash_add"]
        /\ UNCHANGED <<bucket, info, node, victim, readers, walks>>
    BY DEF spin_lock
  <1>2. wpc'[w] = "hash_add" /\ \A v \in Writers : v # w => wpc'[v] = wpc[v]
    BY <1>1 DEF HWTypeOK
  <1>3. wpc' \in [Writers -> {"idle", "find", "kmalloc", "spin_lock"} \cup Inside]
    BY <1>1 DEF HWTypeOK, Inside
  <1>4. \A v \in Writers : lock' = v <=> wpc'[v] \in Inside
    BY <1>1, <1>2, Nobody DEF Inside
  <1>5. HWTypeOK'
    BY <1>1, <1>3, <1>4 DEF HWTypeOK, bucket, readers, walks
  <1>6. HasNode(w)
    BY <1>1 DEF HasNode
  <1>7. state' = state /\ Linked' = Linked
    BY <1>1 DEF Linked, bucket
  <1>8. \A v \in Writers : HasNode(v) => state'[node[v]] = "private"
    BY <1>7, InHand
  <1>9. \A v \in Writers \ {w} : HasNode(v) => node[v] # node[w]
    BY <1>6 DEF WritersInv
  <1>10. WritersInv'
    BY <1>1, <1>2, <1>6, <1>7, <1>8, <1>9, InHand, WritersElse
  <1> QED BY <1>5, <1>10

LEMMA TypeSetNext ==
  ASSUME HWTyped, NEW w \in Writers, set_next(w)
  PROVE  HWTyped'
  <1> USE DEF HWTyped
  <1>1. /\ wpc[w] = "hash_add" /\ wpc' = [wpc EXCEPT ![w] = "publish"]
        /\ next' = [next EXCEPT ![node[w]] = first]
        /\ UNCHANGED <<first, entry, state, lock, info, node, victim, readers, walks>>
    BY DEF set_next
  <1>2. next' \in [Nodes -> Nodes \cup {NULL}]
    BY <1>1 DEF HWTypeOK
  <1>4. /\ wpc' \in [Writers -> {"idle", "find", "kmalloc", "spin_lock"} \cup Inside]
        /\ \A v \in Writers : lock' = v <=> wpc'[v] \in Inside
        /\ wpc'[w] = "publish" /\ \A v \in Writers : v # w => wpc'[v] = wpc[v]
    <2>1. "publish" \in Inside /\ wpc[w] \in Inside
      BY <1>1 DEF Inside
    <2> QED BY <1>1, <2>1, StaysInside
  <1>5. HWTypeOK'
    BY <1>1, <1>2, <1>4 DEF HWTypeOK, readers, walks
  <1>6. HasNode(w)
    BY <1>1 DEF HasNode
  <1>7. Linked' = Linked
    BY <1>1 DEF Linked
  <1>8. \A v \in Writers : HasNode(v) => state'[node[v]] = "private"
    BY <1>1, InHand
  <1>9. \A v \in Writers \ {w} : HasNode(v) => node[v] # node[w]
    BY <1>6 DEF WritersInv
  <1>10. WritersInv'
    BY <1>1, <1>4, <1>6, <1>7, <1>8, <1>9, InHand, WritersElse
  <1> QED BY <1>5, <1>10

LEMMA TypePublish ==
  ASSUME HWTyped, NEW w \in Writers, publish(w)
  PROVE  HWTyped'
  <1> USE DEF HWTyped
  <1> DEFINE n == node[w]
  <1>1. /\ wpc[w] = "publish" /\ wpc' = [wpc EXCEPT ![w] = "spin_unlock"]
        /\ first' = n /\ state' = [state EXCEPT ![n] = "linked"]
        /\ had' = [r \in Readers |->
               IF r \in Walking /\ entry[n].key = want[r] THEN had[r] \cup {n} ELSE had[r]]
        /\ UNCHANGED <<next, entry, lock, info, node, victim, readers, stable, cut, stray>>
    BY DEF publish
  <1>2. HasNode(w) /\ n \in Nodes
    BY <1>1, InHand DEF HasNode
  <1>3. first' \in Nodes \cup {NULL} /\ state' \in [Nodes -> {"free", "private", "linked"}]
        /\ had' \in [Readers -> SUBSET Nodes]
    BY <1>1, <1>2 DEF HWTypeOK
  <1>4. /\ wpc' \in [Writers -> {"idle", "find", "kmalloc", "spin_lock"} \cup Inside]
        /\ \A v \in Writers : lock' = v <=> wpc'[v] \in Inside
        /\ wpc'[w] = "spin_unlock" /\ \A v \in Writers : v # w => wpc'[v] = wpc[v]
    <2>1. "spin_unlock" \in Inside /\ wpc[w] \in Inside
      BY <1>1 DEF Inside
    <2> QED BY <1>1, <2>1, StaysInside
  <1>5. HWTypeOK'
    BY <1>1, <1>3, <1>4 DEF HWTypeOK, readers
  <1>6. ~HasNode(w)' /\ wpc[w] \in Inside /\ wpc[w] \notin {"hash_del", "init", "kfree"}
    BY <1>1, <1>4 DEF HasNode, Inside
  <1> HIDE DEF n
  <1>7. \A m \in Nodes : m # n => state'[m] = state[m]
    BY <1>1 DEF HWTypeOK
  <1>8. \A v \in Writers \ {w} : HasNode(v) => node[v] \in Nodes /\ node[v] # n
    BY <1>2, InHand DEF WritersInv, n
  <1>9. \A v \in Writers \ {w} : HasNode(v) => state'[node[v]] = "private"
    BY <1>7, <1>8, InHand
  <1>10. \A v \in Writers \ {w} : victim[v] = NULL /\ NULL \notin Linked
    BY <1>6, NoOtherVictim
  <1>11. victim[w] = NULL /\ info[w] \in Issued
    BY <1>1, <1>6, InHand
  <1>12. WritersInv'
    BY <1>1, <1>4, <1>6, <1>9, <1>10, <1>11, WritersElse
  <1> QED BY <1>5, <1>12

LEMMA TypeSpinUnlock ==
  ASSUME HWTyped, NEW w \in Writers, spin_unlock(w)
  PROVE  HWTyped'
  <1> USE DEF HWTyped
  <1>1. /\ wpc[w] = "spin_unlock" /\ lock' = NoTask /\ Done(w)
        /\ UNCHANGED <<bucket, readers, walks>>
    BY DEF spin_unlock
  <1>2. /\ wpc' = [wpc EXCEPT ![w] = "idle"] /\ wpc'[w] = "idle" /\ victim'[w] = NULL
        /\ wpc' \in [Writers -> {"idle", "find", "kmalloc", "spin_lock"} \cup Inside]
        /\ info' \in [Writers -> Issued \cup {NULL}]
        /\ node' \in [Writers -> Nodes \cup {NULL}] /\ victim' \in [Writers -> Nodes \cup {NULL}]
        /\ \A v \in Writers \ {w} :
          /\ wpc'[v] = wpc[v] /\ info'[v] = info[v] /\ node'[v] = node[v] /\ victim'[v] = victim[v]
    BY <1>1, TypeDone
  <1>3. \A v \in Writers : wpc'[v] \notin Inside
    <2>1. wpc[w] \in Inside /\ wpc'[w] \notin Inside
      BY <1>1, <1>2 DEF Inside
    <2> QED BY <1>2, <2>1, Alone
  <1>4. \A v \in Writers : lock' = v <=> wpc'[v] \in Inside
    BY <1>1, <1>3, NodesAssumption
  <1>5. HWTypeOK'
    BY <1>1, <1>2, <1>4 DEF HWTypeOK, bucket, readers, walks
  <1>6. ~HasNode(w)'
    BY <1>2 DEF HasNode
  <1>7. Linked' = Linked /\ state' = state
    BY <1>1 DEF Linked, bucket
  <1>8. \A v \in Writers \ {w} : HasNode(v) => state'[node[v]] = "private"
    BY <1>7, InHand
  <1>9. WritersInv'
    BY <1>1, <1>2, <1>6, <1>7, <1>8, WritersElse
  <1> QED BY <1>5, <1>9

\* A walk leaves the commands and the bucket as they are.
LEMMA WritersSame ==
  ASSUME HWTyped, UNCHANGED <<bucket, writers>>
  PROVE  WritersInv'
  <1> USE DEF HWTyped, bucket, writers
  <1>1. Linked' = Linked
    BY DEF Linked
  <1>2. \A w \in Writers : HasNode(w)' <=> HasNode(w)
    BY DEF HasNode
  <1> QED BY <1>1, <1>2 DEF WritersInv

\* Who looks a step further stands on a node.
LEMMA OnNode ==
  ASSUME ReadersInv, NEW r \in Readers, rpc[r] \in {"next", "use"}, r \notin stray
  PROVE  at[r] # NULL /\ r \in Sane
  <1>1. r \in Sane
    BY DEF Sane, Walking
  <1> QED BY <1>1 DEF ReadersInv, Placed

LEMMA TypeReaders ==
  ASSUME HWTyped, ReadersInv, NEW r \in Readers,
         walk(r) \/ Undefined(r) \/ Leave(r) \/ \E k \in Keys : Start(r, k)
  PROVE  HWTyped' /\ UNCHANGED <<bucket, writers>>
  <1> USE DEF HWTyped
  <1> DEFINE Steps == {"idle", "compare", "next", "use", "found", "none", "lost"}
  <1>1. CASE compare(r)
    <2>1. /\ UNCHANGED <<bucket, writers, want, at, walks>> /\ rpc' \in [Readers -> Steps]
      BY <1>1 DEF compare, HWTypeOK
    <2> QED BY <2>1, WritersSame DEF HWTypeOK, bucket, writers, walks
  <1>2. CASE go_next(r)
    <2>1. /\ UNCHANGED <<bucket, writers, want, had, stable, stray>>
          /\ rpc' = [rpc EXCEPT ![r] = "compare"]
          /\ rpc[r] = "next" /\ at' = [at EXCEPT ![r] = next[at[r]]] /\ Sound(r)
          /\ cut' = IF \E w \in Writers : victim[w] = at[r] THEN cut \cup {r} ELSE cut
      BY <1>2 DEF go_next
    <2>2. at[r] # NULL
      BY <2>1, OnNode DEF Sound
    <2>3. at' \in [Readers -> Nodes \cup {NULL}] /\ rpc' \in [Readers -> Steps] /\ cut' \subseteq Readers
      BY <2>1, <2>2 DEF HWTypeOK
    <2> QED BY <2>1, <2>3, WritersSame DEF HWTypeOK, bucket, writers
  <1>3. CASE use(r)
    <2>1. /\ UNCHANGED <<bucket, writers, want, walks>>
          /\ rpc' \in [Readers -> Steps] /\ at' \in [Readers -> Nodes \cup {NULL}]
      BY <1>3 DEF use, HWTypeOK
    <2> QED BY <2>1, WritersSame DEF HWTypeOK, bucket, writers, walks
  <1>4. CASE Undefined(r)
    <2>1. UNCHANGED <<bucket, writers>>
      BY <1>4 DEF Undefined
    <2>2. /\ stray' \subseteq Readers /\ cut' \subseteq Readers
          /\ had' \in [Readers -> SUBSET Nodes] /\ stable' \in [Readers -> SUBSET Nodes]
      BY <1>4 DEF Undefined, HWTypeOK
    <2>3. /\ want' \in [Readers -> Keys \cup {NULL}] /\ at' \in [Readers -> Nodes \cup {NULL}]
      BY <1>4 DEF Undefined, HWTypeOK
    <2>4. rpc' \in [Readers -> Steps]
      <3>1. PICK result \in {"found", "none", "lost"} : rpc' = [rpc EXCEPT ![r] = result]
        BY <1>4 DEF Undefined
      <3> QED BY <3>1 DEF HWTypeOK
    <2> QED BY <2>1, <2>2, <2>3, <2>4, WritersSame DEF HWTypeOK, bucket, writers
  <1>5. CASE Leave(r)
    <2>1. UNCHANGED <<bucket, writers>>
      BY <1>5 DEF Leave
    <2>2. /\ stray' \subseteq Readers /\ cut' \subseteq Readers
          /\ had' \in [Readers -> SUBSET Nodes] /\ stable' \in [Readers -> SUBSET Nodes]
      BY <1>5 DEF Leave, Forget, HWTypeOK
    <2>3. /\ want' \in [Readers -> Keys \cup {NULL}] /\ at' \in [Readers -> Nodes \cup {NULL}]
          /\ rpc' \in [Readers -> Steps]
      BY <1>5 DEF Leave, HWTypeOK
    <2> QED BY <2>1, <2>2, <2>3, WritersSame DEF HWTypeOK, bucket, writers
  <1>6. ASSUME NEW k \in Keys, Start(r, k) PROVE HWTyped' /\ UNCHANGED <<bucket, writers>>
    <2> DEFINE linked == {n \in Linked : entry[n].key = k}
    <2>1. /\ want' = [want EXCEPT ![r] = k] /\ at' = [at EXCEPT ![r] = first]
          /\ rpc' = [rpc EXCEPT ![r] = "compare"]
          /\ had' = [had EXCEPT ![r] =
                 linked \ {victim[w] : w \in {v \in Writers : wpc[v] \in {"init", "kfree"}}}]
          /\ stable' = [stable EXCEPT ![r] = linked \ {victim[w] : w \in Writers}]
          /\ UNCHANGED <<bucket, writers, cut, stray>>
      BY <1>6 DEF Start
    <2>2. linked \subseteq Nodes
      BY DEF Linked
    <2> HIDE DEF linked
    <2>3. had' \in [Readers -> SUBSET Nodes] /\ stable' \in [Readers -> SUBSET Nodes]
      BY <2>1, <2>2 DEF HWTypeOK
    <2>4. /\ want' \in [Readers -> Keys \cup {NULL}] /\ at' \in [Readers -> Nodes \cup {NULL}]
          /\ rpc' \in [Readers -> Steps]
      BY <2>1 DEF HWTypeOK
    <2> QED BY <2>1, <2>3, <2>4, WritersSame DEF HWTypeOK, bucket, writers
  <1> QED BY <1>1, <1>2, <1>3, <1>4, <1>5, <1>6 DEF walk

LEMMA HWTypeInit ==
  ASSUME HWInit
  PROVE  HWTyped
  <1>1. HWTypeOK
    BY NodesAssumption DEF HWInit, HWTypeOK, Inside
  <1>2. WritersInv
    BY DEF HWInit, WritersInv, HasNode
  <1> QED BY <1>1, <1>2 DEF HWTyped

LEMMA TypeCommand ==
  ASSUME HWTyped, NEW w \in Writers, command(w)
  PROVE  HWTyped'
  BY TypeHashForEach, TypeHashForEachUpdate, TypeBypass, TypeInitNode, TypeKfree, TypeKmalloc,
     TypeSpinLock, TypeSetNext, TypePublish, TypeSpinUnlock DEF command

-----------------------------------------------------------------------------
(* What the steps of a command leave of the chain.                           *)
LEMMA SameVictims ==
  ASSUME NEW w \in Writers,
         \A v \in Writers \ {w} : wpc'[v] = wpc[v] /\ victim'[v] = victim[v],
         \/ /\ wpc[w] \notin {"hash_del", "init", "kfree"}
            /\ wpc'[w] \notin {"hash_del", "init", "kfree"}
         \/ /\ wpc[w] \in {"init", "kfree"} /\ wpc'[w] \in {"init", "kfree"}
            /\ victim'[w] = victim[w]
  PROVE  Victims' = Victims /\ Gone' = Gone
  <1>1. ASSUME NEW n
        PROVE  /\ n \in Victims' <=> n \in Victims
               /\ n \in Gone' <=> n \in Gone
    <2>1. n \in Victims' <=> \E v \in Writers : wpc'[v] \in {"hash_del", "init", "kfree"} /\ n = victim'[v]
      BY DEF Victims
    <2>2. n \in Victims <=> \E v \in Writers : wpc[v] \in {"hash_del", "init", "kfree"} /\ n = victim[v]
      BY DEF Victims
    <2>3. n \in Gone' <=> \E v \in Writers : wpc'[v] \in {"init", "kfree"} /\ n = victim'[v]
      BY DEF Gone
    <2>4. n \in Gone <=> \E v \in Writers : wpc[v] \in {"init", "kfree"} /\ n = victim[v]
      BY DEF Gone
    <2>5. n \in Victims' <=> n \in Victims
      BY <2>1, <2>2
    <2>6. n \in Gone' <=> n \in Gone
      BY <2>3, <2>4
    <2> QED BY <2>5, <2>6
  <1> QED BY <1>1

\* A step that neither links a node nor begins to remove one.
QuietStep ==
  /\ UNCHANGED <<first, readers, walks>>
  /\ Linked' = Linked /\ Gone' = Gone /\ Victims' = Victims
  /\ \A n \in Linked : entry'[n] = entry[n]
  /\ \A n \in Chain : next'[n] = next[n]

\* A step that w does while others may be inside of a critical section.
LEMMA PointersElse ==
  ASSUME HWTyped, PointersInv, NEW w \in Writers,
         wpc'[w] \notin {"publish", "init", "kfree"},
         UNCHANGED <<first, next>>, Chain' = Chain,
         \A v \in Writers \ {w} : wpc'[v] = wpc[v] /\ victim'[v] = victim[v] /\ node'[v] = node[v]
  PROVE  PointersInv'
  BY DEF PointersInv

\* A step that w does while nobody else is inside.
LEMMA PointersAlone ==
  ASSUME NEW w \in Writers,
         \A v \in Writers \ {w} : wpc'[v] = wpc[v] /\ wpc[v] \notin Inside,
         wpc'[w] = "publish" => next'[node'[w]] = first',
         wpc'[w] = "init" => next'[victim'[w]] \in Chain' \cup {NULL},
         wpc'[w] = "kfree" => next'[victim'[w]] = NULL
  PROVE  PointersInv'
  <1>1. \A v \in Writers \ {w} : wpc'[v] \notin {"publish", "init", "kfree"}
    BY DEF Inside
  <1>2. \A v \in Writers : wpc'[v] = "publish" => next'[node'[v]] = first'
    BY <1>1
  <1>3. \A v \in Writers : wpc'[v] = "init" => next'[victim'[v]] \in Chain' \cup {NULL}
    BY <1>1
  <1>4. \A v \in Writers : wpc'[v] = "kfree" => next'[victim'[v]] = NULL
    BY <1>1
  <1> QED BY <1>2, <1>3, <1>4 DEF PointersInv

LEMMA QuietOutside ==
  ASSUME HWTyped, PointersInv, NEW w \in Writers,
         \/ \E c \in Issued : Issue(w, c)
         \/ kmalloc(w)
         \/ spin_lock(w)
         \/ hash_for_each(w) /\ lock' = lock
         \/ hash_for_each_update(w) /\ lock' = lock
  PROVE  QuietStep /\ PointersInv'
  <1> USE DEF HWTyped
  <1> DEFINE Out == {"idle", "find", "kmalloc", "spin_lock", "hash_add"}
  <1>1. /\ wpc[w] \in Out /\ wpc'[w] \in Out
        /\ \A v \in Writers \ {w} : wpc'[v] = wpc[v] /\ victim'[v] = victim[v] /\ node'[v] = node[v]
        /\ UNCHANGED <<first, next, readers, walks>>
        /\ Linked' = Linked /\ \A n \in Linked : entry'[n] = entry[n]
    <2>1. CASE \E c \in Issued : Issue(w, c)
      BY <2>1 DEF Issue, HWTypeOK, bucket, Linked
    <2>2. CASE kmalloc(w)
      <3>1. wpc[w] = "kmalloc" /\ UNCHANGED <<first, next, readers, walks>>
        BY <2>2 DEF kmalloc
      <3>2. CASE Done(w) /\ UNCHANGED <<state, entry>>
        BY <3>1, <3>2, TypeDone DEF Linked
      <3>3. ASSUME NEW m \in Free,
                   state' = [state EXCEPT ![m] = "private"],
                   entry' = [entry EXCEPT ![m] = info[w].entry],
                   node' = [node EXCEPT ![w] = m],
                   wpc' = [wpc EXCEPT ![w] = "spin_lock"],
                   UNCHANGED <<info, victim>>
            PROVE  /\ wpc'[w] \in Out
                   /\ \A v \in Writers \ {w} : wpc'[v] = wpc[v] /\ victim'[v] = victim[v] /\ node'[v] = node[v]
                   /\ Linked' = Linked /\ \A n \in Linked : entry'[n] = entry[n]
        <4>1. wpc'[w] = "spin_lock" /\ \A v \in Writers : v # w => wpc'[v] = wpc[v]
          BY <3>3 DEF HWTypeOK
        <4> HIDE DEF HWTyped, Out
        <4>2. /\ Linked' = Linked /\ \A n \in Linked : entry'[n] = entry[n]
              /\ \A v \in Writers \ {w} : node'[v] = node[v]
          <5>1. wpc[w] # "idle"
            BY <3>1
          <5> QED BY ONLY HWTyped, w \in Writers, m \in Free, <5>1, <3>3, TakeNode
        <4>3. \A v \in Writers \ {w} : victim'[v] = victim[v]
          BY <3>3
        <4>4. \A v \in Writers \ {w} : wpc'[v] = wpc[v] /\ victim'[v] = victim[v] /\ node'[v] = node[v]
          BY <4>1, <4>2, <4>3
        <4> QED BY <4>1, <4>2, <4>4 DEF Out
      <3> QED BY <2>2, <3>1, <3>2, <3>3 DEF kmalloc
    <2>3. CASE spin_lock(w)
      BY <2>3 DEF spin_lock, HWTypeOK, bucket, Linked
    <2>4. CASE hash_for_each(w) /\ lock' = lock
      <3>1. \A n : ~BeginRemoval(w, n)
        BY <2>4, NodesAssumption DEF hash_for_each, BeginRemoval
      <3>2. /\ wpc[w] = "find" /\ wpc' = [wpc EXCEPT ![w] = "kmalloc"]
            /\ UNCHANGED <<bucket, readers, walks, node, victim>>
        BY <2>4, <3>1 DEF hash_for_each, walks
      <3> QED BY <3>2 DEF HWTypeOK, bucket, Linked
    <2>5. CASE hash_for_each_update(w) /\ lock' = lock
      <3>1. \A n : ~BeginRemoval(w, n)
        BY <2>5, NodesAssumption DEF hash_for_each_update, BeginRemoval
      <3>2. /\ wpc[w] = "find" /\ Done(w)
            /\ UNCHANGED <<bucket, readers, walks>>
        BY <2>5, <3>1 DEF hash_for_each_update, bucket, walks
      <3> QED BY <3>2, TypeDone DEF bucket, Linked
    <2> QED BY <2>1, <2>2, <2>3, <2>4, <2>5
  <1>2. Victims' = Victims /\ Gone' = Gone
    BY <1>1, SameVictims
  <1>3. Chain' = Chain
    BY <1>1, <1>2 DEF Chain
  <1>4. wpc'[w] \notin {"publish", "init", "kfree"}
    BY <1>1
  <1> QED BY <1>1, <1>2, <1>3, <1>4, PointersElse DEF QuietStep

LEMMA QuietInside ==
  ASSUME HWTyped, PointersInv, NEW w \in Writers,
         init_node(w) \/ set_next(w) \/ spin_unlock(w)
  PROVE  QuietStep /\ PointersInv'
  <1> USE DEF HWTyped
  <1>1. CASE init_node(w)
    <2>1. /\ wpc[w] = "init" /\ wpc' = [wpc EXCEPT ![w] = "kfree"]
          /\ next' = [next EXCEPT ![victim[w]] = NULL]
          /\ UNCHANGED <<first, entry, state, lock, info, node, victim, readers, walks>>
      BY <1>1 DEF init_node
    <2>2. wpc[w] \in Inside /\ Gone = {victim[w]} /\ victim[w] \in Nodes
      BY <2>1, Alone, InHand DEF Inside
    <2>3. wpc'[w] = "kfree" /\ \A v \in Writers \ {w} : wpc'[v] = wpc[v] /\ wpc[v] \notin Inside
      BY <2>1, <2>2, Alone DEF HWTypeOK
    <2>4. Victims' = Victims /\ Gone' = Gone
      BY <2>1, <2>3, SameVictims
    <2>5. Linked' = Linked
      BY <2>1 DEF Linked
    <2>6. next'[victim'[w]] = NULL /\ \A n \in Nodes \ {victim[w]} : next'[n] = next[n]
      BY <2>1, <2>2 DEF HWTypeOK
    <2>7. \A n \in Chain : next'[n] = next[n]
      BY <2>2, <2>6 DEF Chain, Linked
    <2>8. PointersInv'
      BY <2>3, <2>6, PointersAlone
    <2> QED BY <2>1, <2>4, <2>5, <2>7, <2>8 DEF QuietStep
  <1>2. CASE set_next(w)
    <2>1. /\ wpc[w] = "hash_add" /\ wpc' = [wpc EXCEPT ![w] = "publish"]
          /\ next' = [next EXCEPT ![node[w]] = first]
          /\ UNCHANGED <<first, entry, state, lock, info, node, victim, readers, walks>>
      BY <1>2 DEF set_next
    <2>2. wpc[w] \in Inside /\ node[w] \in Nodes /\ state[node[w]] = "private"
      <3>1. HasNode(w)
        BY <2>1 DEF HasNode
      <3> QED BY <2>1, <3>1, InHand DEF Inside
    <2>3. wpc'[w] = "publish" /\ \A v \in Writers \ {w} : wpc'[v] = wpc[v] /\ wpc[v] \notin Inside
      BY <2>1, <2>2, Alone DEF HWTypeOK
    <2>4. Victims' = Victims /\ Gone' = Gone
      BY <2>1, <2>3, SameVictims
    <2>5. Linked' = Linked
      BY <2>1 DEF Linked
    <2>6. next'[node'[w]] = first' /\ \A n \in Nodes \ {node[w]} : next'[n] = next[n]
      BY <2>1, <2>2 DEF HWTypeOK
    <2>7. \A n \in Chain : next'[n] = next[n]
      BY <2>2, <2>6 DEF Chain, Linked
    <2>8. PointersInv'
      BY <2>3, <2>6, PointersAlone
    <2> QED BY <2>1, <2>4, <2>5, <2>7, <2>8 DEF QuietStep
  <1>3. CASE spin_unlock(w)
    <2>1. wpc[w] = "spin_unlock" /\ Done(w) /\ UNCHANGED <<bucket, readers, walks>>
      BY <1>3 DEF spin_unlock
    <2>2. /\ wpc'[w] = "idle"
          /\ \A v \in Writers \ {w} : wpc'[v] = wpc[v] /\ node'[v] = node[v] /\ victim'[v] = victim[v]
      BY <2>1, TypeDone
    <2>3. wpc[w] \in Inside
      BY <2>1 DEF Inside
    <2>4. Victims' = Victims /\ Gone' = Gone
      BY <2>1, <2>2, SameVictims
    <2>5. PointersInv'
      BY <2>2, <2>3, Alone, PointersAlone
    <2> QED BY <2>1, <2>4, <2>5 DEF QuietStep, bucket, Linked
  <1> QED BY <1>1, <1>2, <1>3

LEMMA OrderedSame ==
  ASSUME NEW rank \in [Nodes -> Nat], Ordered(rank), Chain' = Chain, first' = first,
         \A n \in Chain : next'[n] = next[n]
  PROVE  Ordered(rank)'
  <1>1. \A n \in Chain : Below(n, rank)' = Below(n, rank)
    BY DEF Below
  <1>2. Highest(first, Chain, rank)'
    BY DEF Ordered, Highest
  <1>3. ASSUME NEW n \in Chain PROVE Highest(next[n], Below(n, rank), rank)'
    <2>1. Highest(next[n], Below(n, rank), rank)
      BY DEF Ordered
    <2> QED BY <2>1, <1>1 DEF Highest
  <1> QED BY <1>2, <1>3 DEF Ordered

LEMMA QuietReaders ==
  ASSUME QuietStep, ReadersInv, MissedInv
  PROVE  ReadersInv' /\ MissedInv'
  <1>1. Chain' = Chain /\ Sane' = Sane /\ Chain \subseteq Linked
    BY DEF QuietStep, Chain, Sane, Walking, readers, walks
  <1>2. MissedInv'
    BY DEF QuietStep, MissedInv, Missed, readers, walks
  <1>3. ReadersInv'
    BY <1>1 DEF QuietStep, ReadersInv, Placed, readers, walks
  <1> QED BY <1>2, <1>3

LEMMA QuietOrder ==
  ASSUME QuietStep, NEW rank \in [Nodes -> Nat], Ordered(rank), Ahead(rank)
  PROVE  Ordered(rank)' /\ Ahead(rank)'
  <1>1. Chain' = Chain /\ Sane' = Sane
    BY DEF QuietStep, Chain, Sane, Walking, readers, walks
  <1>2. Ordered(rank)'
    BY <1>1, OrderedSame DEF QuietStep
  <1>3. Ahead(rank)'
    BY <1>1 DEF QuietStep, Ahead, Before, readers, walks
  <1> QED BY <1>2, <1>3

-----------------------------------------------------------------------------
(* A removal: its search, the store of hash_del that goes around the node,   *)
(* and kfree.                                                               *)
LEMMA RemovalBegins ==
  ASSUME HWTyped, PointersInv, ReadersInv, MissedInv, NEW w \in Writers,
         (hash_for_each(w) \/ hash_for_each_update(w)) /\ lock' # lock
  PROVE  /\ PointersInv' /\ ReadersInv' /\ MissedInv'
         /\ \A rank \in [Nodes -> Nat] : Ordered(rank) /\ Ahead(rank) => Ordered(rank)' /\ Ahead(rank)'
  <1> USE DEF HWTyped
  <1>1. /\ wpc[w] = "find" /\ lock = NoTask
        /\ UNCHANGED <<first, next, readers, had, cut, stray>>
    BY DEF hash_for_each, hash_for_each_update, bucket
  <1>2. PICK n \in Found(w) : BeginRemoval(w, n)
    BY DEF hash_for_each, hash_for_each_update
  <1>3. Linked' = Linked /\ \A m \in Linked : entry'[m] = entry[m]
    <2>1. CASE UNCHANGED bucket
      BY <2>1 DEF bucket, Linked
    <2>2. ASSUME NEW m \in Free,
                 state' = [state EXCEPT ![m] = "private"],
                 entry' = [entry EXCEPT ![m] = info[w].entry],
                 node' = [node EXCEPT ![w] = m]
          PROVE  Linked' = Linked /\ \A k \in Linked : entry'[k] = entry[k]
      <3>1. wpc[w] # "idle"
        BY <1>1
      <3> QED BY <2>2, <3>1, TakeNode
    <2>3. CASE Done(w) /\ UNCHANGED <<state, entry, lock, stable>>
      BY <2>3
    <2> QED BY <2>1, <2>2, <2>3 DEF hash_for_each, hash_for_each_update
  <1>4. /\ wpc' = [wpc EXCEPT ![w] = "hash_del"] /\ victim' = [victim EXCEPT ![w] = n]
        /\ stable' = [r \in Readers |-> stable[r] \ {n}] /\ n \in Linked
    BY <1>1, <1>2, TypeBeginRemoval
  <1>5. /\ wpc'[w] = "hash_del" /\ victim'[w] = n
        /\ \A v \in Writers \ {w} : wpc'[v] = wpc[v] /\ wpc[v] \notin Inside
    BY <1>1, <1>4, Nobody DEF HWTypeOK
  <1>6. Gone = {} /\ Victims = {}
    BY <1>1, Nobody
  <1>7. Gone' = {} /\ Victims' = {n}
    <2>1. \A v \in Writers : wpc'[v] \in {"init", "kfree"} => FALSE
      BY <1>5 DEF Inside
    <2>2. \A v \in Writers : wpc'[v] \in {"hash_del", "init", "kfree"} <=> v = w
      BY <1>5 DEF Inside
    <2> QED BY <1>5, <2>1, <2>2 DEF Gone, Victims
  <1>8. Chain' = Chain /\ Sane' = Sane /\ Chain \subseteq Linked
    BY <1>1, <1>3, <1>6, <1>7 DEF Chain, Sane, Walking, readers
  <1>9. PointersInv'
    BY <1>5, PointersAlone
  <1>10. MissedInv'
    BY <1>1, <1>4 DEF MissedInv, Missed, readers
  <1>11. \A r \in Readers : stable'[r] = stable[r] \ {n}
    BY <1>4
  <1>12. Sane \subseteq Readers
    BY DEF Sane, Walking
  <1>k. /\ at' = at /\ rpc' = rpc /\ want' = want /\ had' = had
        /\ Linked' = Linked /\ Chain' = Chain /\ Sane' = Sane
    BY <1>1, <1>3, <1>8 DEF readers
  <1>13. ReadersInv'
    <2> SUFFICES ASSUME NEW r \in Sane
                 PROVE
           /\ at[r] # NULL => at[r] \in Linked /\ (entry'[at[r]].key = want[r] => at[r] \in had[r])
           /\ rpc[r] = "use" => at[r] # NULL /\ entry'[at[r]].key = want[r]
           /\ rpc[r] = "next" => at[r] # NULL /\ entry'[at[r]].key # want[r]
           /\ \A m \in Chain : entry'[m].key = want[r] => m \in had[r]
           /\ \A m \in stable'[r] : m \in Chain /\ m \notin Victims' /\ entry'[m].key = want[r]
      BY <1>k DEF ReadersInv, Placed
    <2>1. /\ at[r] # NULL => at[r] \in Linked /\ (entry[at[r]].key = want[r] => at[r] \in had[r])
          /\ rpc[r] = "use" => at[r] # NULL /\ entry[at[r]].key = want[r]
          /\ rpc[r] = "next" => at[r] # NULL /\ entry[at[r]].key # want[r]
          /\ \A m \in Chain : entry[m].key = want[r] => m \in had[r]
          /\ \A m \in stable[r] : m \in Chain /\ m \notin Victims /\ entry[m].key = want[r]
      BY DEF ReadersInv, Placed
    <2> QED BY <1>3, <1>7, <1>8, <1>11, <1>12, <2>1
  <1>14. ASSUME NEW rank \in [Nodes -> Nat], Ordered(rank), Ahead(rank)
         PROVE  Ordered(rank)' /\ Ahead(rank)'
    <2>1. Ordered(rank)'
      BY <1>1, <1>8, <1>14, OrderedSame
    <2>2. Ahead(rank)'
      <3> SUFFICES ASSUME NEW r \in Sane \ cut, at[r] \notin Victims', NEW m \in stable'[r]
                   PROVE  at[r] # NULL /\ rank[m] <= rank[at[r]]
        BY <1>1, <1>8 DEF Ahead, Before, readers
      <3> QED BY <1>6, <1>11, <1>12, <1>14 DEF Ahead, Before
    <2> QED BY <2>1, <2>2
  <1> QED BY <1>9, <1>10, <1>13, <1>14

\* Going around n leads from above n to what is highest below it.
LEMMA HighestAround ==
  ASSUME NEW rank \in [Nodes -> Nat],
         \A j, k \in Chain : rank[j] = rank[k] => j = k,
         NEW n \in Chain, NEW y, Highest(y, Below(n, rank), rank),
         NEW S \in SUBSET Chain, \A s \in S, k \in Chain : rank[k] < rank[s] => k \in S,
         NEW x, Highest(x, S, rank)
  PROVE  Highest(IF x = n THEN y ELSE x, S \ {n}, rank)
  <1>1. Chain \subseteq Nodes
    BY DEF Chain, Linked
  <1>2. \A k \in Chain : rank[k] \in Nat
    BY <1>1
  <1>3. CASE x = n /\ S # {}
    <2>1. n \in S /\ \A m \in S : rank[m] <= rank[n]
      BY <1>3 DEF Highest
    <2>2. S \ {n} = Below(n, rank)
      <3>1. ASSUME NEW k \in S \ {n} PROVE k \in Below(n, rank)
        <4>1. k \in Chain /\ rank[k] <= rank[n] /\ rank[k] # rank[n]
          BY <2>1, <3>1
        <4> QED BY <4>1, <1>2 DEF Below
      <3>2. ASSUME NEW k \in Below(n, rank) PROVE k \in S \ {n}
        <4>1. k \in Chain /\ rank[k] < rank[n]
          BY <3>2 DEF Below
        <4> QED BY <4>1, <2>1, <1>2
      <3> QED BY <3>1, <3>2
    <2> QED BY <1>3, <2>2
  <1>4. CASE x = n /\ S = {}
    <2>1. n \in Nodes /\ x = NULL
      BY <1>1, <1>4 DEF Highest
    <2> QED BY <1>4, <2>1, NodesAssumption
  <1>5. CASE x # n
    BY <1>5 DEF Highest
  <1> QED BY <1>3, <1>4, <1>5

LEMMA OrderBypass ==
  ASSUME HWTyped, PointersInv, ReadersInv, MissedInv, NEW w \in Writers, bypass(w),
         NEW rank \in [Nodes -> Nat], Ordered(rank), Ahead(rank)
  PROVE  PointersInv' /\ ReadersInv' /\ MissedInv' /\ Ordered(rank)' /\ Ahead(rank)'
  <1> USE DEF HWTyped
  <1> DEFINE n == victim[w]
  <1>1. /\ wpc[w] = "hash_del" /\ wpc' = [wpc EXCEPT ![w] = "init"]
        /\ first' = IF first = n THEN next[n] ELSE first
        /\ next' = [p \in Nodes |-> IF state[p] = "linked" /\ next[p] = n THEN next[n] ELSE next[p]]
        /\ UNCHANGED <<entry, state, lock, info, node, victim, readers, walks>>
    BY DEF bypass
  <1>2. wpc[w] \in Inside /\ Gone = {} /\ Victims = {n} /\ n \in Linked
    <2>1. wpc[w] \in Inside /\ n \in Linked
      BY <1>1 DEF Inside, WritersInv
    <2> QED BY <1>1, <2>1, Alone
  <1>3. wpc'[w] = "init" /\ \A v \in Writers \ {w} : wpc'[v] = wpc[v] /\ wpc[v] \notin Inside
    BY <1>1, <1>2, Alone DEF HWTypeOK
  <1>4. Gone' = {n} /\ Victims' = {n}
    <2>1. \A v \in Writers : wpc'[v] \in {"init", "kfree"} <=> v = w
      BY <1>3 DEF Inside
    <2>2. \A v \in Writers : wpc'[v] \in {"hash_del", "init", "kfree"} <=> v = w
      BY <1>3 DEF Inside
    <2>3. victim' = victim
      BY <1>1
    <2> QED BY <2>1, <2>2, <2>3 DEF Gone, Victims
  <1> HIDE DEF n
  <1>5. Linked' = Linked /\ Sane' = Sane /\ Chain = Linked /\ Chain' = Chain \ {n} /\ n \in Chain
    BY <1>1, <1>2, <1>4 DEF Chain, Linked, Sane, Walking, readers, walks
  <1>6. Chain \subseteq Nodes /\ \A m \in Chain : state[m] = "linked"
    BY DEF Chain, Linked
  <1>7. Highest(next[n], Below(n, rank), rank)
    BY <1>5 DEF Ordered
  <1>8. next'[n] \in Chain' \cup {NULL}
    <2>1. next'[n] = next[n]
      BY <1>1, <1>5, <1>6
    <2>2. next[n] = NULL \/ (next[n] \in Chain /\ rank[next[n]] < rank[n])
      BY <1>7 DEF Highest, Below
    <2> QED BY <2>1, <2>2, <1>5, <1>6
  <1>9. PointersInv'
    <2>1. wpc'[w] = "init" /\ next'[victim'[w]] \in Chain' \cup {NULL}
      BY <1>1, <1>3, <1>8 DEF n
    <2> QED BY <2>1, <1>3, PointersAlone
  <1>10. MissedInv'
    BY <1>1 DEF MissedInv, Missed, readers, walks
  <1>11. ReadersInv'
    BY <1>1, <1>2, <1>4, <1>5 DEF ReadersInv, Placed, readers, walks
  <1>12. Ahead(rank)'
    BY <1>1, <1>2, <1>4, <1>5 DEF Ahead, Before, readers, walks
  <1>13. \A j, k \in Chain : rank[j] = rank[k] => j = k
    BY DEF Ordered
  <1>14. Highest(first', Chain', rank)
    <2>1. Highest(first, Chain, rank)
      BY DEF Ordered
    <2>2. Highest(IF first = n THEN next[n] ELSE first, Chain \ {n}, rank)
      BY <1>5, <1>7, <1>13, <2>1, HighestAround
    <2> QED BY <1>1, <1>5, <2>2
  <1>15. ASSUME NEW m \in Chain' PROVE Highest(next'[m], Below(m, rank)', rank)
    <2>1. m \in Chain /\ m \in Nodes /\ state[m] = "linked"
      BY <1>5, <1>6
    <2>2. next'[m] = IF next[m] = n THEN next[n] ELSE next[m]
      BY <1>1, <2>1
    <2>3. Below(m, rank)' = Below(m, rank) \ {n}
      BY <1>5 DEF Below
    <2>4. Highest(next[m], Below(m, rank), rank)
      BY <2>1 DEF Ordered
    <2> DEFINE S == Below(m, rank)
    <2>5. S \in SUBSET Chain /\ \A s \in S, k \in Chain : rank[k] < rank[s] => k \in S
      <3>1. \A k \in Chain : rank[k] \in Nat
        BY <1>6
      <3> QED BY <2>1, <3>1 DEF Below
    <2>6. Highest(IF next[m] = n THEN next[n] ELSE next[m], S \ {n}, rank)
      <3> HIDE DEF S
      <3>1. Highest(next[m], S, rank)
        BY <2>4 DEF S
      <3> QED BY <1>5, <1>7, <1>13, <2>5, <3>1, HighestAround
    <2> QED BY <2>2, <2>3, <2>6
  <1>16. Ordered(rank)'
    BY <1>5, <1>13, <1>14, <1>15 DEF Ordered, Highest
  <1> QED BY <1>9, <1>10, <1>11, <1>12, <1>16

LEMMA OrderKfree ==
  ASSUME HWTyped, PointersInv, ReadersInv, MissedInv, NEW w \in Writers, kfree(w)
  PROVE  /\ PointersInv' /\ ReadersInv' /\ MissedInv'
         /\ \A rank \in [Nodes -> Nat] : Ordered(rank) /\ Ahead(rank) => Ordered(rank)' /\ Ahead(rank)'
  <1> USE DEF HWTyped
  <1> DEFINE n == victim[w]
  <1>1. /\ wpc[w] = "kfree"
        /\ state' = [state EXCEPT ![n] = "free"]
        /\ entry' = [entry EXCEPT ![n] = NULL]
        /\ stray' = stray \cup {r \in Walking : at[r] = n}
        /\ at' = [r \in Readers |-> IF at[r] = n THEN NULL ELSE at[r]]
        /\ had' = [r \in Readers |-> had[r] \ {n}]
        /\ wpc' = [wpc EXCEPT ![w] = IF info[w].update THEN "hash_add" ELSE "kmalloc"]
        /\ UNCHANGED <<first, next, info, node, rpc, want, stable, cut>>
    BY DEF kfree
  <1>2. wpc[w] \in Inside /\ Gone = {n} /\ Victims = {n} /\ n \in Nodes /\ state[n] = "linked"
    BY <1>1, Alone, InHand DEF Inside
  <1>3. /\ wpc'[w] \in {"hash_add", "kmalloc"}
        /\ \A v \in Writers \ {w} : wpc'[v] = wpc[v] /\ wpc[v] \notin Inside
    BY <1>1, <1>2, Alone DEF HWTypeOK
  <1>4. Gone' = {} /\ Victims' = {}
    <2>1. \A v \in Writers : wpc'[v] \notin {"hash_del", "init", "kfree"}
      BY <1>3 DEF Inside
    <2> QED BY <2>1 DEF Gone, Victims
  <1> HIDE DEF n
  <1>5. Linked' = Linked \ {n} /\ Chain = Linked \ {n} /\ Chain' = Chain
    <2>1. Linked' = Linked \ {n}
      BY <1>1, <1>2 DEF Linked, HWTypeOK
    <2> QED BY <2>1, <1>2, <1>4 DEF Chain
  <1>6. \A m \in Linked' : entry'[m] = entry[m]
    BY <1>1, <1>5 DEF Linked, HWTypeOK
  <1>7. Sane' \subseteq Sane /\ Sane \subseteq Readers /\ \A r \in Sane' : at[r] # n /\ at'[r] = at[r]
    BY <1>1 DEF Sane, Walking
  <1>8. \A r \in Readers : had'[r] = had[r] \ {n}
    BY <1>1
  <1>9. PointersInv'
    BY <1>3, PointersAlone
  <1>10. MissedInv'
    BY <1>1 DEF MissedInv, Missed
  <1>k. rpc' = rpc /\ want' = want /\ stable' = stable /\ Chain' = Chain
    BY <1>1, <1>5
  <1>11. ReadersInv'
    <2> SUFFICES ASSUME NEW r \in Sane'
                 PROVE
           /\ at'[r] # NULL => at'[r] \in Linked' /\ (entry'[at'[r]].key = want[r] => at'[r] \in had'[r])
           /\ rpc[r] = "use" => at'[r] # NULL /\ entry'[at'[r]].key = want[r]
           /\ rpc[r] = "next" => at'[r] # NULL /\ entry'[at'[r]].key # want[r]
           /\ \A m \in Chain : entry'[m].key = want[r] => m \in had'[r]
           /\ \A m \in stable[r] : m \in Chain /\ m \notin Victims' /\ entry'[m].key = want[r]
      BY <1>k DEF ReadersInv, Placed
    <2>1. /\ at[r] # NULL => at[r] \in Linked /\ (entry[at[r]].key = want[r] => at[r] \in had[r])
          /\ rpc[r] = "use" => at[r] # NULL /\ entry[at[r]].key = want[r]
          /\ rpc[r] = "next" => at[r] # NULL /\ entry[at[r]].key # want[r]
          /\ \A m \in Chain : entry[m].key = want[r] => m \in had[r]
          /\ \A m \in stable[r] : m \in Chain /\ m \notin Victims /\ entry[m].key = want[r]
      BY <1>7 DEF ReadersInv, Placed
    <2>2. r \in Readers /\ at'[r] = at[r] /\ at[r] # n /\ had'[r] = had[r] \ {n}
      BY <1>7, <1>8
    <2>3. at[r] # NULL => at[r] \in Linked' /\ entry'[at[r]] = entry[at[r]]
      BY <1>5, <1>6, <2>1, <2>2
    <2>4. \A m \in Chain : m # n /\ entry'[m] = entry[m]
      BY <1>5, <1>6
    <2> QED BY <1>4, <2>1, <2>2, <2>3, <2>4
  <1>12. ASSUME NEW rank \in [Nodes -> Nat], Ordered(rank), Ahead(rank)
         PROVE  Ordered(rank)' /\ Ahead(rank)'
    <2>1. Ordered(rank)'
      BY <1>1, <1>5, <1>12, OrderedSame
    <2>2. Ahead(rank)'
      <3> SUFFICES ASSUME NEW r \in Sane' \ cut, NEW m \in stable[r]
                   PROVE  at'[r] # NULL /\ rank[m] <= rank[at'[r]]
        BY <1>1 DEF Ahead, Before
      <3>1. r \in Sane \ cut /\ at[r] \notin Victims /\ at'[r] = at[r]
        BY <1>2, <1>7
      <3> QED BY <3>1, <1>12 DEF Ahead, Before
    <2> QED BY <2>1, <2>2
  <1> QED BY <1>9, <1>10, <1>11, <1>12

-----------------------------------------------------------------------------
(* The store of hash_add that makes a node the first.                        *)
LEMMA OrderPublish ==
  ASSUME HWTyped, PointersInv, ReadersInv, MissedInv, NEW w \in Writers, publish(w),
         NEW rank \in [Nodes -> Nat], Ordered(rank), Ahead(rank)
  PROVE  /\ PointersInv' /\ ReadersInv' /\ MissedInv'
         /\ \E rk \in [Nodes -> Nat] : Ordered(rk)' /\ Ahead(rk)'
  <1> USE DEF HWTyped
  <1> DEFINE n == node[w]
             top == IF first = NULL THEN 0 ELSE rank[first] + 1
  <1>1. /\ wpc[w] = "publish" /\ wpc' = [wpc EXCEPT ![w] = "spin_unlock"]
        /\ first' = n /\ state' = [state EXCEPT ![n] = "linked"]
        /\ had' = [r \in Readers |->
               IF r \in Walking /\ entry[n].key = want[r] THEN had[r] \cup {n} ELSE had[r]]
        /\ UNCHANGED <<next, entry, lock, info, node, victim, readers, stable, cut, stray>>
    BY DEF publish
  <1>2. wpc[w] \in Inside /\ Gone = {} /\ Victims = {}
    BY <1>1, Alone DEF Inside
  <1>3. wpc'[w] = "spin_unlock" /\ \A v \in Writers \ {w} : wpc'[v] = wpc[v] /\ wpc[v] \notin Inside
    BY <1>1, <1>2, Alone DEF HWTypeOK
  <1>4. Gone' = {} /\ Victims' = {}
    <2>1. \A v \in Writers : wpc'[v] \notin {"hash_del", "init", "kfree"}
      BY <1>3 DEF Inside
    <2> QED BY <2>1 DEF Gone, Victims
  <1>5. n \in Nodes /\ state[n] = "private" /\ next[n] = first
    <2>1. HasNode(w)
      BY <1>1 DEF HasNode
    <2> QED BY <1>1, <2>1, InHand DEF PointersInv
  <1> HIDE DEF n
  <1>6. Linked' = Linked \cup {n} /\ n \notin Linked
    BY <1>1, <1>5 DEF Linked, HWTypeOK
  <1>7. Chain = Linked /\ Chain' = Chain \cup {n} /\ n \notin Chain /\ Chain \subseteq Nodes
    BY <1>2, <1>4, <1>6 DEF Chain, Linked
  <1>8. Sane' = Sane /\ Sane \subseteq Readers /\ Sane \subseteq Walking
    BY <1>1 DEF Sane, Walking, readers
  <1>9. \A r \in Sane : had'[r] = IF entry[n].key = want[r] THEN had[r] \cup {n} ELSE had[r]
    BY <1>1, <1>8
  <1>10. PointersInv'
    BY <1>3, PointersAlone
  <1>11. MissedInv'
    BY <1>1 DEF MissedInv, Missed, readers
  <1>k. /\ at' = at /\ rpc' = rpc /\ want' = want /\ stable' = stable /\ entry' = entry
        /\ Sane' = Sane
    BY <1>1, <1>8 DEF readers
  <1>12. ReadersInv'
    <2> SUFFICES ASSUME NEW r \in Sane
                 PROVE
           /\ at[r] # NULL => at[r] \in Linked' /\ (entry[at[r]].key = want[r] => at[r] \in had'[r])
           /\ rpc[r] = "use" => at[r] # NULL /\ entry[at[r]].key = want[r]
           /\ rpc[r] = "next" => at[r] # NULL /\ entry[at[r]].key # want[r]
           /\ \A m \in Chain' : entry[m].key = want[r] => m \in had'[r]
           /\ \A m \in stable[r] : m \in Chain' /\ m \notin Victims' /\ entry[m].key = want[r]
      BY <1>k DEF ReadersInv, Placed
    <2>1. /\ at[r] # NULL => at[r] \in Linked /\ (entry[at[r]].key = want[r] => at[r] \in had[r])
          /\ rpc[r] = "use" => at[r] # NULL /\ entry[at[r]].key = want[r]
          /\ rpc[r] = "next" => at[r] # NULL /\ entry[at[r]].key # want[r]
          /\ \A m \in Chain : entry[m].key = want[r] => m \in had[r]
          /\ \A m \in stable[r] : m \in Chain /\ m \notin Victims /\ entry[m].key = want[r]
      BY DEF ReadersInv, Placed
    <2>2. had[r] \subseteq had'[r] /\ (entry[n].key = want[r] => n \in had'[r])
      BY <1>9
    <2> QED BY <1>4, <1>6, <1>7, <2>1, <2>2
  <1>13. \A m \in Chain : rank[m] \in Nat
    BY <1>7
  <1>14. top \in Nat /\ \A m \in Chain : rank[m] < top
    <2>1. Highest(first, Chain, rank)
      BY DEF Ordered
    <2>2. CASE Chain = {}
      BY <2>1, <2>2, <1>13, NodesAssumption DEF Highest
    <2>3. CASE Chain # {}
      <3>1. first \in Chain /\ \A m \in Chain : rank[m] <= rank[first]
        BY <2>1, <2>3 DEF Highest
      <3>2. first # NULL
        BY <3>1, <1>7, NodesAssumption
      <3> QED BY <3>1, <3>2, <1>13
    <2> QED BY <2>2, <2>3
  <1> HIDE DEF top
  <1>15. PICK rk \in [Nodes -> Nat] : rk[n] = top /\ \A m \in Chain : rk[m] = rank[m]
    <2>1. [rank EXCEPT ![n] = top] \in [Nodes -> Nat]
      BY <1>5, <1>14
    <2>2. [rank EXCEPT ![n] = top][n] = top /\ \A m \in Chain : [rank EXCEPT ![n] = top][m] = rank[m]
      BY <1>5, <1>7
    <2> QED BY <2>1, <2>2
  <1>16. \A j, k \in Chain' : rk[j] = rk[k] => j = k
    <2> SUFFICES ASSUME NEW j \in Chain', NEW k \in Chain', rk[j] = rk[k] PROVE j = k
      OBVIOUS
    <2>1. CASE j \in Chain /\ k \in Chain
      BY <1>15, <2>1 DEF Ordered
    <2>2. CASE j = n /\ k \in Chain
      BY <1>13, <1>14, <1>15, <2>2
    <2>3. CASE j \in Chain /\ k = n
      BY <1>13, <1>14, <1>15, <2>3
    <2> QED BY <1>7, <2>1, <2>2, <2>3
  <1>17. Highest(first', Chain', rk)
    <2>1. \A m \in Chain' : rk[m] <= rk[n]
      BY <1>7, <1>13, <1>14, <1>15
    <2> QED BY <1>1, <1>7, <2>1 DEF Highest
  <1>18. ASSUME NEW m \in Chain' PROVE Highest(next'[m], Below(m, rk)', rk)
    <2>1. CASE m = n
      <3>1. Below(m, rk)' = Chain
        BY <1>7, <1>13, <1>14, <1>15, <2>1 DEF Below
      <3>2. Highest(first, Chain, rk)
        BY <1>15 DEF Ordered, Highest
      <3> QED BY <1>1, <1>5, <2>1, <3>1, <3>2
    <2>2. CASE m \in Chain
      <3>1. Below(m, rk)' = Below(m, rank)
        BY <1>7, <1>13, <1>14, <1>15, <2>2 DEF Below
      <3>2. Below(m, rank) \subseteq Chain
        BY DEF Below
      <3>3. Highest(next[m], Below(m, rank), rank)
        BY <2>2 DEF Ordered
      <3>4. Highest(next[m], Below(m, rank), rk)
        BY <1>15, <3>2, <3>3 DEF Highest
      <3> QED BY <1>1, <3>1, <3>4
    <2> QED BY <1>7, <2>1, <2>2
  <1>19. Ordered(rk)'
    BY <1>16, <1>17, <1>18 DEF Ordered, Highest
  <1>20. Ahead(rk)'
    <2> SUFFICES ASSUME NEW r \in Sane \ cut, NEW m \in stable[r]
                 PROVE  at[r] # NULL /\ rk[m] <= rk[at[r]]
      BY <1>1, <1>8 DEF Ahead, Before, readers
    <2>1. at[r] # NULL /\ rank[m] <= rank[at[r]]
      BY <1>2 DEF Ahead, Before
    <2>2. m \in Chain /\ at[r] \in Chain
      BY <1>7, <2>1 DEF ReadersInv, Placed
    <2> QED BY <1>15, <2>1, <2>2
  <1> QED BY <1>10, <1>11, <1>12, <1>15, <1>19, <1>20

-----------------------------------------------------------------------------
(* The steps of the walks.                                                   *)

\* The walks but r are as they were.
LEMMA WalksElse ==
  ASSUME ReadersInv, MissedInv, NEW r \in Readers, UNCHANGED <<bucket, writers>>,
         \A q \in Readers \ {r} :
           /\ rpc'[q] = rpc[q] /\ want'[q] = want[q] /\ at'[q] = at[q] /\ had'[q] = had[q]
           /\ stable'[q] = stable[q] /\ (q \in cut' <=> q \in cut) /\ (q \in stray' <=> q \in stray),
         r \in Sane' => Placed(r)',
         Missed(r)',
         NEW rank \in [Nodes -> Nat], Ordered(rank), Ahead(rank),
         r \in Sane' /\ r \notin cut' /\ at'[r] \notin Victims => Before(r, rank)'
  PROVE  ReadersInv' /\ MissedInv' /\ Ordered(rank)' /\ Ahead(rank)'
  <1>1. /\ Linked' = Linked /\ Chain' = Chain /\ Victims' = Victims /\ entry' = entry
        /\ first' = first /\ next' = next
    BY DEF bucket, writers, Chain, Linked, Gone, Victims
  <1>2. \A q \in Readers \ {r} : q \in Sane' <=> q \in Sane
    BY DEF Sane, Walking
  <1>3. Sane' \subseteq Readers
    BY DEF Sane, Walking
  <1>4. \A q \in Readers \ {r} : Missed(q)' <=> Missed(q)
    BY DEF Missed
  <1>5. \A q \in Readers \ {r} : Placed(q)' <=> Placed(q)
    BY <1>1 DEF Placed
  <1>6. \A q \in Readers \ {r} : Before(q, rank)' <=> Before(q, rank)
    BY DEF Before
  <1>7. MissedInv'
    BY <1>4 DEF MissedInv
  <1>8. Ordered(rank)'
    BY <1>1, OrderedSame
  <1>9. ReadersInv'
    BY <1>2, <1>3, <1>5 DEF ReadersInv
  <1>10. Ahead(rank)'
    <2> SUFFICES ASSUME NEW q \in Sane', q \notin cut', at'[q] \notin Victims
                 PROVE  Before(q, rank)'
      BY <1>1 DEF Ahead
    <2>1. CASE q = r
      BY <2>1
    <2>2. CASE q # r
      <3>1. q \in Readers \ {r} /\ q \in Sane /\ q \notin cut /\ at[q] \notin Victims
        BY <1>2, <1>3, <2>2
      <3>2. Before(q, rank)
        BY <3>1 DEF Ahead
      <3> QED BY <1>6, <3>1, <3>2
    <2> QED BY <2>1, <2>2
  <1> QED BY <1>7, <1>8, <1>9, <1>10

LEMMA VictimsLinked ==
  ASSUME HWTyped
  PROVE  /\ Victims \subseteq Linked /\ Gone \subseteq Victims /\ Linked \subseteq Nodes
         /\ NULL \notin Linked
         /\ \A n \in Victims : \E w \in Writers : victim[w] = n
         /\ \A w \in Writers : victim[w] # NULL => victim[w] \in Victims
  <1>1. Linked \subseteq Nodes /\ NULL \notin Linked
    BY NodesAssumption DEF Linked
  <1>2. Victims \subseteq Linked
    BY DEF Victims, HWTyped, WritersInv
  <1>3. Gone \subseteq Victims
    BY DEF Gone, Victims
  <1>4. \A n \in Victims : \E w \in Writers : victim[w] = n
    BY DEF Victims
  <1>5. \A w \in Writers : victim[w] # NULL => victim[w] \in Victims
    BY DEF Victims, HWTyped, WritersInv
  <1> QED BY <1>1, <1>2, <1>3, <1>4, <1>5

LEMMA OrderStart ==
  ASSUME HWTyped, ReadersInv, MissedInv, NEW r \in Readers, NEW k \in Keys, Start(r, k),
         NEW rank \in [Nodes -> Nat], Ordered(rank), Ahead(rank)
  PROVE  ReadersInv' /\ MissedInv' /\ Ordered(rank)' /\ Ahead(rank)'
  <1> DEFINE linked == {n \in Linked : entry[n].key = k}
  <1>1. /\ want' = [want EXCEPT ![r] = k] /\ at' = [at EXCEPT ![r] = first]
        /\ rpc' = [rpc EXCEPT ![r] = "compare"]
        /\ had' = [had EXCEPT ![r] = linked \ Gone]
        /\ stable' = [stable EXCEPT ![r] = linked \ {victim[w] : w \in Writers}]
        /\ UNCHANGED <<bucket, writers, cut, stray>>
    BY DEF Start, Gone
  <1> HIDE DEF linked
  <1>2. /\ want'[r] = k /\ at'[r] = first /\ rpc'[r] = "compare" /\ had'[r] = linked \ Gone
        /\ stable'[r] = linked \ {victim[w] : w \in Writers}
        /\ \A q \in Readers \ {r} :
             /\ rpc'[q] = rpc[q] /\ want'[q] = want[q] /\ at'[q] = at[q] /\ had'[q] = had[q]
             /\ stable'[q] = stable[q]
    BY <1>1 DEF HWTyped, HWTypeOK
  <1>3. stable'[r] \subseteq {n \in Chain : entry[n].key = k} \ Victims
    BY <1>2, VictimsLinked DEF Chain, linked
  <1>4. had'[r] = {n \in Chain : entry[n].key = k}
    BY <1>2 DEF Chain, linked
  <1>5. Chain \subseteq Linked /\ Highest(first, Chain, rank)
    BY DEF Chain, Ordered
  <1>6. first # NULL => first \in Chain
    BY <1>5 DEF Highest
  <1>7. /\ Linked' = Linked /\ Chain' = Chain /\ Victims' = Victims /\ entry' = entry
    BY <1>1 DEF bucket, writers, Chain, Linked, Gone, Victims
  <1>8. Placed(r)'
    BY <1>2, <1>3, <1>4, <1>5, <1>6, <1>7 DEF Placed
  <1>9. Missed(r)'
    BY <1>2 DEF Missed
  <1>10. Before(r, rank)'
    <2> SUFFICES ASSUME NEW m \in stable'[r] PROVE first # NULL /\ rank[m] <= rank[first]
      BY <1>2 DEF Before
    <2>1. m \in Chain
      BY <1>3
    <2>2. first \in Chain /\ rank[m] <= rank[first]
      BY <1>5, <2>1 DEF Highest
    <2> QED BY <1>5, <2>2, VictimsLinked
  <1> QED BY <1>1, <1>2, <1>8, <1>9, <1>10, WalksElse

LEMMA OrderCompare ==
  ASSUME HWTyped, ReadersInv, MissedInv, NEW r \in Readers, compare(r),
         NEW rank \in [Nodes -> Nat], Ordered(rank), Ahead(rank)
  PROVE  ReadersInv' /\ MissedInv' /\ Ordered(rank)' /\ Ahead(rank)'
  <1> DEFINE step == IF at[r] = NULL THEN "none"
                     ELSE IF entry[at[r]].key = want[r] THEN "use" ELSE "next"
  <1>1. /\ rpc[r] = "compare" /\ r \notin stray
        /\ rpc' = [rpc EXCEPT ![r] = step]
        /\ UNCHANGED <<bucket, writers, want, at, walks>>
    BY DEF compare, Sound
  <1>2. rpc'[r] = step /\ \A q \in Readers \ {r} : rpc'[q] = rpc[q]
    BY <1>1 DEF HWTyped, HWTypeOK
  <1>3. r \in Sane /\ Placed(r)
    BY <1>1 DEF Sane, Walking, ReadersInv
  <1>4. /\ Linked' = Linked /\ Chain' = Chain /\ Victims' = Victims /\ entry' = entry
        /\ UNCHANGED <<want, at, had, stable, cut, stray>>
    BY <1>1 DEF bucket, writers, walks, Chain, Linked, Gone, Victims
  <1>5. Placed(r)'
    <2>1. /\ at[r] # NULL => at[r] \in Linked /\ (entry[at[r]].key = want[r] => at[r] \in had[r])
          /\ \A n \in Chain : entry[n].key = want[r] => n \in had[r]
          /\ \A n \in stable[r] : n \in Chain /\ n \notin Victims /\ entry[n].key = want[r]
      BY <1>3 DEF Placed
    <2>2. rpc'[r] = "use" => at[r] # NULL /\ entry[at[r]].key = want[r]
      BY <1>2
    <2>3. rpc'[r] = "next" => at[r] # NULL /\ entry[at[r]].key # want[r]
      BY <1>2
    <2> QED BY <1>4, <2>1, <2>2, <2>3 DEF Placed
  <1>6. at[r] \notin Victims /\ r \notin cut => Before(r, rank)
    BY <1>3 DEF Ahead
  <1>7. Missed(r)'
    <2> SUFFICES ASSUME rpc'[r] = "none", r \notin cut PROVE stable[r] = {}
      BY <1>4 DEF Missed
    <2>1. at[r] = NULL /\ at[r] \notin Victims
      BY <1>2, VictimsLinked
    <2> QED BY <1>6, <2>1 DEF Before
  <1>8. Before(r, rank)' <=> Before(r, rank)
    BY <1>4 DEF Before
  <1> QED BY <1>1, <1>2, <1>4, <1>5, <1>6, <1>7, <1>8, WalksElse

LEMMA OrderGoNext ==
  ASSUME HWTyped, PointersInv, ReadersInv, MissedInv, NEW r \in Readers, go_next(r),
         NEW rank \in [Nodes -> Nat], Ordered(rank), Ahead(rank)
  PROVE  ReadersInv' /\ MissedInv' /\ Ordered(rank)' /\ Ahead(rank)'
  <1> DEFINE n == at[r]
  <1>1. /\ rpc[r] = "next" /\ r \notin stray
        /\ at' = [at EXCEPT ![r] = next[n]]
        /\ rpc' = [rpc EXCEPT ![r] = "compare"]
        /\ cut' = IF \E w \in Writers : victim[w] = n THEN cut \cup {r} ELSE cut
        /\ UNCHANGED <<bucket, writers, want, had, stable, stray>>
    BY DEF go_next, Sound
  <1>2. /\ rpc'[r] = "compare" /\ at'[r] = next[n]
        /\ \A q \in Readers \ {r} : rpc'[q] = rpc[q] /\ at'[q] = at[q] /\ (q \in cut' <=> q \in cut)
    BY <1>1 DEF HWTyped, HWTypeOK
  <1>3. r \in Sane /\ Placed(r)
    BY <1>1 DEF Sane, Walking, ReadersInv
  <1>4. n \in Linked /\ entry[n].key # want[r]
    BY <1>1, <1>3 DEF Placed
  <1> HIDE DEF n
  <1>5. n \in Chain => Highest(next[n], Below(n, rank), rank)
    BY DEF Ordered
  <1>6. next[n] \in Chain \cup {NULL}
    <2>1. CASE n \in Chain
      BY <1>5, <2>1 DEF Highest, Below
    <2>2. CASE n \in Gone
      BY <2>2 DEF Gone, PointersInv
    <2> QED BY <1>4, <2>1, <2>2 DEF Chain
  <1>7. /\ Linked' = Linked /\ Chain' = Chain /\ Victims' = Victims /\ entry' = entry
        /\ UNCHANGED <<want, had, stable, stray>>
    BY <1>1 DEF bucket, writers, Chain, Linked, Gone, Victims
  <1>8. Placed(r)'
    <2>1. /\ \A m \in Chain : entry[m].key = want[r] => m \in had[r]
          /\ \A m \in stable[r] : m \in Chain /\ m \notin Victims /\ entry[m].key = want[r]
      BY <1>3 DEF Placed
    <2>2. next[n] # NULL => next[n] \in Linked /\ (entry[next[n]].key = want[r] => next[n] \in had[r])
      BY <1>6, <2>1 DEF Chain
    <2> QED BY <1>2, <1>7, <2>1, <2>2 DEF Placed
  <1>9. Missed(r)'
    BY <1>2 DEF Missed
  <1>10. ASSUME r \notin cut' PROVE Before(r, rank)'
    <2>1. r \notin cut /\ n \notin Victims
      BY <1>1, <1>10, VictimsLinked DEF HWTyped
    <2>2. n \in Chain
      BY <1>4, <2>1, VictimsLinked DEF Chain
    <2>3. Before(r, rank)
      BY <1>3, <2>1 DEF Ahead, n
    <2> SUFFICES ASSUME NEW m \in stable[r] PROVE next[n] # NULL /\ rank[m] <= rank[next[n]]
      BY <1>2, <1>7 DEF Before
    <2>4. m \in Chain /\ m # n
      BY <1>3, <1>4 DEF Placed
    <2>5. rank[m] <= rank[n]
      BY <2>3 DEF Before, n
    <2>6. rank[m] # rank[n]
      BY <2>2, <2>4 DEF Ordered
    <2>7. rank[m] \in Nat /\ rank[n] \in Nat
      BY <2>2, <2>4 DEF Chain, Linked
    <2>8. m \in Below(n, rank)
      BY <2>4, <2>5, <2>6, <2>7 DEF Below
    <2>9. next[n] \in Chain /\ rank[m] <= rank[next[n]]
      BY <1>5, <2>2, <2>8 DEF Highest, Below
    <2> QED BY <2>9, VictimsLinked DEF Chain
  <1> QED BY <1>1, <1>2, <1>8, <1>9, <1>10, WalksElse

LEMMA OrderWalkEnds ==
  ASSUME HWTyped, ReadersInv, MissedInv, NEW r \in Readers, use(r) \/ Undefined(r) \/ Leave(r),
         NEW rank \in [Nodes -> Nat], Ordered(rank), Ahead(rank)
  PROVE  ReadersInv' /\ MissedInv' /\ Ordered(rank)' /\ Ahead(rank)'
  <1>1. /\ UNCHANGED <<bucket, writers>>
        /\ \A q \in Readers \ {r} :
             /\ rpc'[q] = rpc[q] /\ want'[q] = want[q] /\ at'[q] = at[q] /\ had'[q] = had[q]
             /\ stable'[q] = stable[q] /\ (q \in cut' <=> q \in cut) /\ (q \in stray' <=> q \in stray)
        /\ r \in stray' \/ rpc'[r] \in {"found", "idle"}
    <2>1. CASE use(r)
      BY <2>1 DEF use, walks, HWTyped, HWTypeOK
    <2>2. CASE Undefined(r)
      BY <2>2 DEF Undefined, HWTyped, HWTypeOK
    <2>3. CASE Leave(r)
      BY <2>3 DEF Leave, Forget, HWTyped, HWTypeOK
    <2> QED BY <2>1, <2>2, <2>3
  <1>2. r \notin Sane' /\ Missed(r)'
    BY <1>1 DEF Sane, Walking, Missed
  <1> QED BY <1>1, <1>2, WalksElse

-----------------------------------------------------------------------------
(* The invariant of the bucket and its walks.                                *)
LEMMA WalkInit ==
  ASSUME HWInit
  PROVE  HWInv
  <1>1. HWTyped
    BY HWTypeInit
  <1>2. Linked = {} /\ Sane = {} /\ Chain = {} /\ first = NULL
    BY DEF HWInit, Linked, Sane, Walking, Chain
  <1>3. PointersInv /\ ReadersInv /\ MissedInv
    BY <1>2 DEF HWInit, PointersInv, ReadersInv, MissedInv, Missed
  <1>4. [n \in Nodes |-> 0] \in [Nodes -> Nat]
    OBVIOUS
  <1>5. \A rank \in [Nodes -> Nat] : Ordered(rank) /\ Ahead(rank)
    BY <1>2 DEF Ordered, Ahead, Highest
  <1> QED BY <1>1, <1>3, <1>4, <1>5 DEF HWInv, HWTyped

LEMMA WalkNext ==
  ASSUME HWInv, [HWNext]_HWvars
  PROVE  HWInv'
  <1>1. HWTyped /\ PointersInv /\ ReadersInv /\ MissedInv
    BY DEF HWInv, HWTyped
  <1>2. PICK rank \in [Nodes -> Nat] : Ordered(rank) /\ Ahead(rank)
    BY DEF HWInv
  <1> DEFINE Rest == /\ PointersInv' /\ ReadersInv' /\ MissedInv'
                     /\ \E rk \in [Nodes -> Nat] : Ordered(rk)' /\ Ahead(rk)'
  <1>3. HWTyped' /\ Rest => HWInv'
    BY DEF HWInv, HWTyped
  <1>4. QuietStep /\ PointersInv' => Rest
    BY <1>1, <1>2, QuietReaders, QuietOrder
  <1>5. ASSUME NEW w \in Writers, NEW c \in Issued, Issue(w, c) PROVE HWInv'
    <2>1. Rest
      BY <1>1, <1>4, <1>5, QuietOutside
    <2> QED BY <1>1, <1>3, <1>5, <2>1, TypeIssue
  <1>6. ASSUME NEW w \in Writers, command(w) PROVE HWInv'
    <2>1. HWTyped'
      BY <1>1, <1>6, TypeCommand
    <2>2. Rest
      <3>1. CASE kmalloc(w) \/ spin_lock(w)
        BY <1>1, <1>4, <3>1, QuietOutside
      <3>2. CASE init_node(w) \/ set_next(w) \/ spin_unlock(w)
        BY <1>1, <1>4, <3>2, QuietInside
      <3>3. CASE (hash_for_each(w) \/ hash_for_each_update(w)) /\ lock' = lock
        BY <1>1, <1>4, <3>3, QuietOutside
      <3>4. CASE (hash_for_each(w) \/ hash_for_each_update(w)) /\ lock' # lock
        BY <1>1, <1>2, <3>4, RemovalBegins
      <3>5. CASE bypass(w)
        BY <1>1, <1>2, <3>5, OrderBypass
      <3>6. CASE kfree(w)
        BY <1>1, <1>2, <3>6, OrderKfree
      <3>7. CASE publish(w)
        BY <1>1, <1>2, <3>7, OrderPublish
      <3> QED BY <1>6, <3>1, <3>2, <3>3, <3>4, <3>5, <3>6, <3>7 DEF command
    <2> QED BY <1>3, <2>1, <2>2
  <1>7. ASSUME NEW r \in Readers, walk(r) \/ Undefined(r) \/ Leave(r) \/ \E k \in Keys : Start(r, k)
        PROVE  HWInv'
    <2>1. HWTyped' /\ UNCHANGED <<bucket, writers>>
      BY <1>1, <1>7, TypeReaders
    <2>2. PointersInv'
      BY <1>1, <2>1 DEF PointersInv, bucket, writers, Chain, Linked, Gone
    <2>3. ReadersInv' /\ MissedInv' /\ Ordered(rank)' /\ Ahead(rank)'
      BY <1>1, <1>2, <1>7, OrderStart, OrderCompare, OrderGoNext, OrderWalkEnds DEF walk
    <2>4. Rest
      BY <2>2, <2>3
    <2> QED BY <1>3, <2>1, <2>4
  <1>8. CASE UNCHANGED HWvars
    <2>1. QuietStep
      BY <1>8 DEF QuietStep, HWvars, bucket, writers, readers, walks, Chain, Linked, Gone, Victims
    <2>2. PointersInv'
      BY <1>1, <1>8 DEF HWvars, PointersInv, bucket, writers, Chain, Linked, Gone
    <2>3. HWTyped'
      <3>1. HWTypeOK'
        BY <1>1, <1>8 DEF HWTyped, HWTypeOK, HWvars, bucket, writers, readers, walks
      <3>2. WritersInv'
        BY <1>1, <1>8, WritersSame DEF HWvars
      <3> QED BY <3>1, <3>2 DEF HWTyped
    <2> QED BY <1>3, <1>4, <2>1, <2>2, <2>3
  <1> QED BY <1>5, <1>6, <1>7, <1>8 DEF HWNext

-----------------------------------------------------------------------------
(* What the pointers lead through (met), by induction over the steps of a     *)
(* walk: a set of numbers that has 0, and with each number the next one, has  *)
(* all of them.                                                              *)
LEMMA AllNumbers ==
  ASSUME NEW P \in SUBSET Nat, 0 \in P, \A k \in P : k + 1 \in P
  PROVE  P = Nat
  <1> SUFFICES ASSUME Nat \ P # {} PROVE FALSE
    OBVIOUS
  <1>1. PICK m \in Nat \ P : \A l \in Nat \ P : m <= l
    BY LeastExists
  <1>2. m # 0 /\ m - 1 \in Nat /\ (m - 1) + 1 = m /\ ~(m <= m - 1)
    BY <1>1
  <1>3. m - 1 \in P
    BY <1>1, <1>2
  <1> QED BY <1>1, <1>2, <1>3

\* What the step after x meets.
After(x) == IF x \in Nodes THEN next[x] ELSE NULL

\* The first k steps of a walk.
Steps(k, f) ==
  /\ f \in [0..k -> Nodes \cup {NULL}] /\ f[0] = first
  /\ \A i \in 1..k : f[i] = After(f[i - 1])

LEMMA StepsExist ==
  ASSUME HWTypeOK, NEW k \in Nat
  PROVE  \E f : Steps(k, f)
  <1> DEFINE P == {i \in Nat : \E f : Steps(i, f)}
  <1>1. 0 \in P
    <2>1. Steps(0, [i \in 0..0 |-> first])
      BY DEF Steps, HWTypeOK
    <2> QED BY <2>1
  <1>2. ASSUME NEW i \in P PROVE i + 1 \in P
    <2>1. i \in Nat /\ i + 1 \in Nat
      OBVIOUS
    <2>2. PICK f : Steps(i, f)
      OBVIOUS
    <2> DEFINE g == [j \in 0..(i + 1) |-> IF j <= i THEN f[j] ELSE After(f[i])]
    <2>3. /\ f \in [0..i -> Nodes \cup {NULL}] /\ f[0] = first
          /\ \A j \in 1..i : f[j] = After(f[j - 1])
      BY <2>2 DEF Steps
    <2>4. \A x : After(x) \in Nodes \cup {NULL}
      BY DEF After, HWTypeOK
    <2>5. g \in [0..(i + 1) -> Nodes \cup {NULL}]
      BY <2>1, <2>3, <2>4
    <2>6. g[0] = first
      BY <2>1, <2>3
    <2>7. \A j \in 1..(i + 1) : g[j] = After(g[j - 1])
      <3> SUFFICES ASSUME NEW j \in 1..(i + 1) PROVE g[j] = After(g[j - 1])
        OBVIOUS
      <3>1. j - 1 \in 0..i /\ g[j - 1] = f[j - 1]
        BY <2>1
      <3>2. CASE j <= i
        <4>1. j \in 1..i /\ g[j] = f[j]
          BY <2>1, <3>2
        <4> QED BY <2>3, <3>1, <4>1
      <3>3. CASE j = i + 1
        <4>1. g[j] = After(f[i]) /\ j - 1 = i
          BY <2>1, <3>3
        <4> QED BY <3>1, <4>1
      <3> QED BY <2>1, <3>2, <3>3
    <2>8. Steps(i + 1, g)
      BY <2>5, <2>6, <2>7 DEF Steps
    <2> QED BY <2>1, <2>8
  <1>3. P = Nat
    <2> HIDE DEF P
    <2>1. P \in SUBSET Nat
      BY DEF P
    <2> QED BY <1>1, <1>2, <2>1, AllNumbers
  <1> QED BY <1>3

LEMMA NodesCounted == IsFiniteSet(Nodes) /\ Cardinality(Nodes) = MaxNodes /\ MaxNodes \in Nat
  <1>1. IsFiniteSet(1..MaxNodes) /\ Cardinality(1..MaxNodes) = IF 1 > MaxNodes THEN 0 ELSE MaxNodes - 1 + 1
    BY NodesAssumption, FS_Interval
  <1> QED BY <1>1, NodesAssumption DEF Nodes

LEMMA MetSteps ==
  ASSUME HWTypeOK
  PROVE  Steps(MaxNodes, met) /\ DOMAIN met = 0..MaxNodes
  <1>1. PICK f : Steps(MaxNodes, f)
    BY StepsExist, NodesCounted
  <1> DEFINE Met(h) == [i \in 0..Cardinality(Nodes) |->
                          IF i = 0 THEN first ELSE IF h[i - 1] \in Nodes THEN next[h[i - 1]] ELSE NULL]
  <1>2. f = Met(f)
    <2>1. /\ f \in [0..MaxNodes -> Nodes \cup {NULL}] /\ f[0] = first
          /\ \A i \in 1..MaxNodes : f[i] = After(f[i - 1])
      BY <1>1 DEF Steps
    <2>2. \A i \in 0..MaxNodes :
            f[i] = IF i = 0 THEN first ELSE IF f[i - 1] \in Nodes THEN next[f[i - 1]] ELSE NULL
      BY <2>1, NodesCounted DEF After
    <2> QED BY <2>1, <2>2, NodesCounted
  <1>3. met = CHOOSE h : h = Met(h)
    BY DEF met
  <1> HIDE DEF Met
  <1>4. met = Met(met)
    BY <1>2, <1>3
  <1>5. DOMAIN met = 0..MaxNodes /\ \A i \in 0..MaxNodes :
          met[i] = IF i = 0 THEN first ELSE IF met[i - 1] \in Nodes THEN next[met[i - 1]] ELSE NULL
    BY <1>4, NodesCounted DEF Met
  <1>6. met[0] = first /\ \A i \in 1..MaxNodes : met[i] = After(met[i - 1])
    BY <1>5, NodesCounted DEF After
  <1>7. \A i \in 0..MaxNodes : met[i] \in Nodes \cup {NULL}
    BY <1>5 DEF HWTypeOK
  <1>8. met \in [0..MaxNodes -> Nodes \cup {NULL}]
    <2>1. met = [i \in 0..MaxNodes |-> met[i]]
      BY <1>4, <1>5, NodesCounted DEF Met
    <2> QED BY <1>7, <2>1
  <1> QED BY <1>5, <1>6, <1>8 DEF Steps

\* A walk along the chain goes down, and passes by no node.
LEMMA StepsGoDown ==
  ASSUME HWTypeOK, NEW rank \in [Nodes -> Nat], Ordered(rank), NEW f, Steps(MaxNodes, f),
         NEW k \in 0..MaxNodes
  PROVE  /\ f[k] \in Chain \cup {NULL}
         /\ f[k] \in Chain => \A j \in 0..(k - 1) : f[j] \in Chain /\ rank[f[k]] < rank[f[j]]
         /\ \A m \in Chain : \/ \E j \in 0..k : f[j] = m
                             \/ f[k] \in Chain /\ rank[m] < rank[f[k]]
  <1> DEFINE Down(i) ==
        /\ f[i] \in Chain \cup {NULL}
        /\ f[i] \in Chain => \A j \in 0..(i - 1) : f[j] \in Chain /\ rank[f[i]] < rank[f[j]]
        /\ \A m \in Chain : \/ \E j \in 0..i : f[j] = m
                            \/ f[i] \in Chain /\ rank[m] < rank[f[i]]
      P == {i \in Nat : i <= MaxNodes => Down(i)}
  <1>1. /\ f[0] = first /\ \A i \in 1..MaxNodes : f[i] = After(f[i - 1])
        /\ MaxNodes \in Nat
    BY NodesCounted DEF Steps
  <1>2. Chain \subseteq Nodes /\ NULL \notin Nodes
    BY NodesAssumption DEF Chain, Linked
  <1>3. \A m \in Chain : rank[m] \in Nat
    BY <1>2
  <1>4. \A j, m \in Chain : rank[j] = rank[m] => j = m
    BY DEF Ordered
  <1>5. 0 \in P
    <2>1. Highest(first, Chain, rank)
      BY DEF Ordered
    <2>2. first \in Chain \cup {NULL}
      BY <2>1 DEF Highest
    <2>3. ASSUME NEW m \in Chain, first # m PROVE first \in Chain /\ rank[m] < rank[first]
      <3>1. first \in Chain /\ rank[m] <= rank[first]
        BY <2>1 DEF Highest
      <3> QED BY <3>1, <2>3, <1>3, <1>4
    <2>4. Down(0)
      <3>1. 0 \in 0..0 /\ \A j \in 0..(0 - 1) : FALSE
        OBVIOUS
      <3> QED BY <1>1, <2>2, <2>3, <3>1
    <2> QED BY <2>4
  <1>6. ASSUME NEW i \in P PROVE i + 1 \in P
    <2>1. i \in Nat
      OBVIOUS
    <2> SUFFICES ASSUME i + 1 <= MaxNodes PROVE Down(i + 1)
      BY <2>1
    <2>2. Down(i)
      BY <2>1, <1>1
    <2>3. f[i + 1] = After(f[i])
      <3>1. i + 1 \in 1..MaxNodes /\ (i + 1) - 1 = i
        BY <2>1, <1>1
      <3> QED BY <3>1, <1>1
    <2>4. CASE f[i] \in Chain
      <3>1. f[i + 1] = next[f[i]]
        BY <1>2, <2>3, <2>4 DEF After
      <3>2. Highest(next[f[i]], Below(f[i], rank), rank)
        BY <2>4 DEF Ordered
      <3>3. f[i + 1] = NULL \/ (f[i + 1] \in Chain /\ rank[f[i + 1]] < rank[f[i]])
        BY <3>1, <3>2 DEF Highest, Below
      <3>4. ASSUME f[i + 1] \in Chain, NEW j \in 0..((i + 1) - 1)
            PROVE  f[j] \in Chain /\ rank[f[i + 1]] < rank[f[j]]
        <4>1. rank[f[i + 1]] < rank[f[i]]
          BY <3>3, <3>4, <1>2
        <4>2. CASE j = i
          BY <4>1, <4>2, <2>4
        <4>3. CASE j # i
          <5>1. j \in 0..(i - 1)
            BY <4>3, <2>1
          <5>2. f[j] \in Chain /\ rank[f[i]] < rank[f[j]]
            BY <5>1, <2>2, <2>4
          <5> QED BY <5>2, <4>1, <2>4, <3>4, <1>3
        <4> QED BY <4>2, <4>3
      <3>5. ASSUME NEW m \in Chain, ~\E j \in 0..(i + 1) : f[j] = m
            PROVE  f[i + 1] \in Chain /\ rank[m] < rank[f[i + 1]]
        <4>1. f[i + 1] # m /\ ~\E j \in 0..i : f[j] = m
          BY <3>5, <2>1
        <4>2. rank[m] < rank[f[i]]
          BY <4>1, <2>2
        <4>3. m \in Below(f[i], rank)
          BY <4>2 DEF Below
        <4>4. f[i + 1] \in Below(f[i], rank) /\ rank[m] <= rank[f[i + 1]]
          BY <3>1, <3>2, <4>3 DEF Highest
        <4>5. f[i + 1] \in Chain
          BY <4>4 DEF Below
        <4> QED BY <4>1, <4>4, <4>5, <1>3, <1>4
      <3> HIDE DEF P
      <3> QED BY <3>3, <3>4, <3>5
    <2>5. CASE f[i] = NULL
      <3>1. f[i + 1] = NULL /\ NULL \notin Chain
        BY <1>2, <2>3, <2>5 DEF After
      <3>2. ASSUME NEW m \in Chain PROVE \E j \in 0..(i + 1) : f[j] = m
        <4>1. \E j \in 0..i : f[j] = m
          BY <2>2, <2>5, <3>1
        <4> QED BY <4>1, <2>1
      <3> HIDE DEF P
      <3> QED BY <3>1, <3>2
    <2> QED BY <2>2, <2>4, <2>5
  <1>7. P = Nat
    <2> HIDE DEF P
    <2>1. P \in SUBSET Nat
      BY DEF P
    <2> QED BY <1>5, <1>6, <2>1, AllNumbers
  <1>8. k \in Nat /\ k <= MaxNodes
    BY <1>1
  <1>9. Down(k)
    BY <1>7, <1>8
  <1> QED BY <1>9

\* There are no more steps than nodes, so that the last one has left the chain.
LEMMA MetIsChain ==
  ASSUME HWTypeOK, NEW rank \in [Nodes -> Nat], Ordered(rank)
  PROVE  /\ {met[i] : i \in DOMAIN met} \cap Nodes = Chain
         /\ met[Cardinality(Nodes)] = NULL
  <1>1. Steps(MaxNodes, met) /\ DOMAIN met = 0..MaxNodes
    BY MetSteps
  <1>2. MaxNodes \in Nat /\ MaxNodes \in 0..MaxNodes
    BY NodesCounted
  <1>3. Chain \subseteq Nodes /\ NULL \notin Nodes
    BY NodesAssumption DEF Chain, Linked
  <1> DEFINE Down(k) ==
        /\ met[k] \in Chain \cup {NULL}
        /\ met[k] \in Chain => \A j \in 0..(k - 1) : met[j] \in Chain /\ rank[met[k]] < rank[met[j]]
        /\ \A m \in Chain : \/ \E j \in 0..k : met[j] = m
                            \/ met[k] \in Chain /\ rank[m] < rank[met[k]]
  <1>4. \A k \in 0..MaxNodes : Down(k)
    BY <1>1, StepsGoDown
  <1>5. met[MaxNodes] = NULL
    <2> SUFFICES ASSUME met[MaxNodes] \in Chain PROVE FALSE
      BY <1>2, <1>4
    <2>1. \A j \in 0..MaxNodes : met[j] \in Chain
      <3> SUFFICES ASSUME NEW j \in 0..MaxNodes PROVE met[j] \in Chain
        OBVIOUS
      <3>1. j = MaxNodes \/ j \in 0..(MaxNodes - 1)
        BY <1>2
      <3> QED BY <3>1, <1>2, <1>4
    <2>2. ASSUME NEW i \in 0..MaxNodes, NEW j \in 0..MaxNodes, i < j PROVE met[i] # met[j]
      <3>1. i \in 0..(j - 1)
        BY <2>2
      <3>2. rank[met[j]] < rank[met[i]]
        BY <3>1, <2>1, <1>4
      <3>3. rank[met[i]] \in Nat
        BY <2>1, <1>3
      <3> QED BY <3>2, <3>3
    <2>3. met \in [0..MaxNodes -> Nodes]
      BY <1>1, <1>3, <2>1 DEF Steps
    <2>4. \A i, j \in 0..MaxNodes : met[i] = met[j] => i = j
      <3> SUFFICES ASSUME NEW i \in 0..MaxNodes, NEW j \in 0..MaxNodes, i # j PROVE met[i] # met[j]
        OBVIOUS
      <3>1. i < j \/ j < i
        OBVIOUS
      <3> QED BY <3>1, <2>2
    <2>5. met \in Injection(0..MaxNodes, Nodes)
      BY <2>3, <2>4 DEF Injection, IsInjective
    <2>6. Cardinality(0..MaxNodes) <= Cardinality(Nodes)
      BY <2>5, NodesCounted, FS_Injection
    <2>7. Cardinality(0..MaxNodes) = MaxNodes + 1
      BY <1>2, FS_Interval
    <2> QED BY <2>6, <2>7, <1>2, NodesCounted
  <1>6. ASSUME NEW m \in Chain PROVE \E i \in 0..MaxNodes : met[i] = m
    BY <1>2, <1>3, <1>4, <1>5
  <1>7. \A i \in 0..MaxNodes : met[i] \in Nodes => met[i] \in Chain
    BY <1>3, <1>4
  <1> HIDE DEF Down
  <1>8. {met[i] : i \in DOMAIN met} \cap Nodes = Chain
    BY <1>1, <1>3, <1>6, <1>7
  <1> QED BY <1>5, <1>8, NodesCounted

-----------------------------------------------------------------------------
(* The invariant holds of every behaviour: whatever the commands do to the    *)
(* bucket, its pointers go in the order in which its nodes were linked.       *)
THEOREM HWInvariance == HWSpec => []HWInv
  <1>1. HWInit => HWInv
    BY WalkInit
  <1>2. HWInv /\ [HWNext]_HWvars => HWInv'
    BY WalkNext
  <1> QED BY <1>1, <1>2, PTL DEF HWSpec

(* When no command holds susfs_spin_lock, the pointers of the bucket lead      *)
(* through all of its nodes and no other, and come to an end.                 *)
THEOREM BucketSoundCorrect == HWSpec => []BucketSound
  <1>1. HWInv => BucketSound
    <2> SUFFICES ASSUME HWInv, lock = NoTask
                 PROVE  /\ {met[i] : i \in DOMAIN met} \cap Nodes = Linked
                        /\ met[Cardinality(Nodes)] = NULL
      BY DEF BucketSound, BucketWhole, HWInv
    <2>1. HWTypeOK
      BY DEF HWInv
    <2>2. Chain = Linked
      BY <2>1, Nobody DEF Chain
    <2>3. PICK rank \in [Nodes -> Nat] : Ordered(rank)
      BY DEF HWInv
    <2> QED BY <2>1, <2>2, <2>3, MetIsChain
  <1> QED BY <1>1, HWInvariance, PTL

(* A walk that has read no foreign memory takes an entry for its inode only if *)
(* the entry was in the bucket at some moment of the walk.                    *)
THEOREM FoundWasThereCorrect == HWSpec => []FoundWasThere
  <1>1. HWInv => FoundWasThere
    <2> SUFFICES ASSUME HWInv, NEW r \in Readers, rpc[r] = "use", Sound(r) PROVE at[r] \in had[r]
      BY DEF FoundWasThere
    <2>1. r \in Sane
      BY DEF Sane, Walking, Sound
    <2> QED BY <2>1 DEF HWInv, ReadersInv, Placed
  <1> QED BY <1>1, HWInvariance, PTL

(* A walk that has read no foreign memory misses an entry that stayed in the   *)
(* bucket all the while only if it left a node that was being removed.        *)
THEOREM NeverMissedCorrect == HWSpec => []NeverMissed
  <1>1. HWInv => NeverMissed
    BY DEF HWInv, MissedInv, Missed, NeverMissed
  <1> QED BY <1>1, HWInvariance, PTL
=============================================================================
