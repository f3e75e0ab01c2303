--------------------------- MODULE SpoofUnameProofs ---------------------------
(***************************************************************************)
(* Theorems about SpoofUname.  NeverUnset rests on one fact about what a    *)
(* reader knows: between its two tests release[0] has been written, so that *)
(* the first command is either over or still holds the lock, and once it is *)
(* over every piece has been written and stays written.                     *)
(***************************************************************************)
EXTENDS SpoofUname, TLAPS

AllSet == \A k \in Pieces : my_uname[k] # Unset

\* The first command is over, or has not begun, or holds the lock.
SetOrHeld == (my_uname[1] # Unset /\ susfs_uname_spin_lock = NoTask) => AllSet

\* The holder of the lock has written a prefix of the pieces.
PrefixSet == \A w \in Writers : wpc[w] = "write" => \A k \in 1..written : my_uname[k] # Unset

\* What a reader has learnt from its tests.
ReaderKnows ==
  \A r \in Readers :
    /\ rpc[r] = "locked" => my_uname[1] # Unset
    /\ rpc[r] = "copy" => AllSet

Inv == TypeOK /\ SetOrHeld /\ PrefixSet /\ ReaderKnows /\ NeverUnset

\* What a command writes is never the text of the zeroed my_uname.
LEMMA ChosenIsSet ==
  ASSUME NEW fields \in Fields, NEW k \in Pieces
  PROVE  Chosen(Source(fields, k), k) \in Texts \ {Unset}
  BY StringsAssumption DEF Fields, Source, Chosen, Texts

LEMMA InitInv == Init => Inv
  <1> SUFFICES ASSUME Init PROVE Inv
    OBVIOUS
  <1>1. TypeOK
    BY StringsAssumption DEF Init, TypeOK, Texts, Fields, Pieces
  <1>2. SetOrHeld
    BY DEF Init, SetOrHeld, AllSet, Pieces
  <1>3. PrefixSet /\ ReaderKnows
    BY DEF Init, PrefixSet, ReaderKnows
  <1>4. NeverUnset
    BY StringsAssumption DEF Init, NeverUnset
  <1> QED BY <1>1, <1>2, <1>3, <1>4 DEF Inv

LEMMA NextType == TypeOK /\ [Next]_vars => TypeOK'
  <1> SUFFICES ASSUME TypeOK, [Next]_vars PROVE TypeOK'
    OBVIOUS
  <1> USE DEF TypeOK
  <1>1. ASSUME NEW w \in Writers, copy_from_user(w) PROVE TypeOK'
    BY <1>1, StringsAssumption DEF copy_from_user, reader
  <1>2. ASSUME NEW w \in Writers, spin_lock(w) PROVE TypeOK'
    BY <1>2, StringsAssumption DEF spin_lock, reader
  <1>3. ASSUME NEW w \in Writers, strncpy(w) PROVE TypeOK'
    <2>1. written + 1 \in Pieces /\ written + 1 \in 0..4
      BY <1>3 DEF strncpy, Pieces
    <2>2. Chosen(Source(info[w], written + 1), written + 1) \in Texts
      BY <2>1, ChosenIsSet
    <2>3. my_uname' \in [Pieces -> Texts]
      BY <1>3, <2>1, <2>2 DEF strncpy
    <2> QED BY <1>3, <2>1, <2>3 DEF strncpy, reader
  <1>4. ASSUME NEW w \in Writers, spin_unlock(w) PROVE TypeOK'
    BY <1>4, StringsAssumption DEF spin_unlock, reader
  <1>5. ASSUME NEW r \in Readers, newuname(r) PROVE TypeOK'
    BY <1>5 DEF newuname, writer, Texts
  <1>6. ASSUME NEW r \in Readers, test_release(r) PROVE TypeOK'
    BY <1>6 DEF test_release, writer
  <1>7. ASSUME NEW r \in Readers, spin_is_locked(r) PROVE TypeOK'
    BY <1>7 DEF spin_is_locked, writer
  <1>8. ASSUME NEW r \in Readers, copy(r) PROVE TypeOK'
    <2>1. copied[r] + 1 \in Pieces /\ copied[r] + 1 \in 0..4
      BY <1>8 DEF copy, Pieces
    <2>2. tmp' \in [Readers -> [Pieces -> Texts]]
      BY <1>8, <2>1 DEF copy, writer
    <2>3. copied' \in [Readers -> 0..4] /\ rpc' \in [Readers -> {"idle", "release", "locked", "copy"}]
      BY <1>8, <2>1 DEF copy
    <2>4. \A q \in Readers : rpc'[q] \in {"release", "locked"} => tmp'[q] = [k \in Pieces |-> Real]
      BY <1>8 DEF copy
    <2> QED BY <1>8, <2>2, <2>3, <2>4 DEF copy, writer
  <1>9. CASE UNCHANGED vars
    BY <1>9 DEF vars, writer, reader
  <1> QED BY <1>1, <1>2, <1>3, <1>4, <1>5, <1>6, <1>7, <1>8, <1>9
          DEF Next, susfs_set_uname, susfs_spoof_uname

LEMMA NextInv == Inv /\ [Next]_vars => Inv'
  <1> SUFFICES ASSUME Inv, [Next]_vars PROVE Inv'
    OBVIOUS
  <1>t. TypeOK /\ TypeOK'
    BY NextType DEF Inv
  <1> DEFINE Rest == SetOrHeld /\ PrefixSet /\ ReaderKnows /\ NeverUnset
  <1> SUFFICES Rest'
    BY <1>t DEF Inv
  <1>1. ASSUME NEW w \in Writers, copy_from_user(w) PROVE Rest'
    BY <1>1, <1>t DEF Inv, copy_from_user, reader, TypeOK, SetOrHeld, PrefixSet, ReaderKnows, NeverUnset, AllSet
  <1>2. ASSUME NEW w \in Writers, spin_lock(w) PROVE Rest'
    <2>1. susfs_uname_spin_lock' # NoTask
      BY <1>2, StringsAssumption DEF spin_lock
    <2>2. SetOrHeld'
      BY <2>1 DEF SetOrHeld
    <2>3. PrefixSet'
      BY <1>2 DEF spin_lock, PrefixSet
    <2>4. (ReaderKnows /\ NeverUnset)'
      BY <1>2 DEF Inv, spin_lock, reader, ReaderKnows, NeverUnset, AllSet
    <2> QED BY <2>2, <2>3, <2>4
  <1>3. ASSUME NEW w \in Writers, strncpy(w) PROVE Rest'
    <2> DEFINE new == Chosen(Source(info[w], written + 1), written + 1)
    <2>1. written + 1 \in Pieces
      BY <1>3, <1>t DEF strncpy, Pieces, TypeOK
    <2>2. new # Unset
      BY <2>1, <1>t, ChosenIsSet DEF TypeOK
    <2>3. \A k \in Pieces : my_uname'[k] = IF k = written + 1 THEN new ELSE my_uname[k]
      BY <1>3, <1>t DEF strncpy, TypeOK
    <2> HIDE DEF new
    <2>4. \A k \in Pieces : my_uname[k] # Unset => my_uname'[k] # Unset
      BY <2>2, <2>3
    <2>5. susfs_uname_spin_lock' = w /\ w # NoTask
      BY <1>3, <1>t, StringsAssumption DEF strncpy, TypeOK
    <2>6. SetOrHeld'
      BY <2>5 DEF SetOrHeld
    <2>7. PrefixSet'
      <3>1. wpc[w] = "write" /\ wpc' = wpc /\ written' = written + 1
        BY <1>3 DEF strncpy
      <3>2. \A k \in 1..written : my_uname[k] # Unset
        BY <3>1 DEF Inv, PrefixSet
      <3>3. \A k \in 1..(written + 1) : k \in Pieces /\ (k = written + 1 \/ k \in 1..written)
        BY <2>1, <1>t DEF TypeOK, Pieces
      <3>4. \A k \in 1..(written + 1) : my_uname'[k] # Unset
        BY <3>2, <3>3, <2>2, <2>3
      <3> QED BY <3>1, <3>4 DEF PrefixSet
    <2>8. ReaderKnows'
      <3>1. rpc' = rpc /\ 1 \in Pieces
        BY <1>3 DEF strncpy, reader, Pieces
      <3> QED BY <3>1, <2>4 DEF Inv, ReaderKnows, AllSet
    <2>9. NeverUnset'
      BY <1>3 DEF Inv, strncpy, reader, NeverUnset
    <2> QED BY <2>6, <2>7, <2>8, <2>9
  <1>4. ASSUME NEW w \in Writers, spin_unlock(w) PROVE Rest'
    <2>1. AllSet /\ my_uname' = my_uname
      BY <1>4 DEF Inv, spin_unlock, PrefixSet, AllSet, Pieces
    <2>2. SetOrHeld'
      BY <2>1 DEF SetOrHeld, AllSet
    <2>3. PrefixSet'
      BY <2>1, <1>4, <1>t DEF Inv, spin_unlock, PrefixSet, TypeOK
    <2>4. (ReaderKnows /\ NeverUnset)'
      BY <2>1, <1>4 DEF Inv, spin_unlock, reader, ReaderKnows, NeverUnset, AllSet
    <2> QED BY <2>2, <2>3, <2>4
  <1>5. ASSUME NEW r \in Readers, newuname(r) PROVE Rest'
    <2>1. writer' = writer /\ my_uname' = my_uname
      BY <1>5 DEF newuname, writer
    <2>2. (SetOrHeld /\ PrefixSet)'
      BY <1>5 DEF Inv, newuname, writer, SetOrHeld, PrefixSet, AllSet
    <2>3. ReaderKnows'
      BY <2>1, <1>5, <1>t DEF Inv, newuname, ReaderKnows, AllSet, TypeOK
    <2>4. NeverUnset'
      BY <1>5, <1>t, StringsAssumption DEF Inv, newuname, NeverUnset, TypeOK
    <2> QED BY <2>2, <2>3, <2>4
  <1>6. ASSUME NEW r \in Readers, test_release(r) PROVE Rest'
    <2>1. (SetOrHeld /\ PrefixSet /\ NeverUnset)'
      BY <1>6 DEF Inv, test_release, writer, SetOrHeld, PrefixSet, AllSet, NeverUnset
    <2>2. ReaderKnows'
      BY <1>6, <1>t DEF Inv, test_release, writer, ReaderKnows, AllSet, TypeOK, IsBlank
    <2> QED BY <2>1, <2>2
  <1>7. ASSUME NEW r \in Readers, spin_is_locked(r) PROVE Rest'
    <2>1. (SetOrHeld /\ PrefixSet /\ NeverUnset)'
      BY <1>7 DEF Inv, spin_is_locked, writer, SetOrHeld, PrefixSet, AllSet, NeverUnset
    <2>2. susfs_uname_spin_lock = NoTask => AllSet
      BY <1>7 DEF Inv, spin_is_locked, ReaderKnows, SetOrHeld
    <2>3. ReaderKnows'
      BY <2>2, <1>7, <1>t DEF Inv, spin_is_locked, writer, ReaderKnows, AllSet, TypeOK
    <2> QED BY <2>1, <2>3
  <1>8. ASSUME NEW r \in Readers, copy(r) PROVE Rest'
    <2>1. copied[r] + 1 \in Pieces
      BY <1>8, <1>t DEF copy, Pieces, TypeOK
    <2>2. my_uname[copied[r] + 1] # Unset
      BY <2>1, <1>8 DEF Inv, copy, ReaderKnows, AllSet
    <2>3. NeverUnset'
      BY <2>1, <2>2, <1>8, <1>t DEF Inv, copy, NeverUnset, TypeOK
    <2>4. (SetOrHeld /\ PrefixSet)'
      BY <1>8 DEF Inv, copy, writer, SetOrHeld, PrefixSet, AllSet
    <2>5. ReaderKnows'
      BY <1>8, <1>t DEF Inv, copy, writer, ReaderKnows, AllSet, TypeOK
    <2> QED BY <2>3, <2>4, <2>5
  <1>9. CASE UNCHANGED vars
    BY <1>9 DEF Inv, vars, writer, reader, SetOrHeld, PrefixSet, ReaderKnows, NeverUnset, AllSet
  <1> QED BY <1>1, <1>2, <1>3, <1>4, <1>5, <1>6, <1>7, <1>8, <1>9
          DEF Next, susfs_set_uname, susfs_spoof_uname

\* newuname never returns a piece of my_uname that no command has written.
THEOREM NeverUnsetCorrect == Spec => []NeverUnset
  <1>1. Inv => NeverUnset
    BY DEF Inv
  <1> QED BY InitInv, NextInv, <1>1, PTL DEF Spec

\* The state stays well typed, and only the holder of the lock writes.
THEOREM TypeCorrect == Spec => []TypeOK
  <1>1. Inv => TypeOK
    BY DEF Inv
  <1> QED BY InitInv, NextInv, <1>1, PTL DEF Spec

-----------------------------------------------------------------------------
\* While no command has held the lock since a reader began, my_uname is what the
\* last command left, and the reader's copy agrees with it as far as it goes.
Exact(r) ==
  quiet[r] =>
    /\ susfs_uname_spin_lock = NoTask /\ last = my_uname
    /\ rpc[r] \in {"locked", "copy"} => ~IsBlank(my_uname[1])
    /\ rpc[r] = "copy" => copied[r] < 4 /\ \A k \in 1..copied[r] : tmp[r][k] = my_uname[k]
    /\ rpc[r] = "idle" => tmp[r] = IF IsBlank(last[1]) THEN [k \in Pieces |-> Real] ELSE last

ExactInv ==
  /\ TypeOK
  /\ susfs_uname_spin_lock = NoTask => last = my_uname
  /\ \A r \in Readers : Exact(r)

LEMMA NextExact == ExactInv /\ [Next]_vars => ExactInv'
  <1> SUFFICES ASSUME ExactInv, [Next]_vars PROVE ExactInv'
    OBVIOUS
  <1>t. TypeOK /\ TypeOK'
    BY NextType DEF ExactInv
  <1> DEFINE Rest == /\ susfs_uname_spin_lock = NoTask => last = my_uname
                     /\ \A r \in Readers : Exact(r)
  <1> SUFFICES Rest'
    BY <1>t DEF ExactInv
  <1>1. ASSUME NEW w \in Writers, copy_from_user(w) PROVE Rest'
    BY <1>1 DEF ExactInv, Exact, copy_from_user, reader
  <1>2. ASSUME NEW w \in Writers, spin_lock(w) PROVE Rest'
    BY <1>2, StringsAssumption DEF ExactInv, Exact, spin_lock, reader
  <1>3. ASSUME NEW w \in Writers, strncpy(w) PROVE Rest'
    <2>1. susfs_uname_spin_lock # NoTask /\ susfs_uname_spin_lock' # NoTask
      BY <1>3, <1>t, StringsAssumption DEF strncpy, TypeOK
    <2>2. \A r \in Readers : ~quiet[r]
      BY <2>1 DEF ExactInv, Exact
    <2>3. quiet' = quiet
      BY <1>3 DEF strncpy
    <2> QED BY <2>1, <2>2, <2>3 DEF Exact
  <1>4. ASSUME NEW w \in Writers, spin_unlock(w) PROVE Rest'
    <2>1. susfs_uname_spin_lock # NoTask
      BY <1>4, <1>t, StringsAssumption DEF spin_unlock, TypeOK
    <2>2. \A r \in Readers : ~quiet[r]
      BY <2>1 DEF ExactInv, Exact
    <2>3. quiet' = quiet /\ last' = my_uname'
      BY <1>4 DEF spin_unlock
    <2> QED BY <2>2, <2>3 DEF Exact
  <1>5. ASSUME NEW r \in Readers, newuname(r) PROVE Rest'
    <2>1. UNCHANGED <<susfs_uname_spin_lock, last, my_uname, copied>>
      BY <1>5 DEF newuname, writer
    <2>2. ASSUME NEW q \in Readers, q # r PROVE Exact(q)'
      <3>1. rpc'[q] = rpc[q] /\ tmp'[q] = tmp[q] /\ quiet'[q] = quiet[q]
        BY <1>5, <1>t, <2>2 DEF newuname, TypeOK
      <3> QED BY <3>1, <2>1 DEF ExactInv, Exact
    <2>3. Exact(r)'
      <3>1. rpc'[r] = "release" /\ quiet'[r] = (susfs_uname_spin_lock = NoTask)
        BY <1>5, <1>t DEF newuname, TypeOK
      <3> QED BY <3>1, <2>1 DEF ExactInv, Exact
    <2> QED BY <2>1, <2>2, <2>3 DEF ExactInv
  <1>6. ASSUME NEW r \in Readers, test_release(r) PROVE Rest'
    <2>1. UNCHANGED <<susfs_uname_spin_lock, last, my_uname, copied, tmp, quiet>>
      BY <1>6 DEF test_release, writer
    <2>2. ASSUME NEW q \in Readers, q # r PROVE Exact(q)'
      <3>1. rpc'[q] = rpc[q]
        BY <1>6, <1>t, <2>2 DEF test_release, TypeOK
      <3> QED BY <3>1, <2>1 DEF ExactInv, Exact
    <2>3. Exact(r)'
      <3>1. rpc'[r] = IF IsBlank(my_uname[1]) THEN "idle" ELSE "locked"
        BY <1>6, <1>t DEF test_release, TypeOK
      <3>2. tmp[r] = [k \in Pieces |-> Real]
        BY <1>6, <1>t DEF test_release, TypeOK
      <3> QED BY <3>1, <3>2, <2>1 DEF ExactInv, Exact, IsBlank
    <2> QED BY <2>1, <2>2, <2>3 DEF ExactInv
  <1>7. ASSUME NEW r \in Readers, spin_is_locked(r) PROVE Rest'
    <2>1. UNCHANGED <<susfs_uname_spin_lock, last, my_uname, tmp, quiet>>
      BY <1>7 DEF spin_is_locked, writer
    <2>2. ASSUME NEW q \in Readers, q # r PROVE Exact(q)'
      <3>1. rpc'[q] = rpc[q] /\ copied'[q] = copied[q]
        BY <1>7, <1>t, <2>2 DEF spin_is_locked, TypeOK
      <3> QED BY <3>1, <2>1 DEF ExactInv, Exact
    <2>3. Exact(r)'
      <3>1. copied'[r] = 0 /\ rpc[r] = "locked"
        BY <1>7, <1>t DEF spin_is_locked, TypeOK
      <3>2. rpc'[r] = IF susfs_uname_spin_lock = NoTask THEN "copy" ELSE "idle"
        BY <1>7, <1>t DEF spin_is_locked, TypeOK
      <3> QED BY <3>1, <3>2, <2>1 DEF ExactInv, Exact, IsBlank
    <2> QED BY <2>1, <2>2, <2>3 DEF ExactInv
  <1>8. ASSUME NEW r \in Readers, copy(r) PROVE Rest'
    <2>1. UNCHANGED <<susfs_uname_spin_lock, last, my_uname, quiet>>
      BY <1>8 DEF copy, writer
    <2>2. ASSUME NEW q \in Readers, q # r PROVE Exact(q)'
      <3>1. rpc'[q] = rpc[q] /\ copied'[q] = copied[q] /\ tmp'[q] = tmp[q]
        BY <1>8, <1>t, <2>2 DEF copy, TypeOK
      <3> QED BY <3>1, <2>1 DEF ExactInv, Exact
    <2>3. ASSUME quiet[r] PROVE Exact(r)'
      <3> DEFINE c == copied[r] + 1
      <3>1. c \in Pieces /\ c \in 1..4 /\ copied[r] = c - 1 /\ copied'[r] = c
        BY <1>8, <1>t DEF copy, Pieces, TypeOK
      <3>2. rpc'[r] = IF c = 4 THEN "idle" ELSE "copy"
        BY <1>8, <1>t, <3>1 DEF copy, TypeOK
      <3>3. tmp[r] \in [Pieces -> Texts] /\ tmp'[r] = [tmp[r] EXCEPT ![c] = my_uname[c]]
        BY <1>8, <1>t DEF copy, TypeOK
      <3>4. \A k \in Pieces : tmp'[r][k] = IF k = c THEN my_uname[c] ELSE tmp[r][k]
        BY <3>1, <3>3
      <3>5. \A k \in 1..(c - 1) : tmp[r][k] = my_uname[k]
        BY <1>8, <2>3, <3>1 DEF ExactInv, Exact, copy
      <3> HIDE DEF c
      <3>6. \A k \in 1..c : tmp'[r][k] = my_uname[k]
        <4>1. ASSUME NEW k \in 1..c PROVE k \in Pieces /\ (k = c \/ k \in 1..(c - 1))
          BY <3>1 DEF Pieces
        <4> QED BY <4>1, <3>4, <3>5
      <3>7. ~IsBlank(my_uname[1]) /\ last = my_uname /\ susfs_uname_spin_lock = NoTask
        BY <1>8, <2>3 DEF ExactInv, Exact, copy
      <3>8. CASE c = 4
        <4>1. \A k \in Pieces : tmp'[r][k] = my_uname[k]
          BY <3>6, <3>8 DEF Pieces
        <4>2. tmp'[r] = my_uname
          BY <4>1, <1>t DEF TypeOK
        <4> QED BY <4>2, <3>2, <3>7, <3>8, <2>1 DEF Exact, IsBlank
      <3>9. CASE c # 4
        BY <3>1, <3>2, <3>6, <3>7, <3>9, <2>1 DEF Exact, IsBlank
      <3> QED BY <3>8, <3>9
    <2>4. Exact(r)'
      BY <2>1, <2>3 DEF Exact
    <2> QED BY <2>1, <2>2, <2>4 DEF ExactInv
  <1>9. CASE UNCHANGED vars
    BY <1>9 DEF ExactInv, Exact, vars, writer, reader
  <1> QED BY <1>1, <1>2, <1>3, <1>4, <1>5, <1>6, <1>7, <1>8, <1>9
          DEF Next, susfs_set_uname, susfs_spoof_uname

LEMMA InitExact == Init => ExactInv
  <1> SUFFICES ASSUME Init PROVE ExactInv
    OBVIOUS
  <1>1. TypeOK
    BY InitInv DEF Inv
  <1>2. \A r \in Readers : Exact(r)
    BY DEF Init, Exact, IsBlank, Pieces
  <1> QED BY <1>1, <1>2 DEF Init, ExactInv

\* A newuname that no command overlaps returns what the last command has left.
THEOREM QuietReadExactCorrect == Spec => []QuietReadExact
  <1>1. ExactInv => QuietReadExact
    BY DEF ExactInv, Exact, QuietReadExact
  <1> QED BY <1>1, InitExact, NextExact, PTL DEF Spec

-----------------------------------------------------------------------------
(* SpoofUname implements SafeRegister.                                      *)

LEMMA InitRegister == Init => Register!Init
  <1> SUFFICES ASSUME Init PROVE Register!Init
    OBVIOUS
  <1>1. Shown = [k \in Pieces |-> Real]
    BY DEF Init, Shown, IsBlank, Pieces
  <1>2. Holders = {}
    BY StringsAssumption DEF Init, Holders
  <1>3. Reads = [r \in Readers |-> "idle"] /\ Results = [r \in Readers |-> [k \in Pieces |-> Real]]
    BY DEF Init, Reads, Results
  <1> QED BY <1>1, <1>2, <1>3 DEF Register!Init

LEMMA NextRegister == ExactInv /\ ExactInv' /\ [Next]_vars => [Register!Next]_(Register!vars)
  <1> SUFFICES ASSUME ExactInv, ExactInv', [Next]_vars
               PROVE  Register!Next \/ UNCHANGED <<Shown, Holders, Reads, Results>>
    BY DEF Register!vars
  <1>t. TypeOK /\ TypeOK' /\ Shown' \in [Pieces -> Texts]
    <2>1. TypeOK /\ TypeOK'
      BY DEF ExactInv
    <2> QED BY <2>1 DEF TypeOK, Shown, Texts
  <1>1. ASSUME NEW w \in Writers, copy_from_user(w)
        PROVE  UNCHANGED <<Shown, Holders, Reads, Results>>
    BY <1>1 DEF copy_from_user, reader, Shown, Holders, Reads, Results
  <1>2. ASSUME NEW w \in Writers, spin_lock(w) PROVE Register!BeginWrite(w)
    <2>1. Holders = {} /\ Holders' = {w}
      BY <1>2, StringsAssumption DEF spin_lock, Holders
    <2>2. Reads' = [r \in Readers |-> IF Reads[r] = "clean" THEN "overlapped" ELSE Reads[r]]
      BY <1>2 DEF spin_lock, reader, Reads
    <2>3. UNCHANGED <<Shown, Results>>
      BY <1>2 DEF spin_lock, reader, Shown, Results
    <2> QED BY <2>1, <2>2, <2>3 DEF Register!BeginWrite
  <1>3. ASSUME NEW w \in Writers, strncpy(w) PROVE Register!Write
    <2>1. Holders # {}
      BY <1>3, <1>t DEF strncpy, Holders, TypeOK
    <2>2. UNCHANGED <<Holders, Reads, Results>>
      BY <1>3 DEF strncpy, reader, Holders, Reads, Results
    <2> QED BY <2>1, <2>2, <1>t DEF Register!Write
  <1>4. ASSUME NEW w \in Writers, spin_unlock(w) PROVE Register!EndWrite(w)
    <2>1. Holders = {w} /\ Holders' = {}
      BY <1>4, <1>t, StringsAssumption DEF spin_unlock, Holders, TypeOK
    <2>2. UNCHANGED <<Reads, Results>>
      BY <1>4 DEF spin_unlock, reader, Reads, Results
    <2> QED BY <2>1, <2>2, <1>t DEF Register!EndWrite
  <1>5. ASSUME NEW r \in Readers, newuname(r) PROVE Register!BeginRead(r)
    <2>1. UNCHANGED <<Shown, Holders>>
      BY <1>5 DEF newuname, writer, Shown, Holders
    <2>2. Holders = {} <=> susfs_uname_spin_lock = NoTask
      BY <1>t, StringsAssumption DEF Holders, TypeOK
    <2>3. Reads[r] = "idle"
      BY <1>5 DEF newuname, Reads
    <2>4. Reads' = [Reads EXCEPT ![r] = IF Holders = {} THEN "clean" ELSE "overlapped"]
      BY <1>5, <2>2, <1>t DEF newuname, Reads, TypeOK
    <2>5. Results' = [Results EXCEPT ![r] = NoTask]
      BY <1>5, <1>t DEF newuname, Results, TypeOK
    <2> QED BY <2>1, <2>3, <2>4, <2>5 DEF Register!BeginRead
  \* A step of a reader that is in a read ends it or leaves the register alone.
  <1>6. ASSUME NEW r \in Readers, susfs_spoof_uname(r)
        PROVE  Register!EndRead(r) \/ UNCHANGED <<Shown, Holders, Reads, Results>>
    <2>1. UNCHANGED <<writer, quiet>> /\ UNCHANGED <<Shown, Holders>>
      BY <1>6 DEF susfs_spoof_uname, test_release, spin_is_locked, copy, writer, Shown, Holders
    <2>2. rpc[r] # "idle" /\ rpc' = [rpc EXCEPT ![r] = rpc'[r]]
      BY <1>6, <1>t DEF susfs_spoof_uname, test_release, spin_is_locked, copy, TypeOK
    <2>3. tmp' = [tmp EXCEPT ![r] = tmp'[r]]
      BY <1>6, <1>t DEF susfs_spoof_uname, test_release, spin_is_locked, copy, TypeOK
    <2>4. CASE rpc'[r] # "idle"
      BY <2>1, <2>2, <2>3, <2>4, <1>t DEF Reads, Results, TypeOK
    <2>5. CASE rpc'[r] = "idle"
      <3>1. Reads[r] # "idle" /\ Reads' = [Reads EXCEPT ![r] = "idle"]
        BY <2>1, <2>2, <2>5, <1>t DEF Reads, TypeOK
      <3>2. tmp'[r] \in [Pieces -> Texts] /\ Results' = [Results EXCEPT ![r] = tmp'[r]]
        BY <2>2, <2>3, <2>5, <1>t DEF Results, TypeOK
      <3>3. Reads[r] = "clean" => tmp'[r] = Shown
        <4>1. Reads[r] = "clean" => quiet'[r]
          BY <2>1 DEF Reads
        <4>2. quiet'[r] => tmp'[r] = IF IsBlank(last'[1]) THEN [k \in Pieces |-> Real] ELSE last'
          BY <2>5 DEF ExactInv, Exact
        <4>3. quiet'[r] => last' = my_uname'
          BY DEF ExactInv, Exact
        <4> QED BY <4>1, <4>2, <4>3, <2>1 DEF Shown
      <3> QED BY <3>1, <3>2, <3>3, <2>1 DEF Register!EndRead
    <2> QED BY <2>4, <2>5
  <1>7. CASE UNCHANGED vars
    BY <1>7 DEF vars, writer, reader, Shown, Holders, Reads, Results
  <1> QED BY <1>1, <1>2, <1>3, <1>4, <1>5, <1>6, <1>7
          DEF Next, susfs_set_uname, Register!Next

\* However commands and newuname interleave, what newuname returns is what a
\* register that is safe for its readers may return.
THEOREM RegisterImplemented == Spec => ImplementsRegister
  <1>1. Spec => []ExactInv
    BY InitExact, NextExact, PTL DEF Spec
  <1>2. ExactInv /\ ExactInv' /\ [Next]_vars => [Register!Next]_(Register!vars)
    BY NextRegister
  <1> QED BY <1>1, <1>2, InitRegister, PTL DEF Spec, ImplementsRegister, Register!Spec
=============================================================================
