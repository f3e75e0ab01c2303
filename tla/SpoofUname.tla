------------------------------ MODULE SpoofUname ------------------------------
(***************************************************************************)
(* The spoofed release and version of uname(2).  susfs_set_uname writes     *)
(* them to my_uname under susfs_uname_spin_lock; newuname reads them        *)
(* without the lock, and only tests first whether release is set and        *)
(* whether somebody holds the lock.                                         *)
(*                                                                         *)
(* strncpy is not atomic: a string is copied in two pieces, the first of    *)
(* which holds release[0].  spin_is_locked of arm64 begins with a barrier,  *)
(* so the two tests take place in the order of the program.                 *)
(***************************************************************************)
EXTENDS Integers

CONSTANTS
  Writers,  \* tasks that issue CMD_SUSFS_SET_UNAME
  Readers,  \* tasks that call newuname
  Strings,  \* what the tool passes other than "default" and ""
  Default,  \* the string "default"
  Empty,    \* the string ""
  Real,     \* what utsname() has
  Unset,    \* what the zeroed my_uname has
  NoTask

ASSUME StringsAssumption ==
  /\ Default \notin Strings /\ Empty \notin Strings /\ Unset \notin Strings
  /\ Unset # Real /\ Unset # Empty /\ Empty # Real
  /\ NoTask \notin Writers

VARIABLES
  my_uname,              \* the pieces: release 1 and 2, version 3 and 4
  susfs_uname_spin_lock, \* the writer that holds it
  wpc, info,             \* of a writer: where it is, and its command
  written,               \* how many pieces the holder of the lock has written
  rpc, tmp,              \* of a reader: where it is, and its new_utsname
  copied,                \* of a reader: how many pieces it has copied
  last,                  \* history: what my_uname had when it was last unlocked
  quiet                  \* history: no command has held the lock since the
                         \* reader began

writer == <<my_uname, susfs_uname_spin_lock, wpc, info, written, last>>
reader == <<rpc, tmp, copied>>
vars   == <<writer, reader, quiet>>

Pieces == 1..4
Texts  == Strings \cup {Real, Empty, Unset}
Fields == [release : Strings \cup {Default, Empty}, version : Strings \cup {Default, Empty}]

\* The string that piece k of my_uname comes from.
Source(fields, k) == IF k <= 2 THEN fields.release ELSE fields.version

\* A string whose first character is '\0'.
IsBlank(s) == s \in {Unset, Empty}

Init ==
  /\ my_uname = [k \in Pieces |-> Unset]
  /\ susfs_uname_spin_lock = NoTask
  /\ wpc = [w \in Writers |-> "idle"]
  /\ info = [w \in Writers |-> [release |-> Default, version |-> Default]]
  /\ written = 0
  /\ rpc = [r \in Readers |-> "idle"]
  /\ tmp = [r \in Readers |-> [k \in Pieces |-> Real]]
  /\ copied = [r \in Readers |-> 0]
  /\ last = my_uname
  /\ quiet = [r \in Readers |-> TRUE]

-----------------------------------------------------------------------------
(* susfs_set_uname.                                                         *)
copy_from_user(w) ==
  /\ wpc[w] = "idle"
  /\ \E fields \in Fields : info' = [info EXCEPT ![w] = fields]
  /\ wpc' = [wpc EXCEPT ![w] = "lock"]
  /\ UNCHANGED <<my_uname, susfs_uname_spin_lock, written, last, reader, quiet>>

spin_lock(w) ==
  /\ wpc[w] = "lock" /\ susfs_uname_spin_lock = NoTask
  /\ susfs_uname_spin_lock' = w
  /\ wpc' = [wpc EXCEPT ![w] = "write"]
  /\ written' = 0
  /\ quiet' = [r \in Readers |-> FALSE]
  /\ UNCHANGED <<my_uname, info, last, reader>>

\* Mutant: "default" leaves the field as it is.
Chosen_kept(s, k) == IF s = Default THEN my_uname[k] ELSE s

\* "default" stands for what utsname() has.
Chosen(s, k) == IF s = Default THEN Real ELSE s

strncpy(w) ==
  /\ wpc[w] = "write" /\ written < 4
  /\ written' = written + 1
  /\ my_uname' = [my_uname EXCEPT ![written + 1] =
                    Chosen(Source(info[w], written + 1), written + 1)]
  /\ UNCHANGED <<susfs_uname_spin_lock, wpc, info, last, reader, quiet>>

spin_unlock(w) ==
  /\ wpc[w] = "write" /\ written = 4
  /\ susfs_uname_spin_lock' = NoTask
  /\ wpc' = [wpc EXCEPT ![w] = "idle"]
  /\ last' = my_uname
  /\ UNCHANGED <<my_uname, info, written, reader, quiet>>

susfs_set_uname(w) == copy_from_user(w) \/ spin_lock(w) \/ strncpy(w) \/ spin_unlock(w)

-----------------------------------------------------------------------------
(* newuname fills tmp from utsname() and calls susfs_spoof_uname.           *)
newuname(r) ==
  /\ rpc[r] = "idle"
  /\ rpc' = [rpc EXCEPT ![r] = "release"]
  /\ tmp' = [tmp EXCEPT ![r] = [k \in Pieces |-> Real]]
  /\ quiet' = [quiet EXCEPT ![r] = susfs_uname_spin_lock = NoTask]
  /\ UNCHANGED <<copied, writer>>

\* The two tests, in their order.
test_release(r) ==
  /\ rpc[r] = "release"
  /\ rpc' = [rpc EXCEPT ![r] = IF IsBlank(my_uname[1]) THEN "idle" ELSE "locked"]
  /\ UNCHANGED <<tmp, copied, quiet, writer>>

\* Mutant: the lock is not looked at.
spin_is_locked_unasked(r) ==
  /\ rpc[r] = "locked"
  /\ rpc' = [rpc EXCEPT ![r] = "copy"]
  /\ copied' = [copied EXCEPT ![r] = 0]
  /\ UNCHANGED <<tmp, quiet, writer>>

spin_is_locked(r) ==
  /\ rpc[r] = "locked"
  /\ rpc' = [rpc EXCEPT ![r] = IF susfs_uname_spin_lock = NoTask THEN "copy" ELSE "idle"]
  /\ copied' = [copied EXCEPT ![r] = 0]
  /\ UNCHANGED <<tmp, quiet, writer>>

\* Mutant: the version is copied from the release.
copy_release_only(r) ==
  /\ rpc[r] = "copy" /\ copied[r] < 4
  /\ copied' = [copied EXCEPT ![r] = @ + 1]
  /\ tmp' = [tmp EXCEPT ![r][copied[r] + 1] = my_uname[(copied[r] % 2) + 1]]
  /\ rpc' = [rpc EXCEPT ![r] = IF copied[r] = 3 THEN "idle" ELSE "copy"]
  /\ UNCHANGED <<quiet, writer>>

copy(r) ==
  /\ rpc[r] = "copy" /\ copied[r] < 4
  /\ copied' = [copied EXCEPT ![r] = @ + 1]
  /\ tmp' = [tmp EXCEPT ![r][copied[r] + 1] = my_uname[copied[r] + 1]]
  /\ rpc' = [rpc EXCEPT ![r] = IF copied[r] = 3 THEN "idle" ELSE "copy"]
  /\ UNCHANGED <<quiet, writer>>

susfs_spoof_uname(r) == test_release(r) \/ spin_is_locked(r) \/ copy(r)

Next ==
  \/ \E w \in Writers : susfs_set_uname(w)
  \/ \E r \in Readers : newuname(r) \/ susfs_spoof_uname(r)

Spec == Init /\ [][Next]_vars

-----------------------------------------------------------------------------
\* The type of the state; who is between lock and unlock holds the lock, and a
\* reader that is still testing has the real names.
TypeOK ==
  /\ my_uname \in [Pieces -> Texts] /\ last \in [Pieces -> Texts]
  /\ susfs_uname_spin_lock \in Writers \cup {NoTask}
  /\ wpc \in [Writers -> {"idle", "lock", "write"}]
  /\ info \in [Writers -> Fields]
  /\ written \in 0..4
  /\ rpc \in [Readers -> {"idle", "release", "locked", "copy"}]
  /\ tmp \in [Readers -> [Pieces -> Texts]]
  /\ copied \in [Readers -> 0..4]
  /\ quiet \in [Readers -> BOOLEAN]
  /\ \A w \in Writers : wpc[w] = "write" <=> susfs_uname_spin_lock = w
  /\ \A r \in Readers : rpc[r] \in {"release", "locked"} => tmp[r] = [k \in Pieces |-> Real]

\* newuname never returns a piece that no command has written: the first
\* command writes release[0] first, and a reader that has seen it set looks at
\* the lock afterwards.
NeverUnset == \A r \in Readers : \A k \in Pieces : tmp[r][k] # Unset

\* A newuname during which no command held the lock returns exactly what the
\* last command has left, or the real names when its release is blank.
QuietReadExact ==
  \A r \in Readers :
    (rpc[r] = "idle" /\ quiet[r]) =>
      tmp[r] = IF IsBlank(last[1]) THEN [k \in Pieces |-> Real] ELSE last

\* The spoofed uname as a register: its value, who is writing, where the readers
\* are, and what their last reads have returned.
Shown   == IF IsBlank(my_uname[1]) THEN [k \in Pieces |-> Real] ELSE my_uname
Holders == {w \in Writers : susfs_uname_spin_lock = w}
Reads   == [r \in Readers |-> IF rpc[r] = "idle" THEN "idle"
                             ELSE IF quiet[r] THEN "clean" ELSE "overlapped"]
Results == [r \in Readers |-> IF rpc[r] = "idle" THEN tmp[r] ELSE NoTask]

Register == INSTANCE SafeRegister WITH
  Values <- [Pieces -> Texts], Initial <- [k \in Pieces |-> Real], Reading <- NoTask,
  value <- Shown, writing <- Holders, reading <- Reads, got <- Results

\* Every step of the writers and readers is one of the register's: no piece
\* changes outside the lock, and a newuname that no command overlaps returns the
\* names in force.
ImplementsRegister == Register!Spec
=============================================================================
