----------------------------- MODULE SafeRegister -----------------------------
(***************************************************************************)
(* What a setting of susfs that is written under a lock and read without    *)
(* it promises: a read that no write overlaps returns the value.  A read    *)
(* that a write overlaps may return anything, and the value may take any    *)
(* intermediate form while a write is in progress.                          *)
(***************************************************************************)
CONSTANTS
  Writers, Readers,
  Values,   \* what the setting, and a read of it, may be
  Initial,  \* what it is at first
  Reading   \* stands for the result of a read in progress

VARIABLES
  value,    \* what a read by itself would return
  writing,  \* the writers that are writing
  reading,  \* of a reader: "idle", or in a read that is "clean" or "overlapped"
  got       \* of a reader: what its last read returned

vars == <<value, writing, reading, got>>

Init ==
  /\ value = Initial
  /\ writing = {}
  /\ reading = [r \in Readers |-> "idle"]
  /\ got = [r \in Readers |-> Initial]

BeginWrite(w) ==
  /\ w \notin writing
  /\ writing' = writing \cup {w}
  /\ reading' = [r \in Readers |-> IF reading[r] = "clean" THEN "overlapped" ELSE reading[r]]
  /\ UNCHANGED <<value, got>>

Write ==
  /\ writing # {}
  /\ value' \in Values
  /\ UNCHANGED <<writing, reading, got>>

EndWrite(w) ==
  /\ w \in writing
  /\ writing' = writing \ {w}
  /\ value' \in Values
  /\ UNCHANGED <<reading, got>>

BeginRead(r) ==
  /\ reading[r] = "idle"
  /\ reading' = [reading EXCEPT ![r] = IF writing = {} THEN "clean" ELSE "overlapped"]
  /\ got' = [got EXCEPT ![r] = Reading]
  /\ UNCHANGED <<value, writing>>

EndRead(r) ==
  /\ reading[r] # "idle"
  /\ reading' = [reading EXCEPT ![r] = "idle"]
  /\ \E x \in Values :
       /\ reading[r] = "clean" => x = value
       /\ got' = [got EXCEPT ![r] = x]
  /\ UNCHANGED <<value, writing>>

Next ==
  \/ \E w \in Writers : BeginWrite(w) \/ EndWrite(w)
  \/ Write
  \/ \E r \in Readers : BeginRead(r) \/ EndRead(r)

Spec == Init /\ [][Next]_vars
=============================================================================
