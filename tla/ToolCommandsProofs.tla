-------------------------- MODULE ToolCommandsProofs --------------------------
(***************************************************************************)
(* Theorems about ToolCommands.  As long as no failed kmalloc has dropped   *)
(* the buffer, the pointer stays set once a command has seen it set, and a  *)
(* buffer that is replaced while it is filled is followed by a command that *)
(* fills the replacement: this is CmdlineInv, on which the theorems about   *)
(* /proc/cmdline rest.  SusSuInv says what a switch that nothing has        *)
(* overlapped has done at each of its steps, and ReaderInv what a reader    *)
(* that no command has overlapped may rely on.                              *)
(***************************************************************************)
EXTENDS ToolCommands, FiniteSetTheorems, TLAPS

LEMMA InitType == Init => TypeOK
  <1> SUFFICES ASSUME Init PROVE TypeOK
    OBVIOUS
  <1>1. Garbage \in Contents /\ Blank \in Contents /\ NoTask \notin Tasks
    BY CommandsAssumption DEF Contents
  <1>2. "idle" \notin Locked /\ "idle" \notin {"copy", "unlock"}
    BY DEF Locked
  <1>3. /\ command \in [Tasks -> Commands]
        /\ fake_cmdline_or_bootconfig \in allocated \cup {NULL}
        /\ buf \in [Buffers -> Contents] /\ allocated \subseteq Buffers
        /\ susfs_spin_lock \in Tasks \cup {NoTask}
        /\ susfs_is_log_enabled \in BOOLEAN
        /\ susfs_sus_su_working_mode \in {SUS_SU_DISABLED, SUS_SU_WITH_HOOKS}
        /\ susfs_is_sus_su_hooks_enabled \in BOOLEAN /\ kprobes \in BOOLEAN
    BY <1>1 DEF Init
  <1>4. /\ pc \in [Tasks -> Setting \cup Switching \cup {"idle", "dead", "log_store", "sus_su"}]
        /\ dst \in [Tasks -> allocated \cup {NULL}]
        /\ last_working_mode \in [Tasks -> {SUS_SU_DISABLED, SUS_SU_WITH_HOOKS}]
        /\ alone \in [Tasks -> BOOLEAN] /\ settled \in BOOLEAN
    BY DEF Init
  <1>5. /\ rpc \in [Readers -> {"idle", "test", "puts", "rest", "dead"}]
        /\ rdst \in [Readers -> allocated \cup {NULL}]
        /\ first \in [Readers -> Contents]
        /\ got \in [Readers -> Contents \cup {Real, Torn, Reading}]
        /\ quiet \in [Readers -> BOOLEAN]
        /\ committed \in Texts \cup {Real, Blank, Part} /\ lost \in BOOLEAN
    BY <1>1 DEF Init
  <1>6. /\ \A t \in Tasks : pc[t] = "idle" /\ susfs_spin_lock # t
        /\ \A r \in Readers : rpc[r] = "idle"
    BY <1>1 DEF Init
  <1> QED BY <1>2, <1>3, <1>4, <1>5, <1>6 DEF TypeOK

LEMMA SwitchType ==
  ASSUME TypeOK, NEW t \in Tasks, NEW from \in Switching, NEW to \in Switching \cup {"idle"},
         NEW mode \in {SUS_SU_DISABLED, SUS_SU_WITH_HOOKS}, NEW hooks \in BOOLEAN,
         NEW ksu \in BOOLEAN, Switch(t, from, to, mode, hooks, ksu)
  PROVE  TypeOK'
  <1> USE DEF Setting, Switching, Enabling, Disabling, Locked
  <1>1. pc[t] = from /\ pc' = [pc EXCEPT ![t] = to]
    BY DEF Switch, Goto
  <1>2. pc \in [Tasks -> Setting \cup Switching \cup {"idle", "dead", "log_store", "sus_su"}]
    BY DEF TypeOK
  <1>3. pc' \in [Tasks -> Setting \cup Switching \cup {"idle", "dead", "log_store", "sus_su"}]
    BY <1>1, <1>2
  <1>4. /\ \A u \in Tasks : pc'[u] \in Locked \cup {"dead"} <=> pc[u] \in Locked \cup {"dead"}
        /\ \A u \in Tasks : pc'[u] \in Locked <=> pc[u] \in Locked
        /\ \A u \in Tasks : pc'[u] \in {"copy", "unlock"} <=> pc[u] \in {"copy", "unlock"}
    BY <1>1, <1>2
  <1>5. settled' \in BOOLEAN
    BY DEF Switch, TypeOK
  <1> HIDE DEF Setting, Switching, Enabling, Disabling, Locked
  <1> QED BY <1>3, <1>4, <1>5 DEF TypeOK, Switch, cmdline, reader

LEMMA NextType == TypeOK /\ [Next]_vars => TypeOK'
  <1> SUFFICES ASSUME TypeOK, [Next]_vars PROVE TypeOK'
    OBVIOUS
  <1> USE CommandsAssumption
          DEF TypeOK, Goto, Issues, Contents, Setting, Switching, Enabling, Disabling, Locked,
              cmdline, sus_su, reader
  <1>1. ASSUME NEW t \in Tasks, test_buffer(t) PROVE TypeOK'
    BY <1>1 DEF test_buffer
  <1>2. ASSUME NEW t \in Tasks, kmalloc(t) PROVE TypeOK'
    BY <1>2 DEF kmalloc
  <1>3. ASSUME NEW t \in Tasks, kmalloc_fails(t) PROVE TypeOK'
    BY <1>3 DEF kmalloc_fails
  <1>4. ASSUME NEW t \in Tasks, spin_lock(t) PROVE TypeOK'
    BY <1>4 DEF spin_lock
  <1>5. ASSUME NEW t \in Tasks, memset(t) PROVE TypeOK'
    BY <1>5 DEF memset
  <1>6. ASSUME NEW t \in Tasks, strncpy_from_user(t) PROVE TypeOK'
    BY <1>6 DEF strncpy_from_user
  <1>7. ASSUME NEW t \in Tasks, spin_unlock(t) PROVE TypeOK'
    BY <1>7 DEF spin_unlock
  <1>8. ASSUME NEW t \in Tasks, log(t) PROVE TypeOK'
    BY <1>8 DEF log
  <1>9. ASSUME NEW t \in Tasks, susfs_set_log(t) PROVE TypeOK'
    BY <1>9 DEF susfs_set_log, set_log_lock, set_log_store
  <1>10. ASSUME NEW t \in Tasks, read_mode(t) PROVE TypeOK'
    BY <1>10 DEF read_mode
  <1>11. ASSUME NEW t \in Tasks, copy_mode(t) PROVE TypeOK'
    <2>1. PICK next \in {"enable_ksu", "disable_hooks", "idle"} : pc' = [pc EXCEPT ![t] = next]
      BY <1>11 DEF copy_mode
    <2>2. alone' \in [Tasks -> BOOLEAN]
      <3>1. CASE UNCHANGED alone
        BY <3>1
      <3>2. CASE Overlap(t)
        <4> DEFINE others == {u \in Tasks \ {t} : pc[u] \in Switching}
        <4>1. alone' = [u \in Tasks |-> IF u = t THEN others = {} ELSE alone[u] /\ u \notin others]
          BY <3>2 DEF Overlap
        <4>2. alone \in [Tasks -> BOOLEAN]
          OBVIOUS
        <4> HIDE DEF others, TypeOK
        <4>3. \A u \in Tasks :
                (IF u = t THEN others = {} ELSE alone[u] /\ u \notin others) \in BOOLEAN
          BY <4>2, Zenon
        <4> QED BY <4>1, <4>3, Zenon
      <3> QED BY <1>11, <3>1, <3>2 DEF copy_mode
    <2>3. UNCHANGED <<susfs_sus_su_working_mode, susfs_is_sus_su_hooks_enabled, kprobes,
                      last_working_mode, settled, cmdline, reader, quiet, dst, susfs_spin_lock,
                      susfs_is_log_enabled, command>>
      BY <1>11 DEF copy_mode
    <2>4. pc[t] = "sus_su"
      BY <1>11 DEF copy_mode
    <2>5. pc' \in [Tasks -> Setting \cup Switching \cup {"idle", "dead", "log_store", "sus_su"}]
      BY <2>1
    <2>6. \A u \in Tasks : pc'[u] \in Locked \cup {"dead"} <=> pc[u] \in Locked \cup {"dead"}
      BY <2>1, <2>4
    <2>7. \A u \in Tasks : pc'[u] \in Locked <=> pc[u] \in Locked
      BY <2>1, <2>4
    <2>8. \A u \in Tasks : pc'[u] \in {"copy", "unlock"} <=> pc[u] \in {"copy", "unlock"}
      BY <2>1, <2>4
    <2> QED BY <2>2, <2>3, <2>5, <2>6, <2>7, <2>8
  <1>12. ASSUME NEW t \in Tasks, enable(t) PROVE TypeOK'
    <2>1. /\ susfs_sus_su_working_mode \in {SUS_SU_DISABLED, SUS_SU_WITH_HOOKS}
          /\ susfs_is_sus_su_hooks_enabled \in BOOLEAN /\ kprobes \in BOOLEAN
      OBVIOUS
    <2> HIDE DEF TypeOK
    <2> QED BY <1>12, <2>1, SwitchType DEF enable
  <1>13. ASSUME NEW t \in Tasks, disable(t) PROVE TypeOK'
    <2>1. /\ susfs_sus_su_working_mode \in {SUS_SU_DISABLED, SUS_SU_WITH_HOOKS}
          /\ susfs_is_sus_su_hooks_enabled \in BOOLEAN /\ kprobes \in BOOLEAN
      OBVIOUS
    <2> HIDE DEF TypeOK
    <2> QED BY <1>13, <2>1, SwitchType DEF disable
  <1>14. ASSUME NEW r \in Readers, cmdline_proc_show(r) PROVE TypeOK'
    BY <1>14 DEF cmdline_proc_show
  <1>15. ASSUME NEW r \in Readers, test_pointer(r) PROVE TypeOK'
    BY <1>15 DEF test_pointer
  <1>16. ASSUME NEW r \in Readers, seq_puts(r) PROVE TypeOK'
    BY <1>16 DEF seq_puts
  <1>17. ASSUME NEW r \in Readers, seq_puts_rest(r) PROVE TypeOK'
    BY <1>17 DEF seq_puts_rest
  <1>18. CASE UNCHANGED vars
    BY <1>18 DEF vars
  <1> HIDE DEF TypeOK
  <1> QED BY <1>1, <1>2, <1>3, <1>4, <1>5, <1>6, <1>7, <1>8, <1>9, <1>10, <1>11, <1>12, <1>13,
             <1>14, <1>15, <1>16, <1>17, <1>18
          DEF Next, susfs_set_cmdline_or_bootconfig, susfs_sus_su, susfs_spoof_cmdline_or_bootconfig

\* The state of the three commands stays well typed, a task between lock and
\* unlock holds susfs_spin_lock, and only allocated buffers are written or shown.
THEOREM TypeCorrect == Spec => []TypeOK
  BY InitType, NextType, PTL DEF Spec

-----------------------------------------------------------------------------
(* /proc/cmdline: while no failed kmalloc has dropped the buffer.           *)

\* Where a command has seen a buffer, and has yet to use the pointer again.
Committed == {"lock", "memset", "copy", "unlock", "log"}

\* Where a command has yet to write the text.
Unwritten == {"kmalloc", "lock", "memset", "copy"}

PointerKept ==
  /\ \A t \in Tasks : pc[t] \in Committed => fake_cmdline_or_bootconfig # NULL
  /\ \A r \in Readers : rpc[r] \in {"puts", "rest"} => fake_cmdline_or_bootconfig # NULL
  /\ fake_cmdline_or_bootconfig = NULL => committed = Real /\ allocated = {}

NobodyDead ==
  /\ \A t \in Tasks : pc[t] # "dead"
  /\ \A r \in Readers : rpc[r] # "dead"

\* A command that clears or fills a buffer that has been replaced leaves the
\* replacement to the command that allocated it, which waits for the lock.
Replaced ==
  \A t \in Tasks : pc[t] = "copy" /\ dst[t] # fake_cmdline_or_bootconfig
                     => \E u \in Tasks : pc[u] = "lock"

Written ==
  (\A t \in Tasks : pc[t] \notin Unwritten) => Shown = committed

CmdlineInv == TypeOK /\ (lost \/ (PointerKept /\ NobodyDead /\ Replaced /\ Written))

LEMMA LostStays == [Next]_vars => (lost => lost')
  BY DEF Next, vars, cmdline, sus_su, reader, susfs_set_cmdline_or_bootconfig, test_buffer,
         kmalloc, kmalloc_fails, spin_lock, memset, strncpy_from_user, spin_unlock, log,
         susfs_set_log, set_log_lock, set_log_store, susfs_sus_su, read_mode, copy_mode, enable,
         disable, Switch, cmdline_proc_show, susfs_spoof_cmdline_or_bootconfig, test_pointer,
         seq_puts, seq_puts_rest

\* A step that leaves the buffers alone, and takes no task to a place from
\* which it writes one, disturbs nothing.
LEMMA CmdlineFrame ==
  ASSUME CmdlineInv, ~lost, UNCHANGED <<cmdline, dst>>,
         \A t \in Tasks :
           \/ pc'[t] = pc[t]
           \/ /\ pc[t] \notin Unwritten /\ pc'[t] \notin Unwritten \cup {"dead"}
              /\ pc'[t] \in Committed => fake_cmdline_or_bootconfig # NULL,
         \A r \in Readers :
           \/ rpc'[r] \in {rpc[r], "idle", "test"}
           \/ rpc'[r] # "dead" /\ fake_cmdline_or_bootconfig # NULL
  PROVE  PointerKept' /\ NobodyDead' /\ Replaced' /\ Written'
  <1>1. PointerKept /\ NobodyDead /\ Replaced /\ Written
    BY DEF CmdlineInv
  <1>2. PointerKept'
    BY <1>1 DEF PointerKept, Committed, cmdline
  <1>3. NobodyDead'
    BY <1>1 DEF NobodyDead, Unwritten
  <1>4. Replaced'
    BY <1>1 DEF Replaced, Unwritten, cmdline
  <1>5. Written'
    BY <1>1 DEF Written, Shown, cmdline
  <1> QED BY <1>2, <1>3, <1>4, <1>5

LEMMA NextCmdline == CmdlineInv /\ [Next]_vars => CmdlineInv'
  <1> SUFFICES ASSUME CmdlineInv, [Next]_vars, ~lost'
               PROVE  PointerKept' /\ NobodyDead' /\ Replaced' /\ Written'
    BY NextType DEF CmdlineInv
  <1>l. ~lost
    BY LostStays
  <1>i. TypeOK /\ PointerKept /\ NobodyDead /\ Replaced /\ Written
    BY <1>l DEF CmdlineInv
  <1>t. TypeOK'
    BY <1>i, NextType
  <1>p. pc \in [Tasks -> Setting \cup Switching \cup {"idle", "dead", "log_store", "sus_su"}]
        /\ rpc \in [Readers -> {"idle", "test", "puts", "rest", "dead"}]
        /\ dst \in [Tasks -> allocated \cup {NULL}]
    BY <1>i DEF TypeOK
  <1>1. ASSUME NEW t \in Tasks, test_buffer(t)
        PROVE  PointerKept' /\ NobodyDead' /\ Replaced' /\ Written'
    <2>1. UNCHANGED <<cmdline, rpc>> /\ pc[t] = "idle"
      BY <1>1 DEF test_buffer, Issues, reader
    <2>2. pc' = [pc EXCEPT ![t] = IF fake_cmdline_or_bootconfig = NULL THEN "kmalloc" ELSE "lock"]
      BY <1>1 DEF test_buffer, Goto
    <2>3. \A u \in Tasks : dst'[u] = dst[u] \/ u = t
      BY <1>1, <1>p DEF test_buffer
    <2>4. PointerKept'
      BY <1>i, <1>p, <2>1, <2>2 DEF PointerKept, Committed, cmdline
    <2>5. NobodyDead'
      BY <1>i, <1>p, <2>1, <2>2 DEF NobodyDead
    <2>6. Replaced'
      BY <1>i, <1>p, <2>1, <2>2, <2>3 DEF Replaced, cmdline
    <2>7. Written'
      BY <1>i, <1>p, <2>1, <2>2 DEF Written, Unwritten, Shown, cmdline
    <2> QED BY <2>4, <2>5, <2>6, <2>7
  <1>2. ASSUME NEW t \in Tasks, kmalloc(t)
        PROVE  PointerKept' /\ NobodyDead' /\ Replaced' /\ Written'
    <2>1. pc[t] = "kmalloc" /\ pc' = [pc EXCEPT ![t] = "lock"] /\ UNCHANGED rpc
      BY <1>2 DEF kmalloc, Goto, reader
    <2>2. fake_cmdline_or_bootconfig' # NULL
      BY <1>2, CommandsAssumption DEF kmalloc
    <2>3. pc'[t] = "lock"
      BY <2>1, <1>p
    <2>4. PointerKept'
      BY <2>2 DEF PointerKept
    <2>5. NobodyDead'
      BY <1>i, <1>p, <2>1 DEF NobodyDead
    <2>6. Replaced'
      BY <2>3 DEF Replaced
    <2>7. Written'
      BY <2>3 DEF Written, Unwritten
    <2> QED BY <2>4, <2>5, <2>6, <2>7
  <1>3. ASSUME NEW t \in Tasks, kmalloc_fails(t)
        PROVE  PointerKept' /\ NobodyDead' /\ Replaced' /\ Written'
    <2>1. fake_cmdline_or_bootconfig = NULL /\ UNCHANGED <<cmdline, dst, rpc>>
      <3>1. lost' = (lost \/ fake_cmdline_or_bootconfig # NULL)
        BY <1>3 DEF kmalloc_fails
      <3>2. fake_cmdline_or_bootconfig = NULL
        BY <3>1, Zenon
      <3>3. lost \in BOOLEAN /\ lost' \in BOOLEAN
        BY <1>i, <1>t DEF TypeOK
      <3> QED BY <1>3, <3>2, <3>3, <1>l DEF kmalloc_fails, cmdline, reader
    <2>2. pc' = [pc EXCEPT ![t] = "idle"]
      BY <1>3 DEF kmalloc_fails, Goto
    <2>3. \A u \in Tasks : pc'[u] = pc[u] \/ pc'[u] = "idle"
      BY <2>2, <1>p
    <2>4. PointerKept'
      BY <1>i, <2>1, <2>3 DEF PointerKept, Committed, cmdline
    <2>5. NobodyDead'
      BY <1>i, <2>1, <2>3 DEF NobodyDead
    <2>6. \A u \in Tasks : pc[u] # "copy"
      BY <1>i, <2>1 DEF PointerKept, Committed
    <2>7. Replaced'
      BY <2>3, <2>6 DEF Replaced
    <2>8. Written'
      BY <1>i, <2>1 DEF Written, PointerKept, Shown, cmdline
    <2> QED BY <2>4, <2>5, <2>7, <2>8
  <1>4. ASSUME NEW t \in Tasks, spin_lock(t)
        PROVE  PointerKept' /\ NobodyDead' /\ Replaced' /\ Written'
    <2>1. UNCHANGED <<cmdline, dst, rpc>> /\ pc[t] = "lock" /\ pc' = [pc EXCEPT ![t] = "memset"]
      BY <1>4 DEF spin_lock, Goto, reader
    <2>2. PointerKept' /\ NobodyDead'
      BY <1>i, <1>p, <2>1 DEF PointerKept, NobodyDead, Committed, cmdline
    <2>3. \A u \in Tasks : pc[u] # "copy"
      BY <1>4, <1>i, CommandsAssumption DEF spin_lock, TypeOK, Locked
    <2>4. \A u \in Tasks : pc'[u] # "copy"
      BY <2>1, <2>3, <1>p
    <2>5. pc'[t] = "memset"
      BY <2>1, <1>p
    <2>6. Replaced'
      BY <2>4 DEF Replaced
    <2>7. Written'
      BY <2>5 DEF Written, Unwritten
    <2> QED BY <2>2, <2>6, <2>7
  <1>5. ASSUME NEW t \in Tasks, memset(t)
        PROVE  PointerKept' /\ NobodyDead' /\ Replaced' /\ Written'
    <2>1. fake_cmdline_or_bootconfig # NULL
      BY <1>5, <1>i DEF memset, PointerKept, Committed
    <2>2. pc[t] = "memset" /\ pc' = [pc EXCEPT ![t] = "copy"]
          /\ dst' = [dst EXCEPT ![t] = fake_cmdline_or_bootconfig]
          /\ UNCHANGED <<fake_cmdline_or_bootconfig, allocated, rpc, committed>>
      BY <1>5, <2>1 DEF memset, Goto, reader
    <2>3. PointerKept'
      BY <2>1, <2>2 DEF PointerKept
    <2>4. NobodyDead'
      BY <1>i, <1>p, <2>2 DEF NobodyDead
    <2>5. pc'[t] = "copy" /\ dst'[t] = fake_cmdline_or_bootconfig
          /\ \A u \in Tasks \ {t} : pc'[u] = pc[u] /\ dst'[u] = dst[u]
      BY <1>p, <2>2
    <2>6. Replaced'
      BY <1>i, <2>2, <2>5 DEF Replaced
    <2>7. Written'
      BY <2>5 DEF Written, Unwritten
    <2> QED BY <2>3, <2>4, <2>6, <2>7
  <1>6. ASSUME NEW t \in Tasks, strncpy_from_user(t)
        PROVE  PointerKept' /\ NobodyDead' /\ Replaced' /\ Written'
    <2>1. fake_cmdline_or_bootconfig # NULL /\ dst[t] # NULL /\ pc[t] = "copy"
      BY <1>6, <1>i DEF strncpy_from_user, PointerKept, Committed, TypeOK
    <2>2. PICK to \in {dst[t], fake_cmdline_or_bootconfig}, res \in Texts \cup {Blank, Part} :
            /\ buf' = [buf EXCEPT ![to] = res]
            /\ dst' = [dst EXCEPT ![t] = to]
            /\ committed' = res
            /\ pc' = [pc EXCEPT ![t] = "unlock"]
      BY <1>6, <2>1 DEF strncpy_from_user, Goto
    <2>3. UNCHANGED <<fake_cmdline_or_bootconfig, allocated, rpc>>
      BY <1>6 DEF strncpy_from_user, reader
    <2>4. pc'[t] = "unlock" /\ \A u \in Tasks \ {t} : pc'[u] = pc[u] /\ dst'[u] = dst[u]
      BY <1>p, <2>2
    <2>5. PointerKept'
      BY <2>1, <2>3 DEF PointerKept
    <2>6. NobodyDead'
      BY <1>i, <2>3, <2>4 DEF NobodyDead
    <2>7. Replaced'
      <3> SUFFICES ASSUME NEW u \in Tasks, pc'[u] = "copy", dst'[u] # fake_cmdline_or_bootconfig'
                   PROVE  \E w \in Tasks : pc'[w] = "lock"
        BY DEF Replaced
      <3>1. PICK w \in Tasks : pc[w] = "lock"
        BY <1>i, <2>3, <2>4 DEF Replaced
      <3> QED BY <3>1, <2>1, <2>4
    <2>8. Written'
      <3>1. CASE dst[t] # fake_cmdline_or_bootconfig
        <4>1. PICK w \in Tasks : pc[w] = "lock"
          BY <3>1, <1>i, <2>1 DEF Replaced
        <4>2. pc'[w] = "lock"
          BY <4>1, <2>1, <2>4
        <4> QED BY <4>2 DEF Written, Unwritten
      <3>2. CASE dst[t] = fake_cmdline_or_bootconfig
        <4>1. fake_cmdline_or_bootconfig \in Buffers /\ buf \in [Buffers -> Contents]
          BY <1>i, <2>1 DEF TypeOK
        <4>2. buf'[fake_cmdline_or_bootconfig] = committed'
          BY <4>1, <2>2, <3>2
        <4> QED BY <4>2, <2>1, <2>3 DEF Written, Shown
      <3> QED BY <3>1, <3>2
    <2> QED BY <2>5, <2>6, <2>7, <2>8
  <1>7. ASSUME NEW t \in Tasks, spin_unlock(t)
        PROVE  PointerKept' /\ NobodyDead' /\ Replaced' /\ Written'
    <2>1. fake_cmdline_or_bootconfig # NULL
      BY <1>7, <1>i DEF spin_unlock, PointerKept, Committed
    <2>2. UNCHANGED <<cmdline, dst, rpc>> /\ pc[t] = "unlock" /\ pc'[t] \in {"log", "idle"}
          /\ \A u \in Tasks \ {t} : pc'[u] = pc[u]
      BY <1>7, <1>p DEF spin_unlock, Goto, reader
    <2> QED BY <2>1, <2>2, <1>l, CmdlineFrame DEF Unwritten
  <1>8. ASSUME NEW t \in Tasks, log(t)
        PROVE  PointerKept' /\ NobodyDead' /\ Replaced' /\ Written'
    <2>1. fake_cmdline_or_bootconfig # NULL
      BY <1>8, <1>i DEF log, PointerKept, Committed
    <2>2. UNCHANGED <<cmdline, dst, rpc>> /\ pc[t] = "log" /\ pc'[t] = "idle"
          /\ \A u \in Tasks \ {t} : pc'[u] = pc[u]
      BY <1>8, <1>p, <2>1 DEF log, Goto, reader
    <2> QED BY <2>1, <2>2, <1>l, CmdlineFrame DEF Unwritten
  <1>9. ASSUME NEW t \in Tasks, susfs_set_log(t) \/ susfs_sus_su(t)
        PROVE  PointerKept' /\ NobodyDead' /\ Replaced' /\ Written'
    <2>1. UNCHANGED <<cmdline, dst, rpc>>
      BY <1>9 DEF susfs_set_log, set_log_lock, set_log_store, susfs_sus_su, read_mode, copy_mode,
                  enable, disable, Switch, reader
    <2>2. \A u \in Tasks \ {t} : pc'[u] = pc[u]
      BY <1>9, <1>p DEF susfs_set_log, set_log_lock, set_log_store, susfs_sus_su, read_mode,
                        copy_mode, enable, disable, Switch, Goto
    <2>3. pc[t] \notin Unwritten
      BY <1>9 DEF susfs_set_log, set_log_lock, set_log_store, susfs_sus_su, read_mode, copy_mode,
                  enable, disable, Switch, Issues, Unwritten
    <2>4. pc'[t] \notin Unwritten \cup Committed \cup {"dead"}
      BY <1>9, <1>p DEF susfs_set_log, set_log_lock, set_log_store, susfs_sus_su, read_mode,
                        copy_mode, enable, disable, Switch, Goto, Unwritten, Committed
    <2> QED BY <2>1, <2>2, <2>3, <2>4, <1>l, CmdlineFrame
  <1>10. ASSUME NEW r \in Readers, cmdline_proc_show(r) \/ susfs_spoof_cmdline_or_bootconfig(r)
         PROVE  PointerKept' /\ NobodyDead' /\ Replaced' /\ Written'
    <2>1. UNCHANGED <<cmdline, dst, pc>>
      BY <1>10 DEF cmdline_proc_show, susfs_spoof_cmdline_or_bootconfig, test_pointer, seq_puts,
                   seq_puts_rest
    <2>2. \A q \in Readers \ {r} : rpc'[q] = rpc[q]
      BY <1>10, <1>p DEF cmdline_proc_show, susfs_spoof_cmdline_or_bootconfig, test_pointer,
                         seq_puts, seq_puts_rest
    <2>3. rpc'[r] \in {"idle", "test"} \/ (rpc'[r] # "dead" /\ fake_cmdline_or_bootconfig # NULL)
      <3>1. CASE cmdline_proc_show(r) \/ seq_puts_rest(r)
        BY <3>1, <1>p DEF cmdline_proc_show, seq_puts_rest
      <3>2. CASE test_pointer(r)
        BY <3>2, <1>p DEF test_pointer
      <3>3. CASE seq_puts(r)
        <4>1. fake_cmdline_or_bootconfig # NULL /\ rdst[r] # NULL
          BY <3>3, <1>i DEF seq_puts, PointerKept, TypeOK
        <4> QED BY <4>1, <3>3, <1>p DEF seq_puts
      <3> QED BY <1>10, <3>1, <3>2, <3>3 DEF susfs_spoof_cmdline_or_bootconfig
    <2> QED BY <2>1, <2>2, <2>3, <1>l, CmdlineFrame
  <1>11. CASE UNCHANGED vars
    BY <1>11, <1>l, CmdlineFrame DEF vars, reader
  <1> QED BY <1>1, <1>2, <1>3, <1>4, <1>5, <1>6, <1>7, <1>8, <1>9, <1>10, <1>11
          DEF Next, susfs_set_cmdline_or_bootconfig

LEMMA InitCmdline == Init => CmdlineInv
  BY InitType DEF Init, CmdlineInv, PointerKept, NobodyDead, Replaced, Written, Shown, Committed

\* Between commands /proc/cmdline shows exactly what the last copy from user
\* space left, if no failed kmalloc has dropped the buffer.
THEOREM QuietExactCorrect == Spec => []QuietExact
  <1>1. CmdlineInv => QuietExact
    BY DEF CmdlineInv, Written, QuietExact, Setters, Setting, Unwritten
  <1> QED BY <1>1, InitCmdline, NextCmdline, PTL DEF Spec

\* Nothing follows a NULL pointer, if no failed kmalloc has dropped the buffer.
THEOREM NoOopsCorrect == Spec => []NoOopsUnlessLost
  <1>1. CmdlineInv => NoOopsUnlessLost
    BY DEF CmdlineInv, NobodyDead, NoOopsUnlessLost
  <1> QED BY <1>1, InitCmdline, NextCmdline, PTL DEF Spec

-----------------------------------------------------------------------------
(* Buffers that leak.                                                       *)

Allocating == {t \in Tasks : pc[t] = "kmalloc"}

BuffersInv == IsFiniteSet(allocated) /\ BuffersBounded

LEMMA AllocatingFinite ==
  /\ IsFiniteSet(Allocating) /\ IsFiniteSet(Allocating')
  /\ Cardinality(Allocating) <= Cardinality(Tasks)
  /\ Cardinality(Allocating') <= Cardinality(Tasks)
  /\ Cardinality(Allocating) \in Nat /\ Cardinality(Allocating') \in Nat
  /\ Cardinality(Tasks) \in Nat
  <1>1. IsFiniteSet(Tasks) /\ Allocating \subseteq Tasks /\ Allocating' \subseteq Tasks
    BY CommandsAssumption DEF Allocating
  <1> QED BY <1>1, FS_Subset, FS_CardinalityType

LEMMA NextBuffers == CmdlineInv /\ BuffersInv /\ [Next]_vars => BuffersInv'
  <1> SUFFICES ASSUME CmdlineInv, BuffersInv, [Next]_vars PROVE BuffersInv'
    OBVIOUS
  <1>l. ~lost' => ~lost
    BY LostStays
  <1>i. TypeOK /\ TypeOK' /\ (~lost => PointerKept)
    BY NextType DEF CmdlineInv
  <1>b. IsFiniteSet(allocated)
        /\ (~lost => Cardinality(allocated) + Cardinality(Allocating) <= Cardinality(Tasks))
    BY DEF BuffersInv, BuffersBounded, Allocating
  <1>c. Cardinality(allocated) \in Nat
    BY <1>b, FS_CardinalityType
  <1>p. pc \in [Tasks -> Setting \cup Switching \cup {"idle", "dead", "log_store", "sus_su"}]
    BY <1>i DEF TypeOK
  \* What is to be shown, in terms of Allocating.
  <1>s. ASSUME IsFiniteSet(allocated'),
               ~lost' => Cardinality(allocated') + Cardinality(Allocating') <= Cardinality(Tasks)
        PROVE  BuffersInv'
    BY <1>s DEF BuffersInv, BuffersBounded, Allocating
  <1>1. ASSUME NEW t \in Tasks, test_buffer(t) PROVE BuffersInv'
    <2>1. UNCHANGED cmdline
      BY <1>1 DEF test_buffer
    <2>2. CASE fake_cmdline_or_bootconfig = NULL
      <3>1. ~lost => Cardinality(allocated') = 0
        BY <1>i, <2>1, <2>2, FS_EmptySet DEF PointerKept, cmdline
      <3> QED BY <3>1, <2>1, <1>b, <1>l, <1>s, AllocatingFinite DEF cmdline
    <2>3. CASE fake_cmdline_or_bootconfig # NULL
      <3>1. Allocating' = Allocating
        BY <1>1, <1>p, <2>3 DEF test_buffer, Goto, Issues, Allocating
      <3> QED BY <3>1, <2>1, <1>b, <1>l, <1>s DEF cmdline
    <2> QED BY <2>2, <2>3
  <1>2. ASSUME NEW t \in Tasks, kmalloc(t) PROVE BuffersInv'
    <2>1. PICK b \in Buffers \ allocated : allocated' = allocated \cup {b}
      BY <1>2 DEF kmalloc
    <2>2. IsFiniteSet(allocated') /\ Cardinality(allocated') = Cardinality(allocated) + 1
      BY <1>b, <2>1, FS_AddElement
    <2>3. t \in Allocating /\ Allocating' = Allocating \ {t}
      BY <1>2, <1>p DEF kmalloc, Goto, Allocating
    <2>4. Cardinality(Allocating') = Cardinality(Allocating) - 1
      BY <2>3, AllocatingFinite, FS_RemoveElement
    <2> QED BY <2>2, <2>4, <1>b, <1>c, <1>l, <1>s, AllocatingFinite
  <1>3. ASSUME NEW t \in Tasks, kmalloc_fails(t) PROVE BuffersInv'
    <2>1. UNCHANGED allocated /\ t \in Allocating /\ Allocating' = Allocating \ {t}
      BY <1>3, <1>p DEF kmalloc_fails, Goto, Allocating
    <2>2. Cardinality(Allocating') = Cardinality(Allocating) - 1
      BY <2>1, AllocatingFinite, FS_RemoveElement
    <2> QED BY <2>1, <2>2, <1>b, <1>c, <1>l, <1>s, AllocatingFinite
  <1>4. CASE UNCHANGED allocated /\ Allocating' = Allocating
    BY <1>4, <1>b, <1>l, <1>s
  <1>5. ASSUME NEW t \in Tasks, spin_lock(t) \/ memset(t) \/ strncpy_from_user(t)
                                \/ spin_unlock(t) \/ log(t) \/ susfs_set_log(t) \/ susfs_sus_su(t)
        PROVE  BuffersInv'
    <2>1. UNCHANGED allocated
      BY <1>5 DEF spin_lock, memset, strncpy_from_user, spin_unlock, log, susfs_set_log,
                  set_log_lock, set_log_store, susfs_sus_su, read_mode, copy_mode, enable, disable,
                  Switch, cmdline
    <2>2. pc[t] # "kmalloc" /\ pc'[t] # "kmalloc"
      BY <1>5, <1>p DEF spin_lock, memset, strncpy_from_user, spin_unlock, log, susfs_set_log,
                        set_log_lock, set_log_store, susfs_sus_su, read_mode, copy_mode, enable,
                        disable, Switch, Goto, Issues
    <2>3. \A u \in Tasks \ {t} : pc'[u] = pc[u]
      BY <1>5, <1>p DEF spin_lock, memset, strncpy_from_user, spin_unlock, log, susfs_set_log,
                        set_log_lock, set_log_store, susfs_sus_su, read_mode, copy_mode, enable,
                        disable, Switch, Goto
    <2>4. Allocating' = Allocating
      BY <2>2, <2>3 DEF Allocating
    <2> QED BY <2>1, <2>4, <1>4
  <1>6. ASSUME NEW r \in Readers, cmdline_proc_show(r) \/ susfs_spoof_cmdline_or_bootconfig(r)
        PROVE  BuffersInv'
    <2>1. UNCHANGED <<allocated, pc>>
      BY <1>6 DEF cmdline_proc_show, susfs_spoof_cmdline_or_bootconfig, test_pointer, seq_puts,
                  seq_puts_rest, cmdline
    <2> QED BY <2>1, <1>4 DEF Allocating
  <1>7. CASE UNCHANGED vars
    BY <1>7, <1>4 DEF vars, cmdline, Allocating
  <1> QED BY <1>1, <1>2, <1>3, <1>5, <1>6, <1>7 DEF Next, susfs_set_cmdline_or_bootconfig

LEMMA InitBuffers == Init => BuffersInv
  <1> SUFFICES ASSUME Init PROVE BuffersInv
    OBVIOUS
  <1>1. IsFiniteSet(allocated) /\ Cardinality(allocated) = 0
    BY FS_EmptySet DEF Init
  <1>2. Cardinality(Allocating) <= Cardinality(Tasks) /\ Cardinality(Allocating) \in Nat
        /\ Cardinality(Tasks) \in Nat
    BY AllocatingFinite
  <1> QED BY <1>1, <1>2 DEF BuffersInv, BuffersBounded, Allocating

\* However first callers race, there are never more buffers than tasks.
THEOREM BuffersBoundedCorrect == Spec => []BuffersBounded
  <1>1. BuffersInv => BuffersBounded
    BY DEF BuffersInv
  <1> QED BY <1>1, InitBuffers, NextBuffers, InitCmdline, NextCmdline, PTL DEF Spec

-----------------------------------------------------------------------------
(* The switches of sus_su.                                                  *)

Switchers == {t \in Tasks : pc[t] \in Switching}

Agree ==
  /\ susfs_is_sus_su_hooks_enabled <=> susfs_sus_su_working_mode = SUS_SU_WITH_HOOKS
  /\ kprobes <=> susfs_sus_su_working_mode = SUS_SU_DISABLED

\* What a switch that has been alone so far has done.
AloneDone(t) ==
  /\ pc[t] \in {"enable_mode", "enable_hooks"} => ~kprobes
  /\ pc[t] = "enable_hooks" => susfs_sus_su_working_mode = SUS_SU_WITH_HOOKS
  /\ pc[t] \in {"disable_ksu", "disable_mode"} => ~susfs_is_sus_su_hooks_enabled
  /\ pc[t] = "disable_mode" => kprobes

SusSuInv ==
  /\ TypeOK
  /\ \A t \in Switchers : alone[t] => Switchers = {t} /\ AloneDone(t)
  /\ settled /\ Switchers = {} => Agree

\* A step that is not of a switch disturbs nothing.
LEMMA SusSuFrame ==
  ASSUME SusSuInv, UNCHANGED <<susfs_sus_su_working_mode, susfs_is_sus_su_hooks_enabled, kprobes,
                               alone, settled>>,
         \A t \in Tasks : pc'[t] = pc[t] \/ (pc[t] \notin Switching /\ pc'[t] \notin Switching),
         TypeOK'
  PROVE  SusSuInv'
  <1>1. Switchers' = Switchers
    BY DEF Switchers
  <1>2. \A t \in Switchers : pc'[t] = pc[t]
    BY DEF Switchers
  <1>3. \A t \in Switchers' : alone'[t] => Switchers' = {t} /\ AloneDone(t)'
    BY <1>1, <1>2 DEF SusSuInv, AloneDone
  <1> QED BY <1>1, <1>3 DEF SusSuInv, Agree

\* A step of a switch keeps SusSuInv if it keeps what lone switches have done,
\* and, if it is the last, leaves mode and hooks in agreement.
LEMMA SusSuSwitch ==
  ASSUME SusSuInv, TypeOK', NEW t \in Tasks,
         pc[t] \in Switching, \A u \in Tasks \ {t} : pc'[u] = pc[u],
         UNCHANGED alone,
         settled' = IF pc'[t] = "idle" THEN alone[t] ELSE settled,
         pc'[t] \in Switching \cup {"idle"},
         alone[t] => AloneDone(t)',
         alone[t] /\ pc'[t] = "idle" => Agree'
  PROVE  SusSuInv'
  <1>1. t \in Switchers
    BY DEF Switchers
  <1>2. ASSUME NEW u \in Switchers', alone'[u] PROVE Switchers' = {u} /\ AloneDone(u)'
    <2>1. u \in Switchers
      BY <1>1, <1>2 DEF Switchers
    <2>2. Switchers = {u} /\ u = t
      BY <2>1, <1>1, <1>2 DEF SusSuInv
    <2>3. Switchers' = {u}
      BY <2>2, <1>2 DEF Switchers
    <2> QED BY <2>2, <2>3, <1>2
  <1>3. ASSUME settled', Switchers' = {} PROVE Agree'
    <2>1. pc'[t] = "idle"
      BY <1>3 DEF Switchers
    <2> QED BY <2>1, <1>3
  <1> QED BY <1>2, <1>3 DEF SusSuInv

LEMMA NextSusSu == SusSuInv /\ [Next]_vars => SusSuInv'
  <1> SUFFICES ASSUME SusSuInv, [Next]_vars PROVE SusSuInv'
    OBVIOUS
  <1>t. TypeOK /\ TypeOK'
    BY NextType DEF SusSuInv
  <1>p. pc \in [Tasks -> Setting \cup Switching \cup {"idle", "dead", "log_store", "sus_su"}]
        /\ alone \in [Tasks -> BOOLEAN]
    BY <1>t DEF TypeOK
  <1>b. kprobes \in BOOLEAN /\ kprobes' \in BOOLEAN
        /\ susfs_is_sus_su_hooks_enabled \in BOOLEAN /\ susfs_is_sus_su_hooks_enabled' \in BOOLEAN
    BY <1>t DEF TypeOK
  <1> USE DEF Switching, Enabling, Disabling
  <1>1. ASSUME NEW t \in Tasks, susfs_set_cmdline_or_bootconfig(t) \/ susfs_set_log(t)
        PROVE  SusSuInv'
    <2>1. UNCHANGED sus_su
      BY <1>1 DEF susfs_set_cmdline_or_bootconfig, test_buffer, kmalloc, kmalloc_fails, spin_lock,
                  memset, strncpy_from_user, spin_unlock, log, susfs_set_log, set_log_lock,
                  set_log_store
    <2>2. pc[t] \notin Switching /\ pc'[t] \notin Switching
      BY <1>1, <1>p DEF susfs_set_cmdline_or_bootconfig, test_buffer, kmalloc, kmalloc_fails,
                        spin_lock, memset, strncpy_from_user, spin_unlock, log, susfs_set_log,
                        set_log_lock, set_log_store, Goto, Issues
    <2>3. \A u \in Tasks \ {t} : pc'[u] = pc[u]
      BY <1>1, <1>p DEF susfs_set_cmdline_or_bootconfig, test_buffer, kmalloc, kmalloc_fails,
                        spin_lock, memset, strncpy_from_user, spin_unlock, log, susfs_set_log,
                        set_log_lock, set_log_store, Goto
    <2> QED BY <2>1, <2>2, <2>3, <1>t, SusSuFrame DEF sus_su
  <1>2. ASSUME NEW t \in Tasks, read_mode(t) PROVE SusSuInv'
    BY <1>2, <1>p, <1>t, SusSuFrame DEF read_mode, Goto, Issues
  <1>3. ASSUME NEW t \in Tasks, copy_mode(t) PROVE SusSuInv'
    <2>1. PICK next \in {"enable_ksu", "disable_hooks", "idle"} :
            /\ pc' = [pc EXCEPT ![t] = next]
            /\ IF next = "idle" THEN UNCHANGED alone ELSE Overlap(t)
      BY <1>3 DEF copy_mode, Goto
    <2>2. pc[t] = "sus_su" /\ UNCHANGED <<susfs_sus_su_working_mode, susfs_is_sus_su_hooks_enabled,
                                          kprobes, settled>>
      BY <1>3 DEF copy_mode
    <2>3. CASE next = "idle"
      BY <2>1, <2>2, <2>3, <1>p, <1>t, SusSuFrame
    <2>4. CASE next # "idle"
      <3> DEFINE others == {u \in Tasks \ {t} : pc[u] \in Switching}
      <3>1. pc'[t] = next /\ \A u \in Tasks \ {t} : pc'[u] = pc[u]
        BY <2>1, <1>p
      <3>2. Switchers' = others \cup {t} /\ t \notin others
        BY <2>4, <3>1 DEF Switchers
      <3>3. alone' = [u \in Tasks |-> IF u = t THEN others = {} ELSE alone[u] /\ u \notin others]
        BY <2>1, <2>4 DEF Overlap
      <3>4. ASSUME NEW u \in Switchers', alone'[u] PROVE Switchers' = {u} /\ AloneDone(u)'
        <4>1. CASE u = t
          <5>1. others = {}
            BY <3>3, <3>4, <4>1
          <5>2. AloneDone(t)'
            BY <2>4, <3>1 DEF AloneDone
          <5> QED BY <3>2, <4>1, <5>1, <5>2
        <4>2. CASE u # t
          <5>1. u \in others /\ u \in Tasks
            BY <3>2, <4>2 DEF Switchers
          <5> HIDE DEF others
          <5>2. alone'[u] = (alone[u] /\ u \notin others)
            BY <3>3, <4>2, <5>1
          <5> QED BY <3>4, <5>1, <5>2
        <4> QED BY <4>1, <4>2
      <3>5. Switchers' # {}
        BY <3>2
      <3> QED BY <3>4, <3>5, <1>t DEF SusSuInv
    <2> QED BY <2>3, <2>4
  <1>4. ASSUME NEW t \in Tasks, NEW from, NEW to, NEW mode, NEW hooks, NEW ksu,
               Switch(t, from, to, mode, hooks, ksu), from \in Switching,
               to \in Switching \cup {"idle"}
        PROVE  /\ pc[t] = from /\ pc'[t] = to
               /\ \A u \in Tasks \ {t} : pc'[u] = pc[u]
               /\ susfs_sus_su_working_mode' = mode
               /\ susfs_is_sus_su_hooks_enabled' = hooks /\ kprobes' = ksu
               /\ UNCHANGED alone
               /\ settled' = IF to = "idle" THEN alone[t] ELSE settled
    BY <1>4, <1>p DEF Switch, Goto
  <1>5. ASSUME NEW t \in Tasks, enable(t) PROVE SusSuInv'
    <2>1. ASSUME alone[t], pc[t] \in Switching PROVE AloneDone(t)
      BY <2>1 DEF SusSuInv, Switchers
    <2>2. CASE Switch(t, "enable_ksu", "enable_mode",
                      susfs_sus_su_working_mode, susfs_is_sus_su_hooks_enabled, FALSE)
      <3>1. pc'[t] = "enable_mode" /\ ~kprobes'
        BY <2>2, <1>p DEF Switch, Goto
      <3>2. AloneDone(t)'
        BY <3>1 DEF AloneDone
      <3> QED BY <3>2, <2>2, <1>4, <1>t, SusSuSwitch
    <2>3. CASE Switch(t, "enable_mode", "enable_hooks",
                      SUS_SU_WITH_HOOKS, susfs_is_sus_su_hooks_enabled, kprobes)
      <3>1. alone[t] => AloneDone(t)'
        BY <2>1, <2>3, <1>p, <1>b DEF AloneDone, Switch, Goto
      <3> QED BY <3>1, <2>3, <1>4, <1>t, SusSuSwitch
    <2>4. CASE Switch(t, "enable_hooks", "idle", susfs_sus_su_working_mode, TRUE, kprobes)
      <3>1. AloneDone(t)'
        BY <2>4, <1>4 DEF AloneDone
      <3>2. alone[t] => Agree'
        BY <2>1, <2>4, <1>b
           DEF AloneDone, Agree, Switch, SUS_SU_DISABLED, SUS_SU_WITH_HOOKS
      <3> QED BY <3>1, <3>2, <2>4, <1>4, <1>t, SusSuSwitch
    <2> QED BY <1>5, <2>2, <2>3, <2>4 DEF enable
  <1>6. ASSUME NEW t \in Tasks, disable(t) PROVE SusSuInv'
    <2>1. ASSUME alone[t], pc[t] \in Switching PROVE AloneDone(t)
      BY <2>1 DEF SusSuInv, Switchers
    <2>2. CASE Switch(t, "disable_hooks", "disable_ksu", susfs_sus_su_working_mode, FALSE, kprobes)
      <3>1. AloneDone(t)'
        BY <2>2, <1>p, <1>b DEF AloneDone, Switch, Goto
      <3> QED BY <3>1, <2>2, <1>4, <1>t, SusSuSwitch
    <2>3. CASE Switch(t, "disable_ksu", "disable_mode",
                      susfs_sus_su_working_mode, susfs_is_sus_su_hooks_enabled, TRUE)
      <3>1. alone[t] => AloneDone(t)'
        BY <2>1, <2>3, <1>p, <1>b DEF AloneDone, Switch, Goto
      <3> QED BY <3>1, <2>3, <1>4, <1>t, SusSuSwitch
    <2>4. CASE Switch(t, "disable_mode", "idle",
                      SUS_SU_DISABLED, susfs_is_sus_su_hooks_enabled, kprobes)
      <3>1. AloneDone(t)'
        BY <2>4, <1>4 DEF AloneDone
      <3>2. alone[t] => Agree'
        BY <2>1, <2>4, <1>b
           DEF AloneDone, Agree, Switch, SUS_SU_DISABLED, SUS_SU_WITH_HOOKS
      <3> QED BY <3>1, <3>2, <2>4, <1>4, <1>t, SusSuSwitch
    <2> QED BY <1>6, <2>2, <2>3, <2>4 DEF disable
  <1>7. ASSUME NEW r \in Readers, cmdline_proc_show(r) \/ susfs_spoof_cmdline_or_bootconfig(r)
        PROVE  SusSuInv'
    <2>1. UNCHANGED <<sus_su, pc>>
      BY <1>7 DEF cmdline_proc_show, susfs_spoof_cmdline_or_bootconfig, test_pointer, seq_puts,
                  seq_puts_rest
    <2> QED BY <2>1, <1>t, SusSuFrame DEF sus_su
  <1>8. CASE UNCHANGED vars
    BY <1>8, <1>t, SusSuFrame DEF vars, sus_su
  <1> QED BY <1>1, <1>2, <1>3, <1>5, <1>6, <1>7, <1>8 DEF Next, susfs_sus_su

LEMMA InitSusSu == Init => SusSuInv
  <1> SUFFICES ASSUME Init PROVE SusSuInv
    OBVIOUS
  <1>1. Switchers = {}
    BY DEF Init, Switchers, Switching, Enabling, Disabling
  <1>2. Agree
    BY DEF Init, Agree, SUS_SU_DISABLED, SUS_SU_WITH_HOOKS
  <1> QED BY <1>1, <1>2, InitType DEF SusSuInv

\* Between switches the mode that is reported and the hooks in place agree, if
\* the last switch was alone, however others have overlapped before it.
THEOREM SusSuAgreeCorrect == Spec => []SusSuAgree
  <1>1. SusSuInv => SusSuAgree
    BY DEF SusSuInv, Agree, Switchers, SusSuAgree
  <1> QED BY <1>1, InitSusSu, NextSusSu, PTL DEF Spec

-----------------------------------------------------------------------------
(* ToolCommands implements SafeRegister.                                    *)

\* What a reader that no command overlaps has seen is still there.
ReaderInv ==
  /\ TypeOK
  /\ \A r \in Readers : quiet[r] /\ rpc[r] # "idle" =>
       /\ Setters = {}
       /\ rpc[r] \in {"puts", "rest"} => rdst[r] = fake_cmdline_or_bootconfig
       /\ rpc[r] = "rest" => first[r] = buf[fake_cmdline_or_bootconfig]

\* A step of a command, seen from the readers.
LEMMA SetterStep ==
  ASSUME TypeOK, NEW t \in Tasks, susfs_set_cmdline_or_bootconfig(t)
  PROVE  /\ UNCHANGED reader
         /\ test_buffer(t) \/ (pc[t] \in Setting /\ UNCHANGED quiet)
         /\ \A u \in Tasks \ {t} : pc'[u] = pc[u]
  BY DEF TypeOK, susfs_set_cmdline_or_bootconfig, test_buffer, kmalloc, kmalloc_fails, spin_lock,
         memset, strncpy_from_user, spin_unlock, log, Goto, Setting

LEMMA OtherStep ==
  ASSUME TypeOK, NEW t \in Tasks, susfs_set_log(t) \/ susfs_sus_su(t)
  PROVE  UNCHANGED <<cmdline, reader, quiet, Setters>>
  <1>1. UNCHANGED <<cmdline, reader, quiet>>
    BY DEF susfs_set_log, set_log_lock, set_log_store, susfs_sus_su, read_mode, copy_mode, enable,
           disable, Switch
  <1>2. \A u \in Tasks \ {t} : pc'[u] = pc[u]
    BY DEF TypeOK, susfs_set_log, set_log_lock, set_log_store, susfs_sus_su, read_mode, copy_mode,
           enable, disable, Switch, Goto
  <1>3. pc[t] \notin Setting /\ pc'[t] \notin Setting
    BY DEF TypeOK, susfs_set_log, set_log_lock, set_log_store, susfs_sus_su, read_mode, copy_mode,
           enable, disable, Switch, Goto, Issues, Setting
  <1> QED BY <1>1, <1>2, <1>3 DEF Setters

LEMMA ReaderStep ==
  ASSUME TypeOK, NEW r \in Readers,
         cmdline_proc_show(r) \/ susfs_spoof_cmdline_or_bootconfig(r)
  PROVE  /\ UNCHANGED <<cmdline, Setters>>
         /\ \A q \in Readers \ {r} : /\ rpc'[q] = rpc[q] /\ quiet'[q] = quiet[q] /\ got'[q] = got[q]
                                     /\ rdst'[q] = rdst[q] /\ first'[q] = first[q]
  BY DEF TypeOK, cmdline_proc_show, susfs_spoof_cmdline_or_bootconfig, test_pointer, seq_puts,
         seq_puts_rest, Setters

LEMMA NextReader == ReaderInv /\ [Next]_vars => ReaderInv'
  <1> SUFFICES ASSUME ReaderInv, [Next]_vars PROVE ReaderInv'
    OBVIOUS
  <1>t. TypeOK /\ TypeOK'
    BY NextType DEF ReaderInv
  <1>p. /\ rpc \in [Readers -> {"idle", "test", "puts", "rest", "dead"}]
        /\ quiet \in [Readers -> BOOLEAN] /\ quiet' \in [Readers -> BOOLEAN]
        /\ rdst \in [Readers -> allocated \cup {NULL}] /\ first \in [Readers -> Contents]
    BY <1>t DEF TypeOK
  <1>1. ASSUME NEW t \in Tasks, susfs_set_cmdline_or_bootconfig(t) PROVE ReaderInv'
    <2>1. UNCHANGED rpc
      BY <1>1, <1>t, SetterStep DEF reader
    <2>2. ASSUME NEW r \in Readers PROVE ~(quiet'[r] /\ rpc'[r] # "idle")
      <3>1. CASE test_buffer(t)
        BY <3>1 DEF test_buffer
      <3>2. CASE pc[t] \in Setting /\ UNCHANGED quiet
        <4>1. Setters # {}
          BY <3>2 DEF Setters
        <4> QED BY <4>1, <3>2, <2>1 DEF ReaderInv
      <3> QED BY <1>1, <1>t, <3>1, <3>2, SetterStep
    <2> QED BY <2>2, <1>t DEF ReaderInv
  <1>2. ASSUME NEW t \in Tasks, susfs_set_log(t) \/ susfs_sus_su(t) PROVE ReaderInv'
    <2>1. UNCHANGED <<cmdline, reader, quiet, Setters>>
      BY <1>2, <1>t, OtherStep
    <2> QED BY <2>1, <1>t DEF ReaderInv, cmdline, reader
  <1>3. ASSUME NEW r \in Readers, cmdline_proc_show(r) \/ susfs_spoof_cmdline_or_bootconfig(r),
               quiet'[r] /\ rpc'[r] # "idle" =>
                 /\ Setters = {}
                 /\ rpc'[r] \in {"puts", "rest"} => rdst'[r] = fake_cmdline_or_bootconfig
                 /\ rpc'[r] = "rest" => first'[r] = buf[fake_cmdline_or_bootconfig]
        PROVE  ReaderInv'
    <2>1. UNCHANGED <<cmdline, Setters>>
      BY <1>3, <1>t, ReaderStep
    <2>2. ASSUME NEW q \in Readers \ {r}
          PROVE  /\ rpc'[q] = rpc[q] /\ quiet'[q] = quiet[q]
                 /\ rdst'[q] = rdst[q] /\ first'[q] = first[q]
      BY <1>3, <1>t, ReaderStep
    <2> QED BY <2>1, <2>2, <1>3, <1>t DEF ReaderInv, cmdline
  <1>4. ASSUME NEW r \in Readers, cmdline_proc_show(r) PROVE ReaderInv'
    <2>1. rpc'[r] = "test" /\ quiet'[r] = (Setters = {})
      BY <1>4, <1>p DEF cmdline_proc_show
    <2> QED BY <2>1, <1>3, <1>4
  <1>5. ASSUME NEW r \in Readers, susfs_spoof_cmdline_or_bootconfig(r) PROVE ReaderInv'
    <2>1. rpc[r] # "idle" /\ UNCHANGED quiet
      BY <1>5 DEF susfs_spoof_cmdline_or_bootconfig, test_pointer, seq_puts, seq_puts_rest
    <2>2. ASSUME quiet[r]
          PROVE  /\ Setters = {}
                 /\ rpc[r] \in {"puts", "rest"} => rdst[r] = fake_cmdline_or_bootconfig
      BY <2>1, <2>2 DEF ReaderInv
    <2>3. CASE test_pointer(r)
      <3>1. rpc'[r] \in {"idle", "puts"}
            /\ (rpc'[r] = "puts" => rdst'[r] = fake_cmdline_or_bootconfig)
        BY <2>3, <1>p DEF test_pointer
      <3> QED BY <3>1, <2>1, <2>2, <1>3, <1>5
    <2>4. CASE seq_puts(r)
      <3>1. PICK from \in {rdst[r], fake_cmdline_or_bootconfig} :
              \/ rdst'[r] = from /\ first'[r] = buf[from] /\ rpc'[r] = "rest"
              \/ rpc'[r] = "dead"
        BY <2>4, <1>p DEF seq_puts
      <3>2. rpc[r] = "puts"
        BY <2>4 DEF seq_puts
      <3> QED BY <3>1, <3>2, <2>1, <2>2, <1>3, <1>5
    <2>5. CASE seq_puts_rest(r)
      <3>1. rpc'[r] = "idle"
        BY <2>5, <1>p DEF seq_puts_rest
      <3> QED BY <3>1, <1>3, <1>5
    <2> QED BY <1>5, <2>3, <2>4, <2>5 DEF susfs_spoof_cmdline_or_bootconfig
  <1>6. CASE UNCHANGED vars
    BY <1>6, <1>t DEF ReaderInv, vars, cmdline, reader, Setters
  <1> QED BY <1>1, <1>2, <1>4, <1>5, <1>6 DEF Next

LEMMA InitReader == Init => ReaderInv
  BY InitType DEF Init, ReaderInv

\* The variables of the register, as functions of the state.
Values == Contents \cup {Real, Torn}
Reads  == [r \in Readers |-> IF rpc[r] = "idle" THEN "idle"
                             ELSE IF quiet[r] THEN "clean" ELSE "overlapped"]

LEMMA ShownType == TypeOK => Shown \in Values
  BY DEF TypeOK, Shown, Values

LEMMA InitRegister == Init => Register!Init
  <1> SUFFICES ASSUME Init PROVE Register!Init
    OBVIOUS
  <1>1. Setters = {} /\ Shown = Real /\ Reads = [r \in Readers |-> "idle"]
    BY DEF Init, Setters, Setting, Shown, Reads
  <1> QED BY <1>1 DEF Init, Register!Init, Reads

LEMMA NextRegister == ReaderInv /\ ReaderInv' /\ [Next]_vars => [Register!Next]_(Register!vars)
  <1> SUFFICES ASSUME ReaderInv, ReaderInv', [Next]_vars
               PROVE  Register!Next \/ UNCHANGED <<Shown, Setters, Reads, got>>
    BY DEF Register!vars, Reads
  <1>t. TypeOK /\ TypeOK' /\ Shown' \in Values
    BY ShownType DEF ReaderInv, TypeOK, Shown, Values
  <1>p. /\ rpc \in [Readers -> {"idle", "test", "puts", "rest", "dead"}]
        /\ quiet \in [Readers -> BOOLEAN]
        /\ got \in [Readers -> Contents \cup {Real, Torn, Reading}]
        /\ pc \in [Tasks -> Setting \cup Switching \cup {"idle", "dead", "log_store", "sus_su"}]
    BY <1>t DEF TypeOK
  <1>1. ASSUME NEW t \in Tasks, test_buffer(t) PROVE Register!BeginWrite(t)
    <2>1. t \notin Setters /\ Setters' = Setters \cup {t}
      BY <1>1, <1>p DEF test_buffer, Issues, Goto, Setters, Setting
    <2>2. UNCHANGED <<cmdline, rpc, got>> /\ quiet' = [r \in Readers |-> FALSE]
      BY <1>1 DEF test_buffer, reader
    <2>3. Reads' = [r \in Readers |-> IF Reads[r] = "clean" THEN "overlapped" ELSE Reads[r]]
      BY <2>2 DEF Reads
    <2>4. UNCHANGED Shown
      BY <2>2 DEF cmdline, Shown
    <2> QED BY <2>1, <2>2, <2>3, <2>4 DEF Register!BeginWrite, Reads
  \* Another step of a command is a write, and ends it if the command is over.
  <1>2. ASSUME NEW t \in Tasks, susfs_set_cmdline_or_bootconfig(t), ~test_buffer(t)
        PROVE  Register!Write \/ Register!EndWrite(t)
    <2>1. t \in Setters /\ UNCHANGED <<reader, quiet>> /\ \A u \in Tasks \ {t} : pc'[u] = pc[u]
      BY <1>2, <1>t, SetterStep DEF Setters
    <2>2. UNCHANGED <<Reads, got>>
      BY <2>1 DEF reader, Reads
    <2>3. CASE pc'[t] \in Setting
      <3>1. Setters' = Setters
        BY <2>1, <2>3 DEF Setters
      <3> QED BY <3>1, <2>1, <2>2, <1>t DEF Register!Write, Reads, Values
    <2>4. CASE pc'[t] \notin Setting
      <3>1. Setters' = Setters \ {t}
        BY <2>1, <2>4 DEF Setters
      <3> QED BY <3>1, <2>1, <2>2, <1>t DEF Register!EndWrite, Reads, Values
    <2> QED BY <2>3, <2>4
  <1>3. ASSUME NEW t \in Tasks, susfs_set_log(t) \/ susfs_sus_su(t)
        PROVE  UNCHANGED <<Shown, Setters, Reads, got>>
    <2>1. UNCHANGED <<cmdline, reader, quiet, Setters>>
      BY <1>3, <1>t, OtherStep
    <2> QED BY <2>1 DEF cmdline, reader, Shown, Reads
  <1>4. ASSUME NEW r \in Readers, cmdline_proc_show(r) PROVE Register!BeginRead(r)
    <2>1. UNCHANGED <<Setters, Shown>>
      BY <1>4 DEF cmdline_proc_show, cmdline, Setters, Shown
    <2>2. Reads[r] = "idle" /\ got' = [got EXCEPT ![r] = Reading]
      BY <1>4 DEF cmdline_proc_show, Reads
    <2>3. Reads' = [Reads EXCEPT ![r] = IF Setters = {} THEN "clean" ELSE "overlapped"]
      BY <1>4, <1>p DEF cmdline_proc_show, Reads
    <2> QED BY <2>1, <2>2, <2>3 DEF Register!BeginRead, Reads
  <1>5. ASSUME NEW r \in Readers, susfs_spoof_cmdline_or_bootconfig(r)
        PROVE  Register!EndRead(r) \/ UNCHANGED <<Shown, Setters, Reads, got>>
    <2>1. UNCHANGED <<cmdline, Setters, quiet, Shown>> /\ rpc[r] # "idle"
      BY <1>5 DEF susfs_spoof_cmdline_or_bootconfig, test_pointer, seq_puts, seq_puts_rest, cmdline,
                  Setters, Shown
    <2>2. rpc' = [rpc EXCEPT ![r] = rpc'[r]]
      BY <1>5, <1>p DEF susfs_spoof_cmdline_or_bootconfig, test_pointer, seq_puts, seq_puts_rest
    <2>3. CASE rpc'[r] # "idle"
      <3>1. UNCHANGED got
        BY <1>5, <1>p, <2>3
           DEF susfs_spoof_cmdline_or_bootconfig, test_pointer, seq_puts, seq_puts_rest
      <3> QED BY <3>1, <2>1, <2>2, <2>3, <1>p DEF Reads
    <2>4. CASE rpc'[r] = "idle"
      <3>1. Reads[r] # "idle" /\ Reads' = [Reads EXCEPT ![r] = "idle"]
        BY <2>1, <2>2, <2>4, <1>p DEF Reads
      <3>2. PICK x \in Values : got' = [got EXCEPT ![r] = x] /\ (quiet[r] => x = Shown)
        <4>1. CASE test_pointer(r)
          <5>1. fake_cmdline_or_bootconfig = NULL /\ got' = [got EXCEPT ![r] = Real]
            BY <4>1, <2>4, <1>p DEF test_pointer
          <5> QED BY <5>1 DEF Shown, Values
        <4>2. CASE seq_puts(r)
          BY <4>2, <2>4, <1>p DEF seq_puts
        <4>3. CASE seq_puts_rest(r)
          <5>1. rpc[r] = "rest" /\ rdst[r] # NULL /\ first[r] \in Contents
            BY <4>3, <1>t DEF seq_puts_rest, TypeOK
          <5>2. quiet[r] => buf[rdst[r]] = first[r] /\ first[r] = Shown
            BY <5>1 DEF ReaderInv, Shown
          <5> QED BY <5>1, <5>2, <4>3 DEF seq_puts_rest, Values
        <4> QED BY <1>5, <4>1, <4>2, <4>3 DEF susfs_spoof_cmdline_or_bootconfig
      <3>3. Reads[r] = "clean" => quiet[r]
        BY DEF Reads
      <3> QED BY <3>1, <3>2, <3>3, <2>1 DEF Register!EndRead, Reads, Values
    <2> QED BY <2>3, <2>4
  <1>6. CASE UNCHANGED vars
    BY <1>6 DEF vars, cmdline, reader, Shown, Setters, Reads
  <1> QED BY <1>1, <1>2, <1>3, <1>4, <1>5, <1>6 DEF Next, Register!Next

\* However commands, first callers among them, and reads of /proc/cmdline
\* interleave, a read returns what a register safe for its readers may return.
THEOREM RegisterImplemented == Spec => ImplementsRegister
  <1>1. Spec => []ReaderInv
    BY InitReader, NextReader, PTL DEF Spec
  <1>2. ReaderInv /\ ReaderInv' /\ [Next]_vars => [Register!Next]_(Register!vars)
    BY NextRegister
  <1> QED BY <1>1, <1>2, InitRegister, PTL DEF Spec, ImplementsRegister, Register!Spec
=============================================================================
