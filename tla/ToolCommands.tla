----------------------------- MODULE ToolCommands -----------------------------
(***************************************************************************)
(* The commands of the susfs tool that set one thing for the whole kernel   *)
(* and have no table: the spoofed command line or bootconfig, which         *)
(* /proc/cmdline shows, the log switch, and the mode of sus_su.             *)
(*                                                                         *)
(* The buffer of the command line is allocated by the first caller, outside *)
(* the lock; what it replaces or leaves unset is the business of this       *)
(* module.  A text is an atom; what a buffer holds after kmalloc, after     *)
(* memset and after a copy that faults is told apart from it.               *)
(***************************************************************************)
EXTENDS Integers, FiniteSets

CONSTANTS
  Tasks,    \* processes that issue commands
  Readers,  \* processes that read /proc/cmdline
  Buffers,  \* what kmalloc may return
  Texts,    \* what the tool passes, other than the empty string
  NULL, NoTask,
  Real,     \* saved_command_line
  Garbage,  \* the contents of memory from kmalloc
  Blank,    \* the empty string
  Part,     \* the beginning of a text
  Torn,     \* the first part of one thing and the rest of another
  Reading   \* the result of a read that is not over

ASSUME CommandsAssumption ==
  /\ IsFiniteSet(Tasks) /\ NULL \notin Buffers /\ NoTask \notin Tasks
  /\ Garbage \notin Texts \cup {Real, Blank, Part}

SUS_SU_DISABLED   == 0
SUS_SU_WITH_HOOKS == 2

VARIABLES
  command,   \* of a task: the command it issues, as often as it likes
  fake_cmdline_or_bootconfig,  \* NULL, or the buffer
  buf, allocated,              \* the contents of the buffers, and those in use
  susfs_spin_lock,
  susfs_is_log_enabled,
  susfs_sus_su_working_mode, susfs_is_sus_su_hooks_enabled,
  kprobes,                     \* whether KernelSU's own hooks for su are in place
  pc, dst, last_working_mode,  \* of a task: its step, the buffer it uses, the
                               \* mode it has seen
  rpc, rdst, first, got,       \* of a reader: its step, buffer, what it has
                               \* printed of it, and what it printed last
  committed,  \* history: what the last copy from user space left
  lost,       \* history: a failed kmalloc has overwritten the buffer of another
  quiet,      \* history, of a reader: no command has overlapped the read
  alone,      \* history, of a task: no other switch has overlapped its switch
  settled     \* history: the last switch that ended was alone

cmdline == <<fake_cmdline_or_bootconfig, buf, allocated, committed, lost>>
sus_su  == <<susfs_sus_su_working_mode, susfs_is_sus_su_hooks_enabled, kprobes,
             last_working_mode, alone, settled>>
reader  == <<rpc, rdst, first, got>>
vars    == <<cmdline, sus_su, reader, quiet, dst, pc, susfs_spin_lock, susfs_is_log_enabled,
             command>>

Commands == {"CMD_SUSFS_SET_CMDLINE_OR_BOOTCONFIG", "CMD_SUSFS_ENABLE_LOG", "CMD_SUSFS_SUS_SU"}

Contents == Texts \cup {Garbage, Blank, Part}
Shown    == IF fake_cmdline_or_bootconfig = NULL THEN Real ELSE buf[fake_cmdline_or_bootconfig]

Setting   == {"kmalloc", "lock", "memset", "copy", "unlock", "log"}
Enabling  == {"enable_ksu", "enable_mode", "enable_hooks"}
Disabling == {"disable_hooks", "disable_ksu", "disable_mode"}
Switching == Enabling \cup Disabling
Locked    == {"memset", "copy", "unlock", "log_store"}

\* The tasks inside susfs_set_cmdline_or_bootconfig.
Setters == {t \in Tasks : pc[t] \in Setting}

Goto(t, step) == pc' = [pc EXCEPT ![t] = step]

Issues(t, cmd) == pc[t] = "idle" /\ command[t] = cmd

Init ==
  /\ command \in [Tasks -> Commands]
  /\ fake_cmdline_or_bootconfig = NULL
  /\ buf = [b \in Buffers |-> Garbage] /\ allocated = {}
  /\ susfs_spin_lock = NoTask
  /\ susfs_is_log_enabled = TRUE
  /\ susfs_sus_su_working_mode = SUS_SU_DISABLED
  /\ susfs_is_sus_su_hooks_enabled = FALSE
  /\ kprobes = TRUE
  /\ pc = [t \in Tasks |-> "idle"]
  /\ dst = [t \in Tasks |-> NULL]
  /\ last_working_mode = [t \in Tasks |-> SUS_SU_DISABLED]
  /\ rpc = [r \in Readers |-> "idle"]
  /\ rdst = [r \in Readers |-> NULL]
  /\ first = [r \in Readers |-> Blank]
  /\ got = [r \in Readers |-> Real]
  /\ committed = Real /\ lost = FALSE
  /\ quiet = [r \in Readers |-> TRUE]
  /\ alone = [t \in Tasks |-> TRUE] /\ settled = TRUE

-----------------------------------------------------------------------------
(* susfs_set_cmdline_or_bootconfig.                                         *)

\* Mutant: every caller allocates.
test_buffer_unasked(t) ==
  /\ Issues(t, "CMD_SUSFS_SET_CMDLINE_OR_BOOTCONFIG")
  /\ dst' = [dst EXCEPT ![t] = fake_cmdline_or_bootconfig]
  /\ Goto(t, "kmalloc")
  /\ quiet' = [r \in Readers |-> FALSE]
  /\ UNCHANGED <<cmdline, sus_su, reader, susfs_spin_lock, susfs_is_log_enabled, command>>

test_buffer(t) ==
  /\ Issues(t, "CMD_SUSFS_SET_CMDLINE_OR_BOOTCONFIG")
  /\ dst' = [dst EXCEPT ![t] = fake_cmdline_or_bootconfig]
  /\ Goto(t, IF fake_cmdline_or_bootconfig = NULL THEN "kmalloc" ELSE "lock")
  /\ quiet' = [r \in Readers |-> FALSE]
  /\ UNCHANGED <<cmdline, sus_su, reader, susfs_spin_lock, susfs_is_log_enabled, command>>

\* The result goes straight to fake_cmdline_or_bootconfig.
kmalloc(t) ==
  /\ pc[t] = "kmalloc"
  /\ \E b \in Buffers \ allocated :
       /\ fake_cmdline_or_bootconfig' = b
       /\ buf' = [buf EXCEPT ![b] = Garbage]
       /\ allocated' = allocated \cup {b}
       /\ dst' = [dst EXCEPT ![t] = b]
  /\ Goto(t, "lock")
  /\ UNCHANGED <<committed, lost, sus_su, reader, quiet, susfs_spin_lock, susfs_is_log_enabled,
                 command>>

kmalloc_fails(t) ==
  /\ pc[t] = "kmalloc"
  /\ fake_cmdline_or_bootconfig' = NULL
  /\ lost' = (lost \/ fake_cmdline_or_bootconfig # NULL)
  /\ Goto(t, "idle")
  /\ UNCHANGED <<buf, allocated, committed, sus_su, reader, quiet, dst, susfs_spin_lock,
                 susfs_is_log_enabled, command>>

spin_lock(t) ==
  /\ pc[t] = "lock" /\ susfs_spin_lock = NoTask
  /\ susfs_spin_lock' = t
  /\ Goto(t, "memset")
  /\ UNCHANGED <<cmdline, sus_su, reader, quiet, dst, susfs_is_log_enabled, command>>

\* Mutant: the buffer is the one seen before the lock was taken.
memset_stale(t) ==
  /\ pc[t] = "memset"
  /\ IF dst[t] = NULL
       THEN Goto(t, "dead") /\ UNCHANGED buf
       ELSE Goto(t, "copy") /\ buf' = [buf EXCEPT ![dst[t]] = Blank]
  /\ UNCHANGED <<fake_cmdline_or_bootconfig, allocated, committed, lost, sus_su, reader, quiet,
                 dst, susfs_spin_lock, susfs_is_log_enabled, command>>

\* The pointer is read again; a NULL pointer is an oops with the lock held.
memset(t) ==
  /\ pc[t] = "memset"
  /\ dst' = [dst EXCEPT ![t] = fake_cmdline_or_bootconfig]
  /\ IF fake_cmdline_or_bootconfig = NULL
       THEN Goto(t, "dead") /\ UNCHANGED buf
       ELSE Goto(t, "copy") /\ buf' = [buf EXCEPT ![fake_cmdline_or_bootconfig] = Blank]
  /\ UNCHANGED <<fake_cmdline_or_bootconfig, allocated, committed, lost, sus_su, reader, quiet,
                 susfs_spin_lock, susfs_is_log_enabled, command>>

\* Mutant: a copy that faults gives the buffer up.
strncpy_from_user_reset(t) ==
  /\ pc[t] = "copy"
  /\ \E res \in Texts \cup {Blank, Part} :
       /\ buf' = [buf EXCEPT ![dst[t]] = res]
       /\ committed' = res
       /\ fake_cmdline_or_bootconfig' = IF res = Part THEN NULL ELSE fake_cmdline_or_bootconfig
  /\ Goto(t, "unlock")
  /\ UNCHANGED <<allocated, lost, sus_su, reader, quiet, dst, susfs_spin_lock,
                 susfs_is_log_enabled, command>>

\* A fault leaves the buffer blank or with a part of the text, as the empty
\* string leaves it blank.  The compiler may or may not read the pointer again.
strncpy_from_user(t) ==
  /\ pc[t] = "copy"
  /\ \E to \in {dst[t], fake_cmdline_or_bootconfig}, res \in Texts \cup {Blank, Part} :
       \/ /\ to # NULL
          /\ buf' = [buf EXCEPT ![to] = res]
          /\ dst' = [dst EXCEPT ![t] = to]
          /\ committed' = res
          /\ Goto(t, "unlock")
       \/ /\ to = NULL
          /\ Goto(t, "dead")
          /\ UNCHANGED <<buf, dst, committed>>
  /\ UNCHANGED <<fake_cmdline_or_bootconfig, allocated, lost, sus_su, reader, quiet,
                 susfs_spin_lock, susfs_is_log_enabled, command>>

\* Mutant: the lock is not given back.
spin_unlock_forgotten(t) ==
  /\ pc[t] = "unlock"
  /\ Goto(t, "idle")
  /\ UNCHANGED <<cmdline, sus_su, reader, quiet, dst, susfs_spin_lock, susfs_is_log_enabled,
                 command>>

spin_unlock(t) ==
  /\ pc[t] = "unlock"
  /\ susfs_spin_lock' = NoTask
  /\ Goto(t, IF buf[dst[t]] \in Texts THEN "log" ELSE "idle")
  /\ UNCHANGED <<cmdline, sus_su, reader, quiet, dst, susfs_is_log_enabled, command>>

\* A success is logged with strlen of the buffer, read once more.
log(t) ==
  /\ pc[t] = "log"
  /\ Goto(t, IF susfs_is_log_enabled /\ fake_cmdline_or_bootconfig = NULL THEN "dead" ELSE "idle")
  /\ UNCHANGED <<cmdline, sus_su, reader, quiet, dst, susfs_spin_lock, susfs_is_log_enabled,
                 command>>

susfs_set_cmdline_or_bootconfig(t) ==
  test_buffer(t) \/ kmalloc(t) \/ kmalloc_fails(t) \/ spin_lock(t) \/ memset(t)
  \/ strncpy_from_user(t) \/ spin_unlock(t) \/ log(t)

-----------------------------------------------------------------------------
(* cmdline_proc_show calls susfs_spoof_cmdline_or_bootconfig.               *)
cmdline_proc_show(r) ==
  /\ rpc[r] = "idle"
  /\ rpc' = [rpc EXCEPT ![r] = "test"]
  /\ got' = [got EXCEPT ![r] = Reading]
  /\ quiet' = [quiet EXCEPT ![r] = Setters = {}]
  /\ UNCHANGED <<rdst, first, cmdline, sus_su, dst, pc, susfs_spin_lock, susfs_is_log_enabled,
                 command>>

\* Mutant: a blank text counts as none.
test_pointer_blank(r) ==
  /\ rpc[r] = "test"
  /\ IF Shown \in {Real, Blank}
       THEN /\ rpc' = [rpc EXCEPT ![r] = "idle"]
            /\ got' = [got EXCEPT ![r] = Real]
            /\ UNCHANGED rdst
       ELSE /\ rpc' = [rpc EXCEPT ![r] = "puts"]
            /\ rdst' = [rdst EXCEPT ![r] = fake_cmdline_or_bootconfig]
            /\ UNCHANGED got
  /\ UNCHANGED <<first, quiet, cmdline, sus_su, dst, pc, susfs_spin_lock, susfs_is_log_enabled,
                 command>>

test_pointer(r) ==
  /\ rpc[r] = "test"
  /\ IF fake_cmdline_or_bootconfig = NULL
       THEN /\ rpc' = [rpc EXCEPT ![r] = "idle"]
            /\ got' = [got EXCEPT ![r] = Real]
            /\ UNCHANGED rdst
       ELSE /\ rpc' = [rpc EXCEPT ![r] = "puts"]
            /\ rdst' = [rdst EXCEPT ![r] = fake_cmdline_or_bootconfig]
            /\ UNCHANGED got
  /\ UNCHANGED <<first, quiet, cmdline, sus_su, dst, pc, susfs_spin_lock, susfs_is_log_enabled,
                 command>>

\* The pointer that was tested or, if the compiler reads it again, what it is now.
seq_puts(r) ==
  /\ rpc[r] = "puts"
  /\ \E from \in {rdst[r], fake_cmdline_or_bootconfig} :
       \/ /\ from # NULL
          /\ rdst' = [rdst EXCEPT ![r] = from]
          /\ first' = [first EXCEPT ![r] = buf[from]]
          /\ rpc' = [rpc EXCEPT ![r] = "rest"]
       \/ /\ from = NULL
          /\ rpc' = [rpc EXCEPT ![r] = "dead"]
          /\ UNCHANGED <<rdst, first>>
  /\ UNCHANGED <<got, quiet, cmdline, sus_su, dst, pc, susfs_spin_lock, susfs_is_log_enabled,
                 command>>

seq_puts_rest(r) ==
  /\ rpc[r] = "rest"
  /\ got' = [got EXCEPT ![r] = IF buf[rdst[r]] = first[r] THEN first[r] ELSE Torn]
  /\ rpc' = [rpc EXCEPT ![r] = "idle"]
  /\ UNCHANGED <<rdst, first, quiet, cmdline, sus_su, dst, pc, susfs_spin_lock,
                 susfs_is_log_enabled, command>>

susfs_spoof_cmdline_or_bootconfig(r) == test_pointer(r) \/ seq_puts(r) \/ seq_puts_rest(r)

-----------------------------------------------------------------------------
(* susfs_set_log.                                                           *)
set_log_lock(t) ==
  /\ Issues(t, "CMD_SUSFS_ENABLE_LOG") /\ susfs_spin_lock = NoTask
  /\ susfs_spin_lock' = t
  /\ Goto(t, "log_store")
  /\ UNCHANGED <<cmdline, sus_su, reader, quiet, dst, susfs_is_log_enabled, command>>

set_log_store(t) ==
  /\ pc[t] = "log_store"
  /\ susfs_is_log_enabled' \in BOOLEAN
  /\ susfs_spin_lock' = NoTask
  /\ Goto(t, "idle")
  /\ UNCHANGED <<cmdline, sus_su, reader, quiet, dst, command>>

susfs_set_log(t) == set_log_lock(t) \/ set_log_store(t)

-----------------------------------------------------------------------------
(* susfs_sus_su.  KernelSU puts its own hooks back when sus_su is disabled.  *)

\* The mode is read before the arguments are copied from user space.
read_mode(t) ==
  /\ Issues(t, "CMD_SUSFS_SUS_SU")
  /\ last_working_mode' = [last_working_mode EXCEPT ![t] = susfs_sus_su_working_mode]
  /\ Goto(t, "sus_su")
  /\ UNCHANGED <<susfs_sus_su_working_mode, susfs_is_sus_su_hooks_enabled, kprobes, alone, settled,
                 cmdline, reader, quiet, dst, susfs_spin_lock, susfs_is_log_enabled, command>>

\* A switch is alone until another one overlaps it.
Overlap(t) ==
  LET others == {u \in Tasks \ {t} : pc[u] \in Switching}
  IN alone' = [u \in Tasks |-> IF u = t THEN others = {} ELSE alone[u] /\ u \notin others]

\* Mode 1 is deprecated; it, an unknown mode and a copy that faults are refused.
copy_mode(t) ==
  /\ pc[t] = "sus_su"
  /\ \E next \in {"enable_ksu", "disable_hooks", "idle"} :
       /\ next = "enable_ksu" => last_working_mode[t] = SUS_SU_DISABLED
       /\ next = "disable_hooks" => last_working_mode[t] # SUS_SU_DISABLED
       /\ Goto(t, next)
       /\ IF next = "idle" THEN UNCHANGED alone ELSE Overlap(t)
  /\ UNCHANGED <<susfs_sus_su_working_mode, susfs_is_sus_su_hooks_enabled, kprobes,
                 last_working_mode, settled, cmdline, reader, quiet, dst, susfs_spin_lock,
                 susfs_is_log_enabled, command>>

\* A step of a switch: what it assigns, and where it goes on.
Switch(t, from, to, mode, hooks, ksu) ==
  /\ pc[t] = from
  /\ Goto(t, to)
  /\ susfs_sus_su_working_mode' = mode
  /\ susfs_is_sus_su_hooks_enabled' = hooks
  /\ kprobes' = ksu
  /\ settled' = IF to = "idle" THEN alone[t] ELSE settled
  /\ UNCHANGED <<last_working_mode, alone, cmdline, reader, quiet, dst, susfs_spin_lock,
                 susfs_is_log_enabled, command>>

enable(t) ==
  \/ Switch(t, "enable_ksu", "enable_mode",
            susfs_sus_su_working_mode, susfs_is_sus_su_hooks_enabled, FALSE)
  \/ Switch(t, "enable_mode", "enable_hooks",
            SUS_SU_WITH_HOOKS, susfs_is_sus_su_hooks_enabled, kprobes)
  \/ Switch(t, "enable_hooks", "idle", susfs_sus_su_working_mode, TRUE, kprobes)

\* Mutant: the hooks of susfs stay.
disable_kept(t) ==
  \/ Switch(t, "disable_hooks", "disable_ksu",
            susfs_sus_su_working_mode, susfs_is_sus_su_hooks_enabled, kprobes)
  \/ Switch(t, "disable_ksu", "disable_mode",
            susfs_sus_su_working_mode, susfs_is_sus_su_hooks_enabled, TRUE)
  \/ Switch(t, "disable_mode", "idle",
            SUS_SU_DISABLED, susfs_is_sus_su_hooks_enabled, kprobes)

disable(t) ==
  \/ Switch(t, "disable_hooks", "disable_ksu", susfs_sus_su_working_mode, FALSE, kprobes)
  \/ Switch(t, "disable_ksu", "disable_mode",
            susfs_sus_su_working_mode, susfs_is_sus_su_hooks_enabled, TRUE)
  \/ Switch(t, "disable_mode", "idle",
            SUS_SU_DISABLED, susfs_is_sus_su_hooks_enabled, kprobes)

susfs_sus_su(t) == read_mode(t) \/ copy_mode(t) \/ enable(t) \/ disable(t)

-----------------------------------------------------------------------------
Next ==
  \/ \E t \in Tasks :
       susfs_set_cmdline_or_bootconfig(t) \/ susfs_set_log(t) \/ susfs_sus_su(t)
  \/ \E r \in Readers : cmdline_proc_show(r) \/ susfs_spoof_cmdline_or_bootconfig(r)

Spec == Init /\ [][Next]_vars

-----------------------------------------------------------------------------
\* The type of the state; a task that is between lock and unlock holds the
\* lock, and only allocated buffers are used.
TypeOK ==
  /\ command \in [Tasks -> Commands]
  /\ fake_cmdline_or_bootconfig \in allocated \cup {NULL}
  /\ buf \in [Buffers -> Contents] /\ allocated \subseteq Buffers
  /\ susfs_spin_lock \in Tasks \cup {NoTask}
  /\ susfs_is_log_enabled \in BOOLEAN
  /\ susfs_sus_su_working_mode \in {SUS_SU_DISABLED, SUS_SU_WITH_HOOKS}
  /\ susfs_is_sus_su_hooks_enabled \in BOOLEAN /\ kprobes \in BOOLEAN
  /\ pc \in [Tasks -> Setting \cup Switching \cup {"idle", "dead", "log_store", "sus_su"}]
  /\ dst \in [Tasks -> allocated \cup {NULL}]
  /\ last_working_mode \in [Tasks -> {SUS_SU_DISABLED, SUS_SU_WITH_HOOKS}]
  /\ rpc \in [Readers -> {"idle", "test", "puts", "rest", "dead"}]
  /\ rdst \in [Readers -> allocated \cup {NULL}]
  /\ first \in [Readers -> Contents]
  /\ got \in [Readers -> Contents \cup {Real, Torn, Reading}]
  /\ committed \in Texts \cup {Real, Blank, Part} /\ lost \in BOOLEAN
  /\ quiet \in [Readers -> BOOLEAN]
  /\ alone \in [Tasks -> BOOLEAN] /\ settled \in BOOLEAN
  /\ \A t \in Tasks : pc[t] \in Locked => susfs_spin_lock = t
  /\ \A t \in Tasks : susfs_spin_lock = t => pc[t] \in Locked \cup {"dead"}
  /\ \A t \in Tasks : pc[t] \in {"copy", "unlock"} => dst[t] # NULL
  /\ \A r \in Readers : rpc[r] \in {"puts", "rest"} => rdst[r] # NULL

\* Between commands /proc/cmdline shows exactly what the last copy from user
\* space left, never what kmalloc returned, though two first callers may each
\* have allocated a buffer, unless a kmalloc that failed has dropped the buffer.
QuietExact == (Setters = {} /\ ~lost) => Shown = committed

\* Neither a command nor a reader follows a NULL pointer, unless a kmalloc that
\* failed has overwritten a pointer that was already in use.
NoOopsUnlessLost ==
  (\E t \in Tasks : pc[t] = "dead") \/ (\E r \in Readers : rpc[r] = "dead") => lost

\* First callers that race may each allocate a buffer, and all but one leak;
\* but it happens once for a task, however many commands it issues.
BuffersBounded ==
  ~lost => Cardinality(allocated) + Cardinality({t \in Tasks : pc[t] = "kmalloc"})
             <= Cardinality(Tasks)

\* Between switches the mode that is reported, the hooks of susfs and those of
\* KernelSU agree, if the last switch was alone: it repairs whatever switches
\* that overlapped have left, stale modes included.
SusSuAgree ==
  (settled /\ \A t \in Tasks : pc[t] \notin Switching) =>
    /\ susfs_is_sus_su_hooks_enabled <=> susfs_sus_su_working_mode = SUS_SU_WITH_HOOKS
    /\ kprobes <=> susfs_sus_su_working_mode = SUS_SU_DISABLED

\* The spoofed command line is a register that is safe for its readers.
Register == INSTANCE SafeRegister WITH
  Writers <- Tasks, Values <- Contents \cup {Real, Torn}, Initial <- Real,
  value <- Shown, writing <- Setters,
  reading <- [r \in Readers |-> IF rpc[r] = "idle" THEN "idle"
                               ELSE IF quiet[r] THEN "clean" ELSE "overlapped"]

\* Every step of the commands and of the readers is one of the register's.
ImplementsRegister == Register!Spec
=============================================================================
