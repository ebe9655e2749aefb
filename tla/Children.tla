------------------------------ MODULE Children ------------------------------
(***************************************************************************)
(* The kernel's side of init's children, as src/src/main.c uses it: fork,  *)
(* kill, the exit status waitpid returns, and the signals that wait on     *)
(* init's signalfd.  The processes run concurrently with init; each step   *)
(* of theirs is an action of its own.                                      *)
(***************************************************************************)
EXTENDS InittabEntry, FiniteSets

CONSTANTS Entry,     \* the entries of the inittab
          Instance,  \* distinguishes the processes forked for one entry
          Faults     \* what may go wrong in this instance (see Fault)

VARIABLES proc,      \* proc[p]: the kernel's view of process p
          sigs       \* the signals pending on init's signalfd

\* A process identifier; the kernel may hand it out again once it is reaped.
Pid == Entry \X Instance

\* struct process.config: the entry a process was started for.
config(p) == p[1]

\* The faults of an instance: children that crash, a placeholder that dies,
\* and failing system or library calls of init.
Fault == {"crash", "placeholder", "setup", "fork", "calloc", "timer",
          "pipe", "waitpid", "reboot"}

ASSUME ConstantsAssumption ==
    /\ Entry \subseteq EntryRecord
    /\ IsFiniteSet(Entry)
    /\ IsFiniteSet(Instance)
    /\ Faults \subseteq Fault

\* The signals of setup_signals, blocked and received through the signalfd.
ShutdownSignal == {"TERM", "USR1", "USR2"}
Signal == {"CHLD"} \cup ShutdownSignal

\* signalfd returns the pending signal with the lowest number first.
Number(signal) ==
    CASE signal = "USR1" -> 10 [] signal = "USR2" -> 12
      [] signal = "TERM" -> 15 [] signal = "CHLD" -> 17
FirstPending(signal) ==
    signal \in sigs /\ \A other \in sigs : Number(signal) <= Number(other)

\* What a wait status tells the code: exit 0, another exit code, a signal.
Killer == {"SEGV", "TERM", "KILL"}
Status == {"exit0", "exit1"} \cup Killer

\* "waiting" is the safe-mode placeholder blocked on its pipe; "termed" and
\* "killed" processes were sent SIGTERM and SIGKILL; a Status is a zombie.
Alive == {"waiting", "run", "termed", "killed"}
ProcState == {"none"} \cup Alive \cup Status

Zombies == {p \in Pid : proc[p] \in Status}

\* The process identifiers fork may return for an entry.
FreePids(entry) == {p \in Pid : config(p) = entry /\ proc[p] = "none"}

\* Variant: SIGKILL is not sent.
Killed_NoOne(procs) == proc

\* kill(2) on the processes of a set: SIGTERM or SIGKILL, without effect on
\* a process that is already dead.
Terminated(procs) ==
    [p \in Pid |-> IF p \in procs /\ proc[p] = "run" THEN "termed" ELSE proc[p]]
Killed(procs) ==
    [p \in Pid |-> IF p \in procs /\ proc[p] \in {"run", "termed"}
                   THEN "killed" ELSE proc[p]]

\* How a process may end: any process may exit with 0 once it runs its
\* program, SIGTERM ends it or is caught, SIGKILL always ends it.  Crashes and
\* non-zero exits are faults.  The placeholder never exits with 0: every path
\* out of safe_mode_wait is _exit(1).
Ends(state) ==
    CASE state = "run"     -> {"exit0"} \cup
                              (IF "crash" \in Faults THEN {"exit1", "SEGV"} ELSE {})
      [] state = "termed"  -> {"exit0", "TERM"} \cup
                              (IF "crash" \in Faults THEN {"exit1", "SEGV"} ELSE {})
      [] state = "killed"  -> {"KILL"}
      [] state = "waiting" -> IF "placeholder" \in Faults THEN {"exit1", "SEGV"} ELSE {}
      [] OTHER             -> {}

\* Process p ends: it becomes a zombie, and SIGCHLD is pending (coalesced).
ChildExit(p) ==
    /\ \E status \in Ends(proc[p]) : proc' = [proc EXCEPT ![p] = status]
    /\ sigs' = sigs \cup {"CHLD"}

\* A process init did not start, adopted by PID 1, ends: only a SIGCHLD.
OrphanExit ==
    /\ sigs' = sigs \cup {"CHLD"}
    /\ UNCHANGED proc

=============================================================================
