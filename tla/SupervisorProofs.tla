-------------------------- MODULE SupervisorProofs --------------------------
(***************************************************************************)
(* Proofs about Supervisor, for every inittab, every set of faults and any *)
(* number of processes, timers and requests.                               *)
(***************************************************************************)
EXTENDS Supervisor, FiniteSetTheorems, TLAPS

\* The steps expand large actions: the SMT solver is given up to a minute for each.
USE SMTT(60)

(* Arithmetic of pending_finish, a uint32_t. *)

\* Below the modulus nothing wraps.
LEMMA ModSmall == ASSUME NEW m \in Nat, NEW n \in Nat, n < m PROVE n % m = n
  BY Z3

\* Decrementing a positive number is exact.
LEMMA ModDecrement ==
  ASSUME NEW m \in Nat, NEW n \in Nat, 0 < n, n < m
  PROVE  (n + m - 1) % m = n - 1
  BY Z3

\* A result modulo m is in range.
LEMMA ModRange ==
  ASSUME NEW m \in Nat, m > 0, NEW n \in Nat PROVE n % m \in 0 .. m - 1
  BY Z3

\* The lists are lists of entries, and an entry has an order and a type.
LEMMA Constants ==
  /\ startup_list \in Seq(Entry) /\ shutdown_list \in Seq(Entry)
  /\ \A e \in Entry : e.order \in Int
  /\ safe_mode_entry \in Entry
  /\ UINT32 \in Nat
  BY SupervisorAssumption, ConstantsAssumption
  DEF SupervisorAssumption, ConstantsAssumption, ListOf, EntryRecord

\* The set of process identifiers is finite, and fits pending_finish.
LEMMA PidFinite == IsFiniteSet(Pid) /\ Cardinality(Pid) \in Nat /\ UINT32 > 0
<1>1. IsFiniteSet(Pid)
  BY FS_Product, ConstantsAssumption DEF ConstantsAssumption, Pid
<1>2. Cardinality(Pid) \in Nat
  BY <1>1, FS_CardinalityType
<1>3. QED
  BY <1>1, <1>2, SupervisorAssumption DEF SupervisorAssumption

\* Where the loop goes is a location of init.
LEMMA NextEventType == ASSUME NEW b PROVE NextEvent(b) \in {"dispatch", "leave", "epoll"}
  BY DEF NextEvent

\* mainloop_add_timeout returns a timer or NULL.
LEMMA AddTimeoutType ==
  ASSUME NEW kind \in TimerKind, NEW faulty
  PROVE  mainloop_add_timeout(kind, faulty) \subseteq Timer \cup {NULL}
  BY DEF mainloop_add_timeout, NewTimers, Unused, Timer

\* Adding it keeps a set of timers one.
LEMMA AddedType ==
  ASSUME NEW S \in SUBSET Timer, NEW mt \in Timer \cup {NULL}
  PROVE  Added(mt, S) \in SUBSET Timer /\ S \subseteq Added(mt, S)
  BY DEF Added

\* The loop of start_processes stays in its list.
LEMMA AdvancedType ==
  ASSUME sp \in StartLocals, sp.entry # <<>>, NEW b \in BOOLEAN
  PROVE  Advanced(b) \in StartLocals
<1> DEFINE rest == Tail(sp.entry)
<1>1. rest \in Seq(Entry) /\ sp.order \in Int
  BY DEF StartLocals
<1>2. rest # <<>> => Head(rest).order \in Int
  BY <1>1, Constants
<1>3. QED
  BY Zenon, <1>1, <1>2 DEF Advanced, StartLocals

-----------------------------------------------------------------------------
(* Type correctness *)

\* A safe process that died abnormally gives a report.
LEMMA DeceasedType ==
  ASSUME TypeOK, NEW p \in Zombies, Abnormal(p)
  PROVE  Deceased(p) \in SUBSET Report
  BY DEF TypeOK, Zombies, Abnormal, Deceased, Report, config, Pid, Status, Killer

\* How a process ends is a wait status, and it ends only if it is alive.
LEMMA EndsType ==
  ASSUME NEW state \in ProcState
  PROVE  Ends(state) \subseteq Status /\ (Ends(state) # {} => state \in Alive)
  BY DEF Ends, Status, Killer, ProcState, Alive

\* start_processes begins with a list of entries.
LEMMA StartProcessesType ==
  ASSUME TypeOK, NEW list \in Seq(Entry), NEW caller \in {"main", "maint", "term"},
         start_processes(list, caller)
  PROVE  /\ sp' \in StartLocals /\ attempted' \subseteq Entry
         /\ pending_finish' \in 0 .. UINT32 - 1 /\ pc' = "start"
<1>1. (IF list = <<>> THEN 0 ELSE Head(list).order) \in Int
  BY Constants
<1>2. sp' \in StartLocals
  BY <1>1 DEF start_processes, StartLocals
<1>3. pending_finish' \in 0 .. UINT32 - 1
  BY PidFinite, Constants DEF start_processes
<1>4. QED
  BY <1>2, <1>3 DEF start_processes, TypeOK

\* start_safe_mode writes a report to the pipe or panics.
LEMMA StartSafeModeType ==
  ASSUME TypeOK, NEW report \in Report, NEW next \in {"start", "reaped"},
         start_safe_mode(report, next)
  PROVE  pipe' \in Seq(Report) /\ safe_mode_on' \in BOOLEAN /\ pc' \in {next, "panic"}
<1>1. CASE execute_safe_mode(report) /\ safe_mode_on' = TRUE /\ pc' = next
  BY <1>1 DEF execute_safe_mode, TypeOK
<1>2. CASE pc' = "panic" /\ UNCHANGED <<pipe, safe_mode_on>>
  BY <1>2 DEF TypeOK
<1>3. QED
  BY Zenon, <1>1, <1>2 DEF start_safe_mode

\* Every step keeps the types.
LEMMA TypeStep == TypeOK /\ [Next]_vars => TypeOK'
<1> SUFFICES ASSUME TypeOK, [Next]_vars PROVE TypeOK'
  OBVIOUS
<1> USE Constants DEF TypeOK, safeVars, loopVars, stageVars, listVars, timeoutVars,
        startVars, reapVars, initVars, Location, Terminal, ProcState, Alive
<1>1. CASE Boot
  <2>1. PICK mt \in Timer \cup {NULL} : timers' = Added(mt, timers)
    BY <1>1, AddTimeoutType DEF Boot, TimerKind
  <2>2. timers' \subseteq Timer /\ timers \subseteq timers'
    BY <2>1, AddedType
  <2>3. sp' \in StartLocals /\ pc' \in Location /\ attempted' \subseteq Entry
        /\ pending_finish' \in 0 .. UINT32 - 1
    BY <1>1, StartProcessesType DEF Boot
  <2>4. proc' \in [Pid -> ProcState] /\ running' \subseteq Pid /\ pipe' \in Seq(Report)
    BY <1>1 DEF Boot, setup_safe_mode
  <2>5. QED
    BY <1>1, <2>2, <2>3, <2>4 DEF Boot, Stage
<1>2. CASE BootFails
  BY <1>2 DEF BootFails
<1>3. CASE SpawnOne
  <2>1. sp.entry # <<>> /\ Head(sp.entry) \in Entry
    BY <1>3 DEF SpawnOne, MoreToStart, StartLocals
  <2>2. sp' \in StartLocals
    BY Zenon, <1>3, <2>1, AdvancedType DEF SpawnOne, is_one_shot_entry, StartLocals
  <2>3. pending_finish' \in 0 .. UINT32 - 1
    BY <1>3, PidFinite, ModRange DEF SpawnOne
  <2>4. proc' \in [Pid -> ProcState] /\ running' \subseteq Pid
    BY <1>3 DEF SpawnOne, FreePids
  <2>5. QED
    BY <1>3, <2>1, <2>2, <2>3, <2>4 DEF SpawnOne
<1>4. CASE SpawnFails
  <2>1. sp.entry # <<>> /\ Head(sp.entry) \in Entry
    BY <1>4 DEF SpawnFails, MoreToStart, StartLocals
  <2>2. sp' \in StartLocals
    BY <1>4, <2>1, AdvancedType DEF SpawnFails, StartLocals
  <2>3. [process_name |-> Head(sp.entry), signal |-> "-1", ended |-> "fork"] \in Report
    BY <2>1 DEF Report
  <2>4. pipe' \in Seq(Report) /\ safe_mode_on' \in BOOLEAN /\ pc' \in Location
    <3>1. CASE is_safe_entry(Head(sp.entry))
      BY ZenonT(60), <1>4, <2>3, <3>1, StartSafeModeType DEF SpawnFails
    <3>2. CASE ~is_safe_entry(Head(sp.entry))
      BY <1>4, <3>2 DEF SpawnFails
    <3>3. QED
      BY <3>1, <3>2
  <2>5. QED
    BY ZenonT(60), <1>4, <2>1, <2>2, <2>4 DEF SpawnFails
<1>5. CASE StartDone
  <2>1. remaining' \in Seq(Entry) /\ sp' \in StartLocals
    BY <1>5 DEF StartDone, StartLocals, Idle
  <2>2. PICK mt \in Timer \cup {NULL}, freed \in SUBSET (Timer \cup {NULL}) :
           /\ one_shot_timeout' \in {mt, one_shot_timeout}
           /\ timers' = Added(mt, timers) \ freed
           /\ expired' = expired \ freed
           /\ kill_timeout' \in {NULL, kill_timeout}
    BY Zenon, <1>5, AddTimeoutType DEF StartDone, TimerKind
  <2>3. timers' \subseteq Timer /\ expired' \subseteq timers'
    BY <2>2, AddedType
  <2>4. pc' \in Location /\ should_exit' \in BOOLEAN
    BY Zenon, <1>5, NextEventType DEF StartDone
  <2>5. QED
    BY ZenonT(60), <1>5, <2>1, <2>2, <2>3, <2>4 DEF StartDone
<1>6. CASE Wait
  BY ZenonT(60), <1>6 DEF Wait, epoll_wait, Ready, Event
<1>7. CASE DispatchSigchld
  BY Zenon, <1>7 DEF DispatchSigchld
<1>8. ASSUME NEW s \in ShutdownSignal, handle_shutdown_cmd(s) PROVE TypeOK'
  <2>1. PICK mt \in Timer \cup {NULL} :
           kill_timeout' = mt /\ timers' = Added(mt, timers \ {one_shot_timeout})
    BY <1>8, AddTimeoutType DEF handle_shutdown_cmd, TimerKind
  <2>2. timers' \subseteq Timer /\ timers \ {one_shot_timeout} \subseteq timers'
    BY <2>1, AddedType
  <2>3. proc' \in [Pid -> ProcState]
    BY ZenonT(60), <1>8 DEF handle_shutdown_cmd, Terminated
  <2>4. remaining' \in Seq(Entry) /\ pending_finish' \in 0 .. UINT32 - 1
    BY <1>8, PidFinite DEF handle_shutdown_cmd
  <2>5. QED
    BY Zenon, <1>8, <2>1, <2>2, <2>3, <2>4 DEF handle_shutdown_cmd, Stage
<1>9. ASSUME NEW t \in Timer, one_shot_timeout_cb(t) PROVE TypeOK'
  BY ZenonT(60), <1>9 DEF one_shot_timeout_cb
<1>10. ASSUME NEW t \in Timer, kill_timeout_cb(t) PROVE TypeOK'
  <2>1. proc' \in [Pid -> ProcState]
    BY ZenonT(60), <1>10 DEF kill_timeout_cb, Killed
  <2>2. QED
    BY ZenonT(60), <1>10, <2>1 DEF kill_timeout_cb
<1>11. ASSUME NEW t \in Timer, watchdog_feed(t) PROVE TypeOK'
  BY ZenonT(60), <1>11 DEF watchdog_feed
<1>12. ASSUME NEW t \in Timer, DispatchDangling(t) PROVE TypeOK'
  BY ZenonT(60), <1>12 DEF DispatchDangling
<1>13. CASE ReapOne
  <2>1. PICK p \in Zombies : ReapOne!2!(p)
    BY Zenon, <1>13 DEF ReapOne, Zombies
  <2>2. p \in Pid
    BY DEF Zombies
  <2>3. deceased' \subseteq Report
    BY ZenonT(60), <2>1, DeceasedType
  <2>4. pending_finish' \in 0 .. UINT32 - 1
    BY <2>1, PidFinite, ModRange
  <2>5. proc' \in [Pid -> ProcState] /\ running' \subseteq Pid
        /\ restart_placeholder' \in BOOLEAN /\ pc' \in Location
    BY Zenon, <2>1, <2>2, <1>13 DEF ReapOne
  <2>6. QED
    BY ZenonT(60), <1>13, <2>3, <2>4, <2>5 DEF ReapOne
<1>14. CASE ReapDone
  BY ZenonT(60), <1>14 DEF ReapDone
<1>15. CASE StartSafeMode
  <2>1. pipe' \in Seq(Report) /\ safe_mode_on' \in BOOLEAN /\ pc' \in Location
    BY ZenonT(60), <1>15, StartSafeModeType DEF StartSafeMode
  <2>2. QED
    BY ZenonT(60), <1>15, <2>1 DEF StartSafeMode
<1>16. CASE RestartPlaceholder
  <2>1. proc' \in [Pid -> ProcState] /\ running' \subseteq Pid /\ pipe' \in Seq(Report)
    <3>1. ASSUME NEW p \in Pid, setup_safe_mode(p)
          PROVE  proc' \in [Pid -> ProcState] /\ running' \subseteq Pid
                 /\ pipe' \in Seq(Report)
      BY <3>1 DEF setup_safe_mode
    <3>2. CASE UNCHANGED <<proc, running, pipe>>
      BY <3>2
    <3>3. QED
      BY Zenon, <1>16, <3>1, <3>2 DEF RestartPlaceholder
  <2>2. restart_placeholder' \in BOOLEAN /\ pc' \in Location
    BY Zenon, <1>16 DEF RestartPlaceholder
  <2>3. QED
    BY ZenonT(60), <1>16, <2>1, <2>2 DEF RestartPlaceholder
<1>17. CASE ChildExitHandled
  BY ZenonT(60), <1>17 DEF ChildExitHandled
<1>18. CASE NoCallback
  BY ZenonT(60), <1>18, NextEventType DEF NoCallback
<1>19. CASE NothingToDo
  BY ZenonT(60), <1>19, NextEventType DEF NothingToDo
<1>20. CASE OrderDone
  <2>1. sp' \in StartLocals /\ attempted' \subseteq Entry /\ pc' \in Location
        /\ pending_finish' \in 0 .. UINT32 - 1
    <3>1. CASE start_processes(remaining, "maint")
      BY ZenonT(60), <3>1, StartProcessesType
    <3>2. CASE UNCHANGED <<pending_finish, startVars>>
      BY Zenon, <1>20, <3>2, NextEventType DEF OrderDone, mainloop_exit, start_processes
    <3>3. QED
      BY Zenon, <1>20, <3>1, <3>2 DEF OrderDone
  <2>2. current_stage' \in Stage /\ should_exit' \in BOOLEAN /\ post_cb' \in BOOLEAN
    BY Zenon, <1>20 DEF OrderDone, mainloop_exit, Stage
  <2>3. QED
    BY ZenonT(60), <1>20, <2>1, <2>2 DEF OrderDone
<1>21. CASE TerminationDone
  <2>1. sp' \in StartLocals /\ attempted' \subseteq Entry /\ pc' \in Location
        /\ pending_finish' \in 0 .. UINT32 - 1
    <3>1. CASE start_processes(shutdown_list, "term")
      BY ZenonT(60), <3>1, StartProcessesType
    <3>2. CASE UNCHANGED <<pending_finish, startVars>> /\ mainloop_exit
      BY Zenon, <3>2, NextEventType DEF mainloop_exit
    <3>3. QED
      BY ZenonT(60), <1>21, <3>1, <3>2 DEF TerminationDone
  <2>2. current_stage' \in Stage /\ should_exit' \in BOOLEAN
        /\ timers' \subseteq Timer /\ expired' \subseteq timers'
        /\ kill_timeout' \in Timer \cup {NULL}
    BY Zenon, <1>21 DEF TerminationDone, mainloop_exit, Stage
  <2>3. QED
    BY ZenonT(60), <1>21, <2>1, <2>2 DEF TerminationDone
<1>22. CASE CloseAgain
  BY Zenon, <1>22, NextEventType DEF CloseAgain, mainloop_exit
<1>23. CASE Leave
  BY ZenonT(60), <1>23 DEF Leave
<1>24. ASSUME NEW p \in Pid, Exit(p) PROVE TypeOK'
  <2>1. proc' \in [Pid -> ProcState]
    BY Zenon, <1>24, EndsType DEF Exit, ChildExit
  <2>2. QED
    BY ZenonT(60), <1>24, <2>1 DEF Exit, ChildExit, Signal
<1>25. ASSUME NEW p \in Pid, PlaceholderExec(p) PROVE TypeOK'
  BY <1>25 DEF PlaceholderExec, safe_mode_wait
<1>26. CASE AdoptedExit
  BY ZenonT(60), <1>26 DEF AdoptedExit, OrphanExit, Signal
<1>27. ASSUME NEW s \in ShutdownSignal, Request(s) PROVE TypeOK'
  <2>1. requests' \in Nat
    BY <1>27 DEF Request
  <2>2. sigs' \subseteq Signal
    BY <1>27, Zenon DEF Request, Signal
  <2>3. QED
    BY ZenonT(60), <1>27, <2>1, <2>2 DEF Request
<1>28. ASSUME NEW t \in Timer, Elapse(t) PROVE TypeOK'
  BY ZenonT(60), <1>28 DEF Elapse, Expire
<1>29. CASE Ended \/ UNCHANGED vars
  <2>1. UNCHANGED vars
    BY Zenon, <1>29 DEF Ended
  <2>2. QED
    BY ZenonT(60), <2>1 DEF vars
<1>30. QED
  BY Zenon, <1>1, <1>2, <1>3, <1>4, <1>5, <1>6, <1>7, <1>8, <1>9, <1>10, <1>11, <1>12, <1>13,
     <1>14, <1>15, <1>16, <1>17, <1>18, <1>19, <1>20, <1>21, <1>22, <1>23, <1>24, <1>25,
     <1>26, <1>27, <1>28, <1>29
  DEF Next, InitStep, Environment

\* The initial state is well typed.
LEMMA TypeInit == Init => TypeOK
<1> SUFFICES ASSUME Init PROVE TypeOK
  OBVIOUS
<1>1. proc \in [Pid -> ProcState] /\ sigs \subseteq Signal
  BY DEF Init, ProcState
<1>2. pipe \in Seq(Report) /\ remaining \in Seq(Entry) /\ sp \in StartLocals
  <2>1. pipe = <<>> /\ remaining = <<>> /\ sp = Idle
    BY Zenon DEF Init
  <2>2. QED
    BY <2>1 DEF Idle, StartLocals
<1>3. pending_finish \in 0 .. UINT32 - 1
  BY Constants, PidFinite DEF Init
<1>4. pc \in Location /\ current_stage \in Stage /\ shutdown_command \in ShutdownSignal
  BY DEF Init, Location, Stage, ShutdownSignal
<1>5. QED
  BY Zenon, <1>1, <1>2, <1>3, <1>4 DEF Init, TypeOK

\* The variables of init and its environment keep their types, for every
\* inittab and every fault.
THEOREM TypeCorrect == Spec => []TypeOK
  BY TypeInit, TypeStep, PTL DEF Spec

-----------------------------------------------------------------------------
(* The counter of awaited processes is exact: running and pending_finish *)

\* Both lists of the inittab hold entries start_processes may be given.
LEMMA ListsListed == startup_list \in Seq(Listed) /\ shutdown_list \in Seq(Listed)
  BY SupervisorAssumption
  DEF SupervisorAssumption, ListOf, Listed, is_startup_entry, is_shutdown_entry

\* Safe mode is not a one-shot process.
LEMMA SafeModeNotAwaited ==
  ASSUME NEW e, e.type = "SAFE_MODE" PROVE ~is_one_shot_entry(e)
  BY DEF is_one_shot_entry

\* A set of processes is finite and counted in Nat, below the modulus.
LEMMA CountBound ==
  ASSUME NEW S \in SUBSET Pid
  PROVE  IsFiniteSet(S) /\ Cardinality(S) \in Nat /\ Cardinality(S) < UINT32
<1>1. IsFiniteSet(S) /\ Cardinality(S) <= Cardinality(Pid)
  BY PidFinite, FS_Subset
<1>2. Cardinality(S) \in Nat
  BY <1>1, FS_CardinalityType
<1>3. QED
  BY <1>1, <1>2, PidFinite, SupervisorAssumption DEF SupervisorAssumption

\* A set of at most one process that holds s is {s}.
LEMMA OnlyOne ==
  ASSUME NEW S \in SUBSET Pid, Cardinality(S) <= 1, NEW s \in S PROVE S = {s}
<1>1. IsFiniteSet(S) /\ Cardinality(S) \in Nat
  BY CountBound
<1>2. IsFiniteSet(S \ {s}) /\ Cardinality(S \ {s}) = Cardinality(S) - 1
  BY <1>1, FS_RemoveElement
<1>3. Cardinality(S \ {s}) \in Nat
  BY <1>2, FS_CardinalityType
<1>4. Cardinality(S \ {s}) = 0
  BY <1>1, <1>2, <1>3
<1>5. S \ {s} = {}
  BY <1>2, <1>4, FS_EmptySet
<1>6. QED
  BY <1>5

\* A step that neither forks nor reaps, and changes neither the stage nor the
\* counter, keeps CountingInv.
LEMMA QuietStep ==
  ASSUME CountingInv, pc \notin Terminal, pc' # "setup",
         UNCHANGED <<running, current_stage, pending_finish>>,
         \A p \in Pid : proc'[p] = "none" <=> proc[p] = "none",
         sp.entry' \in Seq(Listed), remaining' \in Seq(Listed),
         pc' \in {"reap", "reaped"} /\ restart_placeholder' =>
           pc \in {"reap", "reaped"} /\ restart_placeholder
  PROVE  CountingInv'
<1>1. RunningTracksChildren'
  BY DEF CountingInv, RunningTracksChildren
<1>2. SafeModeAvailable' => SafeModeAvailable
  BY DEF SafeModeAvailable, SafeModeProcess
<1>3. PendingExact'
  BY <1>2 DEF CountingInv, PendingExact, OneShots
<1>4. QED
  BY <1>1, <1>3 DEF CountingInv

-----------------------------------------------------------------------------
(* The steps that fork, reap or change the stage *)

\* setup_safe_mode adds a process that is not awaited.
LEMMA SetupSafeModeCounts ==
  ASSUME TypeOK, pc \notin Terminal, CountingInv, NEW p \in Pid, setup_safe_mode(p)
  PROVE  /\ running' = {q \in Pid : proc'[q] # "none"}
         /\ OneShots' = OneShots
<1>1. config(p).type = "SAFE_MODE" /\ proc[p] = "none"
  BY SupervisorAssumption DEF SupervisorAssumption, setup_safe_mode, FreePids
<1>2. running' = {q \in Pid : proc'[q] # "none"}
  BY DEF setup_safe_mode, TypeOK, CountingInv, RunningTracksChildren
<1>3. ~is_one_shot_entry(config(p))
  BY <1>1, SafeModeNotAwaited
<1>4. QED
  BY <1>2, <1>3 DEF setup_safe_mode, OneShots

\* Set-up forks only the placeholder, and start_processes then begins with nothing counted.
LEMMA BootCounts == TypeOK /\ CountingInv /\ Boot => CountingInv'
<1> SUFFICES ASSUME TypeOK, CountingInv, Boot PROVE CountingInv'
  OBVIOUS
<1>1. PICK p \in Pid : setup_safe_mode(p)
  BY DEF Boot
<1>2. pc \notin Terminal /\ pc' = "start"
  BY DEF Boot, start_processes, Terminal
<1>3. RunningTracksChildren' /\ OneShots' = OneShots
  BY <1>1, <1>2, SetupSafeModeCounts DEF RunningTracksChildren
<1>4. OneShots = {}
  BY DEF Boot, CountingInv, OneShots
<1>5. pending_finish' = Cardinality(OneShots')
  BY <1>3, <1>4, FS_EmptySet DEF Boot, start_processes
<1>6. sp.entry' \in Seq(Listed) /\ remaining' \in Seq(Listed)
  BY ListsListed DEF Boot, start_processes, CountingInv
<1>7. QED
  BY <1>2, <1>3, <1>5, <1>6 DEF CountingInv, PendingExact

\* A list without its first entry is still one of such entries.
LEMMA AdvancedListed ==
  ASSUME TypeOK, sp.entry \in Seq(Listed), sp.entry # <<>>, NEW b
  PROVE  Advanced(b).entry \in Seq(Listed) /\ Head(sp.entry) \in Listed
  BY DEF Advanced, TypeOK, StartLocals

\* Each iteration of start_processes counts the process it forks exactly if it is awaited.
LEMMA SpawnCounts == TypeOK /\ CountingInv /\ SpawnOne => CountingInv'
<1> SUFFICES ASSUME TypeOK, CountingInv, SpawnOne PROVE CountingInv'
  OBVIOUS
<1> DEFINE entry == Head(sp.entry)
<1>1. pc = "start" /\ pc' = "start" /\ sp.entry # <<>> /\ pc \notin Terminal
  BY ZenonT(60) DEF SpawnOne, MoreToStart, Terminal
<1>2. entry \in Listed /\ sp.entry' \in Seq(Listed) /\ remaining' \in Seq(Listed)
  BY ZenonT(60), <1>1, AdvancedListed DEF SpawnOne, CountingInv
<1>3. PICK p \in FreePids(entry) : /\ proc' = [proc EXCEPT ![p] = "run"]
                                   /\ running' = running \cup {p}
  BY Zenon DEF SpawnOne
<1>4. p \in Pid /\ config(p) = entry /\ proc[p] = "none" /\ p \notin running
  BY <1>1, <1>3 DEF FreePids, CountingInv, RunningTracksChildren
<1>5. RunningTracksChildren'
  BY <1>1, <1>3, <1>4 DEF CountingInv, RunningTracksChildren, TypeOK
<1>6. SafeModeAvailable' => SafeModeAvailable
  BY <1>1, <1>2, <1>3, <1>4 DEF SafeModeAvailable, SafeModeProcess, Listed
<1>7. ASSUME pending_finish = Cardinality(OneShots)
      PROVE  pending_finish' = Cardinality(OneShots')
  <2>1. CASE ~is_one_shot_entry(entry)
    <3>1. OneShots' = OneShots
      BY <1>3, <1>4, <2>1 DEF OneShots
    <3>2. QED
      BY <1>7, <2>1, <3>1 DEF SpawnOne
  <2>2. CASE is_one_shot_entry(entry)
    <3>1. OneShots' = OneShots \cup {p} /\ p \notin OneShots
      BY <1>3, <1>4, <2>2 DEF OneShots
    <3>2. OneShots \in SUBSET Pid /\ OneShots' \in SUBSET Pid
      BY <1>3, <1>4 DEF OneShots, TypeOK
    <3>3. /\ IsFiniteSet(OneShots) /\ Cardinality(OneShots) \in Nat
          /\ Cardinality(OneShots') < UINT32
      BY <3>2, CountBound
    <3>4. Cardinality(OneShots') = Cardinality(OneShots) + 1
      BY Zenon, <3>1, <3>3, FS_AddElement
    <3>5. pending_finish' = (pending_finish + 1) % UINT32
      BY <2>2 DEF SpawnOne
    <3>6. QED
      BY <1>7, <3>3, <3>4, <3>5, ModSmall, Constants
  <2>3. QED
    BY <2>1, <2>2
<1>8. PendingExact'
  BY <1>1, <1>6, <1>7 DEF SpawnOne, stageVars, CountingInv, PendingExact
<1>9. QED
  BY <1>1, <1>2, <1>5, <1>8 DEF CountingInv

\* Each iteration of handle_child_exit discounts the process it reaps exactly if it was awaited.
LEMMA ReapCounts == TypeOK /\ CountingInv /\ ReapOne => CountingInv'
<1> SUFFICES ASSUME TypeOK, CountingInv, ReapOne PROVE CountingInv'
  OBVIOUS
<1>1. pc = "reap" /\ pc \notin Terminal /\ UNCHANGED <<current_stage, sp, remaining>>
  BY DEF ReapOne, Terminal, stageVars, startVars
<1>2. PICK p \in Zombies : ReapOne!2!(p)
  BY ZenonT(60) DEF ReapOne, Zombies
<1>3. p \in Pid /\ proc[p] # "none" /\ p \in running
  BY <1>1 DEF Zombies, Status, Killer, CountingInv, RunningTracksChildren
<1>4. CASE pc' = "panic"
  BY <1>1, <1>4
  DEF CountingInv, RunningTracksChildren, PendingExact, Terminal
<1>5. CASE pc' # "panic"
  <2>1. /\ running' = running \ {p} /\ proc' = [proc EXCEPT ![p] = "none"] /\ pc' = "reap"
        /\ restart_placeholder' => restart_placeholder \/ config(p).type = "SAFE_MODE"
    BY Zenon, <1>1, <1>2, <1>5
  <2>2. RunningTracksChildren'
    BY <1>1, <1>3, <2>1 DEF CountingInv, RunningTracksChildren, TypeOK
  <2>3. SafeModeAvailable' => SafeModeAvailable
    BY <1>1, <1>3, <2>1 DEF SafeModeAvailable, SafeModeProcess
  <2>4. ASSUME pending_finish = Cardinality(OneShots),
               current_stage \in {"STARTUP", "SHUTDOWN"}
        PROVE  pending_finish' = Cardinality(OneShots')
    <3>1. CASE ~is_one_shot_entry(config(p))
      <4>1. OneShots' = OneShots
        BY <2>1, <3>1 DEF OneShots
      <4>2. QED
        BY <1>2, <1>5, <2>4, <3>1, <4>1 DEF Awaited
    <3>2. CASE is_one_shot_entry(config(p))
      <4>1. OneShots' = OneShots \ {p} /\ p \in OneShots /\ OneShots \in SUBSET Pid
        BY <1>3, <2>1, <3>2 DEF OneShots, TypeOK
      <4>2. /\ IsFiniteSet(OneShots) /\ Cardinality(OneShots) \in Nat
            /\ Cardinality(OneShots) < UINT32
        BY <4>1, CountBound
      <4>3. Cardinality(OneShots') = Cardinality(OneShots) - 1 /\ Cardinality(OneShots) # 0
        BY <4>1, <4>2, FS_RemoveElement, FS_EmptySet
      <4>4. pending_finish' = (pending_finish + UINT32 - 1) % UINT32
        BY <1>2, <1>3, <1>5, <2>4, <3>2 DEF Awaited
      <4>5. UINT32 \in Nat /\ 0 < Cardinality(OneShots)
        BY <4>2, <4>3, Constants
      <4>6. (Cardinality(OneShots) + UINT32 - 1) % UINT32 = Cardinality(OneShots) - 1
        BY <4>2, <4>5, ModDecrement
      <4>7. QED
        BY <2>4, <4>3, <4>4, <4>6
    <3>3. QED
      BY <3>1, <3>2
  <2>5. PendingExact'
    BY <1>1, <2>3, <2>4 DEF CountingInv, PendingExact
  <2>6. QED
    BY <1>1, <2>1, <2>2, <2>5 DEF CountingInv
<1>6. QED
  BY <1>4, <1>5

\* A new placeholder is listed and not counted.
LEMMA RestartCounts == TypeOK /\ CountingInv /\ RestartPlaceholder => CountingInv'
<1> SUFFICES ASSUME TypeOK, CountingInv, RestartPlaceholder PROVE CountingInv'
  OBVIOUS
<1>1. /\ pc = "reaped" /\ pc \notin Terminal /\ SafeModeAvailable /\ pc' # "setup"
      /\ UNCHANGED <<current_stage, sp, remaining, pending_finish>>
  BY Zenon DEF RestartPlaceholder, SafeModeAvailable, Terminal, stageVars, startVars, listVars
<1>2. CASE pc' = "panic"
  BY <1>1, <1>2
  DEF CountingInv, RunningTracksChildren, PendingExact, Terminal
<1>3. ASSUME NEW p \in Pid, setup_safe_mode(p) PROVE CountingInv'
  BY ZenonT(60), <1>1, <1>3, SetupSafeModeCounts DEF CountingInv, RunningTracksChildren, PendingExact
<1>4. QED
  BY Zenon, <1>2, <1>3 DEF RestartPlaceholder

\* A shutdown signal puts init in STAGE_TERMINATION, where nothing is counted.
LEMMA ShutdownCmdCounts ==
  ASSUME TypeOK, CountingInv, NEW s \in ShutdownSignal, handle_shutdown_cmd(s)
  PROVE  CountingInv'
<1>1. /\ pc = "dispatch" /\ pc \notin Terminal /\ pc' = "post" /\ current_stage' = "TERMINATION"
      /\ UNCHANGED <<running, sp>> /\ remaining' = <<>>
  BY DEF handle_shutdown_cmd, Terminal, startVars
<1>2. proc' = Terminated(Terminable)
  BY DEF handle_shutdown_cmd
<1>3. \A p \in Pid : proc'[p] = "none" <=> proc[p] = "none"
  BY <1>2 DEF Terminated
<1>4. remaining' \in Seq(Listed) /\ sp'.entry \in Seq(Listed)
  BY <1>1 DEF CountingInv
<1>5. QED
  BY <1>1, <1>3, <1>4 DEF CountingInv, RunningTracksChildren, PendingExact

\* The next order starts when the counter is 0.
LEMMA OrderCounts == TypeOK /\ CountingInv /\ OrderDone => CountingInv'
<1> SUFFICES ASSUME TypeOK, CountingInv, OrderDone PROVE CountingInv'
  OBVIOUS
<1>1. pc = "post" /\ pc \notin Terminal /\ UNCHANGED <<running, proc, remaining>>
  BY DEF OrderDone, Terminal
<1>2. CASE start_processes(remaining, "maint") /\ UNCHANGED current_stage
  <2>1. pc' = "start" /\ sp.entry' \in Seq(Listed)
    BY <1>2 DEF start_processes, CountingInv
  <2>2. UNCHANGED pending_finish
    BY ZenonT(60), <1>2 DEF OrderDone, start_processes
  <2>3. QED
    BY <1>1, <1>2, <2>1, <2>2, QuietStep DEF CountingInv
<1>3. CASE current_stage' \in {"RUN", "CLOSE"} /\ UNCHANGED startVars
  <2>1. pc' # "setup" /\ UNCHANGED sp
    BY Zenon, <1>3, NextEventType DEF OrderDone, mainloop_exit, start_processes, startVars
  <2>2. QED
    BY <1>1, <1>3, <2>1 DEF CountingInv, RunningTracksChildren, PendingExact
<1>4. QED
  BY Zenon, <1>2, <1>3 DEF OrderDone

\* The shutdown list starts when at most one process is left: if that is the
\* safe-mode process, none is awaited.
LEMMA TerminationCounts == TypeOK /\ CountingInv /\ TerminationDone => CountingInv'
<1> SUFFICES ASSUME TypeOK, CountingInv, TerminationDone PROVE CountingInv'
  OBVIOUS
<1>1. /\ pc = "post" /\ pc \notin Terminal /\ UNCHANGED <<running, proc, remaining>>
      /\ Cardinality(running) <= 1
  BY CountBound DEF TerminationDone, OthersRunning, Terminal, TypeOK
<1>2. RunningTracksChildren'
  BY <1>1 DEF CountingInv, RunningTracksChildren
<1>3. CASE shutdown_list # <<>>
  <2>1. /\ pc' = "start" /\ pending_finish' = 0 /\ current_stage' = "SHUTDOWN"
        /\ sp.entry' \in Seq(Listed)
    BY <1>3, ListsListed DEF TerminationDone, start_processes
  <2>2. ASSUME SafeModeAvailable' PROVE Cardinality(OneShots') = 0
    <3>1. PICK s \in running : config(s).type = "SAFE_MODE"
      BY <1>1, <2>1, <2>2 DEF SafeModeAvailable, SafeModeProcess
    <3>2. running = {s}
      BY ZenonT(60), <1>1, <3>1, OnlyOne DEF TypeOK
    <3>3. OneShots' = {}
      BY <1>1, <3>1, <3>2, SafeModeNotAwaited DEF OneShots
    <3>4. QED
      BY <3>3, FS_EmptySet
  <2>3. PendingExact'
    BY <2>1, <2>2 DEF PendingExact
  <2>4. QED
    BY <1>1, <1>2, <2>1, <2>3 DEF CountingInv
<1>4. CASE shutdown_list = <<>>
  <2>1. current_stage' = "CLOSE" /\ pc' # "setup" /\ UNCHANGED sp
    BY Zenon, <1>4, NextEventType DEF TerminationDone, mainloop_exit, startVars
  <2>2. QED
    BY <1>1, <1>2, <2>1 DEF CountingInv, PendingExact
<1>5. QED
  BY <1>3, <1>4

-----------------------------------------------------------------------------
(* The theorems *)

\* Every step keeps CountingInv.
LEMMA CountingStep == TypeOK /\ CountingInv /\ [Next]_vars => CountingInv'
<1> SUFFICES ASSUME TypeOK, CountingInv, [Next]_vars PROVE CountingInv'
  OBVIOUS
<1> USE DEF safeVars, loopVars, stageVars, listVars, timeoutVars, startVars, reapVars,
            initVars, Terminal
<1>0. sp.entry \in Seq(Listed) /\ remaining \in Seq(Listed)
  BY DEF CountingInv
<1>1. CASE BootFails
  BY <1>0, <1>1, QuietStep DEF BootFails
<1>2. CASE SpawnFails
  <2>1. /\ pc = "start" /\ pc' \in {"start", "panic"}
        /\ UNCHANGED <<running, current_stage, pending_finish, proc, remaining>>
    BY ZenonT(60), <1>2 DEF SpawnFails, start_safe_mode
  <2>2. sp.entry' \in Seq(Listed)
    BY ZenonT(60), <1>0, <1>2, AdvancedListed DEF SpawnFails, MoreToStart
  <2>3. QED
    BY <1>0, <2>1, <2>2, QuietStep
<1>3. CASE StartDone
  <2>1. /\ pc = "start" /\ pc' \in {"dispatch", "leave", "epoll"}
        /\ UNCHANGED <<running, current_stage, pending_finish, proc>>
    BY ZenonT(60), <1>3, NextEventType DEF StartDone
  <2>2. sp.entry' \in Seq(Listed) /\ remaining' \in Seq(Listed)
    BY <1>0, <1>3 DEF StartDone, Idle
  <2>3. QED
    BY <2>1, <2>2, QuietStep
<1>4. CASE Wait
  BY <1>0, <1>4, QuietStep DEF Wait
<1>5. CASE DispatchSigchld
  BY <1>0, <1>5, QuietStep DEF DispatchSigchld
<1>6. ASSUME NEW t \in Timer, one_shot_timeout_cb(t) PROVE CountingInv'
  BY ZenonT(60), <1>0, <1>6, QuietStep DEF one_shot_timeout_cb
<1>7. ASSUME NEW t \in Timer, kill_timeout_cb(t) PROVE CountingInv'
  <2>1. \A p \in Pid : proc'[p] = "none" <=> proc[p] = "none"
    BY ZenonT(60), <1>7 DEF kill_timeout_cb, Killed
  <2>2. QED
    BY ZenonT(60), <1>0, <1>7, <2>1, QuietStep DEF kill_timeout_cb
<1>8. ASSUME NEW t \in Timer, watchdog_feed(t) PROVE CountingInv'
  BY ZenonT(60), <1>0, <1>8, QuietStep DEF watchdog_feed
<1>9. ASSUME NEW t \in Timer, DispatchDangling(t) PROVE CountingInv'
  BY ZenonT(60), <1>0, <1>9, QuietStep DEF DispatchDangling
<1>10. CASE ReapDone
  BY ZenonT(60), <1>0, <1>10, QuietStep DEF ReapDone
<1>11. CASE StartSafeMode
  <2>1. pc = "reaped" /\ pc' \in {"reaped", "panic"}
    BY <1>11 DEF StartSafeMode, start_safe_mode
  <2>2. QED
    BY ZenonT(60), <1>0, <1>11, <2>1, QuietStep DEF StartSafeMode
<1>12. CASE ChildExitHandled
  BY <1>0, <1>12, QuietStep DEF ChildExitHandled
<1>13. CASE NoCallback
  BY ZenonT(60), <1>0, <1>13, QuietStep, NextEventType DEF NoCallback
<1>14. CASE NothingToDo
  BY <1>0, <1>14, QuietStep, NextEventType DEF NothingToDo
<1>15. CASE CloseAgain
  <2>1. pc = "post" /\ pc' \in {"aborted", "dispatch", "leave", "epoll"}
    BY Zenon, <1>15, NextEventType DEF CloseAgain, mainloop_exit
  <2>2. QED
    BY <1>0, <1>15, <2>1, QuietStep DEF CloseAgain
<1>16. CASE Leave
  BY ZenonT(60), <1>0, <1>16 DEF Leave, CountingInv, RunningTracksChildren, PendingExact
<1>17. ASSUME NEW p \in Pid, Exit(p) PROVE CountingInv'
  <2>1. PICK status \in Ends(proc[p]) : proc' = [proc EXCEPT ![p] = status]
    BY Zenon, <1>17 DEF Exit, ChildExit
  <2>2. status # "none" /\ proc[p] # "none"
    BY ZenonT(60), EndsType, <2>1 DEF TypeOK, Status, Killer, Alive
  <2>3. \A q \in Pid : proc'[q] = "none" <=> proc[q] = "none"
    BY ZenonT(60), <2>1, <2>2 DEF TypeOK
  <2>4. QED
    BY ZenonT(60), <1>0, <1>17, <2>3, QuietStep DEF Exit, Operational
<1>18. ASSUME NEW p \in Pid, PlaceholderExec(p) PROVE CountingInv'
  <2>1. \A q \in Pid : proc'[q] = "none" <=> proc[q] = "none"
    BY ZenonT(60), <1>18 DEF PlaceholderExec, safe_mode_wait, TypeOK
  <2>2. QED
    BY ZenonT(60), <1>0, <1>18, <2>1, QuietStep DEF PlaceholderExec, Operational
<1>19. CASE AdoptedExit
  BY ZenonT(60), <1>0, <1>19, QuietStep DEF AdoptedExit, OrphanExit, Operational
<1>20. ASSUME NEW s \in ShutdownSignal, Request(s) PROVE CountingInv'
  BY ZenonT(60), <1>0, <1>20, QuietStep DEF Request, Operational
<1>21. ASSUME NEW t \in Timer, Elapse(t) PROVE CountingInv'
  BY ZenonT(60), <1>0, <1>21, QuietStep DEF Elapse, Operational
<1>22. CASE Ended \/ UNCHANGED vars
  <2>1. UNCHANGED <<proc, pc, running, current_stage, pending_finish, sp, remaining,
                    restart_placeholder>>
    BY ZenonT(60), <1>22 DEF Ended, vars
  <2>2. (SafeModeAvailable' <=> SafeModeAvailable) /\ OneShots' = OneShots
    BY <2>1 DEF SafeModeAvailable, SafeModeProcess, OneShots
  <2>3. RunningTracksChildren' /\ PendingExact'
    BY ZenonT(60), <2>1, <2>2 DEF CountingInv, RunningTracksChildren, PendingExact
  <2>4. QED
    BY <2>1, <2>3 DEF CountingInv
<1>23. QED
  BY ZenonT(60), <1>1, <1>2, <1>3, <1>4, <1>5, <1>6, <1>7, <1>8, <1>9, <1>10, <1>11, <1>12, <1>13,
     <1>14, <1>15, <1>16, <1>17, <1>18, <1>19, <1>20, <1>21, <1>22, BootCounts, SpawnCounts,
     ReapCounts, RestartCounts, ShutdownCmdCounts, OrderCounts, TerminationCounts
  DEF Next, InitStep, Environment

\* Before set-up there is no child and nothing is counted.
LEMMA CountingInit == Init => CountingInv
<1> SUFFICES ASSUME Init PROVE CountingInv
  OBVIOUS
<1>1. sp.entry \in Seq(Listed) /\ remaining \in Seq(Listed)
  BY DEF Init, Idle
<1>2. RunningTracksChildren /\ PendingExact
  BY DEF Init, RunningTracksChildren, PendingExact
<1>3. QED
  BY <1>1, <1>2 DEF Init, CountingInv

\* CountingInv is an invariant of init: the counter and the list of children
\* follow the processes through every fork, exit, reaping and change of stage.
THEOREM CountingCorrect == Spec => []CountingInv
<1>1. Spec => []TypeOK
  BY TypeCorrect
<1>2. TypeOK /\ CountingInv /\ [Next]_vars => CountingInv'
  BY CountingStep
<1>3. QED
  BY <1>1, <1>2, CountingInit, PTL DEF Spec

\* running_processes is exactly the set of the children init has, so waitpid
\* returns no child of the inittab that find_process does not know.
THEOREM ChildrenTracked == Spec => []RunningTracksChildren
<1>1. CountingInv => RunningTracksChildren
  BY DEF CountingInv
<1>2. QED
  BY <1>1, CountingCorrect, PTL

\* pending_finish is the number of awaited processes that run, for every
\* inittab whose processes a uint32_t can count.
THEOREM PendingCorrect == Spec => []PendingExact
<1>1. CountingInv => PendingExact
  BY DEF CountingInv
<1>2. QED
  BY <1>1, CountingCorrect, PTL

=============================================================================
