--------------------------- MODULE LifecycleProofs ---------------------------
(***************************************************************************)
(* Supervisor implements Lifecycle, for every inittab, every set of faults *)
(* and any number of processes, timers and requests.                       *)
(***************************************************************************)
EXTENDS SupervisorProofs

\* The steps expand large actions: the SMT solver is given up to a minute for each.
USE SMTT(60)

-----------------------------------------------------------------------------
(* What a step does to the processes, the stage and the lists *)

listed == <<running, current_stage, sp, remaining, attempted, pending_finish>>

\* The handler that reaped the placeholder is about to restart it.
Restarting == pc \in {"reap", "reaped"} /\ restart_placeholder

\* A step of which the lists, the stage and the children see nothing.
Quiet ==
    /\ UNCHANGED listed
    /\ pc = "start" <=> pc' = "start"
    /\ pc = "setup" <=> pc' = "setup"
    /\ Restarting' => Restarting

\* An entry start_processes goes through without a new child.
SpawnSkips ==
    /\ pc = "start" /\ pc' = "start" /\ MoreToStart
    /\ "fork" \in Faults \/ FreePids(Head(sp.entry)) = {}
    /\ sp' = Advanced(sp.has_one_shot)
    /\ attempted' = attempted \cup {Head(sp.entry)}
    /\ UNCHANGED <<running, current_stage, remaining, pending_finish>>

\* The placeholder is started again.
Restarted ==
    /\ pc = "reaped" /\ pc' = "reaped" /\ restart_placeholder
    /\ \E p \in Pid : setup_safe_mode(p)
    /\ UNCHANGED <<current_stage, sp, remaining, attempted, pending_finish>>

\* Every step that does not end init is one of ten.
LEMMA Effects ==
  ASSUME [Next]_vars, pc \notin Terminal, pc' \notin Terminal
  PROVE  \/ Boot \/ SpawnOne \/ SpawnSkips \/ StartDone \/ (ReapOne /\ pc' = "reap")
         \/ Restarted \/ (\E s \in ShutdownSignal : handle_shutdown_cmd(s))
         \/ OrderDone \/ TerminationDone \/ Quiet
<1> USE DEF safeVars, loopVars, stageVars, listVars, timeoutVars, startVars, reapVars,
            initVars, listed, Restarting
<1>1. CASE BootFails \/ Leave \/ Ended
  BY <1>1 DEF BootFails, Leave, Ended, Terminal
<1>2. CASE SpawnFails
  <2>1. pc' \in {"start", "panic"}
    BY <1>2 DEF SpawnFails, start_safe_mode
  <2>2. QED
    BY <1>2, <2>1 DEF SpawnFails, SpawnSkips, Terminal
<1>3. CASE Wait \/ DispatchSigchld \/ ReapDone \/ ChildExitHandled
  BY ZenonT(60), <1>3 DEF Wait, DispatchSigchld, ReapDone, ChildExitHandled, Quiet
<1>4. ASSUME NEW t \in Timer,
             one_shot_timeout_cb(t) \/ kill_timeout_cb(t) \/ watchdog_feed(t)
             \/ DispatchDangling(t) \/ Elapse(t)
      PROVE  Quiet
  BY <1>4 DEF one_shot_timeout_cb, kill_timeout_cb, watchdog_feed, DispatchDangling, Elapse, Quiet
<1>5. CASE ReapOne
  BY <1>5 DEF ReapOne, Terminal
<1>6. CASE StartSafeMode
  <2>1. pc = "reaped" /\ pc' \in {"reaped", "panic"}
    BY <1>6 DEF StartSafeMode, start_safe_mode
  <2>2. QED
    BY <1>6, <2>1 DEF StartSafeMode, Quiet
<1>7. CASE RestartPlaceholder
  BY Zenon, <1>7 DEF RestartPlaceholder, Restarted, Terminal
<1>8. CASE NoCallback \/ NothingToDo \/ CloseAgain
  <2>1. pc = "post" /\ pc' \in {"aborted", "dispatch", "leave", "epoll"}
    BY Zenon, <1>8, NextEventType DEF NoCallback, NothingToDo, CloseAgain, mainloop_exit
  <2>2. QED
    BY <1>8, <2>1 DEF NoCallback, NothingToDo, CloseAgain, Quiet
<1>9. ASSUME NEW p \in Pid, Exit(p) \/ PlaceholderExec(p) PROVE Quiet
  BY <1>9 DEF Exit, PlaceholderExec, Quiet
<1>10. CASE AdoptedExit \/ \E s \in ShutdownSignal : Request(s)
  BY <1>10 DEF AdoptedExit, Request, Quiet
<1>11. CASE UNCHANGED vars
  BY <1>11 DEF vars, Quiet
<1>12. QED
  BY Zenon, <1>1, <1>2, <1>3, <1>4, <1>5, <1>6, <1>7, <1>8, <1>9, <1>10, <1>11
  DEF Next, InitStep, Environment

-----------------------------------------------------------------------------
(* The inductive invariants *)

\* The entries start_processes still has to go through, in order.
Rest == IF pc = "start" THEN sp.entry ELSE remaining

\* The children are known to be those of the current list and the safe-mode
\* process.
Counted ==
    \/ current_stage = "STARTUP"
    \/ current_stage = "SHUTDOWN" /\ SafeModeAvailable

\* One safe-mode process at most, none while its restart is due, and one that only
\* waits on an empty pipe until safe mode is on.
PlaceholderInv ==
    pc \notin Terminal =>
        /\ \A p, q \in SafeModeProcess : p = q
        /\ pc \in {"reap", "reaped"} /\ restart_placeholder => SafeModeProcess = {}
        /\ ~safe_mode_on =>
             /\ pipe = <<>>
             /\ pc # "setup" => SafeModeAvailable
             /\ \A p \in SafeModeProcess : proc[p] \in {"waiting", "exit1", "SEGV"}

\* Where the stages and the functions of init meet, and what start_processes may
\* rely on while it goes through a list: only processes of the order it is at are
\* awaited.
StageInv ==
    pc \notin Terminal =>
        /\ pc = "setup" <=> current_stage = "SETUP"
        /\ pc = "start" => current_stage \in {"STARTUP", "SHUTDOWN"}
        /\ current_stage \in {"SETUP", "TERMINATION"} => remaining = <<>>
        /\ pc = "start" /\ Counted =>
             /\ sp.has_one_shot \/ OneShots = {}
             /\ \A p \in OneShots : config(p).order = sp.order

-----------------------------------------------------------------------------
(* The placeholder *)

\* A step that leaves the list, the pipe and safe mode alone keeps PlaceholderInv.
LEMMA PlaceholderQuiet ==
  ASSUME PlaceholderInv, pc \notin Terminal, UNCHANGED <<running, pipe, safe_mode_on>>,
         pc' = "setup" <=> pc = "setup", Restarting' <=> Restarting,
         \A p \in running :
             config(p).type = "SAFE_MODE" /\ proc[p] \in {"waiting", "exit1", "SEGV"} =>
                 proc'[p] \in {"waiting", "exit1", "SEGV"}
  PROVE  PlaceholderInv'
  BY DEF PlaceholderInv, SafeModeProcess, SafeModeAvailable, Restarting

\* Safe mode is turned on, or init panics.
LEMMA PlaceholderTold ==
  ASSUME PlaceholderInv, pc \notin Terminal, NEW report, NEW next \in {"start", "reaped"},
         start_safe_mode(report, next), pc = next, UNCHANGED <<running, restart_placeholder>>
  PROVE  PlaceholderInv'
<1>1. CASE pc' = "panic"
  BY <1>1 DEF PlaceholderInv, Terminal
<1>2. CASE safe_mode_on' = TRUE /\ pc' = next
  BY <1>2 DEF PlaceholderInv, SafeModeProcess
<1>3. QED
  BY Zenon, <1>1, <1>2 DEF start_safe_mode

\* A new placeholder is the only one, and waits on a new pipe.
LEMMA PlaceholderNew ==
  ASSUME TypeOK, SafeModeProcess = {}, NEW p \in Pid, setup_safe_mode(p), UNCHANGED safe_mode_on,
         ~Restarting'
  PROVE  PlaceholderInv'
<1>1. config(p).type = "SAFE_MODE" /\ running' = running \cup {p} /\ pipe' = <<>>
  BY SupervisorAssumption DEF SupervisorAssumption, setup_safe_mode, FreePids
<1>2. SafeModeProcess' = {p} /\ proc'[p] = "waiting"
  BY <1>1 DEF SafeModeProcess, setup_safe_mode, TypeOK
<1>3. QED
  BY <1>1, <1>2 DEF PlaceholderInv, SafeModeAvailable, Restarting

\* A reaped placeholder is restarted, or init panics.
LEMMA PlaceholderReaped ==
  ASSUME TypeOK, CountingInv, PlaceholderInv, ReapOne PROVE PlaceholderInv'
<1>1. pc = "reap" /\ pc \notin Terminal /\ UNCHANGED <<pipe, safe_mode_on>>
  BY DEF ReapOne, Terminal, safeVars, stageVars
<1>2. PICK p \in Zombies : ReapOne!2!(p)
  BY DEF ReapOne, Zombies
<1>3. p \in Pid /\ p \in running
  BY <1>1 DEF Zombies, Status, Killer, CountingInv, RunningTracksChildren
<1>4. CASE pc' = "panic"
  BY <1>4 DEF PlaceholderInv, Terminal
<1>5. CASE pc' # "panic"
  <2> DEFINE died == is_safe_entry(config(p)) /\ Abnormal(p) /\ config(p).type = "SAFE_MODE"
  <2>1. /\ running' = running \ {p} /\ proc' = [proc EXCEPT ![p] = "none"] /\ pc' = "reap"
        /\ restart_placeholder' = (restart_placeholder \/ died)
        /\ ~(died /\ safe_mode_on)
    BY <1>1, <1>2, <1>3, <1>5
  <2>2. SafeModeProcess' = SafeModeProcess \ {p}
    BY <2>1 DEF SafeModeProcess
  <2>3. \A q \in SafeModeProcess' : proc'[q] = proc[q]
    BY <2>1, <2>2 DEF TypeOK, SafeModeProcess
  <2>4. CASE config(p).type # "SAFE_MODE"
    <3>1. SafeModeProcess' = SafeModeProcess /\ ~died
      BY <2>2, <2>4 DEF SafeModeProcess
    <3>2. restart_placeholder' = restart_placeholder
      BY <2>1, <3>1 DEF TypeOK
    <3>3. QED
      BY <1>1, <2>1, <2>3, <3>1, <3>2 DEF PlaceholderInv, SafeModeAvailable
  <2>5. CASE config(p).type = "SAFE_MODE"
    <3>1. p \in SafeModeProcess /\ SafeModeProcess' = {} /\ ~restart_placeholder
      BY <1>1, <1>3, <2>2, <2>5 DEF PlaceholderInv, SafeModeProcess
    <3>2. ~safe_mode_on => died
      BY <1>1, <2>5, <3>1 DEF PlaceholderInv, Abnormal, is_safe_entry
    <3>3. ~safe_mode_on => SafeModeAvailable'
      BY Zenon, <2>1, <3>2 DEF SafeModeAvailable
    <3>4. QED
      BY <1>1, <3>1, <3>3 DEF PlaceholderInv
  <2>6. QED
    BY <2>4, <2>5
<1>6. QED
  BY <1>4, <1>5

\* Every step keeps PlaceholderInv.
LEMMA PlaceholderStep ==
  TypeOK /\ CountingInv /\ PlaceholderInv /\ [Next]_vars => PlaceholderInv'
<1> SUFFICES ASSUME TypeOK, CountingInv, PlaceholderInv, [Next]_vars PROVE PlaceholderInv'
  OBVIOUS
<1> USE DEF safeVars, loopVars, stageVars, listVars, timeoutVars, startVars, reapVars,
            initVars, Restarting
<1>0. CASE pc' \in Terminal
  BY <1>0 DEF PlaceholderInv
<1> SUFFICES ASSUME pc' \notin Terminal PROVE PlaceholderInv'
  BY <1>0
<1>1. CASE Boot
  <2>1. PICK p \in Pid : setup_safe_mode(p)
    BY <1>1 DEF Boot
  <2>2. SafeModeProcess = {}
    BY <1>1 DEF Boot, CountingInv, SafeModeProcess
  <2>3. QED
    BY <1>1, <2>1, <2>2, PlaceholderNew DEF Boot, start_processes
<1>2. CASE BootFails \/ Leave \/ Ended
  BY ZenonT(60), <1>2 DEF BootFails, Leave, Ended, vars, Terminal
<1>3. CASE SpawnOne
  <2>1. PICK p \in FreePids(Head(sp.entry)) : /\ proc' = [proc EXCEPT ![p] = "run"]
                                              /\ running' = running \cup {p}
    BY Zenon, <1>3 DEF SpawnOne
  <2>2. pc = "start" /\ pc \notin Terminal /\ sp.entry # <<>>
    BY ZenonT(60), <1>3 DEF SpawnOne, MoreToStart, Terminal
  <2>3. p \in Pid /\ config(p).type # "SAFE_MODE"
    BY <2>1, <2>2, AdvancedListed DEF FreePids, CountingInv, Listed
  <2>4. SafeModeProcess' = SafeModeProcess /\ \A q \in SafeModeProcess : proc'[q] = proc[q]
    BY ZenonT(60), <2>1, <2>3 DEF SafeModeProcess, TypeOK
  <2>5. QED
    BY ZenonT(60), <1>3, <2>2, <2>4 DEF SpawnOne, PlaceholderInv, SafeModeAvailable
<1>4. CASE SpawnFails
  <2>1. pc = "start" /\ pc \notin Terminal /\ UNCHANGED <<running, proc, restart_placeholder>>
    BY <1>4 DEF SpawnFails, Terminal
  <2>2. CASE UNCHANGED <<pc, pipe, safe_mode_on>>
    BY <2>1, <2>2, PlaceholderQuiet
  <2>3. ASSUME NEW report, start_safe_mode(report, "start") PROVE PlaceholderInv'
    BY <2>1, <2>3, PlaceholderTold
  <2>4. QED
    BY <1>4, <2>2, <2>3 DEF SpawnFails
<1>5. CASE StartDone
  <2>1. pc = "start" /\ pc \notin Terminal /\ pc' \in {"dispatch", "leave", "epoll"}
    BY <1>5, NextEventType DEF StartDone, Terminal
  <2>2. QED
    BY ZenonT(60), <1>5, <2>1, PlaceholderQuiet DEF StartDone
<1>6. CASE Wait \/ DispatchSigchld
  BY ZenonT(60), <1>6, PlaceholderQuiet DEF Wait, DispatchSigchld, Terminal
<1>7. ASSUME NEW s \in ShutdownSignal, handle_shutdown_cmd(s) PROVE PlaceholderInv'
  <2>1. pc = "dispatch" /\ pc' = "post" /\ UNCHANGED <<running, pipe, safe_mode_on>>
    BY <1>7 DEF handle_shutdown_cmd
  <2>2. \A p \in running : config(p).type = "SAFE_MODE" => proc'[p] = proc[p]
    BY ZenonT(60), <1>7 DEF handle_shutdown_cmd, Terminated, Terminable, TypeOK
  <2>3. QED
    BY ZenonT(60), <2>1, <2>2, PlaceholderQuiet DEF Terminal
<1>8. ASSUME NEW t \in Timer, kill_timeout_cb(t) PROVE PlaceholderInv'
  <2>1. \A p \in running : config(p).type = "SAFE_MODE" => proc'[p] = proc[p]
    BY ZenonT(60), <1>8 DEF kill_timeout_cb, Killed, Terminable, TypeOK
  <2>2. QED
    BY ZenonT(60), <1>8, <2>1, PlaceholderQuiet DEF kill_timeout_cb, Terminal
<1>9. ASSUME NEW t \in Timer,
             one_shot_timeout_cb(t) \/ watchdog_feed(t) \/ DispatchDangling(t) \/ Elapse(t)
      PROVE  PlaceholderInv'
  <2>1. /\ pc \notin Terminal /\ UNCHANGED <<running, pipe, safe_mode_on, proc, restart_placeholder>>
        /\ \/ pc' = pc
           \/ pc = "dispatch" /\ pc' \in {"post", "leave", "crashed"}
    BY ZenonT(60), <1>9
    DEF one_shot_timeout_cb, watchdog_feed, DispatchDangling, Elapse, Operational, Terminal
  <2>2. (pc' = "setup" <=> pc = "setup") /\ (Restarting' <=> Restarting)
    BY ZenonT(60), <2>1 DEF Restarting
  <2>3. QED
    BY ZenonT(60), <2>1, <2>2, PlaceholderQuiet
<1>10. CASE ReapDone
  BY <1>10, PlaceholderQuiet DEF ReapDone, Terminal
<1>11. CASE StartSafeMode
  <2>1. PICK report \in deceased : start_safe_mode(report, "reaped")
    BY <1>11 DEF StartSafeMode
  <2>2. QED
    BY <1>11, <2>1, PlaceholderTold DEF StartSafeMode, Terminal
<1>12. CASE RestartPlaceholder
  <2>1. PICK p \in Pid : setup_safe_mode(p) /\ restart_placeholder' = FALSE
    BY Zenon, <1>12 DEF RestartPlaceholder, Terminal
  <2>2. SafeModeProcess = {}
    BY <1>12 DEF RestartPlaceholder, PlaceholderInv, Terminal
  <2>3. QED
    BY <1>12, <2>1, <2>2, PlaceholderNew DEF RestartPlaceholder
<1>13. CASE ChildExitHandled
  BY <1>13, PlaceholderQuiet DEF ChildExitHandled, Terminal
<1>14. CASE NoCallback \/ NothingToDo \/ CloseAgain \/ OrderDone \/ TerminationDone
  <2>1. pc = "post" /\ pc \notin Terminal /\ UNCHANGED <<running, pipe, safe_mode_on, proc>>
    <3>1. pc = "post" /\ UNCHANGED <<running, pipe, safe_mode_on, proc>>
      BY Zenon, <1>14 DEF NoCallback, NothingToDo, CloseAgain, OrderDone, TerminationDone
    <3>2. QED
      BY <3>1 DEF Terminal
  <2>2. pc' \in {"aborted", "dispatch", "leave", "epoll", "start"}
    BY Zenon, <1>14, NextEventType
    DEF NoCallback, NothingToDo, CloseAgain, OrderDone, TerminationDone, mainloop_exit, start_processes
  <2>3. QED
    BY <2>1, <2>2, PlaceholderQuiet
<1>15. ASSUME NEW p \in Pid, Exit(p) PROVE PlaceholderInv'
  <2>1. PICK status \in Ends(proc[p]) : proc' = [proc EXCEPT ![p] = status]
    BY Zenon, <1>15 DEF Exit, ChildExit
  <2>2. \A q \in running : proc[q] \in {"waiting", "exit1", "SEGV"} =>
                            proc'[q] \in {"waiting", "exit1", "SEGV"}
    BY <2>1 DEF TypeOK, Ends
  <2>3. QED
    BY Zenon, <1>15, <2>2, PlaceholderQuiet DEF Exit, Operational
<1>16. ASSUME NEW p \in Pid, PlaceholderExec(p) PROVE PlaceholderInv'
  <2>1. pipe # <<>> /\ pc \notin Terminal \cup {"setup"} /\ UNCHANGED <<running, pc, safe_mode_on, restart_placeholder>>
    BY <1>16 DEF PlaceholderExec, safe_mode_wait, Operational
  <2>2. /\ safe_mode_on /\ \A a, b \in SafeModeProcess : a = b
        /\ pc \in {"reap", "reaped"} /\ restart_placeholder => SafeModeProcess = {}
    BY Zenon, <2>1 DEF PlaceholderInv
  <2>3. SafeModeProcess' = SafeModeProcess /\ safe_mode_on'
    BY Zenon, <2>1, <2>2 DEF SafeModeProcess
  <2>4. QED
    BY Zenon, <2>1, <2>2, <2>3 DEF PlaceholderInv
<1>17. CASE AdoptedExit \/ \E s \in ShutdownSignal : Request(s)
  BY <1>17, PlaceholderQuiet DEF AdoptedExit, OrphanExit, Request, Operational
<1>18. CASE UNCHANGED vars
  BY ZenonT(60), <1>18, PlaceholderQuiet DEF vars
<1>19. QED
  BY ZenonT(60), <1>1, <1>2, <1>3, <1>4, <1>5, <1>6, <1>7, <1>8, <1>9, <1>10, <1>11, <1>12, <1>13,
     <1>14, <1>15, <1>16, <1>17, <1>18, PlaceholderReaped
  DEF Next, InitStep, Environment

\* Until safe mode is on the placeholder is there or is being restarted, and there are
\* never two: init can report the crash of a safe process whenever it comes.
THEOREM PlaceholderCorrect == Spec => []PlaceholderKept
<1>1. Init => PlaceholderInv
  BY DEF Init, PlaceholderInv, SafeModeProcess
<1>2. TypeOK /\ PlaceholderInv => PlaceholderKept
  <2> SUFFICES ASSUME TypeOK, PlaceholderInv, pc \notin {"setup"} \cup Terminal
               PROVE  Cardinality(SafeModeProcess) <= 1 /\ (~safe_mode_on => SafeModeAvailable)
    BY DEF PlaceholderKept
  <2>1. CASE SafeModeProcess = {}
    BY <2>1, FS_EmptySet DEF PlaceholderInv
  <2>2. ASSUME NEW p \in SafeModeProcess
        PROVE  Cardinality(SafeModeProcess) <= 1 /\ (~safe_mode_on => SafeModeAvailable)
    <3>1. \A q \in SafeModeProcess : q = p
      BY <2>2 DEF PlaceholderInv
    <3>2. SafeModeProcess = {p}
      BY <2>2, <3>1
    <3>3. Cardinality({p}) = 1
      BY FS_Singleton
    <3>4. Cardinality(SafeModeProcess) <= 1
      BY <3>2, <3>3
    <3>5. QED
      BY <2>2, <3>4 DEF SafeModeAvailable
  <2>3. QED
    BY <2>1, <2>2
<1>3. QED
  BY <1>1, <1>2, PlaceholderStep, TypeCorrect, CountingCorrect, PTL DEF Spec

-----------------------------------------------------------------------------
(* The stages *)

\* init never comes back.
LEMMA StaysEnded ==
  ASSUME [Next]_vars, pc \in Terminal PROVE pc' \in Terminal /\ UNCHANGED vars
<1>1. CASE InitStep
  BY ZenonT(60), <1>1 DEF InitStep, Boot, BootFails, SpawnOne, SpawnFails, StartDone, Wait, DispatchSigchld,
     handle_shutdown_cmd, one_shot_timeout_cb, kill_timeout_cb, watchdog_feed, DispatchDangling,
     ReapOne, ReapDone, StartSafeMode, RestartPlaceholder, ChildExitHandled, NoCallback,
     NothingToDo, OrderDone, TerminationDone, CloseAgain, Leave, Terminal
<1>2. CASE Environment
  BY <1>2 DEF Environment, Exit, PlaceholderExec, AdoptedExit, Request, Elapse, Operational
<1>3. CASE Ended \/ UNCHANGED vars
  BY ZenonT(60), <1>3 DEF Ended, vars, initVars
<1>4. QED
  BY <1>1, <1>2, <1>3 DEF Next

\* While init terminates with at most one process left, the safe-mode process is the
\* only one if it is there, and none is awaited.
LEMMA OnlyPlaceholderLeft ==
  ASSUME TypeOK, ~OthersRunning, SafeModeProcess # {} PROVE running = SafeModeProcess /\ OneShots = {}
<1>1. PICK s \in running : config(s).type = "SAFE_MODE"
  BY DEF SafeModeProcess
<1>2. Cardinality(running) <= 1
  BY CountBound DEF OthersRunning, TypeOK
<1>3. running = {s}
  BY <1>1, <1>2, OnlyOne DEF TypeOK
<1>4. QED
  BY <1>1, <1>3, SafeModeNotAwaited DEF SafeModeProcess, OneShots

\* With nothing counted nothing awaited runs.
LEMMA NothingAwaited ==
  ASSUME TypeOK, CountingInv, pc \notin Terminal, Counted, pending_finish = 0
  PROVE  OneShots = {}
<1>1. Cardinality(OneShots) = 0
  BY DEF CountingInv, PendingExact, Counted
<1>2. IsFiniteSet(OneShots)
  BY ZenonT(60), CountBound DEF OneShots, TypeOK
<1>3. QED
  BY <1>1, <1>2, FS_EmptySet

\* While start_processes runs, the safe-mode process is there or not.
LEMMA CountedAtStart ==
  ASSUME pc = "start"
  PROVE  Counted <=> current_stage = "STARTUP"
                     \/ (current_stage = "SHUTDOWN" /\ SafeModeProcess # {})
  BY DEF Counted, SafeModeAvailable

\* An iteration of start_processes keeps what it relies on: the order advances only as
\* long as nothing awaited was started.
LEMMA SpawnStage ==
  ASSUME TypeOK, CountingInv, StageInv, SpawnOne \/ SpawnSkips PROVE StageInv'
<1> DEFINE entry == Head(sp.entry)
           b == sp'.has_one_shot
<1>1. /\ pc = "start" /\ pc' = "start" /\ sp.entry # <<>> /\ entry.order = sp.order
      /\ UNCHANGED <<current_stage, remaining>> /\ pc \notin Terminal
  <2>1. /\ pc = "start" /\ pc' = "start" /\ MoreToStart /\ UNCHANGED <<current_stage, remaining>>
    BY Zenon DEF SpawnOne, SpawnSkips, stageVars
  <2>2. QED
    BY <2>1 DEF MoreToStart, Terminal
<1>2. entry \in Listed
  BY <1>1, AdvancedListed DEF CountingInv
<1>3. sp' = Advanced(b) /\ (sp.has_one_shot => b) /\ (b => sp'.order = sp.order)
  BY ZenonT(60), <1>1 DEF SpawnOne, SpawnSkips, Advanced, TypeOK, StartLocals
<1>4. ASSUME Counted' PROVE Counted /\ \A p \in OneShots' : b /\ config(p).order = sp.order
  <2>1. CASE SpawnSkips
    <3>1. SafeModeProcess' = SafeModeProcess /\ OneShots' = OneShots
      BY <2>1 DEF SpawnSkips, SafeModeProcess, OneShots
    <3>2. Counted
      BY <1>1, <1>4, <3>1, CountedAtStart DEF Counted, SafeModeAvailable
    <3>3. QED
      BY ZenonT(60), <1>1, <1>3, <3>1, <3>2 DEF StageInv
  <2>2. CASE SpawnOne
    <3>1. PICK p \in FreePids(entry) : running' = running \cup {p}
      BY ZenonT(60), <2>2 DEF SpawnOne
    <3>2. config(p) = entry /\ SafeModeProcess' = SafeModeProcess
      BY <1>2, <3>1 DEF FreePids, SafeModeProcess, Listed
    <3>3. Counted
      BY ZenonT(60), <1>1, <1>4, <3>2, CountedAtStart DEF Counted, SafeModeAvailable
    <3>4. p \in OneShots' => b
      BY Zenon, <2>2, <3>2 DEF SpawnOne, Advanced, OneShots, TypeOK, StartLocals
    <3>5. OneShots' \subseteq OneShots \cup {p}
      BY <3>1 DEF OneShots
    <3>6. \A q \in OneShots : b /\ config(q).order = sp.order
      BY ZenonT(60), <1>1, <1>3, <3>3 DEF StageInv
    <3>7. QED
      BY ZenonT(60), <1>1, <3>2, <3>3, <3>4, <3>5, <3>6
  <2>3. QED
    BY <2>1, <2>2
<1>5. QED
  BY ZenonT(60), <1>1, <1>3, <1>4 DEF StageInv

\* Every step keeps StageInv.
LEMMA StageStep == TypeOK /\ CountingInv /\ StageInv /\ [Next]_vars => StageInv'
<1> SUFFICES ASSUME TypeOK, CountingInv, StageInv, [Next]_vars, pc' \notin Terminal PROVE StageInv'
  BY ZenonT(60) DEF StageInv
<1> USE DEF stageVars, startVars, listVars
<1>0. pc \notin Terminal
  BY StaysEnded
<1>1. CASE Boot
  <2>1. PICK p \in Pid : setup_safe_mode(p)
    BY <1>1 DEF Boot
  <2>2. OneShots' = {}
    BY ZenonT(60), <1>0, <1>1, <2>1, SetupSafeModeCounts DEF Boot, CountingInv, OneShots
  <2>3. pc' = "start" /\ current_stage' = "STARTUP"
    BY ZenonT(60), <1>1 DEF Boot, start_processes
  <2>4. QED
    BY ZenonT(60), <2>2, <2>3 DEF StageInv
<1>2. CASE SpawnOne \/ SpawnSkips
  BY <1>2, SpawnStage
<1>3. CASE StartDone
  <2>1. pc = "start" /\ pc' \in {"dispatch", "leave", "epoll"} /\ UNCHANGED current_stage
    BY ZenonT(60), <1>3, NextEventType DEF StartDone
  <2>2. QED
    BY ZenonT(60), <1>0, <2>1 DEF StageInv
<1>4. CASE ReapOne /\ pc' = "reap"
  <2>1. pc = "reap" /\ UNCHANGED <<current_stage, remaining>>
    BY Zenon, <1>4 DEF ReapOne
  <2>2. QED
    BY ZenonT(60), <1>0, <1>4, <2>1 DEF StageInv
<1>5. CASE Restarted
  <2>1. pc = "reaped" /\ pc' = "reaped" /\ UNCHANGED <<current_stage, remaining>>
    BY Zenon, <1>5 DEF Restarted
  <2>2. QED
    BY ZenonT(60), <1>0, <2>1 DEF StageInv
<1>6. ASSUME NEW c \in ShutdownSignal, handle_shutdown_cmd(c) PROVE StageInv'
  <2>1. pc' = "post" /\ current_stage' = "TERMINATION" /\ remaining' = <<>>
    BY Zenon, <1>6 DEF handle_shutdown_cmd
  <2>2. QED
    BY ZenonT(60), <2>1 DEF StageInv
<1>7. CASE OrderDone
  <2>1. CASE start_processes(remaining, "maint") /\ UNCHANGED current_stage
    <3>1. pc = "post" /\ pc' = "start" /\ UNCHANGED running /\ pending_finish = 0
      BY Zenon, <1>7, <2>1 DEF OrderDone, start_processes
    <3>2. Counted' => Counted
      BY <2>1, <3>1 DEF Counted, SafeModeAvailable, SafeModeProcess
    <3>3. Counted' => OneShots' = {}
      BY <1>0, <3>1, <3>2, NothingAwaited DEF OneShots
    <3>4. current_stage \in {"STARTUP", "SHUTDOWN"}
      BY ZenonT(60), <1>7 DEF OrderDone
    <3>5. QED
      BY ZenonT(60), <2>1, <3>1, <3>3, <3>4 DEF StageInv
  <2>2. CASE current_stage' \in {"RUN", "CLOSE"} /\ pc' \in {"aborted", "dispatch", "leave", "epoll"}
    BY ZenonT(60), <2>2 DEF StageInv
  <2>3. QED
    BY Zenon, <1>7, <2>1, <2>2, NextEventType DEF OrderDone, mainloop_exit
<1>8. CASE TerminationDone
  <2>1. pc = "post" /\ ~OthersRunning /\ UNCHANGED running
    BY ZenonT(60), <1>8 DEF TerminationDone
  <2>2. CASE shutdown_list # <<>>
    <3>1. pc' = "start" /\ current_stage' = "SHUTDOWN"
      BY ZenonT(60), <1>8, <2>2 DEF TerminationDone, start_processes
    <3>2. Counted' => OneShots' = {}
      BY <2>1, <3>1, OnlyPlaceholderLeft DEF Counted, SafeModeAvailable, SafeModeProcess, OneShots
    <3>3. QED
      BY ZenonT(60), <3>1, <3>2 DEF StageInv
  <2>3. CASE shutdown_list = <<>>
    <3>1. current_stage' = "CLOSE" /\ pc' \in {"aborted", "dispatch", "leave", "epoll"}
      BY Zenon, <1>8, <2>3, NextEventType DEF TerminationDone, mainloop_exit
    <3>2. QED
      BY ZenonT(60), <3>1 DEF StageInv
  <2>4. QED
    BY <2>2, <2>3
<1>9. CASE Quiet
  <2>1. UNCHANGED <<running, current_stage, sp, remaining>>
    BY <1>9 DEF Quiet, listed
  <2>2. (pc = "start" <=> pc' = "start") /\ (pc = "setup" <=> pc' = "setup")
    BY <1>9 DEF Quiet
  <2>3. pc' = "start" /\ Counted' => Counted /\ OneShots' = OneShots
    BY <2>1, <2>2 DEF Counted, SafeModeAvailable, SafeModeProcess, OneShots
  <2>4. QED
    BY ZenonT(60), <1>0, <2>1, <2>2, <2>3 DEF StageInv
<1>10. QED
  BY <1>0, <1>1, <1>2, <1>3, <1>4, <1>5, <1>6, <1>7, <1>8, <1>9, Effects

-----------------------------------------------------------------------------
(* Refinement *)

\* Lifecycle's processes, awaited children and guard are Supervisor's.
LEMMA Mapped ==
  ASSUME pc \notin Terminal
  PROVE  /\ LC!AwaitedChildren = OneShots
         /\ LC!Guarded <=> SafeModeProcess # {}
         /\ LC!Process = Pid
  BY DEF Gone, LC!AwaitedChildren, OneShots, LC!Guarded, SafeModeProcess, LC!Process, Pid, config,
         is_one_shot_entry, LC!is_one_shot_entry

\* A step in which Lifecycle's variables stay as they are.
LEMMA Stutters ==
  ASSUME pc \notin Terminal, pc' \notin Terminal, UNCHANGED <<current_stage, running, Rest>>
  PROVE  UNCHANGED LC!vars
  BY ZenonT(60) DEF LC!vars, Gone, Rest

\* An iteration of start_processes is a Start.
LEMMA SpawnImplements ==
  ASSUME TypeOK, CountingInv, StageInv, SpawnOne \/ SpawnSkips PROVE LC!Start
<1> DEFINE entry == Head(sp.entry)
<1>1. /\ pc = "start" /\ pc' = "start" /\ sp.entry # <<>> /\ entry.order = sp.order
      /\ UNCHANGED current_stage
  <2>1. pc = "start" /\ pc' = "start" /\ MoreToStart /\ UNCHANGED current_stage
    BY Zenon DEF SpawnOne, SpawnSkips, stageVars
  <2>2. QED
    BY <2>1 DEF MoreToStart
<1>2. ~Gone /\ ~Gone' /\ pc \notin Terminal
  BY <1>1 DEF Gone, Terminal
<1>3. sp'.entry = Tail(sp.entry)
  BY Zenon DEF SpawnOne, SpawnSkips, Advanced, TypeOK, StartLocals
<1>4. current_stage \in {"STARTUP", "SHUTDOWN"}
  BY <1>1, <1>2 DEF StageInv
<1>5. LC!Trusted => Counted
  BY <1>1, <1>2, <1>4, Mapped, CountedAtStart DEF LC!Trusted
<1>6. LC!Trusted => \A c \in LC!AwaitedChildren : c[1].order = entry.order
  BY ZenonT(60), <1>1, <1>2, <1>5, Mapped DEF StageInv, config
<1>7. running' = running \/ \E c \in Pid \ running : c[1] = entry /\ running' = running \cup {c}
  <2>1. CASE SpawnSkips
    BY <2>1 DEF SpawnSkips
  <2>2. CASE SpawnOne
    <3>1. PICK p \in FreePids(entry) : running' = running \cup {p}
      BY <2>2 DEF SpawnOne
    <3>2. p \in Pid \ running /\ p[1] = entry
      BY ZenonT(60), <1>2, <3>1 DEF FreePids, CountingInv, RunningTracksChildren, config
    <3>3. QED
      BY <3>1, <3>2
  <2>3. QED
    BY <2>1, <2>2
<1>8. QED
  BY ZenonT(60), <1>1, <1>2, <1>3, <1>4, <1>6, <1>7, Mapped DEF LC!Start

\* The end of an order is a Run, a Close or nothing.
LEMMA OrderImplements ==
  ASSUME TypeOK, CountingInv, StageInv, OrderDone, pc' \notin Terminal
  PROVE  LC!Run \/ LC!Close \/ UNCHANGED LC!vars
<1>1. /\ pc = "post" /\ pc \notin Terminal /\ ~Gone /\ ~Gone' /\ UNCHANGED <<running, remaining>>
      /\ pending_finish = 0
  BY ZenonT(60) DEF OrderDone, Gone, Terminal
<1>2. CASE start_processes(remaining, "maint") /\ UNCHANGED current_stage
  BY ZenonT(60), <1>1, <1>2, Stutters DEF start_processes, Rest
<1>3. CASE remaining = <<>> /\ current_stage = "STARTUP" /\ current_stage' = "RUN" /\ pc' # "start"
  <2>1. OneShots = {}
    BY <1>1, <1>3, NothingAwaited DEF Counted
  <2>2. QED
    BY ZenonT(60), <1>1, <1>3, <2>1, Mapped DEF LC!Run
<1>4. CASE remaining = <<>> /\ current_stage = "SHUTDOWN" /\ current_stage' = "CLOSE" /\ pc' # "start"
  <2>1. SafeModeProcess # {} => OneShots = {}
    BY <1>1, <1>4, NothingAwaited DEF Counted, SafeModeAvailable
  <2>2. QED
    BY ZenonT(60), <1>1, <1>4, <2>1, Mapped DEF LC!Close
<1>5. QED
  BY Zenon, <1>2, <1>3, <1>4, NextEventType DEF OrderDone, mainloop_exit, Terminal

\* Every step of init is a step of Lifecycle or leaves its variables as they are.
LEMMA StepImplements ==
  ASSUME TypeOK, CountingInv, PlaceholderInv, StageInv, [Next]_vars
  PROVE  [LC!Next]_(LC!vars)
<1>1. CASE pc \in Terminal
  <2>1. Gone /\ Gone'
    BY <1>1, StaysEnded DEF Gone
  <2>2. QED
    BY <2>1 DEF LC!vars
<1>2. CASE pc \notin Terminal /\ pc' \in Terminal
  BY <1>2 DEF Gone, LC!Next, LC!End
<1>3. CASE pc \notin Terminal /\ pc' \notin Terminal
  <2> USE DEF stageVars, startVars, listVars
  <2>0. ~Gone /\ ~Gone'
    BY <1>3 DEF Gone
  <2>1. CASE Boot
    <3>1. PICK p \in Pid : setup_safe_mode(p)
      BY <2>1 DEF Boot
    <3>2. p[1].type = "SAFE_MODE" /\ running' = {p} /\ current_stage = "SETUP"
      <4>1. pc = "setup"
        BY ZenonT(60), <2>1 DEF Boot
      <4>2. running = {}
        BY <4>1 DEF CountingInv
      <4>3. current_stage = "SETUP"
        BY <1>3, <4>1 DEF StageInv
      <4>4. QED
        BY <3>1, <4>2, <4>3, SupervisorAssumption
        DEF SupervisorAssumption, setup_safe_mode, FreePids, config
    <3>3. pc' = "start" /\ sp'.entry = startup_list /\ current_stage' = "STARTUP"
      BY ZenonT(60), <2>1 DEF Boot, start_processes
    <3>4. LC!Begin
      BY <1>3, <2>0, <3>2, <3>3, Mapped DEF LC!Begin
    <3>5. QED
      BY Zenon, <3>4 DEF LC!Next
  <2>2. CASE SpawnOne \/ SpawnSkips
    BY <2>2, SpawnImplements DEF LC!Next
  <2>3. CASE StartDone
    <3>1. pc = "start" /\ pc' \in {"dispatch", "leave", "epoll"} /\ remaining' = sp.entry
          /\ UNCHANGED <<running, current_stage>>
      BY ZenonT(60), <2>3, NextEventType DEF StartDone
    <3>2. QED
      BY <1>3, <3>1, Stutters DEF Rest
  <2>4. CASE ReapOne /\ pc' = "reap"
    <3>1. PICK p \in Zombies : ReapOne!2!(p)
      BY Zenon, <2>4 DEF ReapOne, Zombies
    <3>2. p \in running /\ running' = running \ {p} /\ UNCHANGED <<current_stage, remaining>>
          /\ pc = "reap"
      BY Zenon, <1>3, <2>4, <3>1
      DEF ReapOne, Zombies, Status, Killer, CountingInv, RunningTracksChildren
    <3>3. LC!Reap
      BY ZenonT(60), <2>0, <2>4, <3>2 DEF LC!Reap
    <3>4. QED
      BY Zenon, <3>3 DEF LC!Next
  <2>5. CASE Restarted
    <3>1. PICK p \in Pid : setup_safe_mode(p)
      BY <2>5 DEF Restarted
    <3>2. p[1].type = "SAFE_MODE" /\ running' = running \cup {p}
      BY ZenonT(60), <3>1, SupervisorAssumption DEF SupervisorAssumption, setup_safe_mode, FreePids, config
    <3>3. pc = "reaped" /\ pc' = "reaped" /\ UNCHANGED <<current_stage, remaining>>
      BY <2>5 DEF Restarted
    <3>4. SafeModeProcess = {} /\ current_stage # "SETUP"
      <4>1. restart_placeholder
        BY <2>5 DEF Restarted
      <4>2. SafeModeProcess = {}
        BY <1>3, <3>3, <4>1 DEF PlaceholderInv
      <4>3. QED
        BY <1>3, <3>3, <4>2 DEF StageInv
    <3>5. LC!Restart
      BY ZenonT(60), <1>3, <2>0, <3>2, <3>3, <3>4, Mapped DEF LC!Restart
    <3>6. QED
      BY Zenon, <3>5 DEF LC!Next
  <2>6. ASSUME NEW c \in ShutdownSignal, handle_shutdown_cmd(c) PROVE LC!Next
    <3>1. pc = "dispatch" /\ pc' = "post" /\ current_stage' = "TERMINATION" /\ remaining' = <<>>
          /\ UNCHANGED running
      BY <2>6 DEF handle_shutdown_cmd
    <3>2. current_stage \in Stage \ {"SETUP"}
      BY ZenonT(60), <1>3, <3>1 DEF StageInv, TypeOK
    <3>3. LC!Terminate
      BY ZenonT(60), <2>0, <3>1, <3>2 DEF LC!Terminate, Stage
    <3>4. QED
      BY Zenon, <3>3 DEF LC!Next
  <2>7. CASE OrderDone
    BY <1>3, <2>7, OrderImplements DEF LC!Next
  <2>8. CASE TerminationDone
    <3>1. /\ pc = "post" /\ current_stage = "TERMINATION" /\ UNCHANGED <<running, remaining>>
          /\ Cardinality(running) <= 1
      <4>1. /\ pc = "post" /\ current_stage = "TERMINATION" /\ UNCHANGED <<running, remaining>>
            /\ ~OthersRunning
        BY Zenon, <2>8 DEF TerminationDone
      <4>2. running \in SUBSET Pid
        BY Zenon DEF TypeOK
      <4>3. QED
        BY <4>1, <4>2, CountBound DEF OthersRunning
    <3>2. remaining = <<>> /\ \A c, d \in running : c = d
      <4>1. remaining = <<>>
        BY ZenonT(60), <1>3, <3>1 DEF StageInv
      <4>2. running \in SUBSET Pid
        BY Zenon DEF TypeOK
      <4>3. QED
        BY <3>1, <4>1, <4>2, OnlyOne
    <3>3. CASE shutdown_list # <<>>
      <4>1. current_stage' = "SHUTDOWN" /\ pc' = "start" /\ sp'.entry = shutdown_list
        <5>1. current_stage' = "SHUTDOWN" /\ start_processes(shutdown_list, "term")
          BY Zenon, <2>8, <3>3 DEF TerminationDone
        <5>2. QED
          BY ZenonT(60), <5>1 DEF start_processes
      <4>2. LC!Shutdown
        BY ZenonT(60), <2>0, <3>1, <3>2, <3>3, <4>1 DEF LC!Shutdown
      <4>3. QED
        BY Zenon, <4>2 DEF LC!Next
    <3>4. CASE shutdown_list = <<>>
      <4>1. current_stage' = "CLOSE" /\ pc' \in {"aborted", "dispatch", "leave", "epoll"}
        BY Zenon, <2>8, <3>4, NextEventType DEF TerminationDone, mainloop_exit
      <4>2. QED
        <5>1. LC!Shutdown
          BY ZenonT(60), <2>0, <3>1, <3>2, <3>4, <4>1 DEF LC!Shutdown
        <5>2. QED
          BY Zenon, <5>1 DEF LC!Next
    <3>5. QED
      BY <3>3, <3>4
  <2>9. CASE Quiet
    BY <1>3, <2>9, Stutters DEF Quiet, listed, Rest
  <2>10. QED
    BY <1>3, <2>1, <2>2, <2>3, <2>4, <2>5, <2>6, <2>7, <2>8, <2>9, Effects
<1>4. QED
  BY <1>1, <1>2, <1>3

\* init implements Lifecycle: whatever the children, the signals, the timers and the failing
\* calls do, it takes the entries of the inittab in order, starts none before the awaited
\* processes of earlier orders are gone, and changes stage only when it may.
THEOREM LifecycleImplemented == Spec => ImplementsLifecycle
<1>1. Init => LC!Init /\ PlaceholderInv /\ StageInv
  <2> SUFFICES ASSUME Init PROVE LC!Init /\ PlaceholderInv /\ StageInv
    OBVIOUS
  <2>1. /\ pc = "setup" /\ current_stage = "SETUP" /\ running = {} /\ remaining = <<>>
        /\ pipe = <<>> /\ pc \notin Terminal
    BY DEF Init, Terminal
  <2>2. LC!Init
    BY <2>1 DEF LC!Init, Gone
  <2>3. PlaceholderInv
    BY <2>1 DEF PlaceholderInv, SafeModeProcess
  <2>4. QED
    BY <2>1, <2>2, <2>3 DEF StageInv
<1>2. TypeOK /\ CountingInv /\ PlaceholderInv /\ StageInv /\ [Next]_vars => [LC!Next]_(LC!vars)
  BY StepImplements
<1>3. QED
  BY <1>1, <1>2, PlaceholderStep, StageStep, TypeCorrect, CountingCorrect, PTL
  DEF Spec, ImplementsLifecycle, LC!Spec

=============================================================================
