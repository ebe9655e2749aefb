----------------------------- MODULE Supervisor -----------------------------
(***************************************************************************)
(* Init as a supervisor (src/src/main.c): the stages from start-up to      *)
(* reboot, the processes of the inittab started order by order, the        *)
(* reaping of children, safe mode and the shutdown signals, run by the     *)
(* event loop of Mainloop against the concurrent processes of Children and *)
(* the placeholder of SafeMode.  init is single threaded: pc says which    *)
(* function it is in, and every other actor may step between two of its    *)
(* steps.                                                                  *)
(***************************************************************************)
EXTENDS SafeMode, Mainloop

CONSTANTS startup_list,     \* inittab_entries.startup_list
          shutdown_list,    \* inittab_entries.shutdown_list
          safe_mode_entry,  \* inittab_entries.safe_mode_entry
          UINT32,           \* 2^32, the modulus of uint32_t
          Watchdog,         \* whether there is a /dev/watchdog
          MaxRequests       \* bound: how many shutdown signals are sent

VARIABLES pc,
          current_stage,
          running,           \* running_processes, as a set
          remaining,         \* remaining.remaining
          pending_finish,    \* remaining.pending_finish
          one_shot_timeout,
          kill_timeout,
          shutdown_command,
          safe_mode_on,
          sp,                \* the locals of start_processes
          deceased,          \* handle_child_exit: start_safe_process and
                             \* deceased_safe_process ({} when false)
          restart_placeholder, \* restart_safe_mode_placeholder
          attempted,         \* history: the entries of the current list that
                             \* start_processes has gone through
          requests           \* the shutdown signals sent so far

stageVars   == <<current_stage, shutdown_command, safe_mode_on>>
listVars    == <<remaining, pending_finish>>
timeoutVars == <<one_shot_timeout, kill_timeout>>
startVars   == <<sp, attempted>>
reapVars    == <<deceased, restart_placeholder>>
initVars    == <<pc, stageVars, running, listVars, timeoutVars, startVars, reapVars>>
vars        == <<proc, sigs, safeVars, loopVars, initVars, requests>>

Stage == {"SETUP", "STARTUP", "RUN", "TERMINATION", "SHUTDOWN", "CLOSE"}

\* How init may end: reboot(2), main returning, panic(), a failed assertion,
\* or whatever follows from the use of freed memory.
Terminal == {"rebooted", "exited", "panic", "aborted", "crashed"}
Location == {"setup", "start", "epoll", "dispatch", "reap", "reaped", "post",
             "leave"} \cup Terminal

ListOf(pred(_)) == Seq({entry \in Entry : pred(entry)})
Sorted(list) == \A i, j \in DOMAIN list : i < j => list[i].order <= list[j].order
Distinct(list) == \A i, j \in DOMAIN list : list[i] = list[j] => i = j
Elements(list) == {list[i] : i \in DOMAIN list}

\* What read_inittab establishes, and the bounds of the instance.
ASSUME SupervisorAssumption ==
    /\ startup_list \in ListOf(is_startup_entry)
    /\ shutdown_list \in ListOf(is_shutdown_entry)
    /\ safe_mode_entry \in Entry /\ safe_mode_entry.type = "SAFE_MODE"
    /\ Sorted(startup_list) /\ Distinct(startup_list)
    /\ Sorted(shutdown_list) /\ Distinct(shutdown_list)
    /\ UINT32 \in Nat /\ Cardinality(Pid) < UINT32
    /\ Watchdog \in BOOLEAN
    /\ MaxRequests \in Nat

\* The locals of start_processes, and who called it.
StartLocals == [entry : Seq(Entry), order : Int, has_one_shot : BOOLEAN,
                caller : {"main", "maint", "term"}]
Idle == [entry |-> <<>>, order |-> 0, has_one_shot |-> FALSE, caller |-> "main"]

\* find_safe_mode_process() # NULL
SafeModeProcess == {p \in running : config(p).type = "SAFE_MODE"}

Init ==
    /\ proc = [p \in Pid |-> "none"] /\ sigs = {}
    /\ pipe = <<>> /\ app = {}
    /\ timers = {} /\ expired = {} /\ batch = {}
    /\ should_exit = TRUE /\ post_cb = FALSE
    /\ pc = "setup" /\ current_stage = "SETUP"
    /\ shutdown_command = "TERM" /\ safe_mode_on = FALSE
    /\ running = {} /\ remaining = <<>> /\ pending_finish = 0
    /\ one_shot_timeout = NULL /\ kill_timeout = NULL
    /\ sp = Idle /\ attempted = {}
    /\ deceased = {} /\ restart_placeholder = FALSE
    /\ requests = 0

-----------------------------------------------------------------------------
(* Safe mode, as main.c uses it. *)

\* Variant: the placeholder is not put in running_processes.
setup_safe_mode_Unlisted(p) ==
    /\ p \in FreePids(safe_mode_entry)
    /\ proc' = [proc EXCEPT ![p] = "waiting"]
    /\ running' = running
    /\ pipe' = <<>>

\* setup_safe_mode: a fresh pipe and a placeholder waiting on it.
setup_safe_mode(p) ==
    /\ p \in FreePids(safe_mode_entry)
    /\ proc' = [proc EXCEPT ![p] = "waiting"]
    /\ running' = running \cup {p}
    /\ pipe' = <<>>

\* start_safe_mode: panics without a safe-mode process or when the report
\* cannot be written; continues at next otherwise.
start_safe_mode(report, next) ==
    \/ /\ SafeModeProcess # {}
       /\ execute_safe_mode(report)
       /\ safe_mode_on' = TRUE
       /\ pc' = next
    \/ /\ SafeModeProcess = {} \/ ~PipeHasReader
       /\ pc' = "panic"
       /\ UNCHANGED <<pipe, safe_mode_on>>

-----------------------------------------------------------------------------
(* start_processes *)

\* Its beginning; called by main, and by stage_maintenance for the next order
\* ("maint") or for the shutdown list ("term").
start_processes(list, caller) ==
    /\ pending_finish' = 0
    /\ sp' = [entry        |-> list,
              order        |-> IF list = <<>> THEN 0 ELSE Head(list).order,
              has_one_shot |-> FALSE,
              caller       |-> caller]
    /\ attempted' = IF caller = "maint" THEN attempted ELSE {}
    /\ pc' = "start"

\* The condition of its loop.
MoreToStart == sp.entry # <<>> /\ Head(sp.entry).order = sp.order

\* Variants: the next order is started whatever was started before it; an entry
\* is skipped where the order changes.
Advanced_AnyOrder(one_shot) ==
    LET rest == Tail(sp.entry)
    IN  [sp EXCEPT !.entry = rest,
                   !.has_one_shot = one_shot,
                   !.order = IF rest # <<>> THEN Head(rest).order ELSE @]
Advanced_Skips(one_shot) ==
    LET rest == Tail(sp.entry)
        next == IF rest # <<>> /\ Head(rest).order # sp.order THEN Tail(rest) ELSE rest
    IN  [sp EXCEPT !.entry = next,
                   !.has_one_shot = one_shot,
                   !.order = IF next # <<>> /\ ~one_shot THEN Head(next).order ELSE @]

\* The end of its loop body: the next entry, and the next order as long as no
\* one-shot process was started.
Advanced(one_shot) ==
    LET rest == Tail(sp.entry)
    IN  [sp EXCEPT !.entry = rest,
                   !.has_one_shot = one_shot,
                   !.order = IF rest # <<>> /\ ~one_shot THEN Head(rest).order ELSE @]

\* One iteration: the entry's process is forked.
SpawnOne ==
    /\ pc = "start" /\ MoreToStart
    /\ LET entry == Head(sp.entry)
       IN  /\ \E p \in FreePids(entry) :
                 /\ proc' = [proc EXCEPT ![p] = "run"]
                 /\ running' = running \cup {p}
           /\ pending_finish' = IF is_one_shot_entry(entry)
                                THEN (pending_finish + 1) % UINT32
                                ELSE pending_finish
           /\ sp' = Advanced(sp.has_one_shot \/ is_one_shot_entry(entry))
           /\ attempted' = attempted \cup {entry}
    /\ UNCHANGED <<pc, sigs, safeVars, loopVars, stageVars, remaining,
                   timeoutVars, reapVars, requests>>

\* One iteration: fork fails (also when no process identifier is left), which
\* for a safe entry asks for safe mode with the signal -1.
SpawnFails ==
    /\ pc = "start" /\ MoreToStart
    /\ LET entry == Head(sp.entry)
       IN  /\ "fork" \in Faults \/ FreePids(entry) = {}
           /\ IF is_safe_entry(entry)
              THEN start_safe_mode([process_name |-> entry, signal |-> "-1",
                                    ended |-> "fork"], "start")
              ELSE UNCHANGED <<pc, pipe, safe_mode_on>>
           /\ sp' = Advanced(sp.has_one_shot)
           /\ attempted' = attempted \cup {entry}
    /\ UNCHANGED <<proc, sigs, app, loopVars, current_stage, shutdown_command,
                   running, listVars, timeoutVars, reapVars, requests>>

\* Where the loop goes after an event: the next event of the batch, then
\* epoll_wait or, once should_exit is set, out of mainloop_start.
NextEvent(exiting) ==
    IF batch # {} THEN "dispatch" ELSE IF exiting THEN "leave" ELSE "epoll"

\* Its loop is over, or left because there is no memory for a struct process:
\* the remaining entries are kept, one-shot processes are given a timeout, and
\* the caller goes on (main enters mainloop_start, the end of STAGE_TERMINATION
\* removes the kill timer).
StartDone ==
    /\ pc = "start"
    /\ ~MoreToStart \/ "calloc" \in Faults
    /\ remaining' = sp.entry
    /\ \E mt \in IF sp.has_one_shot
                 THEN mainloop_add_timeout("one_shot", "timer" \in Faults)
                 ELSE {NULL} :
          LET freed == IF sp.caller = "term" THEN {kill_timeout} ELSE {}
          IN  /\ one_shot_timeout' = IF sp.has_one_shot THEN mt ELSE one_shot_timeout
              /\ timers' = Added(mt, timers) \ freed
              /\ expired' = expired \ freed
              /\ kill_timeout' = IF sp.caller = "term" THEN NULL ELSE kill_timeout
    /\ IF sp.caller = "main"
       THEN pc' = "epoll" /\ should_exit' = FALSE
       ELSE pc' = NextEvent(should_exit) /\ UNCHANGED should_exit
    /\ sp' = Idle
    /\ UNCHANGED <<proc, sigs, safeVars, batch, post_cb, stageVars, running,
                   pending_finish, attempted, reapVars, requests>>

-----------------------------------------------------------------------------
(* main *)

\* Everything before the event loop.  A failure (mounts, console, epoll,
\* signalfd, inittab, placeholder) makes main return; a missing watchdog does
\* not.
Boot ==
    /\ pc = "setup"
    /\ \E p \in Pid : setup_safe_mode(p)
    /\ \E mt \in IF Watchdog
                 THEN mainloop_add_timeout("watchdog", "timer" \in Faults)
                 ELSE {NULL} :
          timers' = Added(mt, timers)
    /\ post_cb' = TRUE
    /\ current_stage' = "STARTUP"
    /\ start_processes(startup_list, "main")
    /\ UNCHANGED <<sigs, app, expired, batch, should_exit, shutdown_command,
                   safe_mode_on, remaining, timeoutVars, reapVars, requests>>

BootFails ==
    /\ pc = "setup"
    /\ "setup" \in Faults
    /\ pc' = "exited"
    /\ UNCHANGED <<proc, sigs, safeVars, loopVars, stageVars, running, listVars,
                   timeoutVars, startVars, reapVars, requests>>

\* The loop is over, or abandoned on a read error: the processes are forgotten,
\* the watchdog is closed, and do_reboot calls reboot(2); when that fails main
\* returns.
Leave ==
    /\ pc = "leave"
    /\ running' = {}
    /\ timers' = {t \in timers : t[1] # "watchdog"}
    /\ expired' = {t \in expired : t[1] # "watchdog"}
    /\ \/ pc' = "rebooted"
       \/ "reboot" \in Faults /\ pc' = "exited"
    /\ UNCHANGED <<proc, sigs, safeVars, batch, should_exit, post_cb, stageVars,
                   listVars, timeoutVars, startVars, reapVars, requests>>

-----------------------------------------------------------------------------
(* mainloop_start and the callbacks *)

\* epoll_wait returns a batch of events.
Wait ==
    /\ pc = "epoll"
    /\ epoll_wait(sigs)
    /\ pc' = "dispatch"
    /\ UNCHANGED <<proc, sigs, safeVars, stageVars, running, listVars,
                   timeoutVars, startVars, reapVars, requests>>

\* signal_handler, SIGCHLD: handle_child_exit begins with nothing to report.
DispatchSigchld ==
    /\ pc = "dispatch" /\ SIGNALFD \in batch /\ FirstPending("CHLD")
    /\ batch' = batch \ {SIGNALFD}
    /\ sigs' = sigs \ {"CHLD"}
    /\ deceased' = {} /\ restart_placeholder' = FALSE
    /\ pc' = "reap"
    /\ UNCHANGED <<proc, safeVars, timers, expired, should_exit, post_cb,
                   stageVars, running, listVars, timeoutVars, startVars, requests>>

\* Variant: the safe-mode process is sent them too.
Terminable_All == running

\* The processes SIGTERM and SIGKILL are sent to: never the safe-mode process.
Terminable == {p \in running : config(p).type # "SAFE_MODE"}

\* signal_handler, SIGTERM, SIGUSR1 and SIGUSR2: handle_shutdown_cmd and
\* term_running_process.
handle_shutdown_cmd(command) ==
    /\ pc = "dispatch" /\ SIGNALFD \in batch /\ FirstPending(command)
    /\ batch' = batch \ {SIGNALFD}
    /\ sigs' = sigs \ {command}
    /\ remaining' = <<>> /\ pending_finish' = 0
    /\ one_shot_timeout' = NULL
    /\ current_stage' = "TERMINATION"
    /\ proc' = Terminated(Terminable)
    /\ \E mt \in mainloop_add_timeout("kill", "timer" \in Faults) :
          /\ kill_timeout' = mt
          /\ timers' = Added(mt, timers \ {one_shot_timeout})
    /\ expired' = expired \ {one_shot_timeout}
    /\ shutdown_command' = command
    /\ post_cb' = TRUE
    /\ pc' = "post"
    /\ UNCHANGED <<safeVars, should_exit, safe_mode_on, running, startVars,
                   reapVars, requests>>

\* Variants: the pointer to the timeout that is freed is kept; its descriptor
\* stays in the epoll set.
one_shot_timeout_cb_KeepsPointer(t) ==
    /\ pc = "dispatch" /\ t \in batch \cap timers /\ t[1] = "one_shot"
    /\ batch' = batch \ {t}
    /\ timers' = timers \ {t} /\ expired' = expired \ {t}
    /\ pc' = "post"
    /\ UNCHANGED <<proc, sigs, safeVars, should_exit, post_cb, stageVars, running,
                   listVars, timeoutVars, startVars, reapVars, requests>>
one_shot_timeout_cb_KeepsDescriptor(t) ==
    /\ pc = "dispatch" /\ t \in batch \cap timers /\ t[1] = "one_shot"
    /\ batch' = batch \ {t}
    /\ one_shot_timeout' = NULL
    /\ timers' = timers \ {t}
    /\ pc' = "post"
    /\ UNCHANGED <<proc, sigs, safeVars, expired, should_exit, post_cb, stageVars,
                   running, listVars, kill_timeout, startVars, reapVars, requests>>

\* A timer's event: its callback, and its removal when the callback returns
\* TIMEOUT_STOP.
one_shot_timeout_cb(t) ==
    /\ pc = "dispatch" /\ t \in batch \cap timers /\ t[1] = "one_shot"
    /\ batch' = batch \ {t}
    /\ one_shot_timeout' = NULL
    /\ timers' = timers \ {t} /\ expired' = expired \ {t}
    /\ pc' = "post"
    /\ UNCHANGED <<proc, sigs, safeVars, should_exit, post_cb, stageVars, running,
                   listVars, kill_timeout, startVars, reapVars, requests>>

kill_timeout_cb(t) ==
    /\ pc = "dispatch" /\ t \in batch \cap timers /\ t[1] = "kill"
    /\ batch' = batch \ {t}
    /\ proc' = IF current_stage = "TERMINATION" THEN Killed(Terminable) ELSE proc
    /\ kill_timeout' = NULL
    /\ timers' = timers \ {t} /\ expired' = expired \ {t}
    /\ pc' = "post"
    /\ UNCHANGED <<sigs, safeVars, should_exit, post_cb, stageVars, running,
                   listVars, one_shot_timeout, startVars, reapVars, requests>>

watchdog_feed(t) ==
    /\ pc = "dispatch" /\ t \in batch \cap timers /\ t[1] = "watchdog"
    /\ batch' = batch \ {t}
    /\ expired' = expired \ {t}
    /\ pc' = "post"
    /\ UNCHANGED <<proc, sigs, safeVars, timers, should_exit, post_cb, stageVars,
                   running, listVars, timeoutVars, startVars, reapVars, requests>>

\* An event whose timeout was freed earlier in the batch: undefined behaviour.
\* What is left of the block decides: an unknown type is skipped, a failing
\* read abandons the loop, anything else crashes init.
DispatchDangling(t) ==
    /\ pc = "dispatch" /\ t \in batch /\ Dangling(t)
    /\ pc' \in {"post", "leave", "crashed"}
    /\ batch' = IF pc' = "post" THEN batch \ {t} ELSE {}
    /\ UNCHANGED <<proc, sigs, safeVars, timers, expired, should_exit, post_cb,
                   stageVars, running, listVars, timeoutVars, startVars, reapVars,
                   requests>>

-----------------------------------------------------------------------------
(* handle_child_exit *)

\* Variant: a non-zero exit code is not abnormal.
Abnormal_OnlySignals(p) == proc[p] \in Killer

\* !WIFEXITED || WEXITSTATUS # 0
Abnormal(p) == proc[p] # "exit0"

\* Variant: nothing is counted down in one of the stages.
Awaited_NotInShutdown(p) == is_one_shot_entry(config(p)) /\ current_stage = "STARTUP"
Awaited_NotInStartup(p) == is_one_shot_entry(config(p)) /\ current_stage = "SHUTDOWN"

\* The end of such a process is counted down.
Awaited(p) ==
    is_one_shot_entry(config(p)) /\ current_stage \in {"STARTUP", "SHUTDOWN"}

\* The report on a safe process that died: the name is the last one's, the
\* signal is kept from an earlier one when this one was not killed by a signal.
Deceased(p) ==
    LET earlier == {r.signal : r \in deceased}
    IN  [process_name : {config(p)},
         signal       : IF proc[p] \in Killer THEN {proc[p]}
                        ELSE IF earlier # {} THEN earlier ELSE {"0"},
         ended        : {proc[p]}]

\* waitpid returns a child.  One that find_process does not know is passed over.
ReapOne ==
    /\ pc = "reap"
    /\ \E p \in Zombies :
          LET known == p \in running
              safe_died == known /\ is_safe_entry(config(p)) /\ Abnormal(p)
              placeholder_died == safe_died /\ config(p).type = "SAFE_MODE"
          IN  IF placeholder_died /\ safe_mode_on
              THEN /\ pc' = "panic"
                   /\ UNCHANGED <<proc, running, pending_finish, reapVars>>
              ELSE /\ restart_placeholder' = (restart_placeholder \/ placeholder_died)
                   /\ deceased' = IF safe_died /\ ~placeholder_died
                                  THEN Deceased(p) ELSE deceased
                   /\ pending_finish' = IF known /\ Awaited(p)
                                        THEN (pending_finish + UINT32 - 1) % UINT32
                                        ELSE pending_finish
                   /\ running' = running \ {p}
                   /\ proc' = [proc EXCEPT ![p] = "none"]
                   /\ UNCHANGED pc
    /\ UNCHANGED <<sigs, safeVars, loopVars, stageVars, remaining, timeoutVars,
                   startVars, requests>>

\* waitpid has no more children to return, or fails and init panics.
ReapDone ==
    /\ pc = "reap"
    /\ \/ Zombies = {} /\ pc' = "reaped"
       \/ "waitpid" \in Faults /\ pc' = "panic"
    /\ UNCHANGED <<proc, sigs, safeVars, loopVars, stageVars, running, listVars,
                   timeoutVars, startVars, reapVars, requests>>

\* After the loop: safe mode first,
StartSafeMode ==
    /\ pc = "reaped"
    /\ \E report \in deceased : start_safe_mode(report, "reaped")
    /\ deceased' = {}
    /\ UNCHANGED <<proc, sigs, app, loopVars, current_stage, shutdown_command,
                   running, listVars, timeoutVars, startVars, restart_placeholder,
                   requests>>

\* then the placeholder is restarted if it died, or init panics.
RestartPlaceholder ==
    /\ pc = "reaped" /\ deceased = {} /\ restart_placeholder
    /\ \/ /\ \E p \in Pid : setup_safe_mode(p)
          /\ restart_placeholder' = FALSE
          /\ UNCHANGED pc
       \/ /\ {"pipe", "calloc", "fork"} \cap Faults # {}
             \/ FreePids(safe_mode_entry) = {}
          /\ pc' = "panic"
          /\ UNCHANGED <<proc, running, pipe, restart_placeholder>>
    /\ UNCHANGED <<sigs, app, loopVars, stageVars, listVars, timeoutVars, startVars,
                   deceased, requests>>

ChildExitHandled ==
    /\ pc = "reaped" /\ deceased = {} /\ ~restart_placeholder
    /\ pc' = "post"
    /\ UNCHANGED <<proc, sigs, safeVars, loopVars, stageVars, running, listVars,
                   timeoutVars, startVars, reapVars, requests>>

-----------------------------------------------------------------------------
(* The post-iteration callback, called after every event: stage_maintenance *)

NoCallback ==
    /\ pc = "post" /\ ~post_cb
    /\ pc' = NextEvent(should_exit)
    /\ UNCHANGED <<proc, sigs, safeVars, loopVars, stageVars, running, listVars,
                   timeoutVars, startVars, reapVars, requests>>

\* Variant: the safe-mode placeholder is waited for too.
OthersRunning_AnyChild == running # {}

\* STAGE_TERMINATION waits: running_processes has a second element.
OthersRunning == Cardinality(running) > 1

\* Processes of the current order are still awaited, or children still run.
NothingToDo ==
    /\ pc = "post" /\ post_cb
    /\ \/ current_stage \in {"STARTUP", "SHUTDOWN"} /\ pending_finish # 0
       \/ current_stage = "TERMINATION" /\ OthersRunning
    /\ pc' = NextEvent(should_exit)
    /\ UNCHANGED <<proc, sigs, safeVars, loopVars, stageVars, running, listVars,
                   timeoutVars, startVars, reapVars, requests>>

\* mainloop_exit: asserts that it was not called before.
mainloop_exit ==
    /\ should_exit' = TRUE
    /\ pc' = IF should_exit THEN "aborted" ELSE NextEvent(TRUE)

\* The current order is over (STAGE_STARTUP, STAGE_SHUTDOWN): its timeout goes,
\* and the next order, the next stage or the end of the loop comes.
OrderDone ==
    /\ pc = "post" /\ post_cb
    /\ current_stage \in {"STARTUP", "SHUTDOWN"} /\ pending_finish = 0
    /\ one_shot_timeout' = NULL
    /\ timers' = timers \ {one_shot_timeout}
    /\ expired' = expired \ {one_shot_timeout}
    /\ \/ /\ remaining # <<>>
          /\ start_processes(remaining, "maint")
          /\ UNCHANGED <<current_stage, post_cb, should_exit>>
       \/ /\ remaining = <<>> /\ current_stage = "STARTUP"
          /\ current_stage' = "RUN"
          /\ post_cb' = FALSE
          /\ pc' = NextEvent(should_exit)
          /\ UNCHANGED <<should_exit, pending_finish, startVars>>
       \/ /\ remaining = <<>> /\ current_stage = "SHUTDOWN"
          /\ current_stage' = "CLOSE"
          /\ mainloop_exit
          /\ UNCHANGED <<post_cb, pending_finish, startVars>>
    /\ UNCHANGED <<proc, sigs, safeVars, batch, shutdown_command, safe_mode_on,
                   running, remaining, kill_timeout, reapVars, requests>>

\* STAGE_TERMINATION with at most one process left: the shutdown list is
\* started (StartDone removes the kill timer), or init closes.
TerminationDone ==
    /\ pc = "post" /\ post_cb
    /\ current_stage = "TERMINATION" /\ ~OthersRunning
    /\ IF shutdown_list # <<>>
       THEN /\ current_stage' = "SHUTDOWN"
            /\ start_processes(shutdown_list, "term")
            /\ UNCHANGED <<timers, expired, kill_timeout, should_exit>>
       ELSE /\ current_stage' = "CLOSE"
            /\ timers' = timers \ {kill_timeout}
            /\ expired' = expired \ {kill_timeout}
            /\ kill_timeout' = NULL
            /\ mainloop_exit
            /\ UNCHANGED <<pending_finish, startVars>>
    /\ UNCHANGED <<proc, sigs, safeVars, batch, post_cb, shutdown_command,
                   safe_mode_on, running, remaining, one_shot_timeout, reapVars,
                   requests>>

\* STAGE_CLOSE was reached at an earlier event of the batch.
CloseAgain ==
    /\ pc = "post" /\ post_cb
    /\ current_stage = "CLOSE"
    /\ mainloop_exit
    /\ UNCHANGED <<proc, sigs, safeVars, timers, expired, batch, post_cb, stageVars,
                   running, listVars, timeoutVars, startVars, reapVars, requests>>

-----------------------------------------------------------------------------
(* The other actors *)

Operational == pc \notin {"setup"} \cup Terminal

\* A child of init ends.
Exit(p) ==
    /\ Operational
    /\ ChildExit(p)
    /\ UNCHANGED <<safeVars, loopVars, initVars, requests>>

\* An adopted process ends.
AdoptedExit ==
    /\ Operational /\ "CHLD" \notin sigs
    /\ OrphanExit
    /\ UNCHANGED <<safeVars, loopVars, initVars, requests>>

\* The placeholder becomes the safe-mode application.
PlaceholderExec(p) ==
    /\ Operational
    /\ safe_mode_wait(p)
    /\ UNCHANGED <<loopVars, initVars, requests>>

\* A process sends init a shutdown signal.
Request(signal) ==
    /\ Operational /\ signal \notin sigs /\ requests < MaxRequests
    /\ sigs' = sigs \cup {signal}
    /\ requests' = requests + 1
    /\ UNCHANGED <<proc, safeVars, loopVars, initVars>>

\* Time passes.
Elapse(t) ==
    /\ Operational
    /\ Expire(t)
    /\ UNCHANGED <<proc, sigs, safeVars, initVars, requests>>

\* init is gone: the kernel reboots or panics.
Ended == pc \in Terminal /\ UNCHANGED vars

-----------------------------------------------------------------------------

InitStep ==
    \/ Boot \/ BootFails \/ SpawnOne \/ SpawnFails \/ StartDone
    \/ Wait \/ DispatchSigchld
    \/ \E s \in ShutdownSignal : handle_shutdown_cmd(s)
    \/ \E t \in Timer : \/ one_shot_timeout_cb(t) \/ kill_timeout_cb(t)
                        \/ watchdog_feed(t) \/ DispatchDangling(t)
    \/ ReapOne \/ ReapDone \/ StartSafeMode \/ RestartPlaceholder
    \/ ChildExitHandled
    \/ NoCallback \/ NothingToDo \/ OrderDone \/ TerminationDone \/ CloseAgain
    \/ Leave

Environment ==
    \/ \E p \in Pid : Exit(p) \/ PlaceholderExec(p)
    \/ AdoptedExit
    \/ \E s \in ShutdownSignal : Request(s)
    \/ \E t \in Timer : Elapse(t)

Next == InitStep \/ Environment \/ Ended

Spec == Init /\ [][Next]_vars

\* init runs, timers expire, the placeholder reads its pipe, and a process that
\* was sent SIGKILL dies: the kernel's scheduling.  That the processes init
\* waits for (one-shot and shutdown ones) end is an assumption on them: init
\* has no time limit of its own for them.
Fairness ==
    /\ WF_vars(InitStep)
    /\ \A t \in Timer : WF_vars(Elapse(t))
    /\ \A p \in Pid : /\ WF_vars(PlaceholderExec(p))
                      /\ WF_vars(proc[p] = "killed" /\ Exit(p))
                      /\ WF_vars(is_one_shot_entry(config(p)) /\ Exit(p))

FairSpec == Spec /\ Fairness

-----------------------------------------------------------------------------
(* Invariants *)

\* The values the variables of init and of its environment may have.
TypeOK ==
    /\ proc \in [Pid -> ProcState]
    /\ sigs \subseteq Signal
    /\ pipe \in Seq(Report) /\ app \subseteq Report
    /\ timers \subseteq Timer /\ expired \subseteq timers
    /\ batch \subseteq Event
    /\ should_exit \in BOOLEAN /\ post_cb \in BOOLEAN
    /\ pc \in Location
    /\ current_stage \in Stage
    /\ shutdown_command \in ShutdownSignal /\ safe_mode_on \in BOOLEAN
    /\ running \subseteq Pid
    /\ remaining \in Seq(Entry)
    /\ pending_finish \in 0 .. UINT32 - 1
    /\ one_shot_timeout \in Timer \cup {NULL} /\ kill_timeout \in Timer \cup {NULL}
    /\ sp \in StartLocals
    /\ attempted \subseteq Entry
    /\ deceased \subseteq Report /\ restart_placeholder \in BOOLEAN
    /\ requests \in Nat

\* running_processes is exactly the set of children the kernel has for init,
\* zombies included: find_process knows every child waitpid returns, and no
\* entry of the list outlives its process (main.c:613-692, 835-940).
RunningTracksChildren ==
    pc \notin Terminal => running = {p \in Pid : proc[p] # "none"}

\* The safe-mode process is there, or about to be restarted by the handler that
\* reaped it.
SafeModeAvailable ==
    \/ SafeModeProcess # {}
    \/ pc \in {"reap", "reaped"} /\ restart_placeholder

OneShots == {p \in running : is_one_shot_entry(config(p))}

\* remaining.pending_finish counts the one-shot processes that run: it does not
\* drift as they are forked, as they die before, between and after the reaping
\* loops, and as orders and stages change.  During shutdown this is so as long
\* as the safe-mode process has not ended (main.c:644-649, 916-924).
PendingExact ==
    /\ pc \notin Terminal
    /\ \/ current_stage = "STARTUP"
       \/ current_stage = "SHUTDOWN" /\ SafeModeAvailable
    => pending_finish = Cardinality(OneShots)

\* The entries start_processes may be given.
Listed == {entry \in Entry : entry.type # "SAFE_MODE"}

\* What makes PendingExact inductive: the list of children is exact, there is no
\* child before setup_safe_mode, and the lists start_processes goes through hold
\* no <safe-mode> entry, so that nothing it forks is taken for the placeholder
\* (main.c:235-307, 613-692, 835-940).
CountingInv ==
    /\ RunningTracksChildren
    /\ PendingExact
    /\ pc = "setup" => running = {}
    /\ sp.entry \in Seq(Listed) /\ remaining \in Seq(Listed)

\* No process runs beside a one-shot process of an earlier order of its list:
\* "A process on a next order is only started after all process on preceding
\* order are terminated, unless they are of type 'service'"
\* (specs/inittab-spec.txt:20-22; main.c:668-674, 697-712).
OrderRespected ==
    \A p \in OneShots, q \in running :
        config(p).order < config(q).order =>
            /\ ~(is_startup_entry(config(p)) /\ is_startup_entry(config(q)))
            /\ ~(/\ is_shutdown_entry(config(p)) /\ is_shutdown_entry(config(q))
                 /\ current_stage = "SHUTDOWN" /\ SafeModeAvailable)

\* The entries start_processes still has to go through.
Todo == Elements(IF pc = "start" THEN sp.entry ELSE remaining)

\* No entry of the inittab is skipped or started twice in one pass through its
\* list, whatever fork and calloc do: the entries gone through and those that
\* remain are always the whole list, and init is in STAGE_RUN, or closes, only
\* when none remains (main.c:613-692, 697-757).
EveryEntryOnce ==
    /\ current_stage \in {"STARTUP", "SHUTDOWN"} /\ pc \notin Terminal =>
         /\ attempted \cap Todo = {}
         /\ attempted \cup Todo =
              Elements(IF current_stage = "STARTUP" THEN startup_list ELSE shutdown_list)
    /\ current_stage = "RUN" => attempted = Elements(startup_list) /\ OneShots = {}
    /\ current_stage = "CLOSE" => Elements(shutdown_list) \subseteq attempted

\* The timeout pointers never dangle, so no timeout is freed twice, and no
\* one-shot timer outlives the pointer to it (main.c:566-576, 680-689, 703-705,
\* 742-745, 818-821).
TimeoutPointersValid ==
    /\ {one_shot_timeout, kill_timeout} \subseteq timers \cup {NULL}
    /\ \A t \in timers : t[1] = "one_shot" => t = one_shot_timeout

\* There is never a second safe-mode process, and until safe mode is on there
\* is one whenever init is not reaping: a crash of a safe process finds a
\* placeholder (main.c:235-307, 892-903, 935-939).
PlaceholderKept ==
    pc \notin {"setup"} \cup Terminal =>
        /\ Cardinality(SafeModeProcess) <= 1
        /\ ~safe_mode_on => SafeModeAvailable

\* When init blocks in epoll_wait some child is left to wake it: nothing that a
\* finished stage or order should trigger was missed.  As long as calloc does not
\* fail, an order that init is to go on from has a process that it awaits, even if
\* some of its forks failed; so has the last order of shutdown if fork does not fail
\* and the safe-mode process has not ended (main.c:613-692, 697-757).
NoLostWakeup ==
    pc = "epoll" =>
        /\ current_stage = "TERMINATION" => Cardinality(running) > 1
        /\ current_stage \in {"STARTUP", "SHUTDOWN"} /\ "calloc" \notin Faults =>
             \/ pending_finish > 0
             \/ /\ remaining = <<>>
                /\ current_stage = "SHUTDOWN" => "fork" \in Faults \/ ~SafeModeAvailable

-----------------------------------------------------------------------------
(* Refinement *)

Gone == pc \in Terminal

LC == INSTANCE Lifecycle WITH
          stage <- IF Gone THEN "ENDED" ELSE current_stage,
          todo <- IF Gone THEN <<>> ELSE IF pc = "start" THEN sp.entry ELSE remaining,
          children <- IF Gone THEN {} ELSE running

\* init implements Lifecycle: stages follow one another as specs/architecture.txt
\* says, the entries are taken in the order of the file, none before the awaited
\* processes of earlier orders are gone, and RUN and CLOSE are reached only when
\* nothing is left to start or to wait for, whatever the children, the signals, the
\* timers and the failing calls do in between (main.c:613-757, 809-940).
ImplementsLifecycle == LC!Spec

-----------------------------------------------------------------------------
(* Action properties *)

\* init sends SIGKILL only to processes that it sent SIGTERM before, and never
\* a signal to the safe-mode process, whichever kill timer fires
\* (main.c:772-807).
KillAfterTerm ==
    [][\A p \in Pid : proc'[p] \in {"termed", "killed"} /\ proc'[p] # proc[p] =>
          /\ config(p).type # "SAFE_MODE"
          /\ proc'[p] = "killed" => proc[p] = "termed"]_vars

-----------------------------------------------------------------------------
(* Liveness *)

\* A safe process that crashed leads to the safe-mode application or to the end
\* of init (main.c:591-611, 835-940; specs/requirements.txt:359-369).
CrashLeadsToSafeMode ==
    (\E p \in Pid : /\ is_safe_entry(config(p)) /\ config(p).type # "SAFE_MODE"
                    /\ proc[p] \in Status \ {"exit0"})
        ~> (app # {} \/ pc \in Terminal)

\* Once init terminates its processes it gets to reboot(2), or ends otherwise,
\* unless the safe-mode application has ended before; a placeholder that dies and is
\* restarted does not count as that (main.c:697-757, 772-833, 930-940).
ShutdownCompletes ==
    current_stage = "TERMINATION" ~> (pc \in Terminal \/ ~SafeModeAvailable)

\* Start-up goes through the whole inittab unless a shutdown comes first
\* (main.c:613-692, 697-712).
StartupCompletes ==
    current_stage = "STARTUP" ~>
        \/ attempted = Elements(startup_list)
        \/ current_stage # "STARTUP" \/ pc \in Terminal

-----------------------------------------------------------------------------
(* What the repository says of init and its code does not do *)

\* No event of a batch refers to a timeout that was freed: "checking for memory
\* issues. If any is found, this check should fail" (tests/README.tests:171-173;
\* mainloop.c:124-160).
NoUseAfterFree == \A ev \in batch : ~Dangling(ev)

\* mainloop_exit is called once: assert(!should_exit) (mainloop.c:92).
ExitCalledOnce == pc # "aborted"

\* The safe-mode application is told how the process it is told of ended: "tags
\* <proc> and <exitcode>, that will be substituted for process name [...] and
\* exit code" (specs/inittab-spec.txt:58-61; main.c:907-912).
ReportedSignalIsItsOwn == \A r \in app : r.signal \in Killer => r.signal = r.ended

=============================================================================
