----------------------------- MODULE Descriptors -----------------------------
(***************************************************************************)
(* The file descriptors of init and of the children it sets up             *)
(* (src/src/main.c, log.c, watchdog.c, mainloop.c).  init closes its       *)
(* standard streams, so that the numbers 0, 1 and 2 are handed out to its  *)
(* epoll set, its signalfd and whatever comes next; a child inherits all   *)
(* of them and puts its own streams in their place before exec.  The log   *)
(* is opened whenever it first can be, and the watchdog may be missing or  *)
(* fail, so the numbers differ from boot to boot.                          *)
(*                                                                         *)
(* init and one child are followed; the child has its own table.           *)
(***************************************************************************)
EXTENDS Integers, FiniteSets

CONSTANTS MaxFd,           \* the highest descriptor of the instance
          MaxTimers,       \* bound: timers beside the watchdog's
          Consoles,        \* whether 0, 1 and 2 are open when init starts
          DriverTimeouts,  \* what the watchdog driver says its timeout is
          UINT32           \* the modulus of uint32_t

VARIABLES pc, container,
          fds,               \* init's descriptor table
          log,               \* static int fd of log.c
          epollfd, sig_fd, watchdog_fd, safe_mode_pipe_fd,
          timerfds,          \* the descriptors of the timers but the watchdog's
          watchdog_timeout,  \* the descriptor of the watchdog's timer, -1: NULL
          timeout,           \* the driver's timeout in seconds
          file,              \* a file main has open for a while
          child              \* the child that is followed, {} or one record

statics == <<log, epollfd, sig_fd, safe_mode_pipe_fd>>
watchdog == <<watchdog_fd, watchdog_timeout, timeout>>
vars == <<pc, container, fds, statics, timerfds, watchdog, file, child>>

Fd == 0 .. MaxFd
Std == 0 .. 2
INT_MAX == UINT32 \div 2 - 1

\* The driver's timeout is an int.
ASSUME DescriptorsAssumption ==
    /\ MaxFd \in Nat /\ MaxFd > 2 /\ MaxTimers \in Nat /\ Consoles \subseteq BOOLEAN
    /\ UINT32 \in Nat \ {0}
    /\ DriverTimeouts \subseteq {t \in Int : t <= INT_MAX}

-----------------------------------------------------------------------------
(* Descriptor tables *)

Closed == [file |-> "closed", cloexec |-> FALSE]
Put(t, fd, f, cloexec) == [t EXCEPT ![fd] = [file |-> f, cloexec |-> cloexec]]
Shut(t, S) == [fd \in Fd |-> IF fd \in S THEN Closed ELSE t[fd]]

\* The kernel hands out the lowest number that is free (and not below min), if there
\* is one: the set of it, or {} for EMFILE.
Lowest(t, min) ==
    {fd \in Fd : fd >= min /\ t[fd] = Closed /\ \A n \in min .. fd - 1 : t[n] # Closed}
New(t) == Lowest(t, 0)

\* dup2: the copy does not have FD_CLOEXEC.
Dup2(t, from, to) == Put(t, to, t[from].file, FALSE)

\* safe_dup: the table, and the number the descriptor has now ({} when it fails).
safe_dup(t, fd) ==
    IF fd > 2 THEN {[fds |-> t, fd |-> fd]}
    ELSE {[fds |-> Shut(Put(t, n, t[fd].file, FALSE), {fd}), fd |-> n] : n \in Lowest(t, 3)}

\* exec closes what has FD_CLOEXEC.
AtExec(t) == Shut(t, {fd \in Fd : t[fd].cloexec})

-----------------------------------------------------------------------------
(* main, up to the event loop *)

Init ==
    /\ pc = "mount" /\ container \in BOOLEAN
    /\ \E console \in Consoles :
          fds = [fd \in Fd |-> IF fd \in Std /\ (console \/ container)
                               THEN [file |-> "inherited", cloexec |-> FALSE] ELSE Closed]
    /\ log = -1 /\ epollfd = -1 /\ sig_fd = -1 /\ safe_mode_pipe_fd = 0
    /\ watchdog_fd = -1 /\ watchdog_timeout = -1 /\ timeout = 0
    /\ timerfds = {} /\ file = -1 /\ child = {}

Running == pc \notin {"exited", "rebooted", "aborted"}

\* open, epoll_create, signalfd and timerfd_create: init has f open at fd.
Opens(fd, f) == fd \in New(fds) /\ fds' = Put(fds, fd, f, TRUE)

\* log_message, which everything calls: the log is opened once it can be.
log_fd ==
    /\ Running /\ log = -1
    /\ \E fd \in Fd : Opens(fd, "log") /\ log' = fd
    /\ UNCHANGED <<pc, container, epollfd, sig_fd, safe_mode_pipe_fd, timerfds, watchdog,
                   file, child>>

\* setup_console, unless init runs in a container: 0, 1 and 2 are closed, and the
\* console is opened, reset and closed again.
setup_console ==
    /\ pc = "mount"
    /\ fds' = IF container THEN fds ELSE Shut(fds, Std)
    /\ pc' = "sysrq"
    /\ UNCHANGED <<container, statics, timerfds, watchdog, file, child>>

\* Any step of the set-up but the watchdog's may fail: main returns.  In the loop
\* init panics when the placeholder cannot be started again.
SetupFails ==
    /\ pc \in {"mount", "epoll", "signals", "inittab", "placeholder", "run"} /\ file = -1
    /\ pc' = "exited"
    /\ UNCHANGED <<container, fds, statics, timerfds, watchdog, file, child>>

\* The files that are open for a while, with messages in between: sysrq, which may
\* be missing, the inittab, and mountinfo at the end.
Afterwards == [sysrq |-> "epoll", inittab |-> "placeholder", mountinfo |-> "disarm"]

OpenFile ==
    /\ pc \in DOMAIN Afterwards /\ file = -1
    /\ \E fd \in Fd : Opens(fd, pc) /\ file' = fd
    /\ UNCHANGED <<pc, container, statics, timerfds, watchdog, child>>

CloseFile ==
    /\ file # -1
    /\ fds' = Shut(fds, {file}) /\ file' = -1
    /\ pc' = Afterwards[pc]
    /\ UNCHANGED <<container, statics, timerfds, watchdog, child>>

NoFile ==
    /\ pc \in {"sysrq", "mountinfo"} /\ file = -1
    /\ pc' = Afterwards[pc]
    /\ UNCHANGED <<container, fds, statics, timerfds, watchdog, file, child>>

mainloop_setup ==
    /\ pc = "epoll"
    /\ \E fd \in Fd : Opens(fd, "epoll") /\ epollfd' = fd
    /\ pc' = "signals"
    /\ UNCHANGED <<container, log, sig_fd, safe_mode_pipe_fd, timerfds, watchdog, file, child>>

mainloop_add_signal_handler ==
    /\ pc = "signals"
    /\ \E fd \in Fd : Opens(fd, "signalfd") /\ sig_fd' = fd
    /\ pc' = "watchdog"
    /\ UNCHANGED <<container, log, epollfd, safe_mode_pipe_fd, timerfds, watchdog, file, child>>

-----------------------------------------------------------------------------
(* The watchdog *)

\* start_watchdog: there is no device.
NoWatchdog ==
    /\ pc = "watchdog"
    /\ watchdog_fd' = -1 /\ pc' = "inittab"
    /\ UNCHANGED <<container, fds, statics, timerfds, watchdog_timeout, timeout, file, child>>

\* Opening the device arms it.
OpenWatchdog ==
    /\ pc = "watchdog"
    /\ \E fd \in Fd : Opens(fd, "watchdog") /\ watchdog_fd' = fd
    /\ timeout' \in DriverTimeouts
    /\ pc' = "armed"
    /\ UNCHANGED <<container, statics, timerfds, watchdog_timeout, file, child>>

WATCHDOG_TIMEOUT_DEFAULT_SECS == 60

\* What GETTIMEOUT may return and be used as it is.
Usable(secs) == secs >= 1

feed_ms(secs) == (secs * 900) % UINT32

\* GETTIMEOUT may fail too; then the default is set.
TimerForWatchdog ==
    /\ pc = "armed"
    /\ \/ Usable(timeout) /\ timeout' = timeout
       \/ timeout' = WATCHDOG_TIMEOUT_DEFAULT_SECS
    /\ feed_ms(timeout') # 0
    /\ \E fd \in Fd : Opens(fd, "timer") /\ watchdog_timeout' = fd
    /\ pc' = "inittab"
    /\ UNCHANGED <<container, statics, timerfds, watchdog_fd, file, child>>

\* An interval of 0, which a timeout of 2^30 s comes to, fails the assertion of
\* mainloop_add_timeout.
IntervalZero ==
    /\ pc = "armed" /\ Usable(timeout) /\ feed_ms(timeout) = 0
    /\ pc' = "aborted"
    /\ UNCHANGED <<container, fds, statics, timerfds, watchdog, file, child>>

\* Variant: a number of the standard streams is taken for "not open".
close_watchdog_AboveStd ==
    /\ fds' = IF watchdog_fd > 2 THEN Shut(fds, {watchdog_fd, watchdog_timeout}) ELSE fds
    /\ watchdog_timeout' = IF watchdog_fd > 2 THEN -1 ELSE watchdog_timeout

\* The device is closed, after the magic character if it is to be disarmed, and its
\* timer removed; the number stays in watchdog_fd.
close_watchdog ==
    /\ fds' = IF watchdog_fd > 0 THEN Shut(fds, {watchdog_fd, watchdog_timeout}) ELSE fds
    /\ watchdog_timeout' = IF watchdog_fd > 0 THEN -1 ELSE watchdog_timeout

\* Variant: the device is left open.
WatchdogFails_LeavesOpen ==
    /\ pc = "armed"
    /\ pc' = "inittab"
    /\ UNCHANGED <<container, fds, statics, timerfds, watchdog, file, child>>

\* SETTIMEOUT or the timer failed: the device is closed without being disarmed.
WatchdogFails ==
    /\ pc = "armed"
    /\ close_watchdog
    /\ pc' = "inittab"
    /\ UNCHANGED <<container, statics, timerfds, watchdog_fd, timeout, file, child>>

-----------------------------------------------------------------------------
(* The event loop: timers, children and the placeholder *)

AddTimer ==
    /\ pc = "run" /\ Cardinality(timerfds) < MaxTimers
    /\ \E fd \in Fd : Opens(fd, "timer") /\ timerfds' = timerfds \cup {fd}
    /\ UNCHANGED <<pc, container, statics, watchdog, file, child>>

RemoveTimer(fd) ==
    /\ pc = "run" /\ fd \in timerfds
    /\ timerfds' = timerfds \ {fd} /\ fds' = Shut(fds, {fd})
    /\ UNCHANGED <<pc, container, statics, watchdog, file, child>>

\* A child with a copy of a table; r and w are the ends of the placeholder's pipe.
Child(role, t, r, w) ==
    {[role |-> role, at |-> "forked", fds |-> t, log |-> log, r |-> r, w |-> w]}

\* Variant: init closes the end it writes to.
OwnEnds_Swapped(t, r, w) == Shut(t, {w})

\* pid1 won't read from the pipe.
OwnEnds(t, r, w) == Shut(t, {r})

\* setup_safe_mode, at start and when the placeholder died: the old pipe is closed,
\* a new one made, and after the fork init closes its read end.
setup_safe_mode ==
    /\ pc \in {"placeholder", "run"} /\ child = {}
    /\ LET t0 == IF safe_mode_pipe_fd > 0 THEN Shut(fds, {safe_mode_pipe_fd}) ELSE fds
       IN  \E r \in New(t0) : \E w \in New(Put(t0, r, "pipe_read", TRUE)) :
              LET t2 == Put(Put(t0, r, "pipe_read", TRUE), w, "pipe_write", TRUE)
              IN  /\ child' = Child("placeholder", t2, r, w)
                  /\ fds' = OwnEnds(t2, r, w)
                  /\ safe_mode_pipe_fd' = w
    /\ pc' = "run"
    /\ UNCHANGED <<container, log, epollfd, sig_fd, timerfds, watchdog, file>>

\* spawn_exec, for an entry with and without a terminal.
spawn_exec(role) ==
    /\ pc = "run" /\ child = {}
    /\ child' = Child(role, fds, -1, -1)
    /\ UNCHANGED <<pc, container, fds, statics, timerfds, watchdog, file>>

-----------------------------------------------------------------------------
(* The child *)

Become(c) == child' = {c} /\ UNCHANGED <<pc, container, fds, statics, timerfds, watchdog, file>>

\* "fork result" is logged in the child of spawn_exec as well.
ChildLogs ==
    \E c \in child :
        /\ c.at = "forked" /\ c.role # "placeholder" /\ c.log = -1
        /\ \E fd \in New(c.fds) : Become([c EXCEPT !.log = fd, !.fds = Put(@, fd, "log", TRUE)])

\* Ways to have a file at hand, each the set of a table and the number in it: it is
\* opened; it is the log, which log_fd opens if it is not; it is moved out of the way
\* of the streams.
Opened(t, f, cloexec) == {[fds |-> Put(t, n, f, cloexec), fd |-> n] : n \in New(t)}
LogAt(t, l) == IF l # -1 THEN {[fds |-> t, fd |-> l]} ELSE Opened(t, "log", TRUE)
Above(S) == UNION {safe_dup(o.fds, o.fd) : o \in S}

\* The copies become the streams.
Stream(t, in, out) == Dup2(Dup2(Dup2(t, in, 0), out, 1), out, 2)

\* setup_stdio, on a table where the log is open at l, or not (-1): /dev/null and the
\* log become the streams, and both are closed.  The set of the table, {} on failure.
setup_stdio(t, l) ==
    UNION {{Shut(Stream(out.fds, null.fd, out.fd), {out.fd, null.fd}) :
               out \in Above(LogAt(null.fds, l))} : null \in Above(Opened(t, "null", FALSE))}

\* Variant: the terminal is not closed once it is the three streams.
setup_stty_Open(t) ==
    {Stream(tty.fds, tty.fd, tty.fd) : tty \in Above(Opened(t, "tty", TRUE))}

\* setup_stty: the terminal is opened, becomes the streams and is reset.
setup_stty(t) ==
    {Shut(Stream(tty.fds, tty.fd, tty.fd), {tty.fd}) : tty \in Above(Opened(t, "tty", TRUE))}

\* setup_child and exec.
ExecService ==
    \E c \in child :
        /\ c.at = "forked" /\ c.role \in {"service", "terminal"}
        /\ \E t \in IF c.role = "terminal" THEN setup_stty(c.fds)
                                           ELSE setup_stdio(c.fds, c.log) :
              Become([c EXCEPT !.at = "exec", !.fds = AtExec(t)])

\* Variant: the write end is not closed in the placeholder.
Waiting_KeepsWriteEnd(c, r, t) == [c EXCEPT !.at = "waiting", !.r = r, !.fds = t]

\* The placeholder with its read end at r and its streams set up, and its write end
\* closed.
Waiting(c, r, t) == [c EXCEPT !.at = "waiting", !.r = r, !.fds = Shut(t, {c.w})]

\* Before it waits, the read end is moved out of the way of the streams.
WaitForReport ==
    \E c \in child :
        /\ c.at = "forked" /\ c.role = "placeholder"
        /\ \E r \in safe_dup(c.fds, c.r) : \E t \in setup_stdio(r.fds, c.log) :
              Become(Waiting(c, r.fd, t))

\* safe_mode_wait has its report: the pipe is closed, the application executed.
ExecSafeMode ==
    \E c \in child :
        c.at = "waiting" /\ Become([c EXCEPT !.at = "exec", !.fds = AtExec(Shut(c.fds, {c.r}))])

\* A call failed and the child is gone, or it is not looked at any more.
ChildGone ==
    /\ child # {} /\ child' = {}
    /\ UNCHANGED <<pc, container, fds, statics, timerfds, watchdog, file>>

-----------------------------------------------------------------------------
(* The end *)

\* mainloop_start returns and closes the epoll set, whose number it forgets unless a
\* read failed; then the signalfd is closed.
Leave ==
    /\ pc = "run" /\ child = {}
    /\ fds' = Shut(fds, {epollfd, sig_fd})
    /\ epollfd' \in {-1, epollfd} /\ sig_fd' = -1
    /\ pc' = "mountinfo"
    /\ UNCHANGED <<container, log, safe_mode_pipe_fd, timerfds, watchdog, file, child>>

\* close_watchdog(true).
do_reboot ==
    /\ pc = "disarm"
    /\ close_watchdog
    /\ pc' = "rebooted"
    /\ UNCHANGED <<container, statics, timerfds, watchdog_fd, timeout, file, child>>

Ended == ~Running /\ UNCHANGED vars

Next ==
    \/ log_fd \/ setup_console \/ SetupFails \/ OpenFile \/ CloseFile \/ NoFile
    \/ mainloop_setup \/ mainloop_add_signal_handler
    \/ NoWatchdog \/ OpenWatchdog \/ TimerForWatchdog \/ IntervalZero \/ WatchdogFails
    \/ AddTimer \/ (\E fd \in Fd : RemoveTimer(fd))
    \/ setup_safe_mode \/ (\E role \in {"service", "terminal"} : spawn_exec(role))
    \/ ChildLogs \/ ExecService \/ WaitForReport \/ ExecSafeMode \/ ChildGone
    \/ Leave \/ do_reboot \/ Ended

Spec == Init /\ [][Next]_vars

-----------------------------------------------------------------------------

\* While the loop runs, the numbers init keeps in static variables are those of the
\* files they were opened for: nothing was closed under a number another part still
\* uses (log.c:41, main.c:244, 1021-1023, mainloop.c:70-90, 232-297).
NumbersValid ==
    pc = "run" =>
        /\ log # -1 => fds[log].file = "log"
        /\ fds[epollfd].file = "epoll" /\ fds[sig_fd].file = "signalfd"
        /\ fds[safe_mode_pipe_fd].file = "pipe_write"
        /\ \A fd \in timerfds \cup ({watchdog_timeout} \ {-1}) : fds[fd].file = "timer"
        /\ watchdog_timeout # -1 => fds[watchdog_fd].file = "watchdog"

Streams(t, f) == \A fd \in Std : t[fd].file = (IF f = "tty" THEN f ELSE IF fd = 0 THEN "null" ELSE f)
OnlyStreams(t) == \A fd \in Fd \ Std : t[fd] = Closed

\* The program of a child finds exactly its three streams open: /dev/null and twice
\* the log, or three times its terminal, and nothing of init, whatever numbers init's
\* own descriptors have (main.c:154-233, 417-467; safe-mode.c:75-77).
ChildStreams ==
    \A c \in child : c.at = "exec" =>
        Streams(c.fds, IF c.role = "terminal" THEN "tty" ELSE "log") /\ OnlyStreams(c.fds)

\* The waiting placeholder has its streams and the read end of the pipe, and does not
\* hold the write end itself: it sees the end of the pipe once init is gone and every
\* child that was being set up has come to exec (main.c:284-298, safe-mode.c:57-60).
PlaceholderPipe ==
    \A c \in child : c.at = "waiting" =>
        /\ Streams(c.fds, "log") /\ c.r > 2 /\ c.fds[c.r].file = "pipe_read"
        /\ \A fd \in Fd : c.fds[fd].file # "pipe_write"

\* From when start_watchdog returns until the loop is left, a watchdog device that is
\* open is fed in time: its number and that of its timer are still theirs, however
\* start_watchdog failed and whatever was opened and closed since, and the interval is
\* positive and shorter than the timeout, also when the product wraps.  A device that
\* nobody feeds is not left open, which needs its number not to be 0 (watchdog.c:40-110).
WatchdogFed ==
    pc \in {"inittab", "placeholder", "run"} /\ (\E fd \in Fd : fds[fd].file = "watchdog") =>
        /\ watchdog_timeout # -1 /\ fds[watchdog_timeout].file = "timer"
        /\ watchdog_timeout \notin timerfds /\ fds[watchdog_fd].file = "watchdog"
        /\ 0 < feed_ms(timeout) /\ feed_ms(timeout) < 1000 * timeout

\* What close_watchdog writes "V" to at the end is the watchdog, or, if that was
\* closed after a failure and its number reused, nothing that counts any more: never
\* the placeholder's pipe.  An armed watchdog that is open is always closed that way,
\* which needs its number not to be 0 (watchdog.c:40-67).
DisarmsWatchdog ==
    /\ pc = "disarm" => watchdog_fd = -1 \/ fds[watchdog_fd].file # "pipe_write"
    /\ pc = "rebooted" => \A fd \in Fd : fds[fd].file # "watchdog"

=============================================================================
