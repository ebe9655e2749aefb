-------------------------- MODULE DescriptorsProofs --------------------------
(***************************************************************************)
(* The numbers init keeps and the streams its children get: proofs about   *)
(* Descriptors for every size of the descriptor table, any number of       *)
(* timers and every answer of the watchdog driver.                         *)
(***************************************************************************)
EXTENDS Descriptors, TLAPS

\* The steps expand large actions: the SMT solver is given up to a minute for each.
USE SMTT(60)

FileName == {"closed", "inherited", "log", "sysrq", "inittab", "mountinfo", "epoll",
             "signalfd", "watchdog", "timer", "pipe_read", "pipe_write", "null", "tty"}
Slot == [file : FileName, cloexec : BOOLEAN]
Table == [Fd -> Slot]
Number == Fd \cup {-1}

Place == {"mount", "sysrq", "epoll", "signals", "watchdog", "armed", "inittab",
          "placeholder", "run", "mountinfo", "disarm", "rebooted", "exited",
          "aborted"}
Early == {"mount", "sysrq", "epoll", "signals", "watchdog"}
Looping == {"watchdog", "armed", "inittab", "placeholder", "run"}

ChildType == [role : {"placeholder", "service", "terminal"},
              at : {"forked", "waiting", "exec"},
              fds : Table, log : Number, r : Number, w : Number]

TypeInv ==
    /\ pc \in Place /\ container \in BOOLEAN /\ fds \in Table
    /\ log \in Number /\ epollfd \in Number /\ sig_fd \in Number /\ file \in Number
    /\ watchdog_fd \in Number /\ watchdog_timeout \in Number /\ safe_mode_pipe_fd \in Fd
    /\ timerfds \subseteq Fd /\ timeout \in Int

-----------------------------------------------------------------------------
(* The inductive invariant *)

\* What is never closed before the loop is left.
Permanent(fd) == fds[fd].file \in {"inherited", "epoll", "signalfd", "log"}

\* Everything init opens is closed by exec; what it inherits is on the streams.
Inherits == \A fd \in Fd : fds[fd] # Closed =>
                fds[fd].cloexec \/ (fds[fd].file = "inherited" /\ fd \in Std)

\* The numbers of the loop, the pipe and the timers, as far as they are known.
Kept ==
    /\ pc \in {"signals"} \cup Looping => epollfd # -1 /\ fds[epollfd].file = "epoll"
    /\ pc \in Looping => sig_fd # -1 /\ fds[sig_fd].file = "signalfd"
    /\ pc = "run" => safe_mode_pipe_fd > 0 /\ fds[safe_mode_pipe_fd].file = "pipe_write"
    /\ pc \in Early \cup (Looping \ {"run"}) => safe_mode_pipe_fd = 0
    /\ file # -1 => pc \in DOMAIN Afterwards /\ fds[file].file = pc
    /\ Running => \A fd \in timerfds : fds[fd].file = "timer"
    /\ Running /\ watchdog_timeout # -1 =>
         fds[watchdog_timeout].file = "timer" /\ watchdog_timeout \notin timerfds

\* The watchdog is at its number or closed, nothing but permanent files is below it,
\* and the numbers 0 and 1 are taken when it is opened: so 0 is never its number, and
\* its number is never that of the pipe's write end, which is above its read end.
WatchdogKept ==
    /\ pc \in Early => /\ watchdog_fd = -1 /\ watchdog_timeout = -1 /\ timerfds = {}
                       /\ \A fd \in Fd : fds[fd] # Closed => Permanent(fd) \/ fd = file
    /\ pc = "signals" => Permanent(0)
    /\ pc \in Looping => Permanent(0) /\ Permanent(1)
    /\ pc = "armed" => /\ watchdog_fd # -1 /\ fds[watchdog_fd].file = "watchdog"
                       /\ watchdog_timeout = -1
    /\ Running /\ watchdog_timeout # -1 =>
         watchdog_fd # -1 /\ fds[watchdog_fd].file = "watchdog"
    /\ \A fd \in Fd : fds[fd].file = "watchdog" => fd = watchdog_fd /\ fd > 0 /\ pc # "rebooted"
    /\ \A fd \in Fd : fds[fd].file = "pipe_write" => fd = safe_mode_pipe_fd /\ pc \notin Early
    /\ pc \in Looping => \A fd \in Fd : fd < watchdog_fd => Permanent(fd)
    /\ Running /\ watchdog_fd # -1 => fds[watchdog_fd].file # "pipe_write"

\* init is always started with its console open.
WithConsole == FALSE \notin Consoles

\* Then the log is at its number: setup_console does not close it, because the streams
\* were taken when it was opened.
LogKept ==
    WithConsole =>
        /\ pc = "mount" => \A fd \in Std : fds[fd].file = "inherited"
        /\ Running /\ log # -1 => fds[log].file = "log"

\* A forked child has a copy of init's table; the placeholder has both ends of its pipe.
ForkedOK(c) ==
    /\ c.log # -1 => c.fds[c.log].file = "log"
    /\ \A fd \in Fd : c.fds[fd] # Closed => c.fds[fd].cloexec \/ fd \in Std
    /\ c.role = "placeholder" =>
         /\ c.r # -1 /\ c.fds[c.r].file = "pipe_read"
         /\ c.w > 2 /\ c.fds[c.w].file = "pipe_write"
         /\ \A fd \in Fd : c.fds[fd].file = "pipe_write" => fd = c.w

\* The waiting placeholder: what is left beside its streams and its pipe is closed by exec.
WaitingOK(c) ==
    /\ Streams(c.fds, "log") /\ c.r > 2 /\ c.fds[c.r].file = "pipe_read"
    /\ \A fd \in Fd : c.fds[fd].file # "pipe_write"
    /\ \A fd \in Std : ~c.fds[fd].cloexec
    /\ \A fd \in Fd \ Std : c.fds[fd] = Closed \/ c.fds[fd].cloexec \/ fd = c.r
    /\ c.role = "placeholder"

ChildKept ==
    /\ child \subseteq ChildType
    /\ \A c \in child : /\ c.at = "forked" => ForkedOK(c)
                        /\ c.at = "waiting" => WaitingOK(c)
                        /\ c.at = "exec" => Streams(c.fds, IF c.role = "terminal" THEN "tty" ELSE "log")
                                            /\ OnlyStreams(c.fds)

\* The inductive invariant about init.
DescInv == TypeInv /\ Inherits /\ Kept /\ WatchdogKept /\ LogKept

-----------------------------------------------------------------------------
(* Descriptor tables *)

\* 0 and 1 are descriptor numbers, and -1 is none.
LEMMA FdNumbers == Fd \subseteq Nat /\ 0 \in Fd /\ 1 \in Fd /\ -1 \notin Fd
  BY DescriptorsAssumption DEF Fd

\* So are the three of the standard streams.
LEMMA Numbers == /\ Fd \subseteq Nat /\ Std \subseteq Fd /\ Std = {0, 1, 2}
                 /\ 0 \in Fd /\ 1 \in Fd /\ 2 \in Fd /\ -1 \notin Fd
  BY DescriptorsAssumption DEF Fd, Std

\* A file name and a flag make an entry of a descriptor table.
LEMMA SlotType ==
  ASSUME NEW f \in FileName, NEW b \in BOOLEAN
  PROVE  [file |-> f, cloexec |-> b] \in Slot
  BY DEF Slot

\* So does the entry of a number that is not in use.
LEMMA ClosedSlot == Closed \in Slot /\ Closed.file = "closed" /\ ~Closed.cloexec
<1>1. "closed" \in FileName /\ FALSE \in BOOLEAN
  BY Zenon DEF FileName
<1>2. Closed \in Slot
  BY Zenon, <1>1, SlotType DEF Closed
<1>3. Closed.file = "closed"
  BY DEF Closed
<1>4. ~Closed.cloexec
  BY Zenon DEF Closed
<1>5. QED
  BY Zenon, <1>2, <1>3, <1>4

\* What a table holds once a file is put at a number, with or without FD_CLOEXEC, or
\* numbers are shut.
LEMMA PutAny ==
  ASSUME NEW t \in Table, NEW fd \in Fd, NEW f \in FileName, NEW b \in BOOLEAN
  PROVE  /\ Put(t, fd, f, b) \in Table
         /\ Put(t, fd, f, b)[fd].file = f
         /\ Put(t, fd, f, b)[fd].cloexec = b
         /\ \A n \in Fd : n # fd => Put(t, fd, f, b)[n] = t[n]
  BY SlotType DEF Put, Table

\* The table u is t with the file f at fd.
Placed(u, t, fd, f) ==
    u \in Table /\ u[fd].file = f /\ \A n \in Fd : n # fd => u[n] = t[n]

\* An open with O_CLOEXEC, and one without: only the number it returns changes.
LEMMA PutCloexec ==
  ASSUME NEW t \in Table, NEW fd \in Fd, NEW f \in FileName
  PROVE  Placed(Put(t, fd, f, TRUE), t, fd, f) /\ Put(t, fd, f, TRUE)[fd].cloexec
<1>1. PICK b \in BOOLEAN : b = TRUE
  BY Zenon
<1>2. /\ Put(t, fd, f, b) \in Table
      /\ Put(t, fd, f, b)[fd].file = f
      /\ Put(t, fd, f, b)[fd].cloexec = b
      /\ \A n \in Fd : n # fd => Put(t, fd, f, b)[n] = t[n]
  BY PutAny
<1>3. QED
  BY Zenon, <1>1, <1>2 DEF Placed

\* See PutCloexec.
LEMMA PutPlain ==
  ASSUME NEW t \in Table, NEW fd \in Fd, NEW f \in FileName
  PROVE  Placed(Put(t, fd, f, FALSE), t, fd, f) /\ ~Put(t, fd, f, FALSE)[fd].cloexec
<1>1. PICK b \in BOOLEAN : b = FALSE
  BY Zenon
<1>2. /\ Put(t, fd, f, b) \in Table
      /\ Put(t, fd, f, b)[fd].file = f
      /\ Put(t, fd, f, b)[fd].cloexec = b
      /\ \A n \in Fd : n # fd => Put(t, fd, f, b)[n] = t[n]
  BY PutAny
<1>3. QED
  BY Zenon, <1>1, <1>2 DEF Placed

\* Closing some numbers leaves the others alone.
LEMMA ShutTable ==
  ASSUME NEW t \in Table, NEW S
  PROVE  /\ Shut(t, S) \in Table
         /\ \A n \in Fd : (n \in S => Shut(t, S)[n] = Closed) /\ (n \notin S => Shut(t, S)[n] = t[n])
  BY ClosedSlot DEF Shut, Table

\* What an entry of a table consists of.
LEMMA SlotFields ==
  ASSUME NEW t \in Table, NEW fd \in Fd
  PROVE  t[fd].file \in FileName /\ t[fd].cloexec \in BOOLEAN
  BY DEF Table, Slot

\* The kernel's choice.
LEMMA LowestFd ==
  ASSUME NEW t, NEW min \in Nat, NEW n \in Lowest(t, min)
  PROVE  /\ n \in Fd /\ n >= min /\ t[n] = Closed
         /\ \A m \in Fd : m >= min /\ m < n => t[m] # Closed
  BY Numbers DEF Lowest

\* An open returns the lowest number that is not in use.
LEMMA NewFd ==
  ASSUME NEW t, NEW n \in New(t)
  PROVE  /\ n \in Fd /\ t[n] = Closed
         /\ \A m \in Fd : m < n => t[m] # Closed
  BY LowestFd, Numbers DEF New

\* init opens a file: nothing that was open changes.
LEMMA OpensTable ==
  ASSUME TypeInv, NEW fd, NEW f \in FileName, Opens(fd, f)
  PROVE  /\ fd \in Fd /\ fds[fd] = Closed /\ fds' \in Table
         /\ fds'[fd].file = f /\ fds'[fd].cloexec
         /\ \A n \in Fd : n # fd => fds'[n] = fds[n]
         /\ \A n \in Fd : n < fd => fds[n] # Closed
         /\ \A n \in Fd : fds[n].file # "closed" => n # fd
<1>1. /\ fd \in Fd /\ fds[fd] = Closed /\ fds' = Put(fds, fd, f, TRUE)
      /\ \A n \in Fd : n < fd => fds[n] # Closed
  BY NewFd DEF Opens
<1>2. fds \in Table
  BY DEF TypeInv
<1>3. /\ fds' \in Table /\ fds'[fd].file = f /\ fds'[fd].cloexec
      /\ \A n \in Fd : n # fd => fds'[n] = fds[n]
  <2>1. Placed(Put(fds, fd, f, TRUE), fds, fd, f) /\ Put(fds, fd, f, TRUE)[fd].cloexec
    BY ZenonT(60), <1>1, <1>2, PutCloexec
  <2>2. QED
    BY Zenon, <1>1, <2>1 DEF Placed
<1>4. \A n \in Fd : fds[n].file # "closed" => n # fd
  BY Zenon, <1>1, ClosedSlot
<1>5. QED
  BY Zenon, <1>1, <1>3, <1>4

-----------------------------------------------------------------------------
(* init's own table *)

\* A step after the start that leaves the log where it is.
LEMMA LogStays ==
  ASSUME DescInv, Running, pc' # "mount", log' = log,
         \A n \in Fd : fds[n].file = "log" => fds'[n] = fds[n]
  PROVE  LogKept'
  BY DEF DescInv, TypeInv, LogKept, Number

\* The log is opened.
LEMMA LogOpens ==
  ASSUME DescInv, log_fd
  PROVE  DescInv'
<1>1. PICK fd \in Fd : Opens(fd, "log") /\ log' = fd
  BY DEF log_fd
<1>2. /\ Running
      /\ UNCHANGED <<pc, container, epollfd, sig_fd, safe_mode_pipe_fd, timerfds, watchdog_fd,
                     watchdog_timeout, timeout, file, child>>
  BY DEF log_fd, watchdog
<1>3. /\ fds[fd] = Closed /\ fds' \in Table
      /\ fds'[fd].file = "log" /\ fds'[fd].cloexec
      /\ \A n \in Fd : n # fd => fds'[n] = fds[n]
      /\ \A n \in Fd : fds[n].file # "closed" => n # fd
  BY <1>1, OpensTable DEF DescInv, FileName
<1>4. TypeInv'
  BY <1>1, <1>2, <1>3 DEF DescInv, TypeInv, Number
<1>5. Inherits'
  BY <1>3 DEF DescInv, Inherits
<1>6. Kept'
  BY <1>2, <1>3 DEF DescInv, TypeInv, Kept, Running, Afterwards, Number
<1>7. WatchdogKept'
  BY <1>2, <1>3, Numbers DEF DescInv, TypeInv, WatchdogKept, Permanent, Running, Number
<1>8. LogKept'
  BY <1>1, <1>2, <1>3, Numbers
  DEF DescInv, TypeInv, LogKept, Running, Number
<1>9. QED
  BY <1>4, <1>5, <1>6, <1>7, <1>8 DEF DescInv

\* A file is opened for a while.
LEMMA FileOpens ==
  ASSUME DescInv, OpenFile
  PROVE  DescInv'
<1>1. PICK fd \in Fd : Opens(fd, pc) /\ file' = fd
  BY DEF OpenFile
<1>2. /\ pc \in DOMAIN Afterwards /\ file = -1
      /\ UNCHANGED <<pc, container, log, epollfd, sig_fd, safe_mode_pipe_fd, timerfds, watchdog_fd,
                     watchdog_timeout, timeout, child>>
  BY Zenon DEF OpenFile, watchdog, statics
<1>3. pc \in FileName /\ pc # "closed"
  BY <1>2 DEF FileName, Afterwards
<1>4. /\ fds[fd] = Closed /\ fds' \in Table
      /\ fds'[fd].file = pc /\ fds'[fd].cloexec
      /\ \A n \in Fd : n # fd => fds'[n] = fds[n]
      /\ \A n \in Fd : n < fd => fds[n] # Closed
      /\ \A n \in Fd : fds[n].file # "closed" => n # fd
  BY Zenon, <1>1, <1>3, OpensTable DEF DescInv
<1>5. TypeInv'
  BY <1>1, <1>2, <1>4 DEF DescInv, TypeInv, Number, Place
<1>6. Inherits'
  BY <1>4 DEF DescInv, Inherits
<1>7. Kept'
  <2>1. \A n \in Fd : fds[n].file # "closed" => fds'[n] = fds[n]
    BY Zenon, <1>4
  <2>2. UNCHANGED <<pc, epollfd, sig_fd, safe_mode_pipe_fd, timerfds, watchdog_timeout>>
    BY <1>2
  <2>3. /\ pc \in {"signals"} \cup Looping => epollfd \in Fd /\ epollfd # -1 /\ fds'[epollfd].file = "epoll"
        /\ pc \in Looping => sig_fd \in Fd /\ sig_fd # -1 /\ fds'[sig_fd].file = "signalfd"
    BY <2>1 DEF DescInv, TypeInv, Kept, Number
  <2>4. pc # "run"
    BY <1>2 DEF Afterwards
  <2>5. file' # -1 => pc \in DOMAIN Afterwards /\ fds'[file'].file = pc
    BY Zenon, <1>1, <1>2, <1>4
  <2>6. /\ Running => \A n \in timerfds : fds'[n].file = "timer"
        /\ Running /\ watchdog_timeout # -1 =>
             fds'[watchdog_timeout].file = "timer" /\ watchdog_timeout \notin timerfds
    BY <2>1 DEF DescInv, TypeInv, Kept, Number
  <2>7. pc \in Early \cup (Looping \ {"run"}) => safe_mode_pipe_fd = 0
    BY Zenon DEF DescInv, Kept
  <2>8. QED
    BY Zenon, <2>2, <2>3, <2>4, <2>5, <2>6, <2>7 DEF Kept, Running
<1>8. WatchdogKept'
  BY <1>1, <1>2, <1>4, Numbers
  DEF DescInv, TypeInv, Kept, WatchdogKept, Permanent, Running, Number, Looping, Early, Afterwards
<1>9. LogKept'
  BY <1>1, <1>2, <1>4, LogStays DEF Running, Afterwards
<1>10. QED
  BY Zenon, <1>5, <1>6, <1>7, <1>8, <1>9 DEF DescInv

\* The epoll set: it takes 0 unless something permanent has it.
LEMMA EpollOpens ==
  ASSUME DescInv, mainloop_setup
  PROVE  DescInv'
<1>1. PICK fd \in Fd : Opens(fd, "epoll") /\ epollfd' = fd
  BY DEF mainloop_setup
<1>2. /\ pc = "epoll" /\ pc' = "signals"
      /\ UNCHANGED <<container, log, sig_fd, safe_mode_pipe_fd, timerfds, watchdog_fd,
                     watchdog_timeout, timeout, file, child>>
  BY Zenon DEF mainloop_setup, watchdog, statics
<1>3. "epoll" \in FileName /\ "epoll" # "closed"
  BY DEF FileName
<1>4. /\ fds[fd] = Closed /\ fds' \in Table
      /\ fds'[fd].file = "epoll" /\ fds'[fd].cloexec
      /\ \A n \in Fd : n # fd => fds'[n] = fds[n]
      /\ \A n \in Fd : n < fd => fds[n] # Closed
      /\ \A n \in Fd : fds[n].file # "closed" => n # fd
  BY Zenon, <1>1, <1>3, OpensTable DEF DescInv
<1>5. TypeInv'
  BY <1>1, <1>2, <1>4 DEF DescInv, TypeInv, Number, Place
<1>6. Inherits'
  BY <1>4 DEF DescInv, Inherits
<1>7. Kept'
  BY <1>1, <1>2, <1>4, Numbers DEF DescInv, TypeInv, Kept, WatchdogKept, Running, Afterwards, Number, Looping, Early
<1>8. WatchdogKept'
  BY <1>1, <1>2, <1>4, Numbers
  DEF DescInv, TypeInv, Kept, WatchdogKept, Permanent, Running, Number, Looping, Early, Afterwards
<1>9. LogKept'
  BY <1>1, <1>2, <1>4, LogStays DEF Running, Afterwards
<1>10. QED
  BY Zenon, <1>5, <1>6, <1>7, <1>8, <1>9 DEF DescInv

\* The signalfd: 0 and 1 are taken from here on.
LEMMA SignalfdOpens ==
  ASSUME DescInv, mainloop_add_signal_handler
  PROVE  DescInv'
<1>1. PICK fd \in Fd : Opens(fd, "signalfd") /\ sig_fd' = fd
  BY DEF mainloop_add_signal_handler
<1>2. /\ pc = "signals" /\ pc' = "watchdog"
      /\ UNCHANGED <<container, log, epollfd, safe_mode_pipe_fd, timerfds, watchdog_fd,
                     watchdog_timeout, timeout, file, child>>
  BY Zenon DEF mainloop_add_signal_handler, watchdog, statics
<1>3. "signalfd" \in FileName /\ "signalfd" # "closed"
  BY DEF FileName
<1>4. /\ fds[fd] = Closed /\ fds' \in Table
      /\ fds'[fd].file = "signalfd" /\ fds'[fd].cloexec
      /\ \A n \in Fd : n # fd => fds'[n] = fds[n]
      /\ \A n \in Fd : n < fd => fds[n] # Closed
      /\ \A n \in Fd : fds[n].file # "closed" => n # fd
  BY Zenon, <1>1, <1>3, OpensTable DEF DescInv
<1>5. TypeInv'
  BY <1>1, <1>2, <1>4 DEF DescInv, TypeInv, Number, Place
<1>6. Inherits'
  BY <1>4 DEF DescInv, Inherits
<1>7. Kept'
  BY <1>1, <1>2, <1>4, Numbers DEF DescInv, TypeInv, Kept, WatchdogKept, Running, Afterwards, Number, Looping, Early
<1>8. WatchdogKept'
  BY <1>1, <1>2, <1>4, Numbers
  DEF DescInv, TypeInv, Kept, WatchdogKept, Permanent, Running, Number, Looping, Early, Afterwards
<1>9. LogKept'
  BY <1>1, <1>2, <1>4, LogStays DEF Running, Afterwards
<1>10. QED
  BY Zenon, <1>5, <1>6, <1>7, <1>8, <1>9 DEF DescInv

\* The watchdog: its number is above 1.
LEMMA WatchdogOpens ==
  ASSUME DescInv, OpenWatchdog
  PROVE  DescInv'
<1>1. PICK fd \in Fd : Opens(fd, "watchdog") /\ watchdog_fd' = fd
  BY DEF OpenWatchdog
<1>2. /\ pc = "watchdog" /\ pc' = "armed" /\ timeout' \in DriverTimeouts
      /\ UNCHANGED <<container, log, epollfd, sig_fd, safe_mode_pipe_fd, timerfds,
                     watchdog_timeout, file, child>>
  BY Zenon DEF OpenWatchdog, watchdog, statics
<1>3. "watchdog" \in FileName /\ "watchdog" # "closed"
  BY DEF FileName
<1>4. /\ fds[fd] = Closed /\ fds' \in Table
      /\ fds'[fd].file = "watchdog" /\ fds'[fd].cloexec
      /\ \A n \in Fd : n # fd => fds'[n] = fds[n]
      /\ \A n \in Fd : n < fd => fds[n] # Closed
      /\ \A n \in Fd : fds[n].file # "closed" => n # fd
  BY Zenon, <1>1, <1>3, OpensTable DEF DescInv
<1>5. TypeInv'
  BY <1>1, <1>2, <1>4, DescriptorsAssumption DEF DescInv, TypeInv, Number, Place
<1>6. Inherits'
  BY <1>4 DEF DescInv, Inherits
<1>7. Kept'
  BY <1>1, <1>2, <1>4, Numbers DEF DescInv, TypeInv, Kept, WatchdogKept, Running, Afterwards, Number, Looping, Early
<1>8. WatchdogKept'
  BY <1>1, <1>2, <1>4, Numbers
  DEF DescInv, TypeInv, Kept, WatchdogKept, Permanent, Running, Number, Looping, Early, Afterwards
<1>9. LogKept'
  BY <1>1, <1>2, <1>4, LogStays DEF Running, Afterwards
<1>10. QED
  BY Zenon, <1>5, <1>6, <1>7, <1>8, <1>9 DEF DescInv

\* The watchdog has its timer.
LEMMA WatchdogTimer ==
  ASSUME DescInv, TimerForWatchdog
  PROVE  DescInv'
<1>1. PICK fd \in Fd : Opens(fd, "timer") /\ watchdog_timeout' = fd
  BY DEF TimerForWatchdog
<1>2. /\ pc = "armed" /\ pc' = "inittab"
      /\ timeout' = timeout \/ timeout' = WATCHDOG_TIMEOUT_DEFAULT_SECS
      /\ UNCHANGED <<container, log, epollfd, sig_fd, safe_mode_pipe_fd, timerfds, watchdog_fd, file, child>>
  BY Zenon DEF TimerForWatchdog, watchdog, statics
<1>3. "timer" \in FileName /\ "timer" # "closed"
  BY DEF FileName
<1>4. /\ fds[fd] = Closed /\ fds' \in Table
      /\ fds'[fd].file = "timer" /\ fds'[fd].cloexec
      /\ \A n \in Fd : n # fd => fds'[n] = fds[n]
      /\ \A n \in Fd : n < fd => fds[n] # Closed
      /\ \A n \in Fd : fds[n].file # "closed" => n # fd
  BY Zenon, <1>1, <1>3, OpensTable DEF DescInv
<1>5. TypeInv'
  BY <1>1, <1>2, <1>4
  DEF DescInv, TypeInv, Number, Place, WATCHDOG_TIMEOUT_DEFAULT_SECS
<1>6. Inherits'
  BY <1>4 DEF DescInv, Inherits
<1>7. Kept'
  BY <1>1, <1>2, <1>4, Numbers DEF DescInv, TypeInv, Kept, WatchdogKept, Running, Afterwards, Number, Looping, Early
<1>8. WatchdogKept'
  BY <1>1, <1>2, <1>4, Numbers
  DEF DescInv, TypeInv, Kept, WatchdogKept, Permanent, Running, Number, Looping, Early, Afterwards
<1>9. LogKept'
  BY <1>1, <1>2, <1>4, LogStays DEF Running, Afterwards
<1>10. QED
  BY Zenon, <1>5, <1>6, <1>7, <1>8, <1>9 DEF DescInv

\* Another timer.
LEMMA TimerOpens ==
  ASSUME DescInv, AddTimer
  PROVE  DescInv'
<1>1. PICK fd \in Fd : Opens(fd, "timer") /\ timerfds' = timerfds \cup {fd}
  BY DEF AddTimer
<1>2. /\ pc = "run"
      /\ UNCHANGED <<pc, container, log, epollfd, sig_fd, safe_mode_pipe_fd, watchdog_fd,
                     watchdog_timeout, timeout, file, child>>
  BY Zenon DEF AddTimer, watchdog, statics
<1>3. "timer" \in FileName /\ "timer" # "closed"
  BY DEF FileName
<1>4. /\ fds[fd] = Closed /\ fds' \in Table
      /\ fds'[fd].file = "timer" /\ fds'[fd].cloexec
      /\ \A n \in Fd : n # fd => fds'[n] = fds[n]
      /\ \A n \in Fd : n < fd => fds[n] # Closed
      /\ \A n \in Fd : fds[n].file # "closed" => n # fd
  BY Zenon, <1>1, <1>3, OpensTable DEF DescInv
<1>5. TypeInv'
  BY <1>1, <1>2, <1>4 DEF DescInv, TypeInv, Number, Place
<1>6. Inherits'
  BY <1>4 DEF DescInv, Inherits
<1>7. Kept'
  BY <1>1, <1>2, <1>4, Numbers DEF DescInv, TypeInv, Kept, WatchdogKept, Running, Afterwards, Number, Looping, Early
<1>8. WatchdogKept'
  BY <1>1, <1>2, <1>4, Numbers
  DEF DescInv, TypeInv, Kept, WatchdogKept, Permanent, Running, Number, Looping, Early, Afterwards
<1>9. LogKept'
  BY <1>1, <1>2, <1>4, LogStays DEF Running, Afterwards
<1>10. QED
  BY Zenon, <1>5, <1>6, <1>7, <1>8, <1>9 DEF DescInv

\* setup_console shuts the streams before anything has their numbers, or nothing.
LEMMA ConsoleShut ==
  ASSUME DescInv, setup_console
  PROVE  DescInv'
<1>1. /\ pc = "mount" /\ pc' = "sysrq"
      /\ fds' = IF container THEN fds ELSE Shut(fds, Std)
      /\ UNCHANGED <<container, log, epollfd, sig_fd, safe_mode_pipe_fd, timerfds, watchdog_fd,
                     watchdog_timeout, timeout, file, child>>
  BY Zenon DEF setup_console, watchdog, statics
<1>2. /\ fds' \in Table
      /\ \A n \in Fd : fds'[n] = Closed \/ fds'[n] = fds[n]
      /\ \A n \in Fd \ Std : fds'[n] = fds[n]
  <2>1. CASE container
    BY <1>1, <2>1 DEF DescInv, TypeInv
  <2>2. CASE ~container
    BY <1>1, <2>2, ShutTable DEF DescInv, TypeInv
  <2>3. QED
    BY <2>1, <2>2
<1>3. TypeInv'
  BY <1>1, <1>2 DEF DescInv, TypeInv, Number, Place
<1>4. Inherits'
  BY <1>1, <1>2 DEF DescInv, Inherits
<1>5. Kept'
  BY <1>1, <1>2, Numbers, ClosedSlot
  DEF DescInv, TypeInv, Kept, WatchdogKept, Running, Afterwards, Number, Looping, Early
<1>6. WatchdogKept'
  BY <1>1, <1>2, Numbers, ClosedSlot
  DEF DescInv, TypeInv, Kept, WatchdogKept, Permanent, Running, Number, Looping, Early, Afterwards
<1>7. LogKept'
  BY <1>1, <1>2, Numbers
  DEF DescInv, TypeInv, LogKept, Running, Number
<1>8. QED
  BY Zenon, <1>3, <1>4, <1>5, <1>6, <1>7 DEF DescInv

\* Steps that leave the table alone.
LEMMA SetupQuiet ==
  ASSUME DescInv, SetupFails \/ IntervalZero
  PROVE  DescInv'
<1>1. /\ pc' \in {"exited", "aborted"}
      /\ file = -1 \/ pc = "armed"
      /\ UNCHANGED <<container, fds, log, epollfd, sig_fd, safe_mode_pipe_fd, timerfds, watchdog_fd,
                     watchdog_timeout, timeout, file, child>>
  BY Zenon DEF SetupFails, IntervalZero, watchdog, statics
<1>2. fds' = fds /\ fds \in Table
  BY <1>1 DEF DescInv, TypeInv
<1>3. TypeInv'
  BY <1>1, <1>2 DEF DescInv, TypeInv, Number, Place
<1>4. Inherits'
  BY <1>1, <1>2 DEF DescInv, Inherits
<1>5. Kept'
  BY <1>1, <1>2, Numbers, ClosedSlot
  DEF DescInv, TypeInv, Kept, WatchdogKept, Running, Afterwards, Number, Looping, Early
<1>6. WatchdogKept'
  BY <1>1, <1>2, Numbers, ClosedSlot
  DEF DescInv, TypeInv, Kept, WatchdogKept, Permanent, Running, Number, Looping, Early, Afterwards
<1>7. LogKept'
  BY <1>1, <1>2, Numbers
  DEF DescInv, TypeInv, LogKept, Running, Number
<1>8. QED
  BY Zenon, <1>3, <1>4, <1>5, <1>6, <1>7 DEF DescInv

\* There is no sysrq file, or no mountinfo.
LEMMA NoFileQuiet ==
  ASSUME DescInv, NoFile
  PROVE  DescInv'
<1>1. /\ pc \in {"sysrq", "mountinfo"} /\ file = -1 /\ pc' = Afterwards[pc]
      /\ UNCHANGED <<container, fds, log, epollfd, sig_fd, safe_mode_pipe_fd, timerfds, watchdog_fd,
                     watchdog_timeout, timeout, file, child>>
  BY Zenon DEF NoFile, watchdog, statics
<1>2. fds' = fds /\ fds \in Table
  BY <1>1 DEF DescInv, TypeInv
<1>3. TypeInv'
  BY <1>1, <1>2 DEF DescInv, TypeInv, Number, Place, Afterwards
<1>4. Inherits'
  BY <1>1, <1>2 DEF DescInv, Inherits
<1>5. Kept'
  BY <1>1, <1>2, Numbers, ClosedSlot
  DEF DescInv, TypeInv, Kept, WatchdogKept, Running, Afterwards, Number, Looping, Early
<1>6. WatchdogKept'
  BY <1>1, <1>2, Numbers, ClosedSlot
  DEF DescInv, TypeInv, Kept, WatchdogKept, Permanent, Running, Number, Looping, Early, Afterwards
<1>7. LogKept'
  BY <1>1, <1>2, LogStays DEF Running, Afterwards
<1>8. QED
  BY Zenon, <1>3, <1>4, <1>5, <1>6, <1>7 DEF DescInv

\* There is no watchdog.
LEMMA NoWatchdogQuiet ==
  ASSUME DescInv, NoWatchdog
  PROVE  DescInv'
<1>1. /\ pc = "watchdog" /\ pc' = "inittab" /\ watchdog_fd' = -1
      /\ UNCHANGED <<container, fds, log, epollfd, sig_fd, safe_mode_pipe_fd, timerfds,
                     watchdog_timeout, timeout, file, child>>
  BY Zenon DEF NoWatchdog, watchdog, statics
<1>2. fds' = fds /\ fds \in Table
  BY <1>1 DEF DescInv, TypeInv
<1>3. TypeInv'
  BY <1>1, <1>2 DEF DescInv, TypeInv, Number, Place
<1>4. Inherits'
  BY <1>1, <1>2 DEF DescInv, Inherits
<1>5. Kept'
  BY <1>1, <1>2, Numbers, ClosedSlot
  DEF DescInv, TypeInv, Kept, WatchdogKept, Running, Afterwards, Number, Looping, Early
<1>6. WatchdogKept'
  BY <1>1, <1>2, Numbers, ClosedSlot
  DEF DescInv, TypeInv, Kept, WatchdogKept, Permanent, Running, Number, Looping, Early, Afterwards
<1>7. LogKept'
  BY <1>1, <1>2, LogStays DEF Running, Afterwards
<1>8. QED
  BY Zenon, <1>3, <1>4, <1>5, <1>6, <1>7 DEF DescInv

\* The file is closed again.
LEMMA FileShut ==
  ASSUME DescInv, CloseFile
  PROVE  DescInv'
<1>1. /\ file # -1 /\ fds' = Shut(fds, {file}) /\ file' = -1 /\ pc' = Afterwards[pc]
      /\ UNCHANGED <<container, log, epollfd, sig_fd, safe_mode_pipe_fd, timerfds, watchdog_fd,
                     watchdog_timeout, timeout, child>>
  BY Zenon DEF CloseFile, watchdog, statics
<1>2. /\ fds' \in Table
      /\ \A n \in Fd : (n \in {file} => fds'[n] = Closed) /\ (n \notin {file} => fds'[n] = fds[n])
  BY <1>1, ShutTable DEF DescInv, TypeInv
<1>3. /\ \A n \in Fd : fds[n].file # pc => fds'[n] = fds[n]
      /\ \A n \in Fd : fds'[n].file # "closed" => fds'[n] = fds[n]
  <2>1. file # -1 /\ file \in Fd /\ fds[file].file = pc
    BY <1>1 DEF DescInv, Kept, TypeInv, Number
  <2>2. QED
    BY Zenon, <1>2, <2>1, ClosedSlot
<1>4. TypeInv'
  BY <1>1, <1>2 DEF DescInv, TypeInv, Number, Place, Kept, Afterwards
<1>5. Inherits'
  BY <1>1, <1>2 DEF DescInv, Inherits
<1>6. /\ \/ pc = "sysrq" /\ pc' = "epoll"
         \/ pc = "inittab" /\ pc' = "placeholder"
         \/ pc = "mountinfo" /\ pc' = "disarm"
      /\ file \in Fd /\ file' = -1 /\ fds'[file] = Closed
      /\ \A n \in Fd : n # file => fds'[n] = fds[n]
  <2>1. file \in Fd /\ file' = -1
    BY Zenon, <1>1 DEF DescInv, TypeInv, Number
  <2>2. fds'[file] = Closed /\ \A n \in Fd : n # file => fds'[n] = fds[n]
    BY Zenon, <1>2, <2>1
  <2>3. pc \in DOMAIN Afterwards /\ pc' = Afterwards[pc]
    BY Zenon, <1>1 DEF DescInv, Kept
  <2>4. \/ pc = "sysrq" /\ pc' = "epoll"
        \/ pc = "inittab" /\ pc' = "placeholder"
        \/ pc = "mountinfo" /\ pc' = "disarm"
    BY <2>3 DEF Afterwards
  <2>5. QED
    BY Zenon, <2>1, <2>2, <2>4
<1>7. UNCHANGED <<container, log, epollfd, sig_fd, safe_mode_pipe_fd, timerfds, watchdog_fd,
               watchdog_timeout, timeout, child>>
  BY <1>1
<1>8. Kept'
  BY <1>3, <1>6, <1>7
  DEF DescInv, TypeInv, Kept, Running, Number, Looping, Early, Afterwards
<1>9. WatchdogKept'
  <2>1. CASE pc = "sysrq" /\ pc' = "epoll"
    BY <1>3, <1>6, <1>7, <2>1
    DEF DescInv, TypeInv, WatchdogKept, Permanent, Running, Number, Looping, Early
  <2>2. CASE pc = "inittab" /\ pc' = "placeholder"
    BY ZenonT(60), <1>3, <1>7, <2>2, FdNumbers
    DEF DescInv, TypeInv, WatchdogKept, Permanent, Running, Number, Looping, Early
  <2>3. CASE pc = "mountinfo" /\ pc' = "disarm"
    BY <1>3, <1>7, <2>3, FdNumbers
    DEF DescInv, TypeInv, WatchdogKept, Permanent, Running, Number, Looping, Early
  <2>4. QED
    BY Zenon, <1>6, <2>1, <2>2, <2>3
<1>10. LogKept'
  BY <1>3, <1>6, <1>7, LogStays DEF Running, Afterwards
<1>11. QED
  BY Zenon, <1>4, <1>5, <1>8, <1>9, <1>10 DEF DescInv

\* The watchdog is closed after a failure; its number is above 0.
LEMMA WatchdogShut ==
  ASSUME DescInv, WatchdogFails
  PROVE  DescInv'
<1>1. /\ pc = "armed" /\ pc' = "inittab"
      /\ fds' = IF watchdog_fd > 0 THEN Shut(fds, {watchdog_fd, -1}) ELSE fds
      /\ UNCHANGED <<container, log, epollfd, sig_fd, safe_mode_pipe_fd, timerfds, watchdog_fd,
                     watchdog_timeout, timeout, file, child>>
  <2>1. pc = "armed" /\ pc' = "inittab" /\ close_watchdog
        /\ UNCHANGED <<container, log, epollfd, sig_fd, safe_mode_pipe_fd, timerfds, watchdog_fd,
                       timeout, file, child>>
    BY Zenon DEF WatchdogFails, statics
  <2>2. watchdog_timeout = -1
    BY Zenon, <2>1 DEF DescInv, WatchdogKept
  <2>3. QED
    BY Zenon, <2>1, <2>2 DEF close_watchdog
<1>2. /\ fds' \in Table
      /\ \A n \in Fd : n # watchdog_fd => fds'[n] = fds[n]
      /\ watchdog_fd \in Fd /\ watchdog_fd > 0 /\ fds'[watchdog_fd] = Closed
  <2>1. watchdog_fd \in Fd /\ watchdog_fd > 0
    BY <1>1 DEF DescInv, TypeInv, WatchdogKept, Number
  <2>2. QED
    BY <1>1, <2>1, ShutTable, Numbers DEF DescInv, TypeInv
<1>3. /\ \A n \in Fd : fds[n].file # "watchdog" => fds'[n] = fds[n]
      /\ \A n \in Fd : fds'[n].file # "closed" => fds'[n] = fds[n]
  <2>1. fds[watchdog_fd].file = "watchdog"
    BY <1>1 DEF DescInv, WatchdogKept, TypeInv, Number
  <2>2. QED
    BY Zenon, <1>2, <2>1, ClosedSlot
<1>4. TypeInv'
  BY <1>1, <1>2 DEF DescInv, TypeInv, Number, Place
<1>5. Inherits'
  BY Zenon, <1>1, <1>2 DEF DescInv, Inherits
<1>6. pc = "armed" /\ pc' = "inittab" /\ watchdog_fd > 0
  BY <1>1, <1>2
<1>7. UNCHANGED <<container, log, epollfd, sig_fd, safe_mode_pipe_fd, timerfds, watchdog_fd,
               watchdog_timeout, timeout, file, child>>
  BY <1>1
<1>8. Kept'
  BY Zenon, <1>3, <1>6, <1>7, Numbers
  DEF DescInv, TypeInv, Kept, Running, Number, Looping, Early, Afterwards
<1>9. WatchdogKept'
  BY <1>3, <1>6, <1>7, Numbers
  DEF DescInv, TypeInv, Kept, WatchdogKept, Permanent, Running, Number, Looping, Early
<1>10. LogKept'
  BY <1>3, <1>6, <1>7, LogStays DEF Running, Afterwards
<1>11. QED
  BY Zenon, <1>4, <1>5, <1>8, <1>9, <1>10 DEF DescInv

\* A timer is closed.
LEMMA TimerShut ==
  ASSUME DescInv, NEW fd \in Fd, RemoveTimer(fd)
  PROVE  DescInv'
<1>1. /\ pc = "run" /\ fd \in timerfds /\ timerfds' = timerfds \ {fd} /\ fds' = Shut(fds, {fd})
      /\ UNCHANGED <<pc, container, log, epollfd, sig_fd, safe_mode_pipe_fd, watchdog_fd,
                     watchdog_timeout, timeout, file, child>>
  BY Zenon DEF RemoveTimer, watchdog, statics
<1>2. /\ fds' \in Table
      /\ \A n \in Fd : (n \in {fd} => fds'[n] = Closed) /\ (n \notin {fd} => fds'[n] = fds[n])
  BY <1>1, ShutTable DEF DescInv, TypeInv
<1>3. /\ \A n \in Fd : fds[n].file # "timer" => fds'[n] = fds[n]
      /\ \A n \in Fd : fds'[n].file # "closed" => fds'[n] = fds[n]
  <2>1. fds[fd].file = "timer"
    BY <1>1 DEF DescInv, Kept, Running, TypeInv, Number
  <2>2. QED
    BY Zenon, <1>2, <2>1, ClosedSlot
<1>4. TypeInv'
  BY <1>1, <1>2 DEF DescInv, TypeInv, Number, Place
<1>5. Inherits'
  BY Zenon, <1>1, <1>2 DEF DescInv, Inherits
<1>6. /\ pc = "run" /\ fd \in timerfds /\ timerfds' = timerfds \ {fd}
      /\ \A n \in Fd : n # fd => fds'[n] = fds[n]
  BY <1>1, <1>2
<1>7. UNCHANGED <<pc, container, log, epollfd, sig_fd, safe_mode_pipe_fd, watchdog_fd,
               watchdog_timeout, timeout, file, child>>
  BY <1>1
<1>8. Kept'
  BY Zenon, <1>3, <1>6, <1>7, Numbers
  DEF DescInv, TypeInv, Kept, Running, Number, Looping, Early, Afterwards
<1>9. WatchdogKept'
  BY <1>3, <1>6, <1>7, Numbers
  DEF DescInv, TypeInv, Kept, WatchdogKept, Permanent, Running, Number, Looping, Early
<1>10. LogKept'
  BY <1>3, <1>6, <1>7, LogStays DEF Running, Afterwards
<1>11. QED
  BY Zenon, <1>4, <1>5, <1>8, <1>9, <1>10 DEF DescInv

\* The loop is left.
LEMMA LeaveShut ==
  ASSUME DescInv, Leave
  PROVE  DescInv'
<1>1. /\ pc = "run" /\ pc' = "mountinfo" /\ epollfd' \in {-1, epollfd} /\ sig_fd' = -1
      /\ fds' = Shut(fds, {epollfd, sig_fd})
      /\ UNCHANGED <<container, log, safe_mode_pipe_fd, timerfds, watchdog_fd,
                     watchdog_timeout, timeout, file, child>>
  BY Zenon DEF Leave, watchdog, statics
<1>2. /\ fds' \in Table
      /\ \A n \in Fd : (n \in {epollfd, sig_fd} => fds'[n] = Closed) /\ (n \notin {epollfd, sig_fd} => fds'[n] = fds[n])
  BY <1>1, ShutTable DEF DescInv, TypeInv
<1>3. /\ \A n \in Fd : fds[n].file \notin {"epoll", "signalfd"} => fds'[n] = fds[n]
      /\ \A n \in Fd : fds'[n].file # "closed" => fds'[n] = fds[n]
  <2>1. fds[epollfd].file = "epoll" /\ fds[sig_fd].file = "signalfd"
    BY <1>1 DEF DescInv, Kept, Looping, TypeInv, Number
  <2>2. QED
    BY Zenon, <1>2, <2>1, ClosedSlot
<1>4. TypeInv'
  BY <1>1, <1>2 DEF DescInv, TypeInv, Number, Place
<1>5. Inherits'
  BY Zenon, <1>1, <1>2 DEF DescInv, Inherits
<1>6. pc = "run" /\ pc' = "mountinfo" /\ sig_fd' = -1
  BY <1>1
<1>7. UNCHANGED <<container, log, safe_mode_pipe_fd, timerfds, watchdog_fd,
               watchdog_timeout, timeout, file, child>>
  BY <1>1
<1>8. Kept'
  BY Zenon, <1>3, <1>6, <1>7, Numbers
  DEF DescInv, TypeInv, Kept, Running, Number, Looping, Early, Afterwards
<1>9. WatchdogKept'
  BY <1>3, <1>6, <1>7, Numbers
  DEF DescInv, TypeInv, Kept, WatchdogKept, Permanent, Running, Number, Looping, Early
<1>10. LogKept'
  BY <1>3, <1>6, <1>7, LogStays DEF Running, Afterwards
<1>11. QED
  BY Zenon, <1>4, <1>5, <1>8, <1>9, <1>10 DEF DescInv

\* The watchdog is disarmed and closed.
LEMMA RebootShut ==
  ASSUME DescInv, do_reboot
  PROVE  DescInv'
<1>1. /\ pc = "disarm" /\ pc' = "rebooted" /\ watchdog_timeout' \in {-1, watchdog_timeout}
      /\ fds' = IF watchdog_fd > 0 THEN Shut(fds, {watchdog_fd, watchdog_timeout}) ELSE fds
      /\ UNCHANGED <<container, log, epollfd, sig_fd, safe_mode_pipe_fd, timerfds, watchdog_fd,
                     timeout, file, child>>
  BY Zenon DEF do_reboot, close_watchdog, statics
<1>2. /\ fds' \in Table
      /\ \A n \in Fd : fds'[n] = Closed \/ fds'[n] = fds[n]
      /\ watchdog_fd > 0 => fds'[watchdog_fd] = Closed
  BY <1>1, ShutTable, Numbers DEF DescInv, TypeInv, Number
<1>3. TypeInv'
  BY <1>1, <1>2 DEF DescInv, TypeInv, Number, Place
<1>4. Inherits'
  BY <1>1, <1>2 DEF DescInv, Inherits
<1>5. Kept'
  BY Zenon, <1>1, <1>2, Numbers, ClosedSlot
  DEF DescInv, TypeInv, Kept, WatchdogKept, Running, Afterwards, Number, Looping, Early
<1>6. /\ pc = "disarm" /\ pc' = "rebooted"
      /\ UNCHANGED <<safe_mode_pipe_fd, watchdog_fd>>
  BY <1>1
<1>7. \A n \in Fd : fds'[n].file # "closed" => fds'[n] = fds[n] /\ (watchdog_fd > 0 => n # watchdog_fd)
  BY Zenon, <1>2, ClosedSlot
<1>8. WatchdogKept'
  BY <1>6, <1>7, Numbers DEF DescInv, TypeInv, WatchdogKept, Running, Number, Looping, Early
<1>9. LogKept'
  BY <1>6, <1>7, Numbers
  DEF DescInv, TypeInv, LogKept, Running, Number
<1>10. QED
  BY Zenon, <1>3, <1>4, <1>5, <1>8, <1>9 DEF DescInv

\* A new pipe: its read end is above the permanent numbers 0 and 1, and its write end
\* above its read end.
LEMMA PipeMade ==
  ASSUME DescInv, setup_safe_mode
  PROVE  \E t0 \in Table, t2 \in Table, r \in Fd, w \in Fd :
           /\ \A n \in Fd : \/ t0[n] = fds[n] /\ (n = safe_mode_pipe_fd => n = 0)
                            \/ t0[n] = Closed /\ n = safe_mode_pipe_fd /\ fds[n].file = "pipe_write"
           /\ 1 < r /\ r < w /\ t0[r] = Closed /\ t0[w] = Closed
           /\ t2[r].file = "pipe_read" /\ t2[r].cloexec
           /\ t2[w].file = "pipe_write" /\ t2[w].cloexec
           /\ \A n \in Fd : n # r /\ n # w => t2[n] = t0[n]
           /\ child' = Child("placeholder", t2, r, w)
           /\ fds' = Shut(t2, {r}) /\ safe_mode_pipe_fd' = w
<1>1. PICK t0 : t0 = IF safe_mode_pipe_fd > 0 THEN Shut(fds, {safe_mode_pipe_fd}) ELSE fds
  BY Zenon
<1>2. PICK r \in New(t0) : \E w \in New(Put(t0, r, "pipe_read", TRUE)) :
         /\ child' = Child("placeholder",
                           Put(Put(t0, r, "pipe_read", TRUE), w, "pipe_write", TRUE), r, w)
         /\ fds' = OwnEnds(Put(Put(t0, r, "pipe_read", TRUE), w, "pipe_write", TRUE), r, w)
         /\ safe_mode_pipe_fd' = w
  BY Zenon, <1>1 DEF setup_safe_mode
<1>3. PICK t1 : t1 = Put(t0, r, "pipe_read", TRUE)
  BY Zenon
<1>4. PICK w \in New(t1) :
         /\ child' = Child("placeholder", Put(t1, w, "pipe_write", TRUE), r, w)
         /\ fds' = OwnEnds(Put(t1, w, "pipe_write", TRUE), r, w)
         /\ safe_mode_pipe_fd' = w
  BY Zenon, <1>2, <1>3
<1>5. PICK t2 : t2 = Put(t1, w, "pipe_write", TRUE)
  BY Zenon
<1>6. pc \in {"placeholder", "run"}
  BY DEF setup_safe_mode
<1>7. fds \in Table /\ safe_mode_pipe_fd \in Fd
  BY DEF DescInv, TypeInv
<1>8. safe_mode_pipe_fd > 0 => fds[safe_mode_pipe_fd].file = "pipe_write"
  BY <1>6, <1>7 DEF DescInv, Kept, Looping
<1>9. t0 \in Table
  BY <1>1, <1>7, ShutTable
<1>10. \A n \in Fd : \/ t0[n] = fds[n] /\ (n = safe_mode_pipe_fd => n = 0)
                     \/ t0[n] = Closed /\ n = safe_mode_pipe_fd /\ fds[n].file = "pipe_write"
  BY <1>1, <1>7, <1>8, ShutTable, Numbers
<1>11. r \in Fd /\ t0[r] = Closed /\ \A m \in Fd : m < r => t0[m] # Closed
  BY NewFd
<1>12. w \in Fd /\ t1[w] = Closed /\ \A m \in Fd : m < w => t1[m] # Closed
  BY NewFd
<1>13. "pipe_read" \in FileName /\ "pipe_write" \in FileName
  BY DEF FileName
<1>14. /\ t1 \in Table /\ t1[r].file = "pipe_read" /\ t1[r].cloexec
       /\ \A n \in Fd : n # r => t1[n] = t0[n]
  <2>1. /\ Placed(Put(t0, r, "pipe_read", TRUE), t0, r, "pipe_read")
        /\ Put(t0, r, "pipe_read", TRUE)[r].cloexec
    BY ZenonT(60), <1>9, <1>11, <1>13, PutCloexec
  <2>2. QED
    BY Zenon, <1>3, <2>1 DEF Placed
<1>15. /\ t2 \in Table /\ t2[w].file = "pipe_write" /\ t2[w].cloexec
       /\ \A n \in Fd : n # w => t2[n] = t1[n]
  <2>1. /\ Placed(Put(t1, w, "pipe_write", TRUE), t1, w, "pipe_write")
        /\ Put(t1, w, "pipe_write", TRUE)[w].cloexec
    <3>1. t1 \in Table /\ w \in Fd /\ "pipe_write" \in FileName
      BY <1>12, <1>13, <1>14
    <3>2. QED
      BY ZenonT(60), <3>1, PutCloexec
  <2>2. QED
    BY Zenon, <1>5, <2>1 DEF Placed
<1>16. t1[r] # Closed
  BY <1>14, ClosedSlot
<1>17. r # w /\ t0[w] = Closed
  BY Zenon, <1>12, <1>14, <1>16
<1>18. r < w
  BY <1>11, <1>12, <1>17, Numbers
<1>19. t0[0] # Closed /\ t0[1] # Closed
  <2>1. Permanent(0) /\ Permanent(1)
    BY <1>6 DEF DescInv, WatchdogKept, Looping
  <2>2. fds[0].file # "closed" /\ fds[1].file # "closed" /\ fds[0].file # "pipe_write" /\ fds[1].file # "pipe_write"
    BY <2>1 DEF Permanent
  <2>3. t0[0] = fds[0] /\ t0[1] = fds[1]
    BY <1>10, <2>2, Numbers
  <2>4. QED
    BY Zenon, <2>2, <2>3, ClosedSlot
<1>20. 1 < r
  BY <1>11, <1>19, Numbers
<1>21. t2[r] = t1[r] /\ \A n \in Fd : n # r /\ n # w => t2[n] = t0[n]
  BY Zenon, <1>11, <1>14, <1>15, <1>17
<1>22. /\ child' = Child("placeholder", t2, r, w) /\ fds' = Shut(t2, {r})
       /\ safe_mode_pipe_fd' = w
  BY Zenon, <1>4, <1>5 DEF OwnEnds
<1>23. t2[r].file = "pipe_read" /\ t2[r].cloexec
  BY Zenon, <1>14, <1>21
<1>24. QED
  BY ZenonT(30), <1>9, <1>10, <1>11, <1>12, <1>15, <1>17, <1>18, <1>20, <1>21, <1>22, <1>23

\* init keeps the write end, and its number is not the watchdog's.
LEMMA PipeKept ==
  ASSUME DescInv, setup_safe_mode
  PROVE  DescInv'
<1>1. PICK t0 \in Table, t2 \in Table, r \in Fd, w \in Fd :
           /\ \A n \in Fd : \/ t0[n] = fds[n] /\ (n = safe_mode_pipe_fd => n = 0)
                            \/ t0[n] = Closed /\ n = safe_mode_pipe_fd /\ fds[n].file = "pipe_write"
           /\ 1 < r /\ r < w /\ t0[r] = Closed /\ t0[w] = Closed
           /\ t2[r].file = "pipe_read" /\ t2[r].cloexec
           /\ t2[w].file = "pipe_write" /\ t2[w].cloexec
           /\ \A n \in Fd : n # r /\ n # w => t2[n] = t0[n]
           /\ child' = Child("placeholder", t2, r, w)
           /\ fds' = Shut(t2, {r}) /\ safe_mode_pipe_fd' = w
  BY Zenon, PipeMade
<1>2. /\ pc \in {"placeholder", "run"} /\ pc' = "run"
      /\ UNCHANGED <<container, log, epollfd, sig_fd, timerfds, watchdog_fd,
                     watchdog_timeout, timeout, file>>
  BY Zenon DEF setup_safe_mode, watchdog
<1>3. /\ fds' \in Table /\ fds'[r] = Closed
      /\ \A n \in Fd : n # r => fds'[n] = t2[n]
  BY <1>1, ShutTable
<1>4. r # w /\ fds'[w].file = "pipe_write" /\ fds'[w].cloexec
  BY Zenon, <1>1, <1>3, Numbers
<1>5. \A n \in Fd : n # w => \/ fds'[n] = Closed
                             \/ fds'[n] = fds[n] /\ (n = safe_mode_pipe_fd => n = 0)
  BY Zenon, <1>1, <1>3
<1>6. \A n \in {r, w} : fds[n].file \in {"closed", "pipe_write"}
  BY Zenon, <1>1, ClosedSlot
<1>7. \A n \in Fd : fds[n].file \notin {"closed", "pipe_write"} => fds'[n] = fds[n] /\ n # w
  BY ZenonT(60), <1>1, <1>3, <1>6
<1>8. \A n \in Fd : n # w /\ fds'[n].file # "closed" =>
                      fds'[n] = fds[n] /\ (n = safe_mode_pipe_fd => n = 0)
  BY Zenon, <1>5, ClosedSlot
<1>9. TypeInv'
  BY Zenon, <1>1, <1>2, <1>3 DEF DescInv, TypeInv, Number, Place
<1>10. Inherits'
  BY <1>4, <1>5 DEF DescInv, Inherits
<1>11. watchdog_fd # w
  BY Zenon, <1>1, <1>2, <1>6, Numbers DEF DescInv, TypeInv, WatchdogKept, Permanent, Looping, Number
<1>12. safe_mode_pipe_fd' = w /\ w > 0
  BY <1>1, Numbers
<1>13. Kept'
  <2>1. /\ epollfd \in Fd /\ fds[epollfd].file = "epoll" /\ sig_fd \in Fd
        /\ fds[sig_fd].file = "signalfd" /\ file = -1
    BY Zenon, <1>2 DEF DescInv, TypeInv, Kept, Number, Looping, Afterwards
  <2>2. /\ \A n \in timerfds : n \in Fd /\ fds[n].file = "timer"
        /\ watchdog_timeout # -1 => /\ watchdog_timeout \in Fd
                                    /\ fds[watchdog_timeout].file = "timer"
                                    /\ watchdog_timeout \notin timerfds
    BY <1>2 DEF DescInv, TypeInv, Kept, Running, Number
  <2>3. /\ fds'[epollfd].file = "epoll" /\ epollfd # -1
        /\ fds'[sig_fd].file = "signalfd" /\ sig_fd # -1
        /\ \A n \in timerfds : fds'[n].file = "timer"
        /\ watchdog_timeout # -1 => fds'[watchdog_timeout].file = "timer"
    BY Zenon, <1>7, <2>1, <2>2, FdNumbers
  <2>4. /\ pc' = "run"
        /\ UNCHANGED <<epollfd, sig_fd, timerfds, watchdog_timeout, file>>
        /\ fds'[safe_mode_pipe_fd'].file = "pipe_write" /\ safe_mode_pipe_fd' > 0
    BY <1>2, <1>4, <1>12
  <2>5. QED
    BY <2>1, <2>2, <2>3, <2>4 DEF Kept, Looping, Early, Running
<1>14. WatchdogKept'
  <2>1. pc' \notin Early /\ pc \in Looping /\ Running /\ pc' # "signals" /\ pc' # "armed" /\ pc' # "rebooted"
    BY Zenon, <1>2 DEF Early, Looping, Running
  <2>2. \A n \in Fd : Permanent(n) => Permanent(n)'
    BY Zenon, <1>7 DEF Permanent
  <2>3. Permanent(0)' /\ Permanent(1)'
    BY Zenon, <2>1, <2>2, Numbers DEF DescInv, WatchdogKept
  <2>4. watchdog_timeout # -1 => watchdog_fd # -1 /\ fds'[watchdog_fd].file = "watchdog"
    BY Zenon, <1>7, <2>1 DEF DescInv, TypeInv, WatchdogKept, Number
  <2>5. ASSUME NEW n \in Fd, fds'[n].file = "watchdog" PROVE n = watchdog_fd /\ n > 0
    <3>1. n # w /\ fds'[n].file # "closed"
      BY Zenon, <1>4, <2>5
    <3>2. QED
      BY Zenon, <1>8, <2>5, <3>1 DEF DescInv, WatchdogKept
  <2>6. ASSUME NEW n \in Fd, fds'[n].file = "pipe_write" PROVE n = w
    <3>1. CASE n # w
      <4>1. fds[n].file = "pipe_write" /\ (n = safe_mode_pipe_fd => n = 0)
        BY Zenon, <1>8, <2>6, <3>1
      <4>2. n = safe_mode_pipe_fd
        BY Zenon, <4>1 DEF DescInv, WatchdogKept
      <4>3. fds[0].file # "pipe_write"
        BY Zenon, <2>1 DEF DescInv, WatchdogKept, Permanent
      <4>4. QED
        BY Zenon, <4>1, <4>2, <4>3
    <3>2. QED
      BY Zenon, <3>1
  <2>7. \A n \in Fd : n < watchdog_fd => Permanent(n)'
    BY Zenon, <2>1, <2>2 DEF DescInv, WatchdogKept
  <2>8. watchdog_fd # -1 => fds'[watchdog_fd].file # "pipe_write"
    BY Zenon, <1>11, <2>6 DEF DescInv, TypeInv, Number
  <2>9. QED
    BY ZenonT(60), <1>2, <1>12, <2>1, <2>3, <2>4, <2>5, <2>6, <2>7, <2>8 DEF WatchdogKept
<1>15. LogKept'
  BY <1>2, <1>7, LogStays DEF Running, Afterwards
<1>16. QED
  BY Zenon, <1>9, <1>10, <1>13, <1>14, <1>15 DEF DescInv

\* A step of the child, the fork of one included, leaves init's table alone.
LEMMA ChildQuiet ==
  ASSUME DescInv, UNCHANGED <<pc, container, fds, statics, timerfds, watchdog, file>>
  PROVE  DescInv'
<1>1. UNCHANGED <<pc, container, fds, log, epollfd, sig_fd, safe_mode_pipe_fd, timerfds,
                  watchdog_fd, watchdog_timeout, timeout, file>>
  BY Zenon DEF statics, watchdog
<1>2. UNCHANGED TypeInv /\ UNCHANGED Inherits /\ UNCHANGED LogKept
  BY <1>1 DEF TypeInv, Inherits, LogKept, Running
<1>3. UNCHANGED Kept /\ UNCHANGED WatchdogKept
  BY <1>1 DEF Kept, WatchdogKept, Running, Permanent
<1>4. QED
  BY Zenon, <1>2, <1>3 DEF DescInv

ChildStep ==
    \/ \E role \in {"service", "terminal"} : spawn_exec(role)
    \/ ChildLogs \/ ExecService \/ WaitForReport \/ ExecSafeMode \/ ChildGone

\* A step of a child leaves init's descriptors and variables alone.
LEMMA ChildStepQuiet ==
  ASSUME ChildStep
  PROVE  UNCHANGED <<pc, container, fds, statics, timerfds, watchdog, file>>
<1>1. CASE \E role \in {"service", "terminal"} : spawn_exec(role)
  BY Zenon, <1>1 DEF spawn_exec
<1>2. CASE ChildLogs
  BY Zenon, <1>2 DEF ChildLogs, Become
<1>3. CASE ExecService
  BY Zenon, <1>3 DEF ExecService, Become
<1>4. CASE WaitForReport
  BY Zenon, <1>4 DEF WaitForReport, Become
<1>5. CASE ExecSafeMode
  BY Zenon, <1>5 DEF ExecSafeMode, Become
<1>6. CASE ChildGone
  BY Zenon, <1>6 DEF ChildGone
<1>7. QED
  BY Zenon, <1>1, <1>2, <1>3, <1>4, <1>5, <1>6 DEF ChildStep

\* The kernel hands over the three standard streams, or nothing at all.
LEMMA DescInit ==
  ASSUME Init
  PROVE  DescInv
<1>1. PICK console \in Consoles :
         fds = [fd \in Fd |-> IF fd \in Std /\ (console \/ container)
                              THEN [file |-> "inherited", cloexec |-> FALSE] ELSE Closed]
  BY Zenon DEF Init
<1>2. /\ pc = "mount" /\ container \in BOOLEAN
      /\ log = -1 /\ epollfd = -1 /\ sig_fd = -1 /\ safe_mode_pipe_fd = 0
      /\ watchdog_fd = -1 /\ watchdog_timeout = -1 /\ timeout = 0
      /\ timerfds = {} /\ file = -1
  BY DEF Init
<1>3. PICK s : s = [file |-> "inherited", cloexec |-> FALSE]
  BY Zenon
<1>4. s \in Slot /\ s.file = "inherited"
  <2>1. "inherited" \in FileName /\ FALSE \in BOOLEAN
    BY Zenon DEF FileName
  <2>2. s \in Slot
    BY Zenon, <1>3, <2>1, SlotType
  <2>3. s.file = "inherited"
    BY <1>3
  <2>4. QED
    BY <2>2, <2>3
<1>5. fds = [fd \in Fd |-> IF fd \in Std /\ (console \/ container) THEN s ELSE Closed]
  BY Zenon, <1>1, <1>3
<1>6. fds \in Table
  BY <1>4, <1>5, ClosedSlot DEF Table
<1>7. \A fd \in Fd : fds[fd] = Closed \/ (fd \in Std /\ fds[fd] = s)
  BY Zenon, <1>5
<1>8. WithConsole => \A fd \in Std : fds[fd] = s
  <2>1. WithConsole => console = TRUE
    BY ZenonT(60), DescriptorsAssumption DEF WithConsole
  <2>2. QED
    BY Zenon, <1>5, <2>1, Numbers
<1>9. TypeInv
  BY <1>2, <1>6, FdNumbers DEF TypeInv, Number, Place
<1>10. Inherits
  BY <1>4, <1>7, Numbers DEF Inherits
<1>11. Kept
  BY <1>2 DEF Kept, Looping, Early
<1>12. WatchdogKept
  BY <1>2, <1>4, <1>7, ClosedSlot DEF WatchdogKept, Permanent, Looping, Early
<1>13. LogKept
  BY <1>2, <1>4, <1>8 DEF LogKept
<1>14. QED
  BY Zenon, <1>9, <1>10, <1>11, <1>12, <1>13 DEF DescInv

\* Every step of init and of its children keeps the invariant.
LEMMA DescStep ==
  ASSUME DescInv, [Next]_vars
  PROVE  DescInv'
<1>1. CASE UNCHANGED vars
  BY Zenon, <1>1, ChildQuiet DEF vars
<1>2. CASE log_fd \/ OpenFile \/ mainloop_setup \/ mainloop_add_signal_handler
  BY Zenon, <1>2, LogOpens, FileOpens, EpollOpens, SignalfdOpens
<1>3. CASE OpenWatchdog \/ TimerForWatchdog \/ AddTimer \/ setup_safe_mode
  BY Zenon, <1>3, WatchdogOpens, WatchdogTimer, TimerOpens, PipeKept
<1>4. CASE setup_console \/ SetupFails \/ IntervalZero \/ NoFile \/ NoWatchdog \/ CloseFile
  BY Zenon, <1>4, ConsoleShut, SetupQuiet, NoFileQuiet, NoWatchdogQuiet, FileShut
<1>5. CASE WatchdogFails \/ Leave \/ do_reboot \/ (\E fd \in Fd : RemoveTimer(fd))
  BY Zenon, <1>5, WatchdogShut, LeaveShut, RebootShut, TimerShut
<1>6. CASE ChildStep
  BY Zenon, <1>6, ChildStepQuiet, ChildQuiet
<1>7. CASE Ended
  BY Zenon, <1>1, <1>7 DEF Ended
<1>8. QED
  BY Zenon, <1>1, <1>2, <1>3, <1>4, <1>5, <1>6, <1>7 DEF Next, ChildStep

\* The inductive invariant: init's static variables hold the numbers of the files they are
\* there for (log.c, mainloop.c, watchdog.c, main.c), at every step and whichever opens fail.
THEOREM DescCorrect == Spec => []DescInv
<1>1. Init => DescInv
  BY DescInit
<1>2. DescInv /\ [Next]_vars => DescInv'
  BY Zenon, DescStep
<1>3. QED
  BY <1>1, <1>2, PTL DEF Spec

\* The watchdog is always disarmed and closed at the end, and what is written to its
\* number is never the pipe (watchdog.c:40-67): however many numbers there are, in a
\* container or not, with or without a console, and whatever could not be opened.
THEOREM DisarmsCorrect == Spec => []DisarmsWatchdog
<1>1. DescInv => DisarmsWatchdog
  BY FdNumbers DEF DescInv, TypeInv, WatchdogKept, DisarmsWatchdog, Number, Running
<1>2. QED
  BY <1>1, DescCorrect, PTL

\* The numbers init keeps are those of the files they were opened for, provided that
\* init is started with its console open, as the kernel does (log.c:41, main.c:244,
\* 1021-1023, mainloop.c:70-90, 232-297).
THEOREM NumbersCorrect == ASSUME FALSE \notin Consoles PROVE Spec => []NumbersValid
<1>1. DescInv => NumbersValid
  BY Zenon DEF DescInv, TypeInv, Kept, WatchdogKept, LogKept, WithConsole, NumbersValid, Running, Looping
<1>2. QED
  BY <1>1, DescCorrect, PTL

\* The interval: what the product is modulo UINT32.
LEMMA Modulo ==
  ASSUME NEW n \in Nat, NEW m \in Nat \ {0}
  PROVE  n % m \in Nat /\ n % m <= n /\ (n < m => n % m = n)
  OBVIOUS

\* From when start_watchdog has returned until the loop is left.
Serving == {"inittab", "placeholder", "run"}

\* The interval of a watchdog that has its timer is not 0, and a watchdog without one is
\* not open.
FeedInv ==
    /\ watchdog_timeout # -1 => timeout \in Nat /\ timeout >= 1 /\ feed_ms(timeout) # 0
    /\ pc \in Serving /\ watchdog_timeout = -1 => \A fd \in Fd : fds[fd].file # "watchdog"

\* A step that opens no watchdog.
LEMMA FeedQuiet ==
  ASSUME FeedInv, UNCHANGED <<watchdog_timeout, timeout>>, pc' \in Serving => pc \in Serving,
         pc' \in Serving => \A n \in Fd : fds'[n].file = "watchdog" => fds[n].file = "watchdog"
  PROVE  FeedInv'
  BY Zenon DEF FeedInv, feed_ms

\* start_watchdog opens the device, gives it a timer, or closes it (watchdog.c:69-110).
LEMMA FeedStart ==
  ASSUME DescInv, FeedInv,
         OpenWatchdog \/ TimerForWatchdog \/ WatchdogFails \/ NoWatchdog \/ IntervalZero
  PROVE  FeedInv'
<1>1. CASE OpenWatchdog
  <2>1. pc = "watchdog" /\ pc' = "armed" /\ UNCHANGED watchdog_timeout
    BY Zenon, <1>1 DEF OpenWatchdog
  <2>2. watchdog_timeout' = -1
    BY <2>1 DEF DescInv, WatchdogKept, Early
  <2>3. QED
    BY <2>1, <2>2 DEF FeedInv, Serving
<1>2. CASE TimerForWatchdog
  <2>1. /\ pc = "armed" /\ pc' = "inittab" /\ feed_ms(timeout') # 0 /\ watchdog_timeout' \in Fd
        /\ \/ Usable(timeout) /\ timeout' = timeout
           \/ timeout' = WATCHDOG_TIMEOUT_DEFAULT_SECS
    BY Zenon, <1>2 DEF TimerForWatchdog
  <2>2. timeout' \in Nat /\ timeout' >= 1
    BY <2>1 DEF DescInv, TypeInv, Usable, WATCHDOG_TIMEOUT_DEFAULT_SECS
  <2>3. watchdog_timeout' # -1
    BY <2>1, Numbers
  <2>4. feed_ms(timeout)' # 0
    BY Zenon, <2>1 DEF feed_ms
  <2>5. QED
    BY Zenon, <2>2, <2>3, <2>4 DEF FeedInv
<1>3. CASE WatchdogFails
  <2>1. pc = "armed" /\ close_watchdog
    BY Zenon, <1>3 DEF WatchdogFails
  <2>2. /\ watchdog_fd \in Fd /\ watchdog_fd > 0 /\ watchdog_timeout = -1
        /\ \A fd \in Fd : fds[fd].file = "watchdog" => fd = watchdog_fd
    BY <2>1 DEF DescInv, TypeInv, WatchdogKept, Number
  <2>3. watchdog_timeout' = -1 /\ fds' = Shut(fds, {watchdog_fd, watchdog_timeout})
    BY <2>1, <2>2 DEF close_watchdog
  <2>4. \A fd \in Fd : fds'[fd] = Closed \/ (fds'[fd] = fds[fd] /\ fd # watchdog_fd)
    BY <2>3, ShutTable DEF DescInv, TypeInv
  <2>5. \A fd \in Fd : fds'[fd].file # "watchdog"
    BY Zenon, <2>2, <2>4, ClosedSlot
  <2>6. QED
    BY Zenon, <2>3, <2>5 DEF FeedInv
<1>4. CASE NoWatchdog
  <2>1. pc = "watchdog" /\ UNCHANGED <<fds, watchdog_timeout>>
    BY Zenon, <1>4 DEF NoWatchdog
  <2>2. watchdog_timeout = -1 /\ watchdog_fd = -1
    BY <2>1 DEF DescInv, WatchdogKept, Early
  <2>3. \A fd \in Fd : fds[fd].file # "watchdog"
    BY Zenon, <2>2, Numbers DEF DescInv, WatchdogKept
  <2>4. QED
    BY Zenon, <2>1, <2>2, <2>3 DEF FeedInv
<1>5. CASE IntervalZero
  <2>1. pc' \notin Serving /\ UNCHANGED <<watchdog_timeout, timeout>>
    BY <1>5 DEF IntervalZero, watchdog, Serving
  <2>2. QED
    BY Zenon, <2>1, FeedQuiet
<1>6. QED
  BY Zenon, <1>1, <1>2, <1>3, <1>4, <1>5

\* What is opened and closed while init serves is not the watchdog.
LEMMA FeedServing ==
  ASSUME DescInv, FeedInv,
         log_fd \/ OpenFile \/ CloseFile \/ AddTimer \/ (\E fd \in Fd : RemoveTimer(fd)) \/ setup_safe_mode
  PROVE  FeedInv'
<1>1. UNCHANGED <<watchdog_timeout, timeout>>
  BY Zenon DEF log_fd, OpenFile, CloseFile, AddTimer, RemoveTimer, setup_safe_mode, watchdog
<1>2. pc' \in Serving => pc \in Serving
  <2>1. CASE CloseFile
    <3>1. pc \in DOMAIN Afterwards /\ pc' = Afterwards[pc]
      BY Zenon, <2>1 DEF CloseFile, DescInv, Kept
    <3>2. QED
      BY <3>1 DEF Afterwards, Serving
  <2>2. CASE setup_safe_mode
    BY Zenon, <2>2 DEF setup_safe_mode, Serving
  <2>3. CASE log_fd \/ OpenFile \/ AddTimer \/ (\E fd \in Fd : RemoveTimer(fd))
    BY Zenon, <2>3 DEF log_fd, OpenFile, AddTimer, RemoveTimer
  <2>4. QED
    BY Zenon, <2>1, <2>2, <2>3
<1>3. \A n \in Fd : fds'[n].file = "watchdog" => fds[n].file = "watchdog"
  <2>1. CASE log_fd \/ OpenFile \/ AddTimer
    <3>1. PICK fd \in Fd, f \in {"log", "timer"} \cup DOMAIN Afterwards : Opens(fd, f)
      BY Zenon, <2>1 DEF log_fd, OpenFile, AddTimer
    <3>2. f \in FileName /\ f # "watchdog"
      BY <3>1 DEF FileName, Afterwards
    <3>3. fds'[fd].file = f /\ \A n \in Fd : n # fd => fds'[n] = fds[n]
      BY Zenon, <3>1, <3>2, OpensTable DEF DescInv
    <3>4. QED
      BY Zenon, <3>2, <3>3
  <2>2. CASE CloseFile \/ (\E fd \in Fd : RemoveTimer(fd))
    <3>1. PICK S : fds' = Shut(fds, S)
      BY Zenon, <2>2 DEF CloseFile, RemoveTimer
    <3>2. \A n \in Fd : fds'[n] = Closed \/ fds'[n] = fds[n]
      BY <3>1, ShutTable DEF DescInv, TypeInv
    <3>3. QED
      BY Zenon, <3>2, ClosedSlot
  <2>3. CASE setup_safe_mode
    <3>1. PICK t0 \in Table, t2 \in Table, r \in Fd, w \in Fd :
             /\ \A n \in Fd : \/ t0[n] = fds[n] /\ (n = safe_mode_pipe_fd => n = 0)
                              \/ t0[n] = Closed /\ n = safe_mode_pipe_fd /\ fds[n].file = "pipe_write"
             /\ 1 < r /\ r < w /\ t0[r] = Closed /\ t0[w] = Closed
             /\ t2[r].file = "pipe_read" /\ t2[r].cloexec
             /\ t2[w].file = "pipe_write" /\ t2[w].cloexec
             /\ \A n \in Fd : n # r /\ n # w => t2[n] = t0[n]
             /\ child' = Child("placeholder", t2, r, w)
             /\ fds' = Shut(t2, {r}) /\ safe_mode_pipe_fd' = w
      BY Zenon, <2>3, PipeMade
    <3>2. fds'[r] = Closed /\ \A n \in Fd : n # r => fds'[n] = t2[n]
      BY <3>1, ShutTable
    <3>3. QED
      BY Zenon, <3>1, <3>2, ClosedSlot
  <2>4. QED
    BY Zenon, <2>1, <2>2, <2>3
<1>4. QED
  BY Zenon, <1>1, <1>2, <1>3, FeedQuiet

\* Every step keeps FeedInv.
LEMMA FeedStep ==
  ASSUME DescInv, FeedInv, [Next]_vars
  PROVE  FeedInv'
<1>1. CASE UNCHANGED vars \/ ChildStep \/ Ended
  <2>1. UNCHANGED <<watchdog_timeout, timeout, pc, fds>>
    BY Zenon, <1>1, ChildStepQuiet DEF vars, Ended, watchdog
  <2>2. QED
    BY Zenon, <2>1, FeedQuiet
<1>2. CASE \/ setup_console \/ SetupFails \/ mainloop_setup \/ mainloop_add_signal_handler
           \/ NoFile \/ Leave
  <2>1. /\ UNCHANGED <<watchdog_timeout, timeout>>
        /\ \/ pc' \in {"sysrq", "exited", "signals", "watchdog", "mountinfo"}
           \/ pc \in {"sysrq", "mountinfo"} /\ pc' = Afterwards[pc]
    BY Zenon, <1>2 DEF setup_console, SetupFails, mainloop_setup, mainloop_add_signal_handler,
       NoFile, Leave, watchdog
  <2>2. pc' \notin Serving
    BY <2>1 DEF Afterwards, Serving
  <2>3. QED
    BY Zenon, <2>1, <2>2, FeedQuiet
<1>3. CASE do_reboot
  <2>1. /\ UNCHANGED timeout /\ watchdog_timeout' \in {-1, watchdog_timeout} /\ pc' = "rebooted"
    BY Zenon, <1>3 DEF do_reboot, close_watchdog
  <2>2. pc' \notin Serving
    BY <2>1 DEF Serving
  <2>3. QED
    BY Zenon, <2>1, <2>2 DEF FeedInv, feed_ms
<1>4. CASE OpenWatchdog \/ TimerForWatchdog \/ WatchdogFails \/ NoWatchdog \/ IntervalZero
  BY Zenon, <1>4, FeedStart
<1>5. CASE log_fd \/ OpenFile \/ CloseFile \/ AddTimer \/ (\E fd \in Fd : RemoveTimer(fd)) \/ setup_safe_mode
  BY Zenon, <1>5, FeedServing
<1>6. QED
  BY Zenon, <1>1, <1>2, <1>3, <1>4, <1>5 DEF Next, ChildStep

\* While init serves, a watchdog that is open is fed in time and one that cannot be fed
\* is not left open, for every timeout the driver may report, every width of the product
\* and every way start_watchdog fails (watchdog.c:40-110).
THEOREM FeedsCorrect == Spec => []WatchdogFed
<1>1. Init => FeedInv
  BY DEF Init, FeedInv, Serving
<1>2. DescInv /\ FeedInv /\ [Next]_vars => FeedInv'
  BY Zenon, FeedStep
<1>3. ASSUME DescInv, FeedInv, pc \in Serving, NEW d \in Fd, fds[d].file = "watchdog"
      PROVE  /\ watchdog_timeout # -1 /\ fds[watchdog_timeout].file = "timer"
             /\ watchdog_timeout \notin timerfds /\ fds[watchdog_fd].file = "watchdog"
             /\ 0 < feed_ms(timeout) /\ feed_ms(timeout) < 1000 * timeout
  <2>1. watchdog_timeout # -1
    BY Zenon, <1>3 DEF FeedInv
  <2>2. Running
    BY <1>3 DEF Running, Serving
  <2>3. /\ fds[watchdog_timeout].file = "timer" /\ watchdog_timeout \notin timerfds
        /\ fds[watchdog_fd].file = "watchdog"
    BY Zenon, <1>3, <2>1, <2>2 DEF DescInv, Kept, WatchdogKept
  <2>4. /\ timeout \in Nat /\ timeout >= 1 /\ (timeout * 900) % UINT32 # 0
        /\ UINT32 \in Nat \ {0}
    BY Zenon, <1>3, <2>1, DescriptorsAssumption DEF FeedInv, feed_ms
  <2>5. PICK n \in Nat : n = timeout * 900
    BY <2>4
  <2>6. n % UINT32 \in Nat /\ n % UINT32 <= n /\ n % UINT32 # 0
    BY <2>4, <2>5, Modulo
  <2>7. feed_ms(timeout) = n % UINT32
    BY <2>5 DEF feed_ms
  <2>8. 0 < feed_ms(timeout) /\ feed_ms(timeout) < 1000 * timeout
    BY <2>4, <2>5, <2>6, <2>7
  <2>9. QED
    BY Zenon, <2>1, <2>3, <2>8
<1>4. DescInv /\ FeedInv => WatchdogFed
  BY Zenon, <1>3 DEF WatchdogFed, Serving
<1>5. QED
  BY <1>1, <1>2, <1>4, DescCorrect, PTL DEF Spec

-----------------------------------------------------------------------------
(* The table of a child *)

\* safe_dup moves a descriptor above the streams, or leaves it there.
LEMMA SafeDup ==
  ASSUME NEW t \in Table, NEW fd \in Fd, NEW o \in safe_dup(t, fd)
  PROVE  /\ o.fds \in Table /\ o.fd \in Fd /\ o.fd > 2
         /\ o.fds[o.fd].file = t[fd].file
         /\ o.fd = fd \/ (t[o.fd] = Closed /\ o.fds[fd] = Closed /\ fd \in Std)
         /\ \A n \in Fd : n # fd /\ n # o.fd => o.fds[n] = t[n]
<1>1. CASE fd > 2
  <2>1. o = [fds |-> t, fd |-> fd]
    BY Zenon, <1>1 DEF safe_dup
  <2>2. o.fds = t /\ o.fd = fd
    BY <2>1
  <2>3. QED
    BY <1>1, <2>2
<1>2. CASE ~(fd > 2)
  <2>1. PICK n \in Lowest(t, 3) :
           o = [fds |-> Shut(Put(t, n, t[fd].file, FALSE), {fd}), fd |-> n]
    BY Zenon, <1>2 DEF safe_dup
  <2>2. n \in Fd /\ n >= 3 /\ t[n] = Closed
    BY LowestFd
  <2>3. fd \in Std /\ n # fd /\ n > 2
    BY <1>2, <2>2, Numbers
  <2>4. PICK f \in FileName : f = t[fd].file
    BY SlotFields
  <2>5. PICK u : u = Put(t, n, f, FALSE)
    BY Zenon
  <2>6. u \in Table /\ u[n].file = t[fd].file /\ \A m \in Fd : m # n => u[m] = t[m]
    <3>1. n \in Fd
      BY <2>2
    <3>2. Placed(Put(t, n, f, FALSE), t, n, f)
      BY ZenonT(60), <3>1, PutPlain
    <3>3. QED
      BY Zenon, <2>4, <2>5, <3>2 DEF Placed
  <2>7. o.fds = Shut(u, {fd}) /\ o.fd = n
    BY Zenon, <2>1, <2>4, <2>5
  <2>8. QED
    BY <2>2, <2>3, <2>6, <2>7, ShutTable
<1>3. QED
  BY Zenon, <1>1, <1>2

\* A file opened and moved above the streams has taken a free number, and nothing else
\* has changed.
LEMMA OpenedAt ==
  ASSUME NEW t \in Table, NEW f \in FileName, NEW b \in BOOLEAN, NEW o \in Opened(t, f, b)
  PROVE  /\ o.fds \in Table /\ o.fd \in Fd /\ t[o.fd] = Closed /\ o.fds[o.fd].file = f
         /\ \A n \in Fd : n # o.fd => o.fds[n] = t[n]
<1>1. PICK n \in New(t) : o = [fds |-> Put(t, n, f, b), fd |-> n]
  BY Zenon DEF Opened
<1>2. n \in Fd /\ t[n] = Closed
  BY NewFd
<1>3. o.fds = Put(t, n, f, b) /\ o.fd = n
  BY Zenon, <1>1
<1>4. QED
  BY <1>2, <1>3, PutAny

\* open followed by safe_dup (main.c:154-190): the file ends above the standard streams.
LEMMA AboveOpened ==
  ASSUME NEW t \in Table, NEW f \in FileName, NEW b \in BOOLEAN, NEW o \in Above(Opened(t, f, b))
  PROVE  /\ o.fds \in Table /\ o.fd \in Fd /\ o.fd > 2 /\ t[o.fd] = Closed
         /\ o.fds[o.fd].file = f
         /\ \A n \in Fd : n # o.fd => o.fds[n] = t[n]
<1>1. PICK p \in Opened(t, f, b) : o \in safe_dup(p.fds, p.fd)
  BY Zenon DEF Above
<1>2. PICK u, k : u = p.fds /\ k = p.fd
  BY Zenon
<1>3. /\ u \in Table /\ k \in Fd /\ t[k] = Closed /\ u[k].file = f
      /\ \A n \in Fd : n # k => u[n] = t[n]
  BY <1>2, OpenedAt
<1>4. o \in safe_dup(u, k)
  BY Zenon, <1>1, <1>2
<1>5. /\ o.fds \in Table /\ o.fd \in Fd /\ o.fd > 2
      /\ o.fds[o.fd].file = u[k].file
      /\ o.fd = k \/ (u[o.fd] = Closed /\ o.fds[k] = Closed)
      /\ \A n \in Fd : n # k /\ n # o.fd => o.fds[n] = u[n]
  BY <1>3, <1>4, SafeDup
<1>6. QED
  BY Zenon, <1>3, <1>5

\* The log, opened if it was not, above the streams.
LEMMA AboveLog ==
  ASSUME NEW t \in Table, NEW l, l = -1 \/ (l \in Fd /\ t[l].file = "log"),
         NEW o \in Above(LogAt(t, l))
  PROVE  /\ o.fds \in Table /\ o.fd \in Fd /\ o.fd > 2
         /\ o.fds[o.fd].file = "log"
         /\ o.fd = l \/ t[o.fd] = Closed
         /\ \A n \in Fd : n > 2 /\ n # o.fd => o.fds[n] = t[n]
<1>1. CASE l = -1
  <2>1. "log" \in FileName
    BY DEF FileName
  <2>2. PICK b \in BOOLEAN : b = TRUE
    BY Zenon
  <2>3. o \in Above(Opened(t, "log", b))
    BY Zenon, <1>1, <2>2 DEF LogAt
  <2>4. QED
    BY <2>1, <2>3, AboveOpened
<1>2. CASE l # -1
  <2>1. LogAt(t, l) = {[fds |-> t, fd |-> l]}
    BY <1>2 DEF LogAt
  <2>2. PICK p : p = [fds |-> t, fd |-> l] /\ o \in safe_dup(p.fds, p.fd)
    BY Zenon, <2>1 DEF Above
  <2>3. o \in safe_dup(t, l) /\ l \in Fd
    BY Zenon, <1>2, <2>2
  <2>4. /\ o.fds \in Table /\ o.fd \in Fd /\ o.fd > 2
        /\ o.fds[o.fd].file = "log"
        /\ o.fd = l \/ (t[o.fd] = Closed /\ l \in Std)
        /\ \A n \in Fd : n # l /\ n # o.fd => o.fds[n] = t[n]
    BY <1>2, <2>3, SafeDup
  <2>5. QED
    BY <2>4, Numbers
<1>3. QED
  BY Zenon, <1>1, <1>2

\* dup2 copies the file and clears the close-on-exec flag.
LEMMA Dup2At ==
  ASSUME NEW t \in Table, NEW from \in Fd, NEW to \in Fd
  PROVE  Placed(Dup2(t, from, to), t, to, t[from].file) /\ ~Dup2(t, from, to)[to].cloexec
<1>1. PICK f \in FileName : f = t[from].file
  BY SlotFields
<1>2. Dup2(t, from, to) = Put(t, to, f, FALSE)
  BY Zenon, <1>1 DEF Dup2
<1>3. Placed(Put(t, to, f, FALSE), t, to, f) /\ ~Put(t, to, f, FALSE)[to].cloexec
  BY ZenonT(60), PutPlain
<1>4. QED
  BY Zenon, <1>1, <1>2, <1>3

\* The copies of two descriptors above the streams are the streams, and stay open in
\* the program.
Copied(s, t, in, out) ==
    /\ s \in Table
    /\ s[0].file = t[in].file /\ s[1].file = t[out].file /\ s[2].file = t[out].file
    /\ \A n \in Std : ~s[n].cloexec
    /\ \A n \in Fd \ Std : s[n] = t[n]

\* Stream makes such copies.
LEMMA StreamAt ==
  ASSUME NEW t \in Table, NEW in \in Fd, NEW out \in Fd, in > 2, out > 2
  PROVE  Copied(Stream(t, in, out), t, in, out)
<1>1. PICK a \in Fd, b \in Fd, c \in Fd : a = 0 /\ b = 1 /\ c = 2
  BY Zenon, Numbers
<1>2. PICK u0 : u0 = Dup2(t, in, a)
  BY Zenon
<1>3. PICK u1 : u1 = Dup2(u0, out, b)
  BY Zenon
<1>4. PICK u2 : u2 = Dup2(u1, out, c)
  BY Zenon
<1>5. Stream(t, in, out) = u2
  BY Zenon, <1>1, <1>2, <1>3, <1>4 DEF Stream
<1>6. /\ u0 \in Table /\ u0[a].file = t[in].file /\ ~u0[a].cloexec
      /\ \A n \in Fd : n # a => u0[n] = t[n]
  <2>1. Placed(Dup2(t, in, a), t, a, t[in].file) /\ ~Dup2(t, in, a)[a].cloexec
    BY ZenonT(60), Dup2At
  <2>2. QED
    BY Zenon, <1>2, <2>1 DEF Placed
<1>7. /\ u1 \in Table /\ u1[b].file = u0[out].file /\ ~u1[b].cloexec
      /\ \A n \in Fd : n # b => u1[n] = u0[n]
  <2>1. Placed(Dup2(u0, out, b), u0, b, u0[out].file) /\ ~Dup2(u0, out, b)[b].cloexec
    <3>1. u0 \in Table
      BY <1>6
    <3>2. QED
      BY ZenonT(60), <3>1, Dup2At
  <2>2. QED
    BY Zenon, <1>3, <2>1 DEF Placed
<1>8. /\ u2 \in Table /\ u2[c].file = u1[out].file /\ ~u2[c].cloexec
      /\ \A n \in Fd : n # c => u2[n] = u1[n]
  <2>1. Placed(Dup2(u1, out, c), u1, c, u1[out].file) /\ ~Dup2(u1, out, c)[c].cloexec
    <3>1. u1 \in Table
      BY <1>7
    <3>2. QED
      BY ZenonT(60), <3>1, Dup2At
  <2>2. QED
    BY Zenon, <1>4, <2>1 DEF Placed
<1>9. u2[a] = u0[a] /\ u2[b] = u1[b] /\ u1[out] = t[out] /\ u0[out] = t[out]
  BY <1>1, <1>6, <1>7, <1>8, Numbers
<1>10. \A n \in Fd \ Std : u2[n] = t[n]
  BY <1>1, <1>6, <1>7, <1>8, Numbers
<1>11. \A n \in Std : ~u2[n].cloexec
  BY <1>1, <1>6, <1>7, <1>8, <1>9, Numbers
<1>12. QED
  <2>1. u2[0].file = t[in].file /\ u2[1].file = t[out].file /\ u2[2].file = t[out].file
    BY Zenon, <1>1, <1>6, <1>7, <1>8, <1>9
  <2>2. Copied(u2, t, in, out)
    BY Zenon, <1>8, <1>10, <1>11, <2>1 DEF Copied
  <2>3. QED
    BY Zenon, <1>5, <2>2

\* setup_stdio: the streams are /dev/null and the log, what is above them is kept unless
\* it is the log, and nothing is opened there.
LEMMA StdioTable ==
  ASSUME NEW t \in Table, NEW l, l = -1 \/ (l \in Fd /\ t[l].file = "log"),
         NEW u \in setup_stdio(t, l)
  PROVE  /\ u \in Table /\ Streams(u, "log")
         /\ \A n \in Std : ~u[n].cloexec
         /\ \A n \in Fd \ Std : u[n] = Closed \/ u[n] = t[n]
         /\ \A n \in Fd \ Std : t[n].file \notin {"closed", "log"} => u[n] = t[n]
<1>1. PICK null \in Above(Opened(t, "null", FALSE)) :
        \E out \in Above(LogAt(null.fds, l)) :
           u = Shut(Stream(out.fds, null.fd, out.fd), {out.fd, null.fd})
  BY Zenon DEF setup_stdio
<1>2. PICK nt, nk : nt = null.fds /\ nk = null.fd
  BY Zenon
<1>3. /\ nt \in Table /\ nk \in Fd /\ nk > 2 /\ t[nk] = Closed /\ nt[nk].file = "null"
      /\ \A n \in Fd : n # nk => nt[n] = t[n]
  <2>1. "null" \in FileName
    BY Zenon DEF FileName
  <2>2. PICK b \in BOOLEAN : b = FALSE
    BY Zenon
  <2>3. null \in Above(Opened(t, "null", b))
    BY Zenon, <2>2
  <2>4. QED
    BY <1>2, <2>1, <2>3, AboveOpened
<1>4. PICK out \in Above(LogAt(nt, l)) : u = Shut(Stream(out.fds, nk, out.fd), {out.fd, nk})
  BY Zenon, <1>1, <1>2
<1>5. PICK ot, ok : ot = out.fds /\ ok = out.fd
  BY Zenon
<1>6. l = -1 \/ (l \in Fd /\ nt[l].file = "log" /\ l # nk)
  BY Zenon, <1>3, ClosedSlot
<1>7. /\ ot \in Table /\ ok \in Fd /\ ok > 2 /\ ot[ok].file = "log"
      /\ ok = l \/ nt[ok] = Closed
      /\ \A n \in Fd : n > 2 /\ n # ok => ot[n] = nt[n]
  BY <1>3, <1>5, <1>6, AboveLog
<1>8. ok # nk
  BY <1>3, <1>6, <1>7, ClosedSlot
<1>9. PICK s : s = Stream(ot, nk, ok)
  BY Zenon
<1>10. /\ s \in Table /\ s[0].file = ot[nk].file /\ s[1].file = ot[ok].file /\ s[2].file = ot[ok].file
       /\ \A n \in Std : ~s[n].cloexec
       /\ \A n \in Fd \ Std : s[n] = ot[n]
  <2>1. ot \in Table /\ nk \in Fd /\ ok \in Fd /\ nk > 2 /\ ok > 2
    BY <1>3, <1>7
  <2>2. Copied(Stream(ot, nk, ok), ot, nk, ok)
    BY ZenonT(60), <2>1, StreamAt
  <2>3. QED
    BY Zenon, <1>9, <2>2 DEF Copied
<1>11. u = Shut(s, {ok, nk})
  BY Zenon, <1>4, <1>5, <1>9
<1>12. /\ u \in Table
       /\ \A n \in Fd : n \in {ok, nk} => u[n] = Closed
       /\ \A n \in Fd : n \notin {ok, nk} => u[n] = s[n]
  BY Zenon, <1>10, <1>11, ShutTable
<1>13. \A n \in Fd \ Std : n \notin {ok, nk} => u[n] = t[n]
  <2>1. SUFFICES ASSUME NEW n \in Fd \ Std, n \notin {ok, nk}
                 PROVE  u[n] = t[n]
    BY Zenon
  <2>2. n \in Fd /\ n > 2 /\ n # ok /\ n # nk
    BY <2>1, Numbers
  <2>3. u[n] = s[n] /\ s[n] = ot[n]
    BY Zenon, <1>10, <1>12, <2>1
  <2>4. ot[n] = nt[n] /\ nt[n] = t[n]
    BY Zenon, <1>3, <1>7, <2>2
  <2>5. QED
    BY Zenon, <2>3, <2>4
<1>14. \A n \in Fd \ Std : u[n] = Closed \/ u[n] = t[n]
  BY Zenon, <1>12, <1>13
<1>15. \A n \in Fd \ Std : t[n].file \notin {"closed", "log"} => n \notin {ok, nk}
  <2>1. TAKE n \in Fd \ Std
  <2>2. n = nk => t[n].file = "closed"
    BY Zenon, <1>3, ClosedSlot
  <2>3. ASSUME n = ok, n # nk, ok = l
        PROVE  t[n].file = "log"
    BY Zenon, <1>7, <2>3, Numbers
  <2>4. ASSUME n = ok, n # nk, nt[ok] = Closed
        PROVE  t[n].file = "closed"
    BY Zenon, <1>3, <2>4, ClosedSlot
  <2>5. QED
    BY Zenon, <1>7, <2>2, <2>3, <2>4
<1>16. \A n \in Std : n \in Fd /\ n \notin {ok, nk}
  BY <1>3, <1>7, Numbers
<1>17. \A n \in Std : u[n] = s[n]
  BY Zenon, <1>12, <1>16
<1>18. \A n \in Std : ~u[n].cloexec
  BY Zenon, <1>10, <1>17
<1>19. Streams(u, "log")
  <2>1. s[0].file = "null" /\ s[1].file = "log" /\ s[2].file = "log"
    <3>1. ot[nk].file = "null"
      BY Zenon, <1>3, <1>7, <1>8
    <3>2. QED
      BY Zenon, <1>7, <1>10, <3>1
  <2>2. u[0] = s[0] /\ u[1] = s[1] /\ u[2] = s[2]
    BY Zenon, <1>17, Numbers
  <2>3. QED
    BY <2>1, <2>2, Numbers DEF Streams
<1>20. QED
  BY Zenon, <1>12, <1>13, <1>14, <1>15, <1>18, <1>19

\* setup_stty: the streams are the terminal.
LEMMA SttyTable ==
  ASSUME NEW t \in Table, NEW u \in setup_stty(t)
  PROVE  /\ u \in Table /\ Streams(u, "tty")
         /\ \A n \in Std : ~u[n].cloexec
         /\ \A n \in Fd \ Std : u[n] = Closed \/ u[n] = t[n]
<1>1. PICK tty \in Above(Opened(t, "tty", TRUE)) :
         u = Shut(Stream(tty.fds, tty.fd, tty.fd), {tty.fd})
  BY Zenon DEF setup_stty
<1>2. PICK ot, ok : ot = tty.fds /\ ok = tty.fd
  BY Zenon
<1>3. /\ ot \in Table /\ ok \in Fd /\ ok > 2 /\ ot[ok].file = "tty"
      /\ \A n \in Fd : n # ok => ot[n] = t[n]
  <2>1. "tty" \in FileName
    BY DEF FileName
  <2>2. PICK b \in BOOLEAN : b = TRUE
    BY Zenon
  <2>3. tty \in Above(Opened(t, "tty", b))
    BY Zenon, <2>2
  <2>4. QED
    BY <1>2, <2>1, <2>3, AboveOpened
<1>4. PICK s : s = Stream(ot, ok, ok)
  BY Zenon
<1>5. /\ s \in Table /\ s[0].file = ot[ok].file /\ s[1].file = ot[ok].file /\ s[2].file = ot[ok].file
      /\ \A n \in Std : ~s[n].cloexec
      /\ \A n \in Fd \ Std : s[n] = ot[n]
  <2>1. ot \in Table /\ ok \in Fd /\ ok > 2
    BY Zenon, <1>3
  <2>2. Copied(Stream(ot, ok, ok), ot, ok, ok)
    BY ZenonT(60), <2>1, StreamAt
  <2>3. QED
    BY Zenon, <1>4, <2>2 DEF Copied
<1>6. u = Shut(s, {ok})
  BY Zenon, <1>1, <1>2, <1>4
<1>7. /\ u \in Table
      /\ \A n \in Fd : n = ok => u[n] = Closed
      /\ \A n \in Fd : n # ok => u[n] = s[n]
  <2>1. s \in Table
    BY Zenon, <1>5
  <2>2. QED
    BY <1>6, <2>1, ShutTable
<1>8. \A n \in Fd \ Std : u[n] = Closed \/ u[n] = t[n]
  BY Zenon, <1>3, <1>5, <1>7
<1>9. \A n \in Std : n \in Fd /\ n # ok
  BY <1>3, Numbers
<1>10. \A n \in Std : u[n] = s[n]
  BY Zenon, <1>7, <1>9
<1>11. \A n \in Std : ~u[n].cloexec
  BY Zenon, <1>5, <1>10
<1>12. Streams(u, "tty")
  BY <1>3, <1>5, <1>10, Numbers DEF Streams
<1>13. QED
  BY Zenon, <1>7, <1>8, <1>11, <1>12

\* exec leaves the streams, and closes the rest if the rest has FD_CLOEXEC.
LEMMA ExecTable ==
  ASSUME NEW t \in Table, NEW f,
         Streams(t, f), \A n \in Std : ~t[n].cloexec,
         \A n \in Fd \ Std : t[n] = Closed \/ t[n].cloexec
  PROVE  AtExec(t) \in Table /\ Streams(AtExec(t), f) /\ OnlyStreams(AtExec(t))
<1>1. PICK S : S = {n \in Fd : t[n].cloexec}
  BY Zenon
<1>2. AtExec(t) = Shut(t, S)
  BY Zenon, <1>1 DEF AtExec
<1>3. /\ Shut(t, S) \in Table
      /\ \A n \in Fd : (n \in S => Shut(t, S)[n] = Closed) /\ (n \notin S => Shut(t, S)[n] = t[n])
  BY ShutTable
<1>4. \A n \in Std : Shut(t, S)[n] = t[n]
  BY Zenon, <1>1, <1>3, Numbers
<1>5. Streams(Shut(t, S), f)
  BY Zenon, <1>4 DEF Streams
<1>6. OnlyStreams(Shut(t, S))
  BY Zenon, <1>1, <1>3 DEF OnlyStreams
<1>7. QED
  BY Zenon, <1>2, <1>3, <1>5, <1>6

-----------------------------------------------------------------------------
(* The steps of a child *)

\* What is to be shown of a child whose record becomes another.
ChildOK(c) ==
    /\ c \in ChildType
    /\ c.at = "forked" => ForkedOK(c)
    /\ c.at = "waiting" => WaitingOK(c)
    /\ c.at = "exec" => Streams(c.fds, IF c.role = "terminal" THEN "tty" ELSE "log")
                        /\ OnlyStreams(c.fds)

\* The records a child becomes.
LogOf(c, l, t) == [c EXCEPT !.log = l, !.fds = t]
ExecOf(c, t) == [c EXCEPT !.at = "exec", !.fds = t]
WaitingOf(c, r, t) == [c EXCEPT !.at = "waiting", !.r = r, !.fds = t]

\* The records of LogOf, ExecOf and WaitingOf are records of a child, and differ from the
\* old one where they should.
LEMMA LogRecord ==
  ASSUME NEW c \in ChildType, NEW l \in Number, NEW t \in Table
  PROVE  /\ LogOf(c, l, t) \in ChildType
         /\ LogOf(c, l, t).at = c.at
         /\ LogOf(c, l, t).role = c.role
         /\ LogOf(c, l, t).log = l
         /\ LogOf(c, l, t).fds = t
<1>1. PICK e : e = [c EXCEPT !.log = l]
  BY Zenon
<1>2. e \in ChildType /\ e.at = c.at /\ e.role = c.role /\ e.log = l
  BY <1>1 DEF ChildType
<1>3. LogOf(c, l, t) = [e EXCEPT !.fds = t]
  BY <1>1, <1>2 DEF ChildType, LogOf
<1>4. QED
  BY <1>2, <1>3 DEF ChildType

\* See LogRecord.
LEMMA ExecRecord ==
  ASSUME NEW c \in ChildType, NEW t \in Table
  PROVE  /\ ExecOf(c, t) \in ChildType
         /\ ExecOf(c, t).at = "exec"
         /\ ExecOf(c, t).role = c.role
         /\ ExecOf(c, t).fds = t
<1>1. PICK e : e = [c EXCEPT !.at = "exec"]
  BY Zenon
<1>2. e \in ChildType /\ e.at = "exec" /\ e.role = c.role
  BY <1>1 DEF ChildType
<1>3. ExecOf(c, t) = [e EXCEPT !.fds = t]
  BY <1>1, <1>2 DEF ChildType, ExecOf
<1>4. QED
  BY <1>2, <1>3 DEF ChildType

\* See LogRecord.
LEMMA WaitingRecord ==
  ASSUME NEW c \in ChildType, NEW r \in Number, NEW t \in Table
  PROVE  /\ WaitingOf(c, r, t) \in ChildType
         /\ WaitingOf(c, r, t).at = "waiting"
         /\ WaitingOf(c, r, t).role = c.role
         /\ WaitingOf(c, r, t).r = r
         /\ WaitingOf(c, r, t).fds = t
<1>1. PICK e : e = [c EXCEPT !.at = "waiting"]
  BY Zenon
<1>2. e \in ChildType /\ e.at = "waiting" /\ e.role = c.role
  BY <1>1 DEF ChildType
<1>3. PICK g : g = [e EXCEPT !.r = r]
  BY Zenon
<1>4. g \in ChildType /\ g.at = "waiting" /\ g.role = c.role /\ g.r = r
  BY <1>2, <1>3 DEF ChildType
<1>5. WaitingOf(c, r, t) = [g EXCEPT !.fds = t]
  BY <1>1, <1>2, <1>3, <1>4 DEF ChildType, WaitingOf
<1>6. QED
  BY <1>4, <1>5 DEF ChildType

\* There is one child at most: what its new record is shown to be, ChildKept says.
LEMMA BecomeOK ==
  ASSUME NEW d, Become(d), ChildOK(d)
  PROVE  ChildKept'
<1>1. child' = {d}
  BY DEF Become
<1>2. \A c \in child' : ChildOK(c)
  BY Zenon, <1>1
<1>3. QED
  BY Zenon, <1>2 DEF ChildKept, ChildOK

\* The log of a child of init is open in its table.
LEMMA LogInherited ==
  ASSUME DescInv, WithConsole, pc = "run" \/ pc = "placeholder"
  PROVE  log = -1 \/ (log \in Fd /\ fds[log].file = "log")
  BY DEF DescInv, TypeInv, LogKept, Running, Number

\* fork in setup_safe_mode: the new process has the pipe and the streams init has.
LEMMA PlaceholderForked ==
  ASSUME DescInv, WithConsole, setup_safe_mode
  PROVE  ChildKept'
<1>1. PICK t0 \in Table, t2 \in Table, r \in Fd, w \in Fd :
           /\ \A n \in Fd : \/ t0[n] = fds[n] /\ (n = safe_mode_pipe_fd => n = 0)
                            \/ t0[n] = Closed /\ n = safe_mode_pipe_fd /\ fds[n].file = "pipe_write"
           /\ 1 < r /\ r < w /\ t0[r] = Closed /\ t0[w] = Closed
           /\ t2[r].file = "pipe_read" /\ t2[r].cloexec
           /\ t2[w].file = "pipe_write" /\ t2[w].cloexec
           /\ \A n \in Fd : n # r /\ n # w => t2[n] = t0[n]
           /\ child' = Child("placeholder", t2, r, w)
           /\ fds' = Shut(t2, {r}) /\ safe_mode_pipe_fd' = w
  BY Zenon, PipeMade
<1>2. PICK c : c = [role |-> "placeholder", at |-> "forked", fds |-> t2, log |-> log,
                    r |-> r, w |-> w]
  BY Zenon
<1>3. /\ child' = {c} /\ c.role = "placeholder" /\ c.at = "forked" /\ c.fds = t2
      /\ c.log = log /\ c.r = r /\ c.w = w
  BY Zenon, <1>1, <1>2 DEF Child
<1>4. pc \in {"placeholder", "run"}
  BY DEF setup_safe_mode
<1>5. c \in ChildType
  BY Zenon, <1>2 DEF ChildType, DescInv, TypeInv, Number
<1>6. log # -1 => t2[log].file = "log"
  <2>1. SUFFICES ASSUME log \in Fd, fds[log].file = "log"
                 PROVE  t2[log].file = "log"
    BY Zenon, <1>4, LogInherited
  <2>2. t0[log] = fds[log]
    BY Zenon, <1>1, <2>1
  <2>3. log # r /\ log # w
    BY Zenon, <1>1, <2>1, <2>2, ClosedSlot
  <2>4. QED
    BY Zenon, <1>1, <2>1, <2>2, <2>3
<1>7. \A n \in Fd : t2[n] # Closed => t2[n].cloexec \/ n \in Std
  <2>1. \A n \in Fd : n # r /\ n # w /\ t2[n] # Closed => t2[n] = fds[n]
    BY Zenon, <1>1
  <2>2. QED
    BY Zenon, <1>1, <2>1 DEF DescInv, Inherits
<1>8. \A n \in Fd : t2[n].file = "pipe_write" => n = w
  <2>1. SUFFICES ASSUME NEW n \in Fd, t2[n].file = "pipe_write", n # w
                 PROVE  FALSE
    OBVIOUS
  <2>2. n # r
    BY Zenon, <1>1, <2>1
  <2>3. t2[n] = t0[n] /\ t0[n] # Closed
    BY Zenon, <1>1, <2>1, <2>2, ClosedSlot
  <2>4. fds[n].file = "pipe_write" /\ (n = safe_mode_pipe_fd => n = 0)
    BY Zenon, <1>1, <2>1, <2>3
  <2>5. n = 0
    BY Zenon, <2>4 DEF DescInv, WatchdogKept
  <2>6. Permanent(0)
    BY <1>4 DEF DescInv, WatchdogKept, Looping
  <2>7. QED
    BY Zenon, <2>4, <2>5, <2>6 DEF Permanent
<1>9. w > 2 /\ r # -1
  BY <1>1, Numbers
<1>10. ForkedOK(c)
  BY Zenon, <1>1, <1>3, <1>6, <1>7, <1>8, <1>9 DEF ForkedOK
<1>11. QED
  BY Zenon, <1>3, <1>5, <1>10 DEF ChildKept

\* fork in spawn_exec.
LEMMA ServiceForked ==
  ASSUME DescInv, WithConsole, NEW role \in {"service", "terminal"}, spawn_exec(role)
  PROVE  ChildKept'
<1>1. PICK c : c = [role |-> role, at |-> "forked", fds |-> fds, log |-> log, r |-> -1, w |-> -1]
  BY Zenon
<1>2. /\ child' = {c} /\ c.role = role /\ c.at = "forked" /\ c.fds = fds /\ c.log = log
      /\ pc = "run"
  BY Zenon, <1>1 DEF Child, spawn_exec
<1>3. c \in ChildType
  BY Zenon, <1>1 DEF ChildType, DescInv, TypeInv, Number
<1>4. log # -1 => fds[log].file = "log"
  BY <1>2, LogInherited
<1>5. \A n \in Fd : fds[n] # Closed => fds[n].cloexec \/ n \in Std
  BY Zenon DEF DescInv, Inherits
<1>6. role # "placeholder"
  OBVIOUS
<1>7. ForkedOK(c)
  BY Zenon, <1>2, <1>4, <1>5, <1>6 DEF ForkedOK
<1>8. QED
  BY Zenon, <1>2, <1>3, <1>7 DEF ChildKept

\* A child that logs opens the log if init had not.
LEMMA LogForked ==
  ASSUME ChildKept, ChildLogs
  PROVE  ChildKept'
<1>1. PICK c \in child : /\ c.at = "forked" /\ c.role # "placeholder" /\ c.log = -1
                         /\ \E fd \in New(c.fds) :
                              Become([c EXCEPT !.log = fd, !.fds = Put(@, fd, "log", TRUE)])
  BY Zenon DEF ChildLogs
<1>2. c \in ChildType /\ ForkedOK(c)
  BY Zenon, <1>1 DEF ChildKept
<1>3. PICK t \in Table : t = c.fds
  BY <1>2 DEF ChildType
<1>4. PICK fd \in New(t) : Become([c EXCEPT !.log = fd, !.fds = Put(t, fd, "log", TRUE)])
  BY Zenon, <1>1, <1>3
<1>5. PICK u : u = Put(t, fd, "log", TRUE)
  BY Zenon
<1>6. fd \in Fd /\ "log" \in FileName
  BY NewFd DEF FileName
<1>7. /\ u \in Table /\ u[fd].file = "log" /\ u[fd].cloexec
      /\ \A n \in Fd : n # fd => u[n] = t[n]
  <2>1. Placed(Put(t, fd, "log", TRUE), t, fd, "log") /\ Put(t, fd, "log", TRUE)[fd].cloexec
    BY ZenonT(60), <1>6, PutCloexec
  <2>2. QED
    BY Zenon, <1>5, <2>1 DEF Placed
<1>8. PICK d : d = LogOf(c, fd, u)
  BY Zenon
<1>9. /\ d \in ChildType /\ d.at = "forked" /\ d.role # "placeholder" /\ d.log = fd
      /\ d.fds = u
  <2>1. fd \in Number /\ u \in Table /\ c \in ChildType
    BY <1>2, <1>6, <1>7 DEF Number
  <2>2. /\ LogOf(c, fd, u) \in ChildType
        /\ LogOf(c, fd, u).at = c.at
        /\ LogOf(c, fd, u).role = c.role
        /\ LogOf(c, fd, u).log = fd
        /\ LogOf(c, fd, u).fds = u
    BY Zenon, <2>1, LogRecord
  <2>3. QED
    BY Zenon, <1>1, <1>8, <2>2
<1>10. \A n \in Fd : u[n] # Closed => u[n].cloexec \/ n \in Std
  BY Zenon, <1>2, <1>3, <1>7 DEF ForkedOK
<1>11. ForkedOK(d)
  BY Zenon, <1>7, <1>9, <1>10 DEF ForkedOK
<1>12. ChildOK(d)
  BY <1>9, <1>11 DEF ChildOK
<1>13. Become(d)
  BY Zenon, <1>4, <1>5, <1>8 DEF LogOf
<1>14. QED
  BY Zenon, <1>12, <1>13, BecomeOK

\* setup_stdio or setup_stty, then exec closes what is marked close-on-exec.
LEMMA ServiceExecs ==
  ASSUME ChildKept, ExecService
  PROVE  ChildKept'
<1>1. PICK c \in child :
         /\ c.at = "forked" /\ c.role \in {"service", "terminal"}
         /\ \E u \in IF c.role = "terminal" THEN setup_stty(c.fds) ELSE setup_stdio(c.fds, c.log) :
               Become([c EXCEPT !.at = "exec", !.fds = AtExec(u)])
  BY Zenon DEF ExecService
<1>2. c \in ChildType /\ ForkedOK(c)
  BY Zenon, <1>1 DEF ChildKept
<1>3. PICK t, l : t = c.fds /\ l = c.log
  BY Zenon
<1>4. PICK u \in IF c.role = "terminal" THEN setup_stty(t) ELSE setup_stdio(t, l) :
         Become([c EXCEPT !.at = "exec", !.fds = AtExec(u)])
  BY Zenon, <1>1, <1>3
<1>5. PICK f : f = IF c.role = "terminal" THEN "tty" ELSE "log"
  BY Zenon
<1>6. t \in Table /\ (l = -1 \/ (l \in Fd /\ t[l].file = "log"))
  BY Zenon, <1>2, <1>3 DEF ChildType, ForkedOK, Number
<1>7. /\ u \in Table /\ Streams(u, f)
      /\ \A n \in Std : ~u[n].cloexec
      /\ \A n \in Fd \ Std : u[n] = Closed \/ u[n] = t[n]
  <2>1. CASE c.role = "terminal"
    <3>1. u \in setup_stty(t) /\ f = "tty"
      BY Zenon, <1>4, <1>5, <2>1
    <3>2. t \in Table
      BY <1>6
    <3>3. QED
      BY Zenon, <3>1, <3>2, SttyTable
  <2>2. CASE c.role # "terminal"
    <3>1. u \in setup_stdio(t, l) /\ f = "log"
      BY Zenon, <1>4, <1>5, <2>2
    <3>2. QED
      BY Zenon, <1>6, <3>1, StdioTable
  <2>3. QED
    BY Zenon, <2>1, <2>2
<1>8. \A n \in Fd \ Std : u[n] = Closed \/ u[n].cloexec
  BY Zenon, <1>2, <1>3, <1>7 DEF ForkedOK
<1>9. AtExec(u) \in Table /\ Streams(AtExec(u), f) /\ OnlyStreams(AtExec(u))
  BY Zenon, <1>7, <1>8, ExecTable
<1>10. PICK x : x = AtExec(u)
  BY Zenon
<1>11. PICK d : d = ExecOf(c, x)
  BY Zenon
<1>12. d \in ChildType /\ d.at = "exec" /\ d.role = c.role /\ d.fds = x
  <2>1. x \in Table /\ c \in ChildType
    BY Zenon, <1>2, <1>9, <1>10
  <2>2. /\ ExecOf(c, x) \in ChildType
        /\ ExecOf(c, x).at = "exec"
        /\ ExecOf(c, x).role = c.role
        /\ ExecOf(c, x).fds = x
    BY Zenon, <2>1, ExecRecord
  <2>3. QED
    BY Zenon, <1>11, <2>1, <2>2
<1>13. Streams(d.fds, IF d.role = "terminal" THEN "tty" ELSE "log") /\ OnlyStreams(d.fds)
  BY Zenon, <1>5, <1>9, <1>10, <1>12
<1>14. ChildOK(d)
  BY <1>12, <1>13 DEF ChildOK
<1>15. Become(d)
  BY Zenon, <1>4, <1>10, <1>11 DEF ExecOf
<1>16. QED
  BY Zenon, <1>14, <1>15, BecomeOK

\* The placeholder moves its read end, sets up its streams and closes its write end.
LEMMA PlaceholderWaits ==
  ASSUME ChildKept, WaitForReport
  PROVE  ChildKept'
<1>1. PICK c \in child :
         /\ c.at = "forked" /\ c.role = "placeholder"
         /\ \E r \in safe_dup(c.fds, c.r) : \E t \in setup_stdio(r.fds, c.log) :
               Become(Waiting(c, r.fd, t))
  BY Zenon DEF WaitForReport
<1>2. c \in ChildType /\ ForkedOK(c)
  BY Zenon, <1>1 DEF ChildKept
<1>3. PICK t, l, cr, cw : t = c.fds /\ l = c.log /\ cr = c.r /\ cw = c.w
  BY Zenon
<1>4. PICK o \in safe_dup(t, cr) : \E u \in setup_stdio(o.fds, l) : Become(Waiting(c, o.fd, u))
  BY Zenon, <1>1, <1>3
<1>5. PICK ot, r : ot = o.fds /\ r = o.fd
  BY Zenon
<1>6. PICK u \in setup_stdio(ot, l) : Become(Waiting(c, r, u))
  BY Zenon, <1>4, <1>5
<1>7. /\ t \in Table /\ l \in Number /\ cr \in Fd /\ cw \in Fd /\ cw > 2
      /\ l # -1 => t[l].file = "log"
      /\ t[cr].file = "pipe_read" /\ t[cw].file = "pipe_write"
      /\ \A n \in Fd : t[n].file = "pipe_write" => n = cw
  <2>1. t \in Table /\ l \in Number /\ cr \in Number /\ cw \in Number
    BY <1>2, <1>3 DEF ChildType
  <2>2. /\ l # -1 => t[l].file = "log"
        /\ cr # -1 /\ t[cr].file = "pipe_read" /\ t[cw].file = "pipe_write"
        /\ \A n \in Fd : t[n].file = "pipe_write" => n = cw
    BY Zenon, <1>1, <1>2, <1>3 DEF ForkedOK
  <2>3. cw > 2
    BY Zenon, <1>1, <1>2, <1>3 DEF ForkedOK
  <2>4. cr \in Fd /\ cw \in Fd
    BY <2>1, <2>2, <2>3 DEF Number
  <2>5. QED
    BY Zenon, <2>1, <2>2, <2>3, <2>4
<1>8. \A n \in Fd : t[n] # Closed => t[n].cloexec \/ n \in Std
  BY Zenon, <1>2, <1>3 DEF ForkedOK
<1>9. /\ ot \in Table /\ r \in Fd /\ r > 2 /\ ot[r].file = "pipe_read"
      /\ r = cr \/ (t[r] = Closed /\ ot[cr] = Closed /\ cr \in Std)
      /\ \A n \in Fd : n # cr /\ n # r => ot[n] = t[n]
  BY Zenon, <1>4, <1>5, <1>7, SafeDup
<1>10. l = -1 \/ (l \in Fd /\ ot[l].file = "log")
  <2>1. SUFFICES ASSUME l # -1
                 PROVE  l \in Fd /\ ot[l].file = "log"
    BY Zenon
  <2>2. l \in Fd /\ t[l].file = "log"
    BY Zenon, <1>7, <2>1 DEF Number
  <2>3. l # cr /\ l # r
    BY Zenon, <1>7, <1>9, <2>2, ClosedSlot
  <2>4. QED
    BY Zenon, <1>9, <2>2, <2>3
<1>11. /\ u \in Table /\ Streams(u, "log")
       /\ \A n \in Std : ~u[n].cloexec
       /\ \A n \in Fd \ Std : u[n] = Closed \/ u[n] = ot[n]
       /\ \A n \in Fd \ Std : ot[n].file \notin {"closed", "log"} => u[n] = ot[n]
  <2>1. ot \in Table
    BY <1>9
  <2>2. QED
    BY ZenonT(60), <1>10, <2>1, StdioTable
<1>12. r # cw /\ r \notin Std /\ cw \notin Std
  <2>1. r \in Fd /\ r > 2 /\ cw \in Fd /\ cw > 2
    BY Zenon, <1>7, <1>9
  <2>2. r # cw
    BY Zenon, <1>7, <1>9, ClosedSlot
  <2>3. QED
    BY <2>1, <2>2, Numbers
<1>13. PICK v : v = Shut(u, {cw})
  BY Zenon
<1>14. v \in Table /\ v[cw] = Closed /\ \A n \in Fd : n # cw => v[n] = u[n]
  <2>1. u \in Table /\ cw \in Fd
    BY Zenon, <1>7, <1>11
  <2>2. QED
    BY <1>13, <2>1, ShutTable
<1>15. v[r] = u[r] /\ u[r] = ot[r]
  BY Zenon, <1>9, <1>11, <1>12, <1>14
<1>16. \A n \in Std : v[n] = u[n]
  BY Zenon, <1>12, <1>14, Numbers
<1>17. Streams(v, "log") /\ \A n \in Std : ~v[n].cloexec
  BY Zenon, <1>11, <1>16 DEF Streams
<1>18. \A n \in Fd \ Std : v[n] = Closed \/ n = r \/ (n # cw /\ v[n] = t[n])
  BY Zenon, <1>9, <1>11, <1>14
<1>19. \A n \in Fd : v[n].file # "pipe_write"
  <2>1. TAKE n \in Fd
  <2>2. CASE n \in Std
    BY Zenon, <1>17, <2>2, Numbers DEF Streams
  <2>3. CASE n \notin Std
    BY Zenon, <1>7, <1>9, <1>15, <1>18, <2>3, ClosedSlot
  <2>4. QED
    BY Zenon, <2>2, <2>3
<1>20. \A n \in Fd \ Std : v[n] = Closed \/ v[n].cloexec \/ n = r
  BY Zenon, <1>8, <1>18
<1>21. PICK d : d = WaitingOf(c, r, v)
  BY Zenon
<1>22. d \in ChildType /\ d.at = "waiting" /\ d.role = c.role /\ d.r = r /\ d.fds = v
  <2>1. r \in Number /\ v \in Table /\ c \in ChildType
    BY Zenon, <1>2, <1>9, <1>14 DEF Number
  <2>2. /\ WaitingOf(c, r, v) \in ChildType
        /\ WaitingOf(c, r, v).at = "waiting"
        /\ WaitingOf(c, r, v).role = c.role
        /\ WaitingOf(c, r, v).r = r
        /\ WaitingOf(c, r, v).fds = v
    BY Zenon, <2>1, WaitingRecord
  <2>3. QED
    BY Zenon, <1>21, <2>2
<1>23. v[r].file = "pipe_read" /\ r > 2
  BY ZenonT(60), <1>9, <1>15
<1>24. WaitingOK(d)
  BY Zenon, <1>1, <1>17, <1>19, <1>20, <1>22, <1>23 DEF WaitingOK
<1>25. ChildOK(d)
  BY <1>22, <1>24 DEF ChildOK
<1>26. Become(d)
  BY Zenon, <1>3, <1>6, <1>13, <1>21 DEF Waiting, WaitingOf
<1>27. QED
  BY Zenon, <1>25, <1>26, BecomeOK

\* The safe-mode process closes its end of the pipe and execs.
LEMMA PlaceholderExecs ==
  ASSUME ChildKept, ExecSafeMode
  PROVE  ChildKept'
<1>1. PICK c \in child :
         c.at = "waiting" /\ Become([c EXCEPT !.at = "exec", !.fds = AtExec(Shut(c.fds, {c.r}))])
  BY Zenon DEF ExecSafeMode
<1>2. c \in ChildType /\ WaitingOK(c)
  BY Zenon, <1>1 DEF ChildKept
<1>3. PICK t, r, u : t = c.fds /\ r = c.r /\ u = Shut(t, {r})
  BY Zenon
<1>4. t \in Table /\ r \in Fd /\ r > 2
  <2>1. t \in Table /\ r \in Number
    BY <1>2, <1>3 DEF ChildType
  <2>2. r > 2
    BY Zenon, <1>2, <1>3 DEF WaitingOK
  <2>3. QED
    BY <2>1, <2>2 DEF Number
<1>5. u \in Table /\ u[r] = Closed /\ \A n \in Fd : n # r => u[n] = t[n]
  <2>1. u = Shut(t, {r}) /\ t \in Table /\ r \in Fd
    BY Zenon, <1>3, <1>4
  <2>2. QED
    BY <2>1, ShutTable
<1>6. \A n \in Std : u[n] = t[n]
  BY <1>4, <1>5, Numbers
<1>7. Streams(u, "log") /\ \A n \in Std : ~u[n].cloexec
  BY ZenonT(60), <1>2, <1>3, <1>6 DEF Streams, WaitingOK
<1>8. \A n \in Fd \ Std : u[n] = Closed \/ u[n].cloexec
  BY Zenon, <1>2, <1>3, <1>5 DEF WaitingOK
<1>9. PICK x : x = AtExec(u)
  BY Zenon
<1>10. x \in Table /\ Streams(x, "log") /\ OnlyStreams(x)
  BY Zenon, <1>5, <1>7, <1>8, <1>9, ExecTable
<1>11. PICK d : d = ExecOf(c, x)
  BY Zenon
<1>12. d \in ChildType /\ d.at = "exec" /\ d.role = "placeholder" /\ d.fds = x
  <2>1. x \in Table /\ c \in ChildType /\ c.role = "placeholder"
    BY Zenon, <1>2, <1>10 DEF WaitingOK
  <2>2. /\ ExecOf(c, x) \in ChildType
        /\ ExecOf(c, x).at = "exec"
        /\ ExecOf(c, x).role = c.role
        /\ ExecOf(c, x).fds = x
    BY Zenon, <2>1, ExecRecord
  <2>3. QED
    BY Zenon, <1>11, <2>1, <2>2
<1>13. ChildOK(d)
  BY <1>10, <1>12 DEF ChildOK
<1>14. Become(d)
  BY Zenon, <1>1, <1>3, <1>9, <1>11 DEF ExecOf
<1>15. QED
  BY Zenon, <1>13, <1>14, BecomeOK

\* Every step of init and of a child keeps the invariant about the child.
LEMMA ChildKeptStep ==
  ASSUME DescInv, WithConsole, ChildKept, [Next]_vars
  PROVE  ChildKept'
<1>1. CASE UNCHANGED child
  BY <1>1 DEF ChildKept
<1>2. CASE setup_safe_mode \/ (\E role \in {"service", "terminal"} : spawn_exec(role))
  BY Zenon, <1>2, PlaceholderForked, ServiceForked
<1>3. CASE ChildLogs \/ ExecService \/ WaitForReport \/ ExecSafeMode
  BY Zenon, <1>3, LogForked, ServiceExecs, PlaceholderWaits, PlaceholderExecs
<1>4. CASE ChildGone
  BY <1>4 DEF ChildGone, ChildKept
<1>5. CASE UNCHANGED vars \/ Ended \/ log_fd \/ setup_console \/ SetupFails \/ OpenFile \/ CloseFile \/ NoFile
  <2>1. UNCHANGED child
    BY Zenon, <1>5 DEF vars, Ended, log_fd, setup_console, SetupFails, OpenFile, CloseFile, NoFile
  <2>2. QED
    BY Zenon, <1>1, <2>1
<1>6. CASE \/ mainloop_setup \/ mainloop_add_signal_handler \/ NoWatchdog \/ OpenWatchdog
           \/ TimerForWatchdog \/ IntervalZero \/ WatchdogFails
  <2>1. UNCHANGED child
    BY Zenon, <1>6 DEF mainloop_setup, mainloop_add_signal_handler, NoWatchdog, OpenWatchdog,
       TimerForWatchdog, IntervalZero, WatchdogFails
  <2>2. QED
    BY Zenon, <1>1, <2>1
<1>7. CASE AddTimer \/ (\E fd \in Fd : RemoveTimer(fd)) \/ Leave \/ do_reboot
  <2>1. UNCHANGED child
    BY Zenon, <1>7 DEF AddTimer, RemoveTimer, Leave, do_reboot
  <2>2. QED
    BY Zenon, <1>1, <2>1
<1>8. QED
  BY Zenon, <1>2, <1>3, <1>4, <1>5, <1>6, <1>7 DEF Next

\* The inductive invariant about the child, for an init that was given its standard streams:
\* what it has open at each point between fork and exec (main.c:154-307, 417-540).
THEOREM ChildKeptCorrect == ASSUME FALSE \notin Consoles PROVE Spec => []ChildKept
<1>1. Init => ChildKept
  BY DEF Init, ChildKept
<1>2. DescInv /\ ChildKept /\ [Next]_vars => ChildKept'
  BY Zenon, ChildKeptStep DEF WithConsole
<1>3. QED
  BY <1>1, <1>2, DescCorrect, PTL DEF Spec

\* The program of a child finds its three streams open and nothing of init, whatever
\* the numbers of init's own descriptors and wherever the log was opened, provided that
\* init is started with its console open (main.c:154-233, 417-467; safe-mode.c:75-77).
THEOREM StreamsCorrect == ASSUME FALSE \notin Consoles PROVE Spec => []ChildStreams
<1>1. ChildKept => ChildStreams
  BY Zenon DEF ChildKept, ChildStreams
<1>2. QED
  BY <1>1, ChildKeptCorrect, PTL

\* The waiting placeholder has the read end of its pipe, and nobody but init has the
\* write end, under the same condition (main.c:284-298, safe-mode.c:57-60).
THEOREM PipeCorrect == ASSUME FALSE \notin Consoles PROVE Spec => []PlaceholderPipe
<1>1. ChildKept => PlaceholderPipe
  BY Zenon DEF ChildKept, WaitingOK, PlaceholderPipe
<1>2. QED
  BY <1>1, ChildKeptCorrect, PTL

=============================================================================
