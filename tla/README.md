# A TLA+ model of u-nit

u-nit is a small init (PID 1) for safety-related Linux systems. It mounts the
file systems, reads an inittab, starts its processes order by order, keeps a
safe-mode application at hand for the crash of a "safe" process, and on a signal
terminates everything, runs the shutdown processes, unmounts and calls `reboot(2)`.

This directory holds TLA+ modules translated from `src/`, TLC configurations
that check them on small instances, and TLAPS proofs for all instances.
Sources are named from the repository's root (`src/main.c` and so on).

## The system and its parts

| Part | Source | Module | State |
|---|---|---|---|
| Stage machine, process list, start of processes | `main.c:541-966` | `Supervisor` | modelled |
| What init promises about stages and orders | `specs/architecture.txt` | `Lifecycle` | abstract specification |
| `main`: set-up, end, reboot | `main.c:968-989, 1048-1165` | `Supervisor`, `Descriptors` | modelled |
| Event loop | `mainloop.c` | `Mainloop`, `Supervisor`, `Descriptors` | partly: a failing `epoll_wait` is left out |
| Safe-mode placeholder and application | `safe-mode.c`, `main.c:235-307` | `SafeMode`, `Cmdline`, `Descriptors` | modelled |
| Processes and signals (kernel) | used by `main.c` | `Children` | external |
| Inittab entries | `inittab.h` | `InittabEntry` | modelled |
| Inittab reader | `inittab.c` | `Inittab` | modelled |
| Lexer | `lexer.c` | `Lexer`, `Inittab` | modelled |
| Command lines | `cmdline.c`, `main.c:133-145` | `Cmdline` | modelled |
| Mounts and unmounts | `mount.c` | `Mount` | modelled |
| Watchdog | `watchdog.c` | `Descriptors`, `Supervisor` | modelled |
| Standard streams, terminals, console | `main.c:154-233, 417-467, 1016-1033` | `Descriptors` | partly: without terminal attributes |
| Child set-up and exec | `main.c:469-564` | `Descriptors`, `Cmdline` | partly: streams and command line |
| Log | `log.c` | `Descriptors` | partly: its descriptor |

init is single threaded. `mainloop_start` waits in `epoll_wait` for the signalfd
(SIGCHLD, SIGTERM, SIGUSR1, SIGUSR2) and for timerfds (one-shot, kill, watchdog),
gets a batch of up to 8 events, and for each calls its callback and then
`stage_maintenance`. Around it processes die, signals arrive and timers expire at
any moment; that concurrency is what `Supervisor` explores. The other modules are
about what init does before, after and beside the loop: `Mount` and `Inittab` run
before it, `Mount` again after it, `Cmdline` in every child, and `Descriptors` is
about what all of them do to the numbers of the open files.

The parts meet in two places. `Inittab` delivers the lists that `Supervisor` takes as
constants: what `SupervisorAssumption` asks of them is what `FitForSupervisor` says
of every accepted file, and that is proved. `Supervisor` in turn implements
`Lifecycle`, and that is proved too.

## How the modules correspond to the code

* `InittabEntry`: `struct inittab_entry` without its texts (a line number stands
  for the command line) and the predicates of `inittab.h`.
* `Children`: every process init can fork is a pair of an entry and an instance.
  `proc[p]` is what the kernel knows: not there, waiting (the placeholder on its
  pipe), running, sent SIGTERM, sent SIGKILL, or a zombie with its wait status.
  `sigs` are the pending signals; SIGCHLDs are coalesced, and the signalfd returns
  the lowest number first, as Linux does. The constant `Faults` says what may go
  wrong in an instance: crashing children, a dying placeholder, each failing call.
* `SafeMode`: the pipe and the report. One write of a report is atomic (shorter
  than `PIPE_BUF`). The write fails without a reader: SIGPIPE is ignored for
  PID 1, so `write` returns EPIPE and init panics.
* `Mainloop`: timers as a set, the ones that have expired, the batch not yet
  handled, the exit flag, whether there is a post-iteration callback.
  `Dangling` are the events whose timeout was freed since `epoll_wait`.
* `Supervisor`: all of the above, and one action per step of init. `pc` says in
  which function init is: `setup`, `start` (the loop of `start_processes`),
  `epoll`, `dispatch`, `reap` (the loop of `handle_child_exit`), `reaped` (what
  follows it), `post` (`stage_maintenance`), `leave`, or one of the ends
  `rebooted`, `exited`, `panic`, `aborted`, `crashed`. The loops of
  `start_processes` and `handle_child_exit` are one action per iteration, because
  children die between them; `deceased` and `restart_placeholder` are locals of
  the latter. `running_processes` is a set, since only membership, size and
  emptiness are used. `pending_finish` is a `uint32_t`, so it counts modulo
  `UINT32`. `attempted` is a history variable. `DispatchDangling` is the use of
  freed memory: the event is ignored, the loop is abandoned (the read fails), or
  init crashes.
* `Lifecycle`: stages, the entries that remain, the children; no events, signals,
  timers or counters. `Supervisor` maps to it with `LC` (section "Refinement"):
  `todo` is the local list of `start_processes` while that runs and
  `remaining.remaining` otherwise, `children` is `running_processes`, and an init
  that is gone is in stage `ENDED`.
* `Inittab`: `read_inittab`. A file is a sequence of lines, a line the sequence of
  its cells between colons, as `inittab_parse_entry` tells them apart. The buffer of
  `inittab_parse_entry` is part of the state: `inittab_next_line` reads the lines it
  skips into it too, and `next_token` does not stop at the NUL of the line. The model
  takes all cells to be of one length. The end-of-file indicator of the stream, on
  which the end of the loop depends, is there as well.
* `Lexer`: `next_token`, one action per character, in the buffer it edits in place.
  Offsets are those of the code, from 0. `Cmdline` uses it as `parse_cmdline` does
  (`' '`, quotes recognised and removed). `Inittab` and `Mount` use tokens.
* `Cmdline`: `parse_cmdline`, its copy of the text, its tables of offsets, the tags
  of `safe_mode_wait`, and what `execvpe` gets. `Reading` takes a line character by
  character, without a buffer, and `Meaning` says what the words it finds are for.
* `Mount`: `mount_system_filesystems`, the loop over the fstab with
  `parse_fstab_mnt_options` (one action per option), and the passes of
  `mount_umount_filesystems` (one action per `umount`). `mounts` is the kernel's
  stack of mounts; `Unmountable` is the kernel's rule. `heap` counts the strings the
  code has allocated; `pc = "leaked"` is the fstab given up after a failing `sprintf`.
  The flags are a set of names. `Asked` and `PassedOn` say what a list of options asks
  for: the last word on each flag, and the unknown options in their order. `Asked`
  gives "defaults" the meaning of the comment at `mount.c:56`; `NotUndone` is what the
  code falls short of it.
* `Descriptors`: a descriptor table maps numbers to files; the kernel gives the
  lowest free number. init closes 0, 1 and 2, so its own files get those numbers, and
  which gets which depends on when the log could be opened and what the watchdog did.
  A child gets a copy of the table and puts its streams in place with `safe_dup` and
  `dup2`. `pc = "aborted"` is the assertion that a feeding interval of 0 fails.
* `MCSupervisor`, `MCInittab`, `MCCmdline`, `MCMount`, `MCDescriptors`: the inittabs,
  files, texts, fstabs and timeouts TLC uses.

Definitions named `X_Something` placed before a definition `X` and commented
"Variant" are plausible bugs of `X`; each property was seen to fail under one.

## What is checked

All runs are `tlc -config MC_<name>.cfg <MC module>`.

Runs that pass:

| Run | Instance | Shows |
|---|---|---|
| `crashes` | 3 start-up orders and one of shutdown, one signal; every process and the placeholder may crash | orders are respected, the process list and the counter are exact, each entry is started once, there is one placeholder at most and never none, init never sleeps on work it could do |
| `failing_calls` | two one-shot processes and two shutdown orders, two signals, 3 timers of a kind, every call may fail | types, pointers to timers never dangle, process list and counter exact, orders respected, each entry tried once, SIGKILL only after SIGTERM and never to safe mode, and `Lifecycle` is implemented |
| `liveness` | crashes, a dying placeholder, failing forks, a watchdog | a crash leads to safe mode; start-up and shutdown complete |
| `inittab` | up to 4 valid lines and long comments; up to 2 lines with every error, short comments, with or without final newline; each call failing | lists sorted and stable, fit for the supervisor, nothing lost, exactly the well-formed files accepted, reading ends if there is a final newline, by going on line by line |
| `cmdline` | all texts of up to 6 characters over `a = ' "` and blank, up to 4 with tags; tables of 2 and 1 places; by a child and by the placeholder; each call failing | the scan stays in its buffer and uses up one character a step, tokens handed out stay, the program gets the words of the line or is not started |
| `mount` | two system file systems, all fstabs of up to two lines of 13 kinds, one foreign mount, any mount busy, mountinfo in any order, every call may fail | what was asked for is mounted with the flags and data asked for but for what "defaults" should undo, every string is freed once but for the one a failing `sprintf` loses, nothing that can be unmounted is left, unmounting ends, every step shortening what is left to do |
| `descriptors` | 10 descriptors, two timers, with and without watchdog, in a container or not; numbers run out | numbers stay those of their files, programs get exactly their three streams, the waiting placeholder does not hold the write end of its pipe, a watchdog that is open is fed in time, one that cannot be fed is closed, and at the end it is closed through its own number |

Runs that find the code to disagree with what the repository says:

| Run | What happens |
|---|---|
| `v_use_after_free` | a shutdown signal and the one-shot timer in one batch: the second event's timeout is already freed (`mainloop.c:125`) |
| `v_exit_twice` | another event after the one that closes init: `assert(!should_exit)` fails (`mainloop.c:92`) |
| `v_foreign_signal` | a report with one process's name and another's signal (`main.c:909`) |
| `v_inittab_newline` | no newline after the last entry: `read_inittab` never returns (`inittab.c:156`) |
| `v_comment_read` | an entry with too few fields takes the rest from a longer comment before it (`lexer.c:125`, `inittab.c:179`) |

The quotations are in `PROJECT.json`.

### Observations without a run of their own

These were met with the same modules and are not kept as runs. The first three had
runs in an earlier state of this project (`v_pending_negative`,
`v_terminated_not_crashed`, `v_fork_stalls_shutdown`), and so had the small instance
`services`; they made room for the runs about the other parts, since what they are
about is still in `Supervisor`.

* Once the safe-mode application has ended, `main.c:729` takes a start-up process
  that still runs for it; the shutdown list is started, and when that process ends
  `pending_finish` goes below zero (`main.c:921`). `PendingExact` and
  `ImplementsLifecycle` therefore speak of states where the safe-mode process is
  there, so the wrap itself is outside them.
* A safe service that dies of the SIGTERM of a normal shutdown counts as crashed
  (`main.c:886`) and starts safe mode.
* If no process of the last shutdown order can be forked, or `calloc` fails in
  `start_processes`, init waits in `epoll_wait` for a child it does not have, until some
  other event comes (`main.c:613-692, 733`); without a watchdog that may be never.
  `NoLostWakeup` names these cases, and says that there are no others. `liveness` has a
  watchdog.
* The first kill timer survives a second shutdown signal (`main.c:806`), and a
  non-zero exit is reported to safe mode as 0 (`main.c:909`).
* If 0, 1 and 2 are closed when init starts, the log may get one of these numbers
  while the file systems are mounted; `setup_console` closes it (`main.c:1022-1024`)
  and `log.c` keeps the number, which the epoll set gets next. With
  `Consoles = {FALSE}` TLC finds `NumbersValid`, `ChildStreams` and
  `PlaceholderPipe` violated. The kernel opens the console for init, so `descriptors`
  has `Consoles = {TRUE}`, and the theorems about these three have the hypothesis
  `FALSE \notin Consoles`; the other two hold without it.
* When the watchdog's timeout cannot be set or its timer not be made, the device is
  closed without being disarmed (`watchdog.c:88, 103`) and will reset the system.
  `watchdog_fd` keeps the number; `DisarmsWatchdog` shows that what gets it later is
  not the placeholder's pipe.
* A driver's timeout of 2^30 seconds makes the feeding interval 0, which
  `mainloop.c:192` asserts not to happen: init ends there (`IntervalZero`).
  `WatchdogFed` is about an init that goes on.
* If `sprintf` fails in `add_unknown_option`, the block just allocated is neither kept
  nor freed (`mount.c:124-136`). The file is given up after it, so one block is lost;
  `BlocksAccounted` says that this is all.
* "defaults" should equal `rw,suid,dev,exec,auto,nouser,async` according to the comment
  at `mount.c:56`, but its row only sets `MS_NOUSER`: with `noexec,defaults` the mount is
  `noexec`. `MountedAsAsked` allows for this with `NotUndone`; without it TLC finds the
  property violated.
* `specs/inittab-spec.txt` gives the format of an entry as five fields (line 15), and
  its examples (lines 66-70, 81) have four. The code refuses four
  (`inittab.c:278-281`), and so does the test data (`parse_assorted_errors`, line 17).
  `WellFormed`, hence `AcceptsWellFormed`, follows the format line: of the two readings
  it is the one the code and the tests have.
* `get_mountpoints` does not decode the escapes of mountinfo, so a mount point with a
  blank in its name is never unmounted; `Mount` has no such names.

### Bounds

* Two to five entries: enough for two processes of one order, for an order after
  another, for services between one-shots, and for a safe and an ordinary process.
* One shutdown signal where the rest of the behaviour is rich, two in
  `failing_calls`: what a repeated signal can disturb (timers, stage) is already
  disturbed by the second. `MaxRequests` is the bound.
* `Instance` has two elements where a process may be started again while its
  predecessor runs, one elsewhere.
* `TimerIdx` has one index more than requests, so allocation never fails for lack
  of indexes in a run without the `timer` fault.
* `UINT32` is 256 in `Supervisor`, where the counter moves around 0 only, and 65536 in
  `descriptors`, where the interval of the watchdog wraps from 73 s on and is 0 at
  16384 s, as it is at 2^30 s in 32 bits.
* `MAX_EVENTS` is 8, as in the code, where no instance has 8 events at once; it is 2
  in `failing_calls`, so that `epoll_wait` also leaves ready events for the next batch.
* Six characters hold two quoted words, a quote in the other quotes, or an environment
  variable and a program; `ARGS_MAX` and `ENV_MAX` of 3 and 2 are reached by them.
* Mount points are the root, two of the system, and two of which one lies below the
  other, plus one for others (`MaxOther`): a stack of three, and two mounts on one path.
* `MaxFd` is 9: with a watchdog and two timers init has 8 files open, in a container 11.
  So there are behaviours in which nothing fails for want of a number, and others in
  which an open of init or of a child does.

### Fairness

`FairSpec` of `Supervisor` assumes that init takes its steps, that armed timers
expire, that the placeholder reads its pipe, and that a process sent SIGKILL dies: the
kernel guarantees these. It also assumes that one-shot and shutdown processes end.
That is an assumption on the inittab: the code has no limit for them, its one-shot
timer only logs. Services are not assumed to end, nor to obey SIGTERM.
`ShutdownCompletes` says nothing if there is no safe-mode process again, that is once the
application has ended for good (see the first observation); a placeholder that dies and
is restarted is no excuse. `Inittab` and `Mount` are sequential: that init goes on is all their
fairness says, and nobody else has to mount anything.

## What is proved

Everything below is checked by TLAPS for all values of the constants that the named
assumptions allow.

**Supervisor** (`SupervisorAssumption`: sorted lists of distinct entries of the right
types and one safe-mode entry, any set of faults, any number of instances, timers and
requests, any modulus greater than the number of processes):

* `TypeCorrect` (`SupervisorProofs`): `Spec => []TypeOK`, one case per action.
* `CountingCorrect`, `ChildrenTracked`, `PendingCorrect` (`SupervisorProofs`).
  `PendingExact` is not inductive alone. A decrement is exact only if the process
  reaped was counted, that is if it is in `running`; hence `RunningTracksChildren`.
  STAGE_SHUTDOWN begins with the counter at 0, which is right only if the one process
  left is the safe-mode process; so the property is about states where that process
  is there, and no process of the lists may be mistaken for it: hence that
  `sp.entry` and `remaining` hold no safe-mode entry. Together these are
  `CountingInv`. Steps that neither fork nor reap are handled by `QuietStep`.
* `PlaceholderCorrect` (`LifecycleProofs`), with `PlaceholderInv`: there is no
  safe-mode process exactly while its restart is due, and until safe mode is on it
  waits on an empty pipe, so it cannot have been given a report.
* `LifecycleImplemented` (`LifecycleProofs`): initial states map to initial states,
  and every step to a step of `Lifecycle` or a stutter. `StageInv` relates stage and
  function of init and says that only processes of the order `start_processes` is at
  are awaited while it runs: that is the guard of the abstract `Start`.
* `OrderCorrect` and `EveryEntryCorrect` (`OrderProofs`), with `ListInv`: what
  remains is a sorted list of distinct entries of the stage, none of an earlier order
  than a process that runs.
* `PointersCorrect` and `SignalsCorrect` (`OrderProofs`), with `TimeoutInv` (each
  pointer is to a timeout of its own kind, and there is none to a one-shot timeout
  when a new one may be made) and `AllTermed` (while init terminates its processes
  none runs that was not sent SIGTERM).
* `WakeupCorrect` (`OrderProofs`). init blocks when the batch is empty, and the last
  thing it did then is `stage_maintenance` or `start_processes`. `CallbackSet`: until
  STAGE_RUN the post-iteration callback is set, so `stage_maintenance` is not left out.
  `Starting`: `start_processes` goes on to the next order as long as it has started no
  process to wait for, those it started are counted (without overflow), and a shutdown
  list with entries left leads to one unless forks fail (`ForkPossible`).

**Inittab** (`InittabAssumption`, any file): `InittabTypeCorrect`, `SortedCorrect`,
`FitCorrect` (`InittabProofs`), from `InittabInv`. Stability needs that the entries
placed so far come from earlier lines. `FitForSupervisor` is `SupervisorAssumption`
about the lists, so the supervisor's theorems hold for whatever is accepted.
`NothingLostCorrect` and `AcceptsCorrect` compare with what the whole file says, in the
files whose comments are harmless (`CommentsHarmless`; `v_comment_read` is about the
others). They rest on `AcceptInv`: as long as there was no error the lists hold exactly
the entries of the lines read (`Collected`), every one of those lines holds an entry,
and the buffer is no longer than a comment just read (`BufferFromSkipped`), so that what
`next_token` finds behind an entry's NUL is not taken. No induction over the file is
needed: `pos` moves through it by one line a step. `AdvancesCorrect` says just that of
the files with a final newline, from `NotAtEnd`: the end-of-file indicator is not set
while such a file is read, so `inittab_parse_entry` never returns without a line.

**Lexer and Cmdline** (`CmdlineAssumption`: any text without a NUL in it, tables of any
size, any of the calls failing): `BufferCorrect` and `TokensCorrect` (`CmdlineProofs`),
from `ScanInv`: the token being scanned holds no NUL, so the NUL written behind it is its
first, and every token handed out ends before it begins; what `memmove` moves lies behind
that. `CharactersCorrect`, from the same invariant: every step uses up one character.

`ExecCorrect` (`MeaningProofs`): what is executed is what the line means, and a line is
refused only if it has no meaning or a call failed. The code edits one buffer in place,
and `Reading` takes the text from left to right; `Follows` says how the two stand to each
other after every character. `Consumed` characters of the text are used up, `Gone` of
them as quotes, and the rest of the buffer is the rest of the text; the token being scanned is the word `Reading` is at,
with the quote that opened it still in it if one is open (`Gathered`); the tokens handed
out are the words before it (`Given`), divided into environment and arguments at the
first without an equals sign (`Sorted`). `FollowsPassed` and `FollowsClosed` are the two
kinds of steps of the scan, the second with both moves of the buffer, and `FollowsToken`
is the end of a token. `MeanInv` adds the life of the copy. `RefusedMeans` goes through
the ways a line is refused: an open quote, a blank or a full table has to show in the
meaning of the whole line while the scan has seen only its beginning, so the words found
so far must stay what they are: `WordsGrow`. That and what `Reading` is for each prefix
are inductions over the text. They go through `LeastNumber`: the numbers a statement fails
for would have a least one, by the library's well-foundedness of `<`.

**Mount** (`MountAssumption`, any table, fstab, stack of mounts and order of
mountinfo): `BlocksCorrect`, from `HeapInv`, and `UmountCorrect`, from `UmountInv`
(`MountProofs`). A pass without success proves nothing about mounts that are not in
the list; so the invariant says that the list names every mount of users, each its
own entry (`Listed`: an injection from mounts to entries), and that a pass without
success so far has tried all entries before the current one in vain. `PassesCorrect`,
from the same invariant: with every step of the passes the length of the list, whether
something changed, and the entries still to try get smaller in lexicographic order.

`MountedCorrect`, from `FstabInv`: in the middle of an entry's options, `flags` and
`unknown_opts` are what the options read so far ask for (`Current`), every mount made is
what its entry asks for, and every entry that was passed over is `noauto` or `nofail`
(`Earlier`). It needs `HeapInv` too. `Standing` is what the options read so far come to
under the code's own rows; `StandingNext` and `PassedNext` say how that and the data
change with one option more, so no induction over the list of options is needed, and none
over the fstab. `StandingAsked` compares the whole list with `Asked`: nothing asked for is
missing, and what is too much is in `NotUndone`.

**Descriptors** (`DescriptorsAssumption`: a table of four numbers or more, any number of
timers, any timeouts of the driver that fit into an `int`):
`DisarmsCorrect` and `FeedsCorrect` for every start of init, and `NumbersCorrect`,
`StreamsCorrect` and `PipeCorrect` for one that has its console
(`DescriptorsProofs`). `DescInv` has what each number init keeps stands for, at every
point of `main` (`Kept`); that all init opens is closed by `exec` (`Inherits`); that the
log's number outlives `setup_console`, which is what needs the console (`LogKept`); and
where the watchdog is (`WatchdogKept`): 0 and 1 are taken by files that stay when it is
opened, so its number is not 0, and while the loop runs only such files are below it, so a
pipe that gets its number after a failure has its read end there and not its write end.
`ChildKept` says what a child has open between `fork` and `exec`: its log and the ends of
its pipe are where its variables say, and all else above the streams is marked
close-on-exec. `FeedsCorrect` adds `FeedInv`: a timer of the watchdog has an interval
that is not 0, and until the loop is left the device is open only while it has a timer.
That it is closed when it cannot have one rests on `WatchdogKept`, since `close_watchdog`
takes the number 0 for "not open".

Only model-checked: liveness (`StartupCompletes`, `ShutdownCompletes`,
`CrashLeadsToSafeMode`, `ReadingEnds`, `UmountingEnds`), which is out of the prover's
reach. For the two sequential loops the measure that makes them end is proved instead
(`ReadingAdvances`, `PassesShrink`); that init takes its steps is then all that is
missing. The properties of the `v_` runs do not hold.

## Not modelled

* Terminal attributes (`reset_console`) and the retries of `open_console`: I/O whose
  result is only that the terminal is there or not.
* `setsid`, CPU affinity and the controlling terminal in `setup_child`: they change
  the kernel's view of the child; if they fail the child exits, which `Supervisor`
  and `Descriptors` have.
* The texts of log messages and the debug output of the lists.
* The error paths in the middle of a child's set-up, which close what was opened: the
  child exits in any case.
* `epoll_wait` failing with anything but EINTR, an assertion of the code.
* The texts of the inittab's fields: lengths are abstracted to "fits" or not, and all
  cells of a line to one length.
* `getmntent` and `hasmntopt`, library code: the fstab is its entries, an option list
  its options.
