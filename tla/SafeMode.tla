------------------------------ MODULE SafeMode ------------------------------
(***************************************************************************)
(* The safe-mode placeholder (src/src/safe-mode.c): a child that waits on  *)
(* a pipe, and becomes the safe-mode application when init writes it the   *)
(* name and the signal of a safe process that crashed.                     *)
(***************************************************************************)
EXTENDS Children, Sequences

VARIABLES pipe,  \* the reports written and not yet read
          app    \* the report the safe-mode application was started with, if any

safeVars == <<pipe, app>>

\* struct shared_info.  "ended" is not in the code: it records how the process
\* named in the report really ended, for the properties.
Report == [process_name : Entry,
           signal       : {"0", "-1"} \cup Killer,
           ended        : {"fork"} \cup (Status \ {"exit0"})]

\* The read end of the pipe is open in the waiting placeholder and nowhere
\* else: init closes its copy, and exec closes the ones other children inherit.
PipeHasReader ==
    \E p \in Pid : config(p).type = "SAFE_MODE" /\ proc[p] = "waiting"

\* execute_safe_mode: one write, atomic since a report is shorter than
\* PIPE_BUF.  Without a reader it fails with EPIPE.
execute_safe_mode(report) ==
    /\ PipeHasReader
    /\ pipe' = Append(pipe, report)

\* safe_mode_wait: the placeholder reads one report, closes the pipe (what else
\* was written is lost with it) and executes the application.
safe_mode_wait(p) ==
    /\ config(p).type = "SAFE_MODE"
    /\ proc[p] = "waiting"
    /\ pipe # <<>>
    /\ app' = {Head(pipe)}
    /\ pipe' = <<>>
    /\ proc' = [proc EXCEPT ![p] = "run"]
    /\ UNCHANGED sigs

=============================================================================
