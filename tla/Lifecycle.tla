------------------------------ MODULE Lifecycle ------------------------------
(***************************************************************************)
(* What init promises to do with an inittab, without the event loop,       *)
(* signals, timers and counters it does it with: the stages of             *)
(* specs/architecture.txt, the entries taken one by one from their lists,  *)
(* and the orders that wait for one another.  Supervisor implements it.    *)
(***************************************************************************)
EXTENDS InittabEntry, Sequences

CONSTANTS Entry, Instance, startup_list, shutdown_list

VARIABLES stage,     \* the stage, "ENDED" once init is gone
          todo,      \* the entries of the stage's list that remain
          children   \* the processes init has started and not reaped

vars == <<stage, todo, children>>

Process == Entry \X Instance

\* The processes whose end the next order waits for.
AwaitedChildren == {c \in children : is_one_shot_entry(c[1])}

\* The safe-mode process is there.  Only with it is the last process of a
\* termination known to be none of those that are awaited.
Guarded == \E c \in children : c[1].type = "SAFE_MODE"
Trusted == stage = "STARTUP" \/ Guarded

Init == stage = "SETUP" /\ todo = <<>> /\ children = {}

\* The placeholder is started, and start-up begins.
Begin ==
    /\ stage = "SETUP"
    /\ stage' = "STARTUP" /\ todo' = startup_list
    /\ \E c \in Process : c[1].type = "SAFE_MODE" /\ children' = {c}

\* The next entry is started, or fails to be: never before the awaited processes of
\* an earlier order have ended.
Start ==
    /\ stage \in {"STARTUP", "SHUTDOWN"} /\ todo # <<>>
    /\ Trusted => \A c \in AwaitedChildren : c[1].order = Head(todo).order
    /\ todo' = Tail(todo)
    /\ \/ children' = children
       \/ \E c \in Process \ children : c[1] = Head(todo) /\ children' = children \cup {c}
    /\ UNCHANGED stage

\* A child has ended.
Reap ==
    /\ \E c \in children : children' = children \ {c}
    /\ UNCHANGED <<stage, todo>>

\* The placeholder is started again; there is never a second one.
Restart ==
    /\ stage # "SETUP" /\ ~Guarded
    /\ \E c \in Process : c[1].type = "SAFE_MODE" /\ children' = children \cup {c}
    /\ UNCHANGED <<stage, todo>>

\* Start-up is over.
Run ==
    /\ stage = "STARTUP" /\ todo = <<>> /\ AwaitedChildren = {}
    /\ stage' = "RUN"
    /\ UNCHANGED <<todo, children>>

\* A shutdown is requested, at any time; what remained is not started.
Terminate ==
    /\ stage \notin {"SETUP", "ENDED"}
    /\ stage' = "TERMINATION" /\ todo' = <<>>
    /\ UNCHANGED children

\* All children but one have ended: the shutdown processes come, if there are any.
Shutdown ==
    /\ stage = "TERMINATION" /\ \A c, d \in children : c = d
    /\ stage' = IF shutdown_list # <<>> THEN "SHUTDOWN" ELSE "CLOSE"
    /\ todo' = shutdown_list
    /\ UNCHANGED children

\* The shutdown processes have ended.
Close ==
    /\ stage = "SHUTDOWN" /\ todo = <<>> /\ (Guarded => AwaitedChildren = {})
    /\ stage' = "CLOSE"
    /\ UNCHANGED <<todo, children>>

\* init reboots, panics or fails.
End == stage' = "ENDED" /\ todo' = <<>> /\ children' = {}

Next == Begin \/ Start \/ Reap \/ Restart \/ Run \/ Terminate \/ Shutdown \/ Close \/ End

Spec == Init /\ [][Next]_vars

=============================================================================
