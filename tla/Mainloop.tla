------------------------------ MODULE Mainloop ------------------------------
(***************************************************************************)
(* The event loop of src/src/mainloop.c: timers on timerfds, the signalfd, *)
(* the batch of events one epoll_wait returned, and the post-iteration     *)
(* callback.  The module holds the loop's state and the effect of its      *)
(* operations; the callbacks are those of Supervisor.                      *)
(***************************************************************************)
EXTENDS Naturals, FiniteSets

CONSTANTS TimerIdx,   \* distinguishes the timers of one kind
          MAX_EVENTS  \* the most events one epoll_wait returns

VARIABLES timers,       \* the allocated struct mainloop_timeout
          expired,      \* the timers whose descriptor is readable
          batch,        \* events[i..r-1]: returned by epoll_wait, not yet handled
          should_exit,  \* static bool should_exit
          post_cb       \* post_iteration_callback # NULL

loopVars == <<timers, expired, batch, should_exit, post_cb>>

ASSUME MainloopAssumption == TimerIdx \subseteq Nat /\ MAX_EVENTS \in Nat \ {0}

\* A timeout is known by its callback: one_shot_timeout_cb, kill_timeout_cb
\* and watchdog_feed.
TimerKind == {"one_shot", "kill", "watchdog"}
Timer == TimerKind \X TimerIdx

\* The NULL of a struct mainloop_timeout pointer.
NULL == <<"none", 0>>

\* The events epoll reports: the signalfd and the timers.
SIGNALFD == <<"signal", 0>>
Event == {SIGNALFD} \cup Timer

\* The timeouts calloc may return for a new timer of a kind (one at most: the
\* least unused index; an event still in the batch keeps its index in use).
Unused(kind) == {t \in {kind} \X TimerIdx : t \notin timers /\ t \notin batch}
NewTimers(kind) == {t \in Unused(kind) : \A u \in Unused(kind) : t[2] <= u[2]}

\* mainloop_add_timeout: the timer it returns, or NULL.
mainloop_add_timeout(kind, faulty) ==
    NewTimers(kind) \cup (IF faulty \/ NewTimers(kind) = {} THEN {NULL} ELSE {})

\* The timers once a new one is added (unless it is NULL) and one is freed.
Added(mt, set) == IF mt = NULL THEN set ELSE set \cup {mt}

\* A timer's interval is over: its descriptor becomes readable.
Expire(t) ==
    /\ t \in timers \ expired
    /\ expired' = expired \cup {t}
    /\ UNCHANGED <<timers, batch, should_exit, post_cb>>

\* The descriptors epoll_wait finds readable.
Ready(sigs) == expired \cup (IF sigs # {} THEN {SIGNALFD} ELSE {})

\* epoll_wait returns: as many ready events as fit.  (An EINTR only repeats
\* the call.)
epoll_wait(sigs) ==
    /\ Ready(sigs) # {}
    /\ batch' \in SUBSET Ready(sigs)
    /\ Cardinality(batch') = IF Cardinality(Ready(sigs)) <= MAX_EVENTS
                             THEN Cardinality(Ready(sigs)) ELSE MAX_EVENTS
    /\ UNCHANGED <<timers, expired, should_exit, post_cb>>

\* An event of the batch whose timeout has been freed since epoll_wait: the
\* loop dereferences events[i].data.ptr all the same.
Dangling(ev) == ev # SIGNALFD /\ ev \notin timers

=============================================================================
