---------------------------- MODULE OrderProofs ----------------------------
(***************************************************************************)
(* The lists of the inittab are gone through once, in order, the timeout   *)
(* pointers stay valid, SIGKILL follows SIGTERM, and init never sleeps on  *)
(* work it could do: proofs about start_processes, the stages and the      *)
(* timeouts of Supervisor.                                                 *)
(***************************************************************************)
EXTENDS LifecycleProofs

\* The steps expand large actions: the SMT solver is given up to a minute for each.
USE SMTT(60)

\* The entries of the list of a stage.
InStage(stage, entry) ==
    IF stage = "STARTUP" THEN is_startup_entry(entry) ELSE is_shutdown_entry(entry)

\* What remains is a sorted list of distinct entries of the current stage, none of
\* an earlier order than a process that runs.
RestInv ==
    pc \notin Terminal =>
        /\ Sorted(Rest) /\ Distinct(Rest)
        /\ current_stage \in {"STARTUP", "SHUTDOWN"} =>
             \A i \in DOMAIN Rest : InStage(current_stage, Rest[i])
        /\ Counted => \A q \in running :
             \/ config(q).type = "SAFE_MODE"
             \/ /\ InStage(current_stage, config(q))
                /\ \A i \in DOMAIN Rest : config(q).order <= Rest[i].order

\* The two properties, with what they rest on.
ListInv == RestInv /\ OrderRespected /\ EveryEntryOnce

-----------------------------------------------------------------------------
(* Lists *)

\* A sorted list of distinct entries without its first one.
LEMMA TailOf ==
  ASSUME NEW s \in Seq(Entry), s # <<>>, Sorted(s), Distinct(s)
  PROVE  /\ Sorted(Tail(s)) /\ Distinct(Tail(s))
         /\ \A i \in DOMAIN Tail(s) : /\ Head(s).order <= Tail(s)[i].order
                                      /\ \E j \in DOMAIN s : Tail(s)[i] = s[j]
         /\ Head(s) = s[1] /\ 1 \in DOMAIN s
         /\ Elements(s) = {Head(s)} \cup Elements(Tail(s))
         /\ Head(s) \notin Elements(Tail(s))
<1>1. Len(s) \in Nat \ {0} /\ DOMAIN s = 1 .. Len(s) /\ Head(s) = s[1]
  OBVIOUS
<1>2. DOMAIN Tail(s) = 1 .. Len(s) - 1 /\ \A i \in 1 .. Len(s) - 1 : Tail(s)[i] = s[i + 1]
  OBVIOUS
<1>3. \A i \in DOMAIN Tail(s) : i + 1 \in DOMAIN s /\ 1 < i + 1 /\ Tail(s)[i] = s[i + 1]
  BY <1>1, <1>2
<1>4. Sorted(Tail(s)) /\ Distinct(Tail(s))
  <2>1. ASSUME NEW i \in DOMAIN Tail(s), NEW j \in DOMAIN Tail(s)
        PROVE  /\ i < j => Tail(s)[i].order <= Tail(s)[j].order
               /\ Tail(s)[i] = Tail(s)[j] => i = j
    <3>1. i \in Nat /\ j \in Nat /\ i + 1 \in DOMAIN s /\ j + 1 \in DOMAIN s
      BY <1>1, <1>2
    <3>2. Tail(s)[i] = s[i + 1] /\ Tail(s)[j] = s[j + 1]
      BY <1>3
    <3>3. i < j => i + 1 < j + 1
      BY <3>1
    <3>4. i + 1 = j + 1 => i = j
      BY <3>1
    <3>5. QED
      BY <3>1, <3>2, <3>3, <3>4 DEF Sorted, Distinct
  <2>2. QED
    BY <2>1 DEF Sorted, Distinct
<1>5. \A i \in DOMAIN Tail(s) : Head(s).order <= Tail(s)[i].order /\ Head(s) # Tail(s)[i]
  BY <1>1, <1>3 DEF Sorted, Distinct
<1>6. \A j \in DOMAIN s : j = 1 \/ (j - 1 \in DOMAIN Tail(s) /\ s[j] = Tail(s)[j - 1])
  BY <1>1, <1>2
<1>7. Elements(s) = {Head(s)} \cup Elements(Tail(s))
  <2>1. ASSUME NEW e \in Elements(s) PROVE e \in {Head(s)} \cup Elements(Tail(s))
    BY ZenonT(60), <1>1, <1>6 DEF Elements
  <2>2. ASSUME NEW e \in {Head(s)} \cup Elements(Tail(s)) PROVE e \in Elements(s)
    BY <1>1, <1>3 DEF Elements
  <2>3. QED
    BY <2>1, <2>2
<1>8. Head(s) \notin Elements(Tail(s))
  BY <1>5 DEF Elements
<1>9. QED
  BY <1>1, <1>3, <1>4, <1>5, <1>7, <1>8

\* The lists of the inittab are such lists, each of its stage.
LEMMA Lists ==
  /\ Sorted(startup_list) /\ Distinct(startup_list)
  /\ \A i \in DOMAIN startup_list : is_startup_entry(startup_list[i])
  /\ Sorted(shutdown_list) /\ Distinct(shutdown_list)
  /\ \A i \in DOMAIN shutdown_list : is_shutdown_entry(shutdown_list[i])
<1>1. \A e \in {x \in Entry : is_startup_entry(x)} : is_startup_entry(e)
  OBVIOUS
<1>2. \A e \in {x \in Entry : is_shutdown_entry(x)} : is_shutdown_entry(e)
  OBVIOUS
<1>3. QED
  BY <1>1, <1>2, SupervisorAssumption DEF SupervisorAssumption, ListOf

\* The empty list.
LEMMA EmptyList == Sorted(<<>>) /\ Distinct(<<>>) /\ Elements(<<>>) = {} /\ DOMAIN <<>> = {}
  BY DEF Sorted, Distinct, Elements

\* What remains is what EveryEntryOnce calls Todo.
LEMMA TodoRest == Todo = Elements(Rest) /\ Todo' = Elements(Rest')
  BY DEF Todo, Rest

\* An entry is of at most one stage, and <safe-mode> of none.
LEMMA Kinds ==
  ASSUME NEW e
  PROVE  /\ ~(is_startup_entry(e) /\ is_shutdown_entry(e))
         /\ e.type = "SAFE_MODE" =>
              ~is_startup_entry(e) /\ ~is_shutdown_entry(e) /\ ~is_one_shot_entry(e)
  BY DEF is_startup_entry, is_shutdown_entry, is_one_shot_entry

-----------------------------------------------------------------------------
(* The steps *)

\* OrderRespected only looks at the children of the two lists and at what is trusted.
LEMMA OrderKept ==
  ASSUME OrderRespected, UNCHANGED current_stage, SafeModeAvailable' => SafeModeAvailable,
         \A q \in running' : q \in running \/ config(q).type = "SAFE_MODE"
  PROVE  OrderRespected'
<1>1. ASSUME NEW p \in OneShots', NEW q \in running', config(p).order < config(q).order,
             q \in running
      PROVE  OrderRespected!(p, q)'
  <2>1. p \in OneShots
    BY <1>1, Kinds DEF OneShots
  <2>2. QED
    BY <1>1, <2>1 DEF OrderRespected
<1>2. ASSUME NEW p \in OneShots', NEW q \in running', config(q).type = "SAFE_MODE"
      PROVE  OrderRespected!(p, q)'
  BY <1>2, Kinds
<1>3. QED
  BY <1>1, <1>2 DEF OrderRespected

\* A step that starts no process of the lists keeps ListInv.
LEMMA ListQuiet ==
  ASSUME ListInv, pc \notin Terminal, pc' \notin Terminal,
         UNCHANGED <<current_stage, attempted>>, Rest' = Rest,
         \A q \in running' : q \in running \/ config(q).type = "SAFE_MODE",
         SafeModeAvailable' => SafeModeAvailable
  PROVE  ListInv'
<1>1. OrderRespected'
  BY OrderKept DEF ListInv
<1>2. Todo' = Todo
  BY TodoRest
<1>3. OneShots' \subseteq OneShots
  BY Kinds DEF OneShots
<1>4. EveryEntryOnce'
  BY <1>2, <1>3 DEF ListInv, EveryEntryOnce
<1>5. Counted' => Counted
  BY DEF Counted
<1>6. QED
  BY <1>1, <1>4, <1>5 DEF ListInv, RestInv

\* Start-up begins with the whole list and no process of it.
LEMMA BootLists == ASSUME TypeOK, CountingInv, Boot PROVE ListInv'
<1>1. PICK p \in Pid : setup_safe_mode(p)
  BY DEF Boot
<1>2. running' = {p} /\ config(p).type = "SAFE_MODE"
  BY <1>1, SupervisorAssumption
  DEF SupervisorAssumption, setup_safe_mode, FreePids, Boot, CountingInv
<1>3. pc' = "start" /\ current_stage' = "STARTUP" /\ attempted' = {} /\ sp'.entry = startup_list
  BY DEF Boot, start_processes
<1>4. Rest' = startup_list /\ OneShots' = {}
  BY <1>2, <1>3, Kinds DEF Rest, OneShots
<1>5. OrderRespected'
  BY <1>4 DEF OrderRespected
<1>6. EveryEntryOnce'
  BY <1>3, <1>4, TodoRest DEF EveryEntryOnce
<1>7. QED
  BY <1>2, <1>3, <1>4, <1>5, <1>6, Lists DEF ListInv, RestInv, InStage

\* An iteration of start_processes takes the first entry of a sorted list, and forks a
\* process of the order of all that are awaited.
LEMMA SpawnLists ==
  ASSUME TypeOK, CountingInv, StageInv, ListInv, SpawnOne \/ SpawnSkips PROVE ListInv'
<1> DEFINE entry == Head(sp.entry)
<1>1. /\ pc = "start" /\ pc' = "start" /\ pc \notin Terminal /\ sp.entry # <<>>
      /\ entry.order = sp.order /\ UNCHANGED current_stage
      /\ attempted' = attempted \cup {entry}
  BY DEF SpawnOne, SpawnSkips, MoreToStart, stageVars, Terminal
<1>2. Rest = sp.entry /\ Rest' = Tail(sp.entry) /\ sp.entry \in Seq(Entry)
  BY Zenon, <1>1 DEF Rest, SpawnOne, SpawnSkips, Advanced, TypeOK, StartLocals
<1>3. Sorted(sp.entry) /\ Distinct(sp.entry)
  BY <1>1, <1>2 DEF ListInv, RestInv
<1>4. /\ Sorted(Rest') /\ Distinct(Rest')
      /\ \A i \in DOMAIN Rest' : /\ entry.order <= Rest'[i].order
                                 /\ \E k \in DOMAIN Rest : Rest'[i] = Rest[k]
      /\ Elements(Rest) = {entry} \cup Elements(Rest') /\ entry \notin Elements(Rest')
      /\ entry = Rest[1] /\ 1 \in DOMAIN Rest
  BY <1>1, <1>2, <1>3, TailOf
<1>5. current_stage \in {"STARTUP", "SHUTDOWN"} /\ InStage(current_stage, entry)
  BY <1>1, <1>4 DEF StageInv, ListInv, RestInv
<1>6. \A i \in DOMAIN Rest' : InStage(current_stage', Rest'[i])
  BY <1>1, <1>4, <1>5 DEF ListInv, RestInv, InStage
<1>7. EveryEntryOnce'
  <2>1. Todo = {entry} \cup Todo' /\ entry \notin Todo'
    BY <1>4, TodoRest
  <2>2. QED
    BY <1>1, <1>5, <2>1 DEF ListInv, EveryEntryOnce
<1>8. CASE SpawnSkips
  <2>1. running' = running /\ (SafeModeAvailable' => SafeModeAvailable)
    BY <1>1, <1>8 DEF SpawnSkips, SafeModeAvailable, SafeModeProcess
  <2>2. OrderRespected'
    BY <1>1, <2>1, OrderKept DEF ListInv
  <2>3. Counted' => \A q \in running' :
             \/ config(q).type = "SAFE_MODE"
             \/ InStage(current_stage', config(q)) /\ \A i \in DOMAIN Rest' : config(q).order <= Rest'[i].order
    BY <1>1, <1>4, <2>1 DEF ListInv, RestInv, Counted, InStage
  <2>4. QED
    BY <1>1, <1>4, <1>6, <1>7, <2>2, <2>3 DEF ListInv, RestInv
<1>9. CASE SpawnOne
  <2>1. PICK p \in FreePids(entry) : running' = running \cup {p}
    BY <1>9 DEF SpawnOne
  <2>2. config(p) = entry /\ p \in Pid /\ entry.type # "SAFE_MODE"
    BY <1>5, <2>1, Kinds DEF FreePids, InStage
  <2>3. SafeModeAvailable' => SafeModeAvailable
    BY <1>1, <2>1, <2>2 DEF SafeModeAvailable, SafeModeProcess
  <2>4. Counted' => Counted
    BY <1>1, <2>3 DEF Counted
  <2>5. Counted' => \A q \in running' :
             \/ config(q).type = "SAFE_MODE"
             \/ InStage(current_stage', config(q)) /\ \A i \in DOMAIN Rest' : config(q).order <= Rest'[i].order
    BY ZenonT(60), <1>1, <1>4, <1>5, <2>1, <2>2, <2>4 DEF ListInv, RestInv, InStage
  <2>6. OrderRespected'
    <3> SUFFICES ASSUME NEW a \in OneShots', NEW b \in running', config(a).order < config(b).order
                 PROVE  OrderRespected!(a, b)'
      BY DEF OrderRespected
    <3>1. CASE a \in running /\ b \in running
      <4>1. a \in OneShots
        BY Zenon, <3>1 DEF OneShots
      <4>2. QED
        BY Zenon, <1>1, <2>3, <3>1, <4>1 DEF ListInv, OrderRespected
    <3>2. CASE ~Counted
      <4>1. current_stage = "SHUTDOWN" /\ ~SafeModeAvailable
        BY <1>5, <3>2 DEF Counted
      <4>2. (a = p \/ b = p) => ~is_startup_entry(config(p))
        BY <1>5, <2>2, <4>1, Kinds DEF InStage
      <4>3. QED
        BY <1>1, <2>1, <2>3, <3>1, <4>1, <4>2 DEF OneShots
    <3>3. CASE Counted /\ b = p
      <4>1. a = p \/ a \in OneShots
        BY <2>1 DEF OneShots
      <4>2. config(a).order = entry.order
        BY <1>1, <2>2, <3>3, <4>1 DEF StageInv
      <4>3. QED
        BY <2>2, <3>3, <4>2, Constants DEF Pid, config
    <3>4. CASE Counted /\ a = p /\ b \in running
      <4>1. config(b).type = "SAFE_MODE" \/ config(b).order <= entry.order
        BY <1>1, <1>4, <3>4 DEF ListInv, RestInv
      <4>2. config(b).order \in Int /\ entry.order \in Int
        BY <2>2, <3>4, Constants DEF TypeOK, Pid, config
      <4>3. config(b).type = "SAFE_MODE"
        BY <2>2, <3>4, <4>1, <4>2
      <4>4. QED
        BY <4>3, Kinds
    <3>5. QED
      BY <2>1, <3>1, <3>2, <3>3, <3>4 DEF OneShots
  <2>7. QED
    BY ZenonT(60), <1>1, <1>4, <1>6, <1>7, <2>5, <2>6 DEF ListInv, RestInv
<1>10. QED
  BY <1>8, <1>9

\* An order or a list is over only when all of it was gone through.
LEMMA OrderDoneLists ==
  ASSUME TypeOK, CountingInv, ListInv, OrderDone PROVE ListInv'
<1>1. /\ pc = "post" /\ pc \notin Terminal /\ UNCHANGED <<running, remaining>>
      /\ pending_finish = 0 /\ Rest = remaining
  BY DEF OrderDone, Terminal, Rest
<1>2. CASE start_processes(remaining, "maint") /\ UNCHANGED current_stage
  <2>1. pc' = "start" /\ pc' \notin Terminal /\ UNCHANGED attempted /\ Rest' = Rest
    BY <1>1, <1>2 DEF start_processes, Terminal, Rest
  <2>2. SafeModeAvailable' => SafeModeAvailable
    BY <1>1, <2>1 DEF SafeModeAvailable, SafeModeProcess
  <2>3. QED
    BY <1>1, <1>2, <2>1, <2>2, ListQuiet
<1>3. CASE /\ remaining = <<>> /\ current_stage \in {"STARTUP", "SHUTDOWN"}
           /\ current_stage' = IF current_stage = "STARTUP" THEN "RUN" ELSE "CLOSE"
           /\ pc' # "start" /\ UNCHANGED attempted
  <2>1. Rest' = <<>> /\ Todo = {} /\ OneShots' = OneShots
    BY <1>1, <1>3, TodoRest, EmptyList DEF Rest, OneShots
  <2>2. attempted = Elements(IF current_stage = "STARTUP" THEN startup_list ELSE shutdown_list)
    BY <1>1, <1>3, <2>1 DEF ListInv, EveryEntryOnce
  <2>3. current_stage = "STARTUP" => OneShots = {}
    BY <1>1, NothingAwaited DEF Counted
  <2>4. EveryEntryOnce'
    BY <1>3, <2>1, <2>2, <2>3 DEF EveryEntryOnce
  <2>5. OrderRespected'
    BY <1>1, <1>3, <2>1 DEF ListInv, OrderRespected
  <2>6. QED
    BY <1>3, <2>1, <2>4, <2>5, EmptyList DEF ListInv, RestInv, Counted
<1>4. QED
  BY Zenon, <1>2, <1>3, NextEventType DEF OrderDone, mainloop_exit, startVars

\* The shutdown list begins with no process of it if the safe-mode process is there.
LEMMA TerminationLists ==
  ASSUME TypeOK, CountingInv, StageInv, ListInv, TerminationDone PROVE ListInv'
<1>1. /\ pc = "post" /\ pc \notin Terminal /\ UNCHANGED <<running, remaining>> /\ ~OthersRunning
      /\ remaining = <<>>
  <2>1. /\ pc = "post" /\ current_stage = "TERMINATION"
        /\ UNCHANGED <<running, remaining>> /\ ~OthersRunning
    BY Zenon DEF TerminationDone
  <2>2. pc \notin Terminal
    BY <2>1 DEF Terminal
  <2>3. QED
    BY <2>1, <2>2 DEF StageInv
<1>2. CASE shutdown_list # <<>>
  <2>1. pc' = "start" /\ current_stage' = "SHUTDOWN" /\ Rest' = shutdown_list /\ attempted' = {}
    BY <1>2 DEF TerminationDone, start_processes, Rest
  <2>2. SafeModeAvailable' => running' = SafeModeProcess' /\ OneShots' = {}
    BY <1>1, <2>1, OnlyPlaceholderLeft DEF SafeModeAvailable, SafeModeProcess, OneShots
  <2>3. OrderRespected'
    BY <1>1, <2>2 DEF ListInv, OrderRespected, OneShots
  <2>4. EveryEntryOnce'
    BY <2>1, TodoRest DEF EveryEntryOnce
  <2>5. Counted' => \A q \in running' : config(q).type = "SAFE_MODE"
    BY <2>1, <2>2 DEF Counted, SafeModeProcess
  <2>6. QED
    BY <2>1, <2>3, <2>4, <2>5, Lists DEF ListInv, RestInv, InStage
<1>3. CASE shutdown_list = <<>>
  <2>1. current_stage' = "CLOSE" /\ pc' # "start"
    BY Zenon, <1>3, NextEventType DEF TerminationDone, mainloop_exit
  <2>2. Rest' = <<>> /\ OneShots' = OneShots
    BY <1>1, <2>1 DEF Rest, OneShots
  <2>3. OrderRespected'
    BY <1>1, <2>1, <2>2 DEF ListInv, OrderRespected
  <2>4. EveryEntryOnce'
    BY <1>3, <2>1, EmptyList DEF EveryEntryOnce
  <2>5. QED
    BY <2>1, <2>2, <2>3, <2>4, EmptyList DEF ListInv, RestInv, Counted
<1>4. QED
  BY <1>2, <1>3

\* How init may end.
LEMMA Endings ==
  ASSUME [Next]_vars, pc \notin Terminal, pc' \in Terminal
  PROVE  \/ OrderDone \/ TerminationDone
         \/ /\ UNCHANGED current_stage /\ running' \subseteq running
            /\ attempted' = attempted \/ pc = "start"
<1> USE DEF stageVars, startVars, initVars
<1>1. CASE BootFails \/ SpawnFails
  BY Zenon, <1>1 DEF BootFails, SpawnFails
<1>9. CASE Boot \/ SpawnOne \/ StartDone \/ Wait \/ DispatchSigchld
  <2>1. pc' \in {"start", "reap", "epoll", "dispatch", "leave", pc}
    BY Zenon, <1>9, NextEventType DEF Boot, start_processes, SpawnOne, StartDone, Wait, DispatchSigchld
  <2>2. QED
    BY <2>1 DEF Terminal
<1>2. ASSUME NEW c \in ShutdownSignal, handle_shutdown_cmd(c) PROVE FALSE
  BY <1>2 DEF handle_shutdown_cmd, Terminal
<1>3. ASSUME NEW t \in Timer,
             one_shot_timeout_cb(t) \/ kill_timeout_cb(t) \/ watchdog_feed(t) \/ DispatchDangling(t)
      PROVE  UNCHANGED <<current_stage, running, attempted>>
  BY Zenon, <1>3 DEF one_shot_timeout_cb, kill_timeout_cb, watchdog_feed, DispatchDangling
<1>4. CASE ReapOne
  BY <1>4 DEF ReapOne, Terminal
<1>5. CASE ReapDone \/ StartSafeMode \/ RestartPlaceholder \/ ChildExitHandled
  BY Zenon, <1>5 DEF ReapDone, StartSafeMode, RestartPlaceholder, ChildExitHandled, Terminal
<1>6. CASE NoCallback \/ NothingToDo \/ CloseAgain \/ Leave
  BY Zenon, <1>6 DEF NoCallback, NothingToDo, CloseAgain, Leave
<1>7. CASE Environment
  BY Zenon, <1>7 DEF Environment, Exit, PlaceholderExec, AdoptedExit, Request, Elapse
<1>10. CASE Ended \/ UNCHANGED vars
  BY Zenon, <1>10 DEF Ended, vars
<1>8. QED
  BY Zenon, <1>1, <1>2, <1>3, <1>4, <1>5, <1>6, <1>7, <1>9, <1>10 DEF Next, InitStep

\* Every step keeps ListInv.
LEMMA ListStep ==
  TypeOK /\ CountingInv /\ StageInv /\ ListInv /\ [Next]_vars => ListInv'
<1> SUFFICES ASSUME TypeOK, CountingInv, StageInv, ListInv, [Next]_vars PROVE ListInv'
  OBVIOUS
<1>1. CASE pc \in Terminal
  <2>1. pc' \in Terminal /\ UNCHANGED <<pc, running, current_stage, attempted, restart_placeholder>>
    BY <1>1, StaysEnded DEF vars, initVars, stageVars, startVars, reapVars
  <2>2. OrderRespected'
    <3>1. SafeModeAvailable' = SafeModeAvailable
      BY <2>1 DEF SafeModeAvailable, SafeModeProcess
    <3>2. QED
      BY <2>1, <3>1, OrderKept DEF ListInv
  <2>3. EveryEntryOnce'
    BY <2>1 DEF ListInv, EveryEntryOnce, OneShots
  <2>4. QED
    BY Zenon, <2>1, <2>2, <2>3 DEF ListInv, RestInv
<1>2. CASE pc \notin Terminal /\ pc' \in Terminal
  <2>1. CASE OrderDone \/ TerminationDone
    BY <2>1, OrderDoneLists, TerminationLists
  <2>2. CASE /\ UNCHANGED current_stage /\ running' \subseteq running
             /\ attempted' = attempted \/ pc = "start"
    <3>1. SafeModeAvailable' => SafeModeAvailable
      BY <1>2, <2>2 DEF SafeModeAvailable, SafeModeProcess, Terminal
    <3>2. OrderRespected'
      BY <2>2, <3>1, OrderKept DEF ListInv
    <3>3. OneShots' \subseteq OneShots
      BY <2>2 DEF OneShots
    <3>4. attempted' = attempted \/ current_stage \in {"STARTUP", "SHUTDOWN"}
      BY Zenon, <1>2, <2>2 DEF StageInv
    <3>5. EveryEntryOnce'
      BY <1>2, <2>2, <3>3, <3>4 DEF ListInv, EveryEntryOnce
    <3>6. QED
      BY Zenon, <1>2, <3>2, <3>5 DEF ListInv, RestInv
  <2>3. QED
    BY <1>2, <2>1, <2>2, Endings
<1>3. CASE pc \notin Terminal /\ pc' \notin Terminal
  <2> USE DEF stageVars, startVars, listVars
  <2>1. CASE Boot \/ SpawnOne \/ SpawnSkips \/ OrderDone \/ TerminationDone
    BY <2>1, BootLists, SpawnLists, OrderDoneLists, TerminationLists
  <2>2. CASE StartDone
    <3>1. pc = "start" /\ pc' \in {"dispatch", "leave", "epoll"} /\ remaining' = sp.entry
          /\ UNCHANGED <<running, current_stage, attempted>>
      BY <2>2, NextEventType DEF StartDone
    <3>2. Rest' = Rest /\ (SafeModeAvailable' => SafeModeAvailable)
      BY <3>1 DEF Rest, SafeModeAvailable, SafeModeProcess
    <3>3. QED
      BY <1>3, <3>1, <3>2, ListQuiet
  <2>3. CASE ReapOne /\ pc' = "reap"
    <3>1. PICK p \in Zombies : ReapOne!2!(p)
      BY Zenon, <2>3 DEF ReapOne, Zombies
    <3>2. /\ pc = "reap" /\ running' = running \ {p} /\ p \in running
          /\ restart_placeholder' => restart_placeholder \/ config(p).type = "SAFE_MODE"
      BY Zenon, <1>3, <2>3, <3>1
      DEF ReapOne, Zombies, Status, Killer, CountingInv, RunningTracksChildren
    <3>3. UNCHANGED <<current_stage, attempted>> /\ Rest' = Rest
      <4>1. UNCHANGED <<current_stage, attempted, sp, remaining>>
        BY Zenon, <2>3 DEF ReapOne
      <4>2. QED
        BY <2>3, <3>2, <4>1 DEF Rest
    <3>4. SafeModeAvailable' => SafeModeAvailable
      BY <2>3, <3>2 DEF SafeModeAvailable, SafeModeProcess
    <3>5. QED
      BY <1>3, <3>2, <3>3, <3>4, ListQuiet
  <2>4. CASE Restarted
    <3>1. PICK p \in Pid : setup_safe_mode(p)
      BY <2>4 DEF Restarted
    <3>2. config(p).type = "SAFE_MODE" /\ running' = running \cup {p}
      BY <3>1, SupervisorAssumption DEF SupervisorAssumption, setup_safe_mode, FreePids
    <3>3. UNCHANGED <<current_stage, attempted>> /\ Rest' = Rest /\ SafeModeAvailable
      BY <2>4 DEF Restarted, Rest, SafeModeAvailable
    <3>4. QED
      BY <1>3, <3>2, <3>3, ListQuiet
  <2>5. ASSUME NEW c \in ShutdownSignal, handle_shutdown_cmd(c) PROVE ListInv'
    <3>1. pc' = "post" /\ current_stage' = "TERMINATION" /\ remaining' = <<>> /\ UNCHANGED running
      BY <2>5 DEF handle_shutdown_cmd
    <3>2. Rest' = <<>> /\ OneShots' = OneShots
      BY <3>1 DEF Rest, OneShots
    <3>3. OrderRespected'
      BY <3>1, <3>2 DEF ListInv, OrderRespected
    <3>4. EveryEntryOnce'
      BY <3>1 DEF EveryEntryOnce
    <3>5. RestInv'
      BY <3>1, <3>2, EmptyList DEF RestInv, Counted
    <3>6. QED
      BY <3>3, <3>4, <3>5 DEF ListInv
  <2>6. CASE Quiet
    <3>1. UNCHANGED <<running, current_stage, attempted>> /\ Rest' = Rest
      BY <2>6 DEF Quiet, listed, Rest
    <3>2. SafeModeAvailable' => SafeModeAvailable
      BY <2>6, <3>1 DEF Quiet, SafeModeAvailable, SafeModeProcess, Restarting
    <3>3. QED
      BY <1>3, <3>1, <3>2, ListQuiet
  <2>7. QED
    BY <1>3, <2>1, <2>2, <2>3, <2>4, <2>5, <2>6, Effects
<1>4. QED
  BY <1>1, <1>2, <1>3

-----------------------------------------------------------------------------
(* The theorems *)

\* Init establishes the invariants of the stages and of the lists.
LEMMA ListInit == Init => StageInv /\ ListInv
<1> SUFFICES ASSUME Init PROVE StageInv /\ ListInv
  OBVIOUS
<1>1. Rest = <<>> /\ OneShots = {} /\ current_stage = "SETUP"
  BY DEF Init, Rest, OneShots
<1>2. OrderRespected /\ EveryEntryOnce
  BY <1>1 DEF OrderRespected, EveryEntryOnce
<1>3. QED
  BY ZenonT(60), <1>1, <1>2, EmptyList DEF Init, StageInv, ListInv, RestInv, Counted, Terminal

\* No process runs beside an awaited process of an earlier order of its list, for every
\* inittab and whatever fork, calloc, the children and the signals do.
THEOREM OrderCorrect == Spec => []OrderRespected
<1>1. ListInv => OrderRespected
  BY DEF ListInv
<1>2. QED
  BY <1>1, ListInit, ListStep, StageStep, TypeCorrect, CountingCorrect, PTL DEF Spec

\* Every entry of a list is gone through once before its stage ends.
THEOREM EveryEntryCorrect == Spec => []EveryEntryOnce
<1>1. ListInv => EveryEntryOnce
  BY DEF ListInv
<1>2. QED
  BY <1>1, ListInit, ListStep, StageStep, TypeCorrect, CountingCorrect, PTL DEF Spec

-----------------------------------------------------------------------------
(* Timeouts and the signals they lead to *)

\* The pointers are valid because each is to a timeout of its own kind, and because
\* there is none to a one-shot timeout when start_processes may make a new one.
TimeoutInv ==
    /\ TimeoutPointersValid
    /\ one_shot_timeout # NULL => one_shot_timeout[1] = "one_shot"
    /\ kill_timeout # NULL => kill_timeout[1] = "kill"
    /\ pc \in {"setup", "start"} \/ current_stage = "TERMINATION" => one_shot_timeout = NULL

\* While init terminates its processes none runs that was not sent SIGTERM.
AllTermed ==
    pc \notin Terminal /\ current_stage = "TERMINATION" =>
        \A p \in Pid : config(p).type # "SAFE_MODE" => proc[p] # "run"

-----------------------------------------------------------------------------
(* The pointers *)

\* A new timeout is of the kind asked for.
LEMMA AddedKind ==
  ASSUME NEW kind, NEW faulty, NEW mt \in mainloop_add_timeout(kind, faulty)
  PROVE  mt = NULL \/ mt[1] = kind
  BY DEF mainloop_add_timeout, NewTimers, Unused

\* A step that touches no timeout keeps TimeoutInv.
LEMMA TimeoutQuiet ==
  ASSUME TimeoutInv, UNCHANGED <<timers, one_shot_timeout, kill_timeout>>,
         pc' \in {"setup", "start"} => pc \in {"setup", "start"},
         current_stage' = "TERMINATION" => current_stage = "TERMINATION"
  PROVE  TimeoutInv'
  BY DEF TimeoutInv, TimeoutPointersValid

\* NULL is not a timer.
LEMMA NullKind == NULL[1] = "none"
  BY DEF NULL

\* start_processes ends with a new one-shot timeout where there was none.
LEMMA StartDoneTimeouts ==
  ASSUME TypeOK, StageInv, TimeoutInv, StartDone PROVE TimeoutInv'
<1> DEFINE freed == IF sp.caller = "term" THEN {kill_timeout} ELSE {}
<1>1. /\ pc = "start" /\ pc' \in {"dispatch", "leave", "epoll"} /\ UNCHANGED current_stage
      /\ pc \notin Terminal
  BY NextEventType DEF StartDone, stageVars, Terminal
<1>2. current_stage # "TERMINATION" /\ one_shot_timeout = NULL
  BY <1>1 DEF StageInv, TimeoutInv
<1>3. \A t \in timers : t[1] # "one_shot"
  BY <1>2, NullKind DEF TimeoutInv, TimeoutPointersValid
<1>4. PICK mt \in IF sp.has_one_shot
                  THEN mainloop_add_timeout("one_shot", "timer" \in Faults)
                  ELSE {NULL} :
          /\ one_shot_timeout' = IF sp.has_one_shot THEN mt ELSE one_shot_timeout
          /\ timers' = Added(mt, timers) \ freed
          /\ kill_timeout' = IF sp.caller = "term" THEN NULL ELSE kill_timeout
  BY Zenon DEF StartDone
<1>5. (mt = NULL \/ mt[1] = "one_shot") /\ one_shot_timeout' = mt
  BY <1>2, <1>4, AddedKind
<1>6. \A t \in timers' : t \in timers \/ t = mt
  BY <1>4 DEF Added
<1>7. mt # NULL => mt \in timers'
  <2>1. mt # NULL => mt # kill_timeout
    BY <1>5, NullKind DEF TimeoutInv
  <2>2. QED
    BY <1>4, <2>1 DEF Added
<1>8. kill_timeout' \in timers' \cup {NULL}
  BY <1>4 DEF Added, TimeoutInv, TimeoutPointersValid
<1>9. QED
  BY ZenonT(60), <1>1, <1>2, <1>3, <1>4, <1>5, <1>6, <1>7, <1>8 DEF TimeoutInv, TimeoutPointersValid

\* A shutdown signal frees the one-shot timeout and makes a kill timeout.
LEMMA ShutdownCmdTimeouts ==
  ASSUME TypeOK, TimeoutInv, NEW c \in ShutdownSignal, handle_shutdown_cmd(c) PROVE TimeoutInv'
<1>1. pc' = "post" /\ one_shot_timeout' = NULL
  BY DEF handle_shutdown_cmd
<1>2. PICK mt \in mainloop_add_timeout("kill", "timer" \in Faults) :
          kill_timeout' = mt /\ timers' = Added(mt, timers \ {one_shot_timeout})
  BY DEF handle_shutdown_cmd
<1>3. mt = NULL \/ mt[1] = "kill"
  BY <1>2, AddedKind
<1>4. \A t \in timers' : t[1] # "one_shot"
  BY <1>2, <1>3 DEF Added, TimeoutInv, TimeoutPointersValid
<1>5. mt = NULL \/ mt \in timers'
  BY <1>2 DEF Added
<1>6. QED
  BY <1>1, <1>2, <1>3, <1>4, <1>5 DEF TimeoutInv, TimeoutPointersValid

\* Every step keeps TimeoutInv.
LEMMA TimeoutStep == TypeOK /\ StageInv /\ TimeoutInv /\ [Next]_vars => TimeoutInv'
<1> SUFFICES ASSUME TypeOK, StageInv, TimeoutInv, [Next]_vars PROVE TimeoutInv'
  OBVIOUS
<1> USE DEF loopVars, stageVars, timeoutVars, initVars
<1>1. CASE Boot
  <2>1. /\ pc = "setup" /\ UNCHANGED <<one_shot_timeout, kill_timeout>>
        /\ pc' = "start" /\ current_stage' = "STARTUP"
    BY <1>1 DEF Boot, start_processes
  <2>2. PICK mt \in IF Watchdog THEN mainloop_add_timeout("watchdog", "timer" \in Faults)
                    ELSE {NULL} : timers' = Added(mt, timers)
    BY <1>1 DEF Boot
  <2>3. mt = NULL \/ mt[1] = "watchdog"
    BY <2>2, AddedKind
  <2>4. timers \subseteq timers' /\ \A t \in timers' : t[1] = "one_shot" => t \in timers
    BY <2>2, <2>3 DEF Added
  <2>5. QED
    BY <2>1, <2>4 DEF TimeoutInv, TimeoutPointersValid
<1>2. CASE BootFails \/ SpawnOne \/ Wait \/ DispatchSigchld \/ ReapDone
           \/ ChildExitHandled \/ RestartPlaceholder
  <2>1. UNCHANGED <<timers, one_shot_timeout, kill_timeout, current_stage>>
    BY Zenon, <1>2 DEF BootFails, SpawnOne, Wait, epoll_wait, DispatchSigchld, ReapDone,
       ChildExitHandled, RestartPlaceholder
  <2>2. pc' \in {"setup", "start"} => pc \in {"setup", "start"}
    BY Zenon, <1>2 DEF BootFails, SpawnOne, Wait, DispatchSigchld, ReapDone,
       ChildExitHandled, RestartPlaceholder
  <2>3. QED
    BY <2>1, <2>2, TimeoutQuiet
<1>3. CASE SpawnFails \/ StartSafeMode
  BY ZenonT(60), <1>3, TimeoutQuiet DEF SpawnFails, StartSafeMode, start_safe_mode
<1>4. CASE ReapOne
  BY ZenonT(60), <1>4, TimeoutQuiet DEF ReapOne
<1>5. ASSUME NEW t \in Timer, one_shot_timeout_cb(t) PROVE TimeoutInv'
  <2>1. /\ t[1] = "one_shot" /\ timers' = timers \ {t} /\ one_shot_timeout' = NULL
        /\ t \in timers /\ UNCHANGED <<kill_timeout, current_stage>> /\ pc' = "post"
    BY <1>5 DEF one_shot_timeout_cb
  <2>2. t # kill_timeout
    BY <2>1, NullKind DEF TimeoutInv
  <2>3. QED
    BY <2>1, <2>2 DEF TimeoutInv, TimeoutPointersValid
<1>6. ASSUME NEW t \in Timer, kill_timeout_cb(t) PROVE TimeoutInv'
  <2>1. /\ t[1] = "kill" /\ timers' = timers \ {t} /\ kill_timeout' = NULL
        /\ UNCHANGED <<one_shot_timeout, current_stage>> /\ pc' = "post"
    BY <1>6 DEF kill_timeout_cb
  <2>2. t # one_shot_timeout
    BY <2>1, NullKind DEF TimeoutInv
  <2>3. QED
    BY <2>1, <2>2 DEF TimeoutInv, TimeoutPointersValid
<1>7. ASSUME NEW t \in Timer, watchdog_feed(t) \/ DispatchDangling(t) \/ Elapse(t) PROVE TimeoutInv'
  BY ZenonT(60), <1>7, TimeoutQuiet DEF watchdog_feed, DispatchDangling, Elapse, Expire
<1>8. CASE NoCallback \/ NothingToDo \/ CloseAgain
  <2>1. pc' \in {"aborted", "dispatch", "leave", "epoll"}
    BY Zenon, <1>8, NextEventType DEF NoCallback, NothingToDo, CloseAgain, mainloop_exit
  <2>2. QED
    BY Zenon, <1>8, <2>1, TimeoutQuiet DEF NoCallback, NothingToDo, CloseAgain
<1>9. CASE OrderDone
  <2>1. /\ one_shot_timeout' = NULL /\ timers' = timers \ {one_shot_timeout}
        /\ UNCHANGED kill_timeout
    BY <1>9 DEF OrderDone
  <2>2. one_shot_timeout = NULL \/ one_shot_timeout # kill_timeout
    BY NullKind DEF TimeoutInv
  <2>3. QED
    BY <2>1, <2>2 DEF TimeoutInv, TimeoutPointersValid
<1>10. CASE TerminationDone
  <2>1. one_shot_timeout = NULL /\ UNCHANGED one_shot_timeout
    BY <1>10 DEF TerminationDone, TimeoutInv
  <2>2. \/ UNCHANGED <<timers, kill_timeout>>
        \/ timers' = timers \ {kill_timeout} /\ kill_timeout' = NULL
    BY <1>10 DEF TerminationDone
  <2>3. QED
    BY <2>1, <2>2 DEF TimeoutInv, TimeoutPointersValid
<1>11. CASE Leave
  <2>1. /\ timers' = {t \in timers : t[1] # "watchdog"} /\ pc' \in {"rebooted", "exited"}
        /\ UNCHANGED <<one_shot_timeout, kill_timeout, current_stage>>
    BY <1>11 DEF Leave
  <2>2. QED
    BY Zenon, <2>1 DEF TimeoutInv, TimeoutPointersValid
<1>12. ASSUME NEW p \in Pid, Exit(p) \/ PlaceholderExec(p) PROVE TimeoutInv'
  BY Zenon, <1>12, TimeoutQuiet DEF Exit, PlaceholderExec
<1>13. CASE AdoptedExit \/ \E c \in ShutdownSignal : Request(c)
  BY ZenonT(60), <1>13, TimeoutQuiet DEF AdoptedExit, Request
<1>14. CASE Ended \/ UNCHANGED vars
  BY ZenonT(60), <1>14, TimeoutQuiet DEF Ended, vars
<1>15. QED
  BY ZenonT(60), <1>1, <1>2, <1>3, <1>4, <1>5, <1>6, <1>7, <1>8, <1>9, <1>10, <1>11, <1>12, <1>13, <1>14,
     StartDoneTimeouts, ShutdownCmdTimeouts
  DEF Next, InitStep, Environment

\* No pointer to a timeout dangles, and no one-shot timer is forgotten: init never frees a
\* timeout twice, whatever timer_create and epoll_ctl do and however events are batched.
THEOREM PointersCorrect == Spec => []TimeoutPointersValid
<1>1. Init => TimeoutInv /\ StageInv
  BY Zenon DEF Init, TimeoutInv, TimeoutPointersValid, StageInv
<1>2. TimeoutInv => TimeoutPointersValid
  BY DEF TimeoutInv
<1>3. QED
  BY <1>1, <1>2, TimeoutStep, StageStep, TypeCorrect, CountingCorrect, PTL DEF Spec

-----------------------------------------------------------------------------
(* The signals *)

\* A step that signals no process and starts none of the lists.
LEMMA TermedQuiet ==
  ASSUME AllTermed, pc \notin Terminal, UNCHANGED current_stage,
         \A p \in Pid : proc'[p] = "run" => proc[p] = "run" \/ config(p).type = "SAFE_MODE"
  PROVE  AllTermed'
  BY Zenon DEF AllTermed

\* What a step may do to the state of a process.
Signalled(p) ==
    proc'[p] \in {"termed", "killed"} /\ proc'[p] # proc[p] =>
        /\ config(p).type # "SAFE_MODE"
        /\ proc'[p] = "killed" => proc[p] = "termed"

\* Every step keeps AllTermed, and signals only processes it may signal.
LEMMA TermedStep ==
  ASSUME TypeOK, CountingInv, StageInv, AllTermed, [Next]_vars
  PROVE  AllTermed' /\ \A p \in Pid : Signalled(p)
<1> USE DEF stageVars, initVars
<1>0. CASE pc \in Terminal
  <2>1. pc' \in Terminal /\ UNCHANGED proc
    BY Zenon, <1>0, StaysEnded DEF vars
  <2>2. QED
    BY <2>1 DEF AllTermed, Signalled
<1> SUFFICES ASSUME pc \notin Terminal PROVE AllTermed' /\ \A p \in Pid : Signalled(p)
  BY <1>0
<1>1. CASE Boot \/ \E p \in Pid : setup_safe_mode(p) /\ UNCHANGED current_stage
  <2>1. PICK p \in Pid : setup_safe_mode(p)
    BY <1>1 DEF Boot
  <2>2. proc' = [proc EXCEPT ![p] = "waiting"]
    BY <2>1 DEF setup_safe_mode
  <2>3. \A q \in Pid : proc'[q] = "waiting" \/ proc'[q] = proc[q]
    BY Zenon, <2>2 DEF TypeOK
  <2>4. current_stage' \in {"STARTUP", current_stage}
    BY <1>1 DEF Boot
  <2>5. QED
    BY Zenon, <2>3, <2>4 DEF AllTermed, Signalled
<1>2. CASE SpawnOne
  <2>1. current_stage' # "TERMINATION"
    BY Zenon, <1>2 DEF SpawnOne, StageInv
  <2>2. PICK p \in Pid : proc' = [proc EXCEPT ![p] = "run"]
    BY Zenon, <1>2 DEF SpawnOne, FreePids
  <2>3. \A q \in Pid : proc'[q] = "run" \/ proc'[q] = proc[q]
    BY Zenon, <2>2 DEF TypeOK
  <2>4. QED
    BY Zenon, <2>1, <2>3 DEF AllTermed, Signalled
<1>3. ASSUME NEW c \in ShutdownSignal, handle_shutdown_cmd(c)
      PROVE  AllTermed' /\ \A p \in Pid : Signalled(p)
  <2>1. \A p \in Pid : proc'[p] = IF p \in Terminable /\ proc[p] = "run" THEN "termed" ELSE proc[p]
    BY Zenon, <1>3 DEF handle_shutdown_cmd, Terminated
  <2>2. \A p \in Pid : proc[p] = "run" => p \in running
    BY DEF CountingInv, RunningTracksChildren
  <2>3. QED
    BY ZenonT(60), <2>1, <2>2 DEF AllTermed, Signalled, Terminable
<1>4. ASSUME NEW t \in Timer, kill_timeout_cb(t)
      PROVE  AllTermed' /\ \A p \in Pid : Signalled(p)
  <2>1. \A p \in Pid : \/ proc'[p] = proc[p]
                       \/ /\ proc'[p] = "killed" /\ p \in Terminable
                          /\ proc[p] \in {"run", "termed"} /\ current_stage = "TERMINATION"
    BY Zenon, <1>4 DEF kill_timeout_cb, Killed
  <2>2. \A p \in Pid : Signalled(p)
    BY Zenon, <2>1 DEF AllTermed, Signalled, Terminable
  <2>3. AllTermed'
    BY ZenonT(60), <1>4, <2>1, TermedQuiet DEF kill_timeout_cb
  <2>4. QED
    BY <2>2, <2>3
<1>5. CASE ReapOne
  <2>1. PICK p \in Zombies : ReapOne!2!(p)
    BY Zenon, <1>5 DEF ReapOne, Zombies
  <2>2. proc' = proc \/ proc' = [proc EXCEPT ![p] = "none"]
    BY Zenon, <2>1
  <2>3. \A q \in Pid : proc'[q] = proc[q] \/ proc'[q] = "none"
    BY Zenon, <2>2 DEF TypeOK
  <2>4. QED
    BY ZenonT(60), <1>5, <2>3, TermedQuiet DEF ReapOne, Signalled
<1>6. ASSUME NEW p \in Pid, Exit(p) PROVE AllTermed' /\ \A q \in Pid : Signalled(q)
  <2>1. PICK status \in Status : proc' = [proc EXCEPT ![p] = status]
    BY Zenon, <1>6, EndsType DEF Exit, ChildExit, TypeOK
  <2>2. \A q \in Pid : proc'[q] = proc[q] \/ proc'[q] \in Status
    BY Zenon, <2>1 DEF TypeOK
  <2>3. QED
    BY ZenonT(60), <1>6, <2>2, TermedQuiet DEF Exit, Signalled, Status, Killer
<1>7. ASSUME NEW p \in Pid, PlaceholderExec(p) PROVE AllTermed' /\ \A q \in Pid : Signalled(q)
  <2>1. config(p).type = "SAFE_MODE" /\ \A q \in Pid : proc'[q] = proc[q] \/ (q = p /\ proc'[q] = "run")
    BY Zenon, <1>7 DEF PlaceholderExec, safe_mode_wait, TypeOK
  <2>2. QED
    BY ZenonT(60), <1>7, <2>1, TermedQuiet DEF PlaceholderExec, Signalled
<1>8. CASE UNCHANGED proc /\ (current_stage' = current_stage \/ current_stage' # "TERMINATION")
  BY <1>8 DEF AllTermed, Signalled
<1>9. CASE RestartPlaceholder
  BY Zenon, <1>1, <1>8, <1>9 DEF RestartPlaceholder
<1>10. CASE OrderDone \/ TerminationDone
  BY Zenon, <1>8, <1>10 DEF OrderDone, TerminationDone
<1>11. CASE BootFails \/ SpawnFails \/ StartDone \/ Wait \/ DispatchSigchld \/ ReapDone
            \/ StartSafeMode \/ ChildExitHandled \/ NoCallback \/ NothingToDo \/ CloseAgain \/ Leave
  BY Zenon, <1>8, <1>11 DEF BootFails, SpawnFails, StartDone, Wait, DispatchSigchld, ReapDone,
     StartSafeMode, ChildExitHandled, NoCallback, NothingToDo, CloseAgain, Leave
<1>12. ASSUME NEW t \in Timer,
              one_shot_timeout_cb(t) \/ watchdog_feed(t) \/ DispatchDangling(t) \/ Elapse(t)
       PROVE  AllTermed' /\ \A p \in Pid : Signalled(p)
  BY Zenon, <1>8, <1>12 DEF one_shot_timeout_cb, watchdog_feed, DispatchDangling, Elapse
<1>13. CASE AdoptedExit \/ (\E c \in ShutdownSignal : Request(c)) \/ Ended \/ UNCHANGED vars
  BY Zenon, <1>8, <1>13 DEF AdoptedExit, OrphanExit, Request, Ended, vars
<1>14. QED
  BY ZenonT(60), <1>1, <1>2, <1>3, <1>4, <1>5, <1>6, <1>7, <1>9, <1>10, <1>11, <1>12, <1>13
  DEF Next, InitStep, Environment

\* SIGKILL goes only to processes that were sent SIGTERM, and no signal to the safe-mode
\* process, whichever kill timer fires and whenever.
THEOREM SignalsCorrect == Spec => KillAfterTerm
<1>1. Init => AllTermed /\ StageInv
  <2> SUFFICES ASSUME Init PROVE AllTermed /\ StageInv
    OBVIOUS
  <2>1. pc = "setup" /\ current_stage = "SETUP" /\ remaining = <<>>
    BY Zenon DEF Init
  <2>2. QED
    BY Zenon, <2>1 DEF AllTermed, StageInv
<1>2. TypeOK /\ CountingInv /\ StageInv /\ AllTermed /\ [Next]_vars => AllTermed'
  BY TermedStep
<1>3. TypeOK /\ CountingInv /\ StageInv /\ AllTermed /\ [Next]_vars =>
        [\A p \in Pid : proc'[p] \in {"termed", "killed"} /\ proc'[p] # proc[p] =>
            /\ config(p).type # "SAFE_MODE"
            /\ proc'[p] = "killed" => proc[p] = "termed"]_vars
  BY Zenon, TermedStep DEF Signalled
<1>4. QED
  BY <1>1, <1>2, <1>3, StageStep, TypeCorrect, CountingCorrect, PTL DEF Spec, KillAfterTerm

-----------------------------------------------------------------------------
(* Waking up *)

\* Outside STAGE_RUN stage_maintenance is called after every event.
CallbackSet == post_cb \/ current_stage \in {"SETUP", "RUN"}

\* What start_processes leaves behind if it ended now: it is at the order of the next
\* entry as long as it started no awaited process, and has counted the ones it started
\* (without overflow: no more than run).  A shutdown list it can fork for leads to one.
Starting ==
    pc = "start" =>
        /\ ~sp.has_one_shot /\ sp.entry # <<>> => Head(sp.entry).order = sp.order
        /\ sp.has_one_shot => pending_finish > 0
        /\ pending_finish <= Cardinality(OneShots)
        /\ current_stage = "SHUTDOWN" /\ SafeModeAvailable /\ "fork" \notin Faults =>
             sp.has_one_shot \/ sp.entry # <<>>

\* Every step keeps CallbackSet.
LEMMA CallbackStep == TypeOK /\ CallbackSet /\ [Next]_vars => CallbackSet'
<1> SUFFICES ASSUME TypeOK, CallbackSet, [Next]_vars PROVE CallbackSet'
  OBVIOUS
<1>1. CASE UNCHANGED <<post_cb, current_stage>>
  BY Zenon, <1>1 DEF CallbackSet
<1>2. CASE post_cb' \/ current_stage' = "RUN"
  BY <1>2 DEF CallbackSet
<1>3. CASE Boot \/ (\E c \in ShutdownSignal : handle_shutdown_cmd(c))
  BY Zenon, <1>2, <1>3 DEF Boot, handle_shutdown_cmd
<1>4. CASE OrderDone \/ TerminationDone
  <2>1. post_cb
    BY Zenon, <1>4 DEF OrderDone, TerminationDone
  <2>2. post_cb' = post_cb \/ current_stage' = "RUN"
    BY Zenon, <1>4 DEF OrderDone, TerminationDone
  <2>3. QED
    BY Zenon, <1>2, <2>1, <2>2
<1> USE DEF loopVars, stageVars, initVars
<1>5. CASE BootFails \/ SpawnOne \/ SpawnFails \/ StartDone \/ Wait \/ DispatchSigchld
  BY Zenon, <1>1, <1>5 DEF BootFails, SpawnOne, SpawnFails, StartDone, Wait, epoll_wait, DispatchSigchld
<1>6. ASSUME NEW t \in Timer,
             one_shot_timeout_cb(t) \/ kill_timeout_cb(t) \/ watchdog_feed(t)
             \/ DispatchDangling(t) \/ Elapse(t)
      PROVE  CallbackSet'
  BY Zenon, <1>1, <1>6
  DEF one_shot_timeout_cb, kill_timeout_cb, watchdog_feed, DispatchDangling, Elapse, Expire
<1>7. CASE ReapOne \/ ReapDone \/ StartSafeMode \/ RestartPlaceholder \/ ChildExitHandled
  BY Zenon, <1>1, <1>7 DEF ReapOne, ReapDone, StartSafeMode, RestartPlaceholder, ChildExitHandled
<1>8. CASE NoCallback \/ NothingToDo \/ CloseAgain \/ Leave
  BY Zenon, <1>1, <1>8 DEF NoCallback, NothingToDo, CloseAgain, Leave
<1>9. CASE Environment \/ Ended \/ UNCHANGED vars
  <2>1. ASSUME NEW t \in Timer, Elapse(t) PROVE CallbackSet'
    BY <1>6, <2>1
  <2>2. QED
    BY Zenon, <1>1, <1>9, <2>1
    DEF Environment, Exit, PlaceholderExec, AdoptedExit, Request, Ended, vars
<1>10. QED
  BY Zenon, <1>3, <1>4, <1>5, <1>6, <1>7, <1>8, <1>9 DEF Next, InitStep

\* start_processes begins with nothing counted, at the order of its first entry.
LEMMA BeginStarting ==
  ASSUME TypeOK', NEW list, NEW caller, start_processes(list, caller),
         list # <<>> \/ current_stage' # "SHUTDOWN"
  PROVE  Starting'
<1>1. pending_finish' = 0
  BY Zenon DEF start_processes
<1>2. OneShots' \in SUBSET Pid
  BY Zenon DEF OneShots, TypeOK
<1>3. Cardinality(OneShots') \in Nat
  BY <1>2, CountBound
<1>4. /\ ~sp'.has_one_shot /\ sp'.entry = list
      /\ list # <<>> => sp'.order = Head(list).order
  BY Zenon DEF start_processes
<1>5. QED
  BY <1>1, <1>3, <1>4 DEF Starting

\* While the safe-mode process is there and no awaited process is, fork finds an
\* identifier for an entry of the shutdown list.
LEMMA ForkPossible ==
  ASSUME TypeOK, CountingInv, StageInv, ListInv, pc = "start", sp.entry # <<>>,
         current_stage = "SHUTDOWN", SafeModeAvailable, ~sp.has_one_shot
  PROVE  FreePids(Head(sp.entry)) # {}
<1> DEFINE entry == Head(sp.entry)
<1>1. pc \notin Terminal /\ Counted
  BY DEF Terminal, Counted
<1>2. OneShots = {}
  BY <1>1 DEF StageInv
<1>3. sp.entry \in Seq(Entry)
  BY DEF TypeOK, StartLocals
<1>4. entry \in Entry /\ entry = Rest[1] /\ 1 \in DOMAIN Rest
  BY <1>3 DEF Rest
<1>5. is_one_shot_entry(entry)
  <2>1. InStage("SHUTDOWN", entry)
    BY Zenon, <1>1, <1>4 DEF ListInv, RestInv
  <2>2. QED
    BY <2>1 DEF InStage, is_shutdown_entry, is_one_shot_entry
<1>6. PICK i \in Instance : TRUE
  <2>1. PICK s \in Pid : TRUE
    BY Zenon DEF SafeModeAvailable, SafeModeProcess, TypeOK
  <2>2. QED
    BY <2>1 DEF Pid
<1>7. <<entry, i>> \in Pid /\ config(<<entry, i>>) = entry
  BY <1>4, <1>6 DEF Pid, config
<1>8. <<entry, i>> \notin running
  BY <1>2, <1>5, <1>7 DEF OneShots
<1>9. proc[<<entry, i>>] = "none"
  BY ZenonT(60), <1>1, <1>7, <1>8 DEF CountingInv, RunningTracksChildren
<1>10. QED
  BY Zenon, <1>7, <1>9 DEF FreePids

\* An iteration of start_processes counts the awaited process it forks.
LEMMA SpawnStarting ==
  ASSUME TypeOK, CountingInv, StageInv, ListInv, Starting, SpawnOne \/ SpawnSkips PROVE Starting'
<1> DEFINE entry == Head(sp.entry)
           b == sp'.has_one_shot
<1>1. /\ pc = "start" /\ pc' = "start" /\ sp.entry # <<>> /\ pc \notin Terminal
      /\ UNCHANGED current_stage
  <2>1. pc = "start" /\ pc' = "start" /\ MoreToStart /\ UNCHANGED current_stage
    BY Zenon DEF SpawnOne, SpawnSkips, stageVars
  <2>2. QED
    BY Zenon, <2>1 DEF MoreToStart, Terminal
<1>2. sp'.entry # <<>> /\ ~b => Head(sp'.entry).order = sp'.order
  BY ZenonT(60) DEF SpawnOne, SpawnSkips, Advanced, TypeOK, StartLocals
<1>3. OneShots \in SUBSET Pid /\ pending_finish \in Nat
  BY DEF OneShots, TypeOK
<1>4. CASE SpawnSkips
  <2>1. UNCHANGED <<running, pending_finish>> /\ ("fork" \in Faults \/ FreePids(entry) = {})
    BY Zenon, <1>4 DEF SpawnSkips
  <2>2. b <=> sp.has_one_shot
    BY ZenonT(60), <1>4 DEF SpawnSkips, Advanced, TypeOK, StartLocals
  <2>3. OneShots' = OneShots /\ (SafeModeAvailable' => SafeModeAvailable)
    BY Zenon, <1>1, <2>1 DEF OneShots, SafeModeAvailable, SafeModeProcess
  <2>4. current_stage = "SHUTDOWN" /\ SafeModeAvailable /\ "fork" \notin Faults => sp.has_one_shot
    BY Zenon, <1>1, <2>1, ForkPossible
  <2>5. QED
    BY ZenonT(60), <1>1, <1>2, <2>1, <2>2, <2>3, <2>4 DEF Starting
<1>5. CASE SpawnOne
  <2>1. PICK p \in FreePids(entry) : running' = running \cup {p}
    BY Zenon, <1>5 DEF SpawnOne
  <2>2. p \in Pid /\ config(p) = entry /\ p \notin running
    BY Zenon, <1>1, <2>1 DEF FreePids, CountingInv, RunningTracksChildren
  <2>3. CASE ~is_one_shot_entry(entry)
    <3>1. OneShots' = OneShots /\ pending_finish' = pending_finish
      BY ZenonT(60), <1>5, <2>1, <2>2, <2>3 DEF OneShots, SpawnOne
    <3>2. b <=> sp.has_one_shot
      BY ZenonT(60), <1>5, <2>3 DEF SpawnOne, Advanced, TypeOK, StartLocals
    <3>3. current_stage # "SHUTDOWN"
      <4>1. entry = Rest[1] /\ 1 \in DOMAIN Rest
        BY <1>1 DEF Rest, TypeOK, StartLocals
      <4>2. current_stage = "SHUTDOWN" => InStage("SHUTDOWN", entry)
        BY ZenonT(60), <1>1, <4>1 DEF ListInv, RestInv
      <4>3. QED
        BY <2>3, <4>2 DEF InStage, is_shutdown_entry, is_one_shot_entry
    <3>4. QED
      BY ZenonT(60), <1>1, <1>2, <3>1, <3>2, <3>3 DEF Starting
  <2>4. CASE is_one_shot_entry(entry)
    <3>1. OneShots' = OneShots \cup {p} /\ p \notin OneShots
      BY <2>1, <2>2, <2>4 DEF OneShots
    <3>2. OneShots' \in SUBSET Pid
      BY <1>3, <2>2, <3>1
    <3>3. IsFiniteSet(OneShots) /\ Cardinality(OneShots) \in Nat /\ Cardinality(OneShots') < UINT32
      BY <1>3, <3>2, CountBound
    <3>4. Cardinality(OneShots') = Cardinality(OneShots) + 1
      BY Zenon, <3>1, <3>3, FS_AddElement
    <3>5. pending_finish + 1 < UINT32 /\ pending_finish + 1 <= Cardinality(OneShots')
      <4>1. UINT32 \in Nat /\ pending_finish <= Cardinality(OneShots)
        BY Zenon, <1>1, SupervisorAssumption DEF Starting, SupervisorAssumption
      <4>2. QED
        BY <1>3, <3>3, <3>4, <4>1
    <3>6. pending_finish' = pending_finish + 1
      <4>1. pending_finish' = (pending_finish + 1) % UINT32
        BY Zenon, <1>5, <2>4 DEF SpawnOne
      <4>2. QED
        BY <1>3, <3>5, <4>1, ModSmall, SupervisorAssumption DEF SupervisorAssumption
    <3>7. b
      BY ZenonT(60), <1>5, <2>4 DEF SpawnOne, Advanced, TypeOK, StartLocals
    <3>8. QED
      <4>1. pending_finish' > 0 /\ pending_finish' <= Cardinality(OneShots')
        BY <1>3, <3>5, <3>6
      <4>2. QED
        BY ZenonT(60), <1>2, <3>7, <4>1 DEF Starting
  <2>5. QED
    BY <2>3, <2>4
<1>6. QED
  BY <1>4, <1>5

\* Every step keeps Starting.
LEMMA StartingStep ==
  TypeOK /\ TypeOK' /\ CountingInv /\ StageInv /\ ListInv /\ Starting /\ [Next]_vars => Starting'
<1> SUFFICES ASSUME TypeOK, TypeOK', CountingInv, StageInv, ListInv, Starting, [Next]_vars,
                    pc' = "start"
             PROVE  Starting'
  BY Zenon DEF Starting
<1>0. pc' \notin Terminal /\ pc \notin Terminal
  BY StaysEnded DEF Terminal
<1>1. CASE Boot
  <2>1. start_processes(startup_list, "main") /\ current_stage' = "STARTUP"
    BY Zenon, <1>1 DEF Boot
  <2>2. QED
    BY <2>1, BeginStarting
<1>2. CASE SpawnOne \/ SpawnSkips
  BY <1>2, SpawnStarting
<1>3. CASE OrderDone
  <2>1. remaining # <<>> /\ start_processes(remaining, "maint")
    BY Zenon, <1>3, NextEventType DEF OrderDone, mainloop_exit
  <2>2. QED
    BY <2>1, BeginStarting
<1>4. CASE TerminationDone
  <2>1. shutdown_list # <<>> /\ start_processes(shutdown_list, "term")
    BY Zenon, <1>4, NextEventType DEF TerminationDone, mainloop_exit
  <2>2. QED
    BY <2>1, BeginStarting
<1>5. CASE Quiet
  <2>1. pc = "start" /\ UNCHANGED <<running, current_stage, sp, pending_finish>>
    BY <1>5 DEF Quiet, listed
  <2>2. OneShots' = OneShots /\ SafeModeAvailable' = SafeModeAvailable
    BY <2>1 DEF OneShots, SafeModeAvailable, SafeModeProcess
  <2>3. QED
    BY Zenon, <2>1, <2>2 DEF Starting
<1>6. CASE StartDone \/ (ReapOne /\ pc' = "reap") \/ Restarted
           \/ \E s \in ShutdownSignal : handle_shutdown_cmd(s)
  <2>1. pc' \in {"dispatch", "leave", "epoll", "reap", "reaped", "post"}
    BY Zenon, <1>6, NextEventType DEF StartDone, Restarted, handle_shutdown_cmd
  <2>2. QED
    BY <2>1
<1>7. QED
  BY <1>0, <1>1, <1>2, <1>3, <1>4, <1>5, <1>6, Effects

\* The steps after which init may block in epoll_wait.
LEMMA Blocks ==
  ASSUME [Next]_vars, pc' = "epoll"
  PROVE  \/ StartDone \/ NoCallback \/ NothingToDo \/ OrderDone \/ TerminationDone \/ CloseAgain
         \/ pc = "epoll" /\ UNCHANGED listed
<1> USE DEF stageVars, listVars, startVars, initVars, listed
<1>1. CASE BootFails \/ SpawnFails \/ Boot \/ SpawnOne \/ Wait \/ DispatchSigchld \/ ReapOne \/ ReapDone
           \/ StartSafeMode \/ RestartPlaceholder \/ ChildExitHandled \/ Leave
  <2>1. pc' # "epoll"
    BY ZenonT(60), <1>1 DEF BootFails, SpawnFails, Boot, start_processes, SpawnOne, Wait, DispatchSigchld,
       ReapOne, ReapDone, StartSafeMode, start_safe_mode, RestartPlaceholder, ChildExitHandled, Leave
  <2>2. QED
    BY <2>1
<1>2. CASE \/ \E c \in ShutdownSignal : handle_shutdown_cmd(c)
           \/ \E t \in Timer : one_shot_timeout_cb(t) \/ kill_timeout_cb(t) \/ watchdog_feed(t)
                               \/ DispatchDangling(t)
  BY ZenonT(60), <1>2 DEF handle_shutdown_cmd, one_shot_timeout_cb, kill_timeout_cb, watchdog_feed, DispatchDangling
<1>3. CASE Environment
  BY Zenon, <1>3 DEF Environment, Exit, PlaceholderExec, AdoptedExit, Request, Elapse
<1>4. CASE Ended \/ UNCHANGED vars
  BY Zenon, <1>4 DEF Ended, vars
<1>5. QED
  BY Zenon, <1>1, <1>2, <1>3, <1>4 DEF Next, InitStep

\* Whenever init is to block some child is left to wake it.
LEMMA WakeStep ==
  TypeOK /\ StageInv /\ CallbackSet /\ Starting /\ NoLostWakeup /\ [Next]_vars => NoLostWakeup'
<1> SUFFICES ASSUME TypeOK, StageInv, CallbackSet, Starting, NoLostWakeup, [Next]_vars, pc' = "epoll"
             PROVE  NoLostWakeup'
  BY Zenon DEF NoLostWakeup
<1> USE DEF stageVars, listVars
<1>1. CASE StartDone
  <2>1. /\ pc = "start" /\ (~MoreToStart \/ "calloc" \in Faults) /\ remaining' = sp.entry
        /\ UNCHANGED <<running, current_stage, pending_finish>>
    BY Zenon, <1>1 DEF StartDone
  <2>2. current_stage # "TERMINATION"
    BY Zenon, <2>1 DEF StageInv, Terminal
  <2>3. SafeModeAvailable' => SafeModeAvailable
    BY Zenon, <2>1 DEF SafeModeAvailable, SafeModeProcess
  <2>4. "calloc" \notin Faults => sp.has_one_shot \/ sp.entry = <<>>
    BY Zenon, <2>1 DEF Starting, MoreToStart
  <2>5. QED
    BY ZenonT(60), <2>1, <2>2, <2>3, <2>4 DEF Starting, NoLostWakeup
<1>2. CASE NothingToDo
  <2>1. /\ UNCHANGED <<running, current_stage, pending_finish>>
        /\ \/ current_stage \in {"STARTUP", "SHUTDOWN"} /\ pending_finish # 0
           \/ current_stage = "TERMINATION" /\ OthersRunning
    BY Zenon, <1>2 DEF NothingToDo
  <2>2. pending_finish \in Nat
    BY DEF TypeOK
  <2>3. QED
    BY <2>1, <2>2 DEF NoLostWakeup, OthersRunning
<1>3. CASE NoCallback
  <2>1. pc = "post" /\ current_stage' \in {"SETUP", "RUN"}
    BY Zenon, <1>3 DEF NoCallback, CallbackSet
  <2>2. QED
    BY <2>1 DEF NoLostWakeup
<1>4. CASE OrderDone \/ TerminationDone \/ CloseAgain
  <2>1. current_stage' \in {"RUN", "CLOSE"}
    BY Zenon, <1>4, NextEventType DEF OrderDone, TerminationDone, CloseAgain, start_processes
  <2>2. QED
    BY Zenon, <2>1 DEF NoLostWakeup
<1>5. CASE pc = "epoll" /\ UNCHANGED listed
  <2>1. UNCHANGED <<running, current_stage, remaining, pending_finish>>
    BY <1>5 DEF listed
  <2>2. SafeModeAvailable' = SafeModeAvailable
    BY <1>5, <2>1 DEF SafeModeAvailable, SafeModeProcess
  <2>3. QED
    BY Zenon, <1>5, <2>1, <2>2 DEF NoLostWakeup
<1>6. QED
  BY <1>1, <1>2, <1>3, <1>4, <1>5, Blocks

\* Whenever init blocks in epoll_wait before the end of a stage there is a child whose end
\* will wake it, for every inittab: stage_maintenance and start_processes miss nothing that
\* a finished order or stage should trigger.  NoLostWakeup names the exceptions: calloc
\* fails, or the last order of shutdown has no process (main.c:613-692, 697-757).
THEOREM WakeupCorrect == Spec => []NoLostWakeup
<1>1. Init => CallbackSet /\ Starting /\ NoLostWakeup
  <2> SUFFICES ASSUME Init PROVE CallbackSet /\ Starting /\ NoLostWakeup
    OBVIOUS
  <2>1. pc = "setup" /\ current_stage = "SETUP"
    BY Zenon DEF Init
  <2>2. QED
    BY Zenon, <2>1 DEF CallbackSet, Starting, NoLostWakeup
<1>2. QED
  BY <1>1, CallbackStep, StartingStep, WakeStep, ListInit, ListStep, StageStep, TypeCorrect,
     CountingCorrect, PTL DEF Spec

=============================================================================
