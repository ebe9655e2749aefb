---------------------------- MODULE MCSupervisor ----------------------------
(***************************************************************************)
(* Small inittabs for TLC.                                                 *)
(***************************************************************************)
EXTENDS Supervisor

E(n, ord, ty) == [line |-> n, order |-> ord, type |-> ty]

SafeOneShot0  == E(1, 0, "SAFE_ONE_SHOT")
OneShot0      == E(2, 0, "ONE_SHOT")
SafeService1  == E(3, 1, "SAFE_SERVICE")
SafeService1b == E(4, 1, "SAFE_SERVICE")
OneShot2      == E(5, 2, "ONE_SHOT")
Shutdown0     == E(6, 0, "SHUTDOWN")
SafeShutdown1 == E(7, 1, "SAFE_SHUTDOWN")
Placeholder   == E(8, -1, "SAFE_MODE")

\* Three orders of start-up and one of shutdown.
Startup_Orders == <<SafeOneShot0, SafeService1, OneShot2>>
Shutdown_Small == <<Shutdown0>>
Entry_Orders == {SafeOneShot0, SafeService1, OneShot2, Shutdown0, Placeholder}

\* An awaited process and a safe service, with up to two orders of shutdown.
Startup_Small == <<OneShot0, SafeService1>>
Shutdown_None == <<>>
Entry_Small == {OneShot0, SafeService1, Shutdown0, Placeholder}
Shutdown_Orders == <<Shutdown0, SafeShutdown1>>
Entry_Shutdown == Entry_Small \cup {SafeShutdown1}

\* Only safe services, two of one order.
Startup_Services == <<SafeService1, SafeService1b>>
Entry_Services == {SafeService1, SafeService1b, Placeholder}
=============================================================================
