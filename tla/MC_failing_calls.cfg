CONSTANTS
  Entry <- Entry_Shutdown
  startup_list <- Startup_Small
  shutdown_list <- Shutdown_Orders
  safe_mode_entry <- Placeholder
  Instance = {1, 2}
  Faults = {"setup", "fork", "calloc", "timer", "pipe", "waitpid", "reboot", "placeholder"}
  TimerIdx = {1, 2, 3}
  MAX_EVENTS = 2
  UINT32 = 256
  Watchdog = FALSE
  MaxRequests = 2
SPECIFICATION Spec
INVARIANTS
  TypeOK
  TimeoutPointersValid
  RunningTracksChildren
  PendingExact
  OrderRespected
  EveryEntryOnce
PROPERTIES
  KillAfterTerm
  ImplementsLifecycle
