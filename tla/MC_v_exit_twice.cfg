CONSTANTS
  Entry <- Entry_Services
  startup_list <- Startup_Services
  shutdown_list <- Shutdown_None
  safe_mode_entry <- Placeholder
  Instance = {1}
  Faults = {}
  TimerIdx = {1, 2}
  MAX_EVENTS = 8
  UINT32 = 256
  Watchdog = TRUE
  MaxRequests = 1
SPECIFICATION Spec
INVARIANTS
  ExitCalledOnce
