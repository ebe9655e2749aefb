CONSTANTS
  Entry <- Entry_Small
  startup_list <- Startup_Small
  shutdown_list <- Shutdown_Small
  safe_mode_entry <- Placeholder
  Instance = {1}
  Faults = {"crash", "placeholder", "fork"}
  TimerIdx = {1, 2}
  MAX_EVENTS = 8
  UINT32 = 256
  Watchdog = TRUE
  MaxRequests = 1
SPECIFICATION FairSpec
PROPERTIES
  CrashLeadsToSafeMode
  ShutdownCompletes
  StartupCompletes
