CONSTANTS
  Entry <- Entry_Orders
  startup_list <- Startup_Orders
  shutdown_list <- Shutdown_Small
  safe_mode_entry <- Placeholder
  Instance = {1}
  Faults = {"crash", "placeholder"}
  TimerIdx = {1, 2}
  MAX_EVENTS = 8
  UINT32 = 256
  Watchdog = FALSE
  MaxRequests = 1
SPECIFICATION Spec
INVARIANTS
  OrderRespected
  CountingInv
  EveryEntryOnce
  NoLostWakeup
  PlaceholderKept
