CONSTANTS
  MaxFd = 9
  MaxTimers = 2
  Consoles = {TRUE}
  DriverTimeouts <- SomeTimeouts
  UINT32 = 65536
SPECIFICATION Spec
INVARIANTS
  NumbersValid
  ChildStreams
  PlaceholderPipe
  WatchdogFed
  DisarmsWatchdog
