CONSTANTS
  mount_table <- System
  Fstabs <- AllFstabs
  Paths <- MountPoints
  Above <- Dirs
  Premounted <- Early
  MaxOther = 1
  CallFaults = {"mkdir", "mount", "malloc", "sprintf", "open"}
SPECIFICATION FairSpec
INVARIANTS
  MountedAsAsked
  BlocksAccounted
  NothingLeftMounted
PROPERTIES
  UmountingEnds
  PassesShrink
