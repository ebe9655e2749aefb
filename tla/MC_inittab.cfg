CONSTANTS
  Files <- AllFiles
  IoFaults = {"fopen", "calloc", "read"}
SPECIFICATION FairSpec
INVARIANTS
  TypeOK
  ListsSorted
  FitForSupervisor
  NothingLost
  AcceptsWellFormed
PROPERTIES
  ReadingEnds
  ReadingAdvances
