CONSTANTS
  Files <- AnyFiles
  IoFaults = {}
SPECIFICATION FairSpec
PROPERTIES
  ReadingAlwaysEnds
