CONSTANTS
  Texts <- AllTexts
  ARGS_MAX = 3
  ENV_MAX = 2
  CallFaults = {"strdup", "asprintf", "execvpe"}
SPECIFICATION Spec
INVARIANTS
  BufferBounded
  ExecMeansLine
PROPERTIES
  TokensStable
  EachCharacterOnce
