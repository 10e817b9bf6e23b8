SPECIFICATION Spec
CONSTANTS
  Node = {"a"}
  MaxSize = 6
  MaxClock = 1
  MaxStarts = 2
  MaxErrors = 1
  HarmfulCuts = TRUE
INVARIANTS
  TypeOK
  FileTellsTheMemory
  RecallIsRecent
CHECK_DEADLOCK FALSE
