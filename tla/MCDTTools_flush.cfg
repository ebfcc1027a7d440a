CONSTANTS
  Node <- MCNode
  Name = {"name", "args"}
  Val = {"", "chosen", "map", "raw"}
  NoBytes = ""
  Stored <- MCStored
  Tools = {"dt-parse", "dt-patch", "dt-apply"}
  Root = "root"
  Kids <- MCKids
  Trees <- MCTrees
  Str = {"chosen", "map"}
  Text <- MCText
  Path <- MCPath
  NULL = NULL
  MaxLines = 3
  FlushFails = TRUE
SPECIFICATION Spec
INVARIANT WriteReported
CHECK_DEADLOCK FALSE
