CONSTANTS
  Node <- MCNode
  Name = {"name", "args", "long"}
  Val = {"", "chosen", "map", "raw"}
  NoBytes = ""
  Stored <- MCStored
  Tools = {"dt-parse", "dt-patch", "dt-apply"}
  Root = "root"
  Kids <- MCKids
  Trees <- MCUnnamed
  Str = {"chosen", "map"}
  Text <- MCText
  Path <- MCPath
  NULL = NULL
  MaxLines = 3
  FlushFails = FALSE
SPECIFICATION Spec
INVARIANT NoDuplicates
CHECK_DEADLOCK FALSE
