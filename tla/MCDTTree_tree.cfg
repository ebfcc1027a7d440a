CONSTANTS
  root = root
  chosen = chosen
  p1 = p1
  p2 = p2
  p3 = p3
  b1 = b1
  b2 = b2
  b3 = b3
  r1 = r1
  r2 = r2
  NULL = NULL
  JUNK = JUNK
  NoBytes = ""
  Node <- MCNode
  Prop <- MCProp
  Block = {b1, b2, b3}
  Buf <- MCBuf
  Name = {"name", "args", "long"}
  Val = {"", "ab"}
  Length <- MCLength
  Stored <- MCStored
  Parsed <- MCParsed
SPECIFICATION Spec
INVARIANTS TypeOK MemorySafe NoFault NoLeak CountsMatch LengthsMatch
PROPERTY RefinesPropStore
SYMMETRY Symmetry
CHECK_DEADLOCK FALSE
