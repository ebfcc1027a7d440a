CONSTANTS
  Node <- MCNode
  Name = {"name", "model", "debug-enabled", "ranges", "long"}
  Val <- MCVal
  EditName = {"name", "long"}
  EditVal = {"", "chosen"}
  NoBytes = ""
  Stored <- MCStored
  Length <- MCLength
  Given <- Foreign
  MaxProps = 3
  MaxChildren = 2
  Short = {0, 1, 8}
  MaxEdits = 2
SPECIFICATION Spec
INVARIANTS TypeOK RoundTrip WrittenIdentical OnlyNoiseLost TornDetected NeedExact
