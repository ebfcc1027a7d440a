CONSTANTS
  Lines <- Examples
  Limit = 100
  NodeCap = 12
  MaxBytes = 16
  ByteSize = 128
  LongSize = 1073741824
SPECIFICATION Spec
INVARIANT ExamplesWork
CHECK_DEADLOCK FALSE
