CONSTANTS
  Lines <- MCLines
  Limit = 64
  NodeCap = 12
  MaxBytes = 16
  ByteSize = 128
  LongSize = 1073741824
SPECIFICATION Spec
INVARIANT CommentsNeverApplied
CHECK_DEADLOCK FALSE
