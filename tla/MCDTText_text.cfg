CONSTANTS
  Lines <- MCLines
  Limit = 64
  NodeCap = 12
  MaxBytes = 16
  ByteSize = 128
  LongSize = 1073741824
SPECIFICATION Spec
INVARIANTS TypeOK Understood CommentsIgnored ShownReadsBack
CHECK_DEADLOCK FALSE
