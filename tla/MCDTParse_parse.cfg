CONSTANTS
  Node = {n1, n2, n3}
  Prop = {q1, q2}
  Size <- MCSize
  Count = {0, 1, 2, 3}
  DataLength = {0, 1, 4, 100}
  MaxProps = 2
  MaxChildren = 2
  NULL = NULL
  JUNK = JUNK
SPECIFICATION Spec
INVARIANTS TypeOK DataInBuffer LinkedOnce NothingLost CountsHonoured Consumed
CHECK_DEADLOCK FALSE
