CONSTANTS
  Wait = 3
  MaxInterrupts = 1
SPECIFICATION Spec
PROPERTY UpMeansServing
CHECK_DEADLOCK FALSE
