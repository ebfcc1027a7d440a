CONSTANTS
  Wait = 3
  MaxInterrupts = 1
SPECIFICATION Spec
INVARIANTS TypeOK LaunchedPatched NothingLeftBehind
PROPERTIES PollingEnds InterruptEndsQemu
CHECK_DEADLOCK FALSE
