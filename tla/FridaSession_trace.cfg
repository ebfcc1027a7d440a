CONSTANTS
  Session = {s1, s2}
  MaxEvents = 3
  MaxBoot = 2
  Window = 2
SPECIFICATION Spec
INVARIANTS TypeOK LossBounded ShownOfThisBoot EndsResumed
PROPERTIES LoadedGetsResumed
CHECK_DEADLOCK FALSE
