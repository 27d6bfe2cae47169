SPECIFICATION Spec
CONSTANTS
  Kind = {"session"}
  Session = {}
  Levels = {0, 2}
  Period = 5
  Jitter <- OneEarly
  Minute = 2
  Tolerance = 2
  Delay = 0
  GiveUp = 1
  Credits = TRUE
  ModelBack = FALSE
  MaxTime = 5
  MaxOps = 2
INVARIANT FullIsHeld
PROPERTIES ActsOnce NoEarlyRelease
