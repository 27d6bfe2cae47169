SPECIFICATION Spec
CONSTANTS
  Kind = {"model_scoped"}
  Session = {s1}
  s1 = s1
  Levels = {0, 2}
  Period = 3
  Jitter = {0}
  Minute = 1
  Tolerance = 1
  Delay = 0
  GiveUp = 1
  Credits = FALSE
  ModelBack = TRUE
  MaxTime = 5
  MaxOps = 2
PROPERTY OverrideKept
