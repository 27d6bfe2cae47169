SPECIFICATION Spec
CONSTANTS
  Kind = {"model_scoped"}
  Session = {s1}
  s1 = s1
  Levels = {0, 2}
  Period = 3
  Jitter = {0}
  Minute = 1
  Tolerance = 1
  Delay = 1
  GiveUp = 1
  Credits = FALSE
  ModelBack = FALSE
  MaxTime = 6
  MaxOps = 1
INVARIANT HoldBounded
PROPERTY OverrideKept
