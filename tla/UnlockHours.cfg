SPECIFICATION WarmSpec
CONSTANTS
  MaxTime = 7
  Triggers <- TriggerSets
  DayLength = 5
  ActiveHours <- Hours
  WindowLength = 4
  Cooldown = 2
  Lookback = 1
  GiveUp = 3
  MaxSteps = 2
  MaxOps = 1
  MaxReports = 1
INVARIANT ScheduleIgnoresHours
CHECK_DEADLOCK FALSE
