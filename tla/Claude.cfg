SPECIFICATION ClaudeSpec
CONSTANTS
  MaxTime = 7
  Triggers <- TriggerSets
  DayLength = 5
  ActiveHours <- Hours
  WindowLength = 4
  Cooldown = 2
  Lookback = 1
  GiveUp = 3
  MaxSteps = 2
  MaxOps = 1
  MaxReports = 1
  Output <- Sequences
  OUT_HIGH = 2
  OUT_LOW = 1
  MaxOutput = 3
  MaxStops = 1
  MaxStalls = 1
  Wrapper = {w1, w2}
  w1 = w1
  w2 = w2
  Conn = {x1, x2, x3}
  x1 = x1
  x2 = x2
  x3 = x3
  NoOne = NoOne
  MaxFaults = 2
  Pid = {p1, p2}
  p1 = p1
  p2 = p2
  ListTimeout = 2
  RecentExit = 2
  MaxCancels = 1
  MaxTicks = 3
  MaxKeys = 3
  QUEUE_MAX = 2
  SocketRoom = 1
  MaxDocs = 2
  MaxEvents = 2
  MaxAsks = 3
INVARIANTS LauncherReachable ScheduleKept OwnersTerminal AsTyped OwnProcesses KeepsUp
PROPERTIES CooldownKept ChainOnce
CHECK_DEADLOCK FALSE
