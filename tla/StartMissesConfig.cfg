SPECIFICATION ConfigSpec
CONSTANTS
  Cli = {c1}
  Profile = {p1}
  Field = {f1}
  NoProfile = NoProfile
  NoDoc = NoDoc
  WritesAtStart = TRUE
  MaxEdits = 1
  MaxBreaks = 0
  MaxKills = 0
INVARIANT DaemonFollows
CHECK_DEADLOCK FALSE
