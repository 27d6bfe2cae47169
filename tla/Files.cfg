SPECIFICATION FilesSpec
CONSTANTS
  Key = {k1, k2}
  k1 = k1
  k2 = k2
  NoKey = NoKey
  ROTATE_KEEP = 2
  ROTATE_SIZE = 2
  SEEN_MAX = 1
  SEEN_HORIZON = 0
  MaxTime = 1
  MaxEvents = 7
  MaxFailures = 1
  MaxCrashes = 1
  Proc = {c1, c2}
  c1 = c1
  c2 = c2
  Dir = {d1, d2}
  d1 = d1
  d2 = d2
  UserLine = {u1}
  u1 = u1
  NoLine = NoLine
  NoFile = NoFile
  NoBook = NoBook
  SETTINGS_ATTEMPTS = 2
  MaxOps = 3
  MaxWrites = 2
  MaxFaults = 1
  Cli = {ccs1, ccs2}
  ccs1 = ccs1
  ccs2 = ccs2
  Profile = {p1, p2}
  p1 = p1
  p2 = p2
  Field = {f1}
  f1 = f1
  NoProfile = NoProfile
  NoDoc = NoDoc
  WritesAtStart = FALSE
  MaxEdits = 2
  MaxBreaks = 1
  MaxKills = 1
  Name = {n1, n2}
  n1 = n1
  n2 = n2
  Account = {a1, a2}
  a1 = a1
  a2 = a2
  NoReport = NoReport
  Statusline = {s1}
  s1 = s1
  MaxReports = 2
SYMMETRY FilesSymmetry
INVARIANTS LogKept Deduped SettingsKept ChangesKept DaemonFollows Followed
PROPERTIES RevertRestores
CHECK_DEADLOCK FALSE
