SPECIFICATION DaemonSpec
CONSTANTS
  Daemon = {a, b}
  a = a
  b = b
  Agent = a
  DeletesAnytime = FALSE
  MaxRemovals = 1
  MaxCrashes = 1
  MaxOps = 3
  Profile = {prof}
  prof = prof
  Request = {r1, r2}
  r1 = r1
  r2 = r2
  MaxChanges = 2
  MaxErrors = 2
  Ccs = {c1, c2}
  c1 = c1
  c2 = c2
  NoCcs = NoCcs
  Link = {l1, l2}
  l1 = l1
  l2 = l2
  NoLink = NoLink
  MaxLinkFaults = 2
  MaxMenus = 1
  NoSnapshot = NoSnapshot
  MaxSnapshots = 2
  MaxJoins = 1
INVARIANTS OneDaemon FreshAnswer OneConnection
PROPERTIES StaysUp EveryAnswered DataFollowsDir EndsAlone CatchesUp
CHECK_DEADLOCK FALSE
