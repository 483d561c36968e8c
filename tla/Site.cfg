SPECIFICATION SiteSpec
CONSTANTS
  a1 = a1  a2 = a2  v = v  ann = ann
  j1 = j1  j2 = j2  s1 = s1  s2 = s2  p1 = p1  p2 = p2
  Guest = Guest
  Tabs = {a1, a2, v}
  TabUser <- LoggedIn
  PoolSize = 1
  MaxRequests = 4
  MaxLikes = 1
  Jobs = {j1, j2}
  Names = {n1, n2}
  MaxCalls = 3
  Missing = Missing
  NoEntry = NoEntry
  Servers = {s1, s2}
  Polls = {p1, p2}
  Days = {6, 7, 8, 14}
  MaxBallots = 2
SYMMETRY SiteSymmetry
INVARIANTS SiteTypeOK PostHasPoll ViewsKept LockedOutOnlyIfReplaced RankedOnlyWhenCounted CountedInOneWeek
PROPERTIES UndoneOnlyByStaleEdit HallsUntouched RenameShows
CHECK_DEADLOCK FALSE
