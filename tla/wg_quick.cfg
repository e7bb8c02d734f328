SPECIFICATION QuickSpec
CHECK_DEADLOCK FALSE
SYMMETRY QuickSymmetry
CONSTANTS
  NULL = NULL
  wg1 = wg1
  wg10 = wg10
  lon = lon
  nyc = nyc
  n1 = n1
  n2 = n2
  app1 = app1
  app2 = app2
  app3 = app3
  Files <- QuickFiles
  Packages <- PackageLists
  Hosts <- QuickHosts
  Top = 9
  Batch = 2
  Requests <- QuickRequests
  NetId = "n"
  Procs = {1, 2, 3}
  Ifaces <- Pair
  NetIds <- Networks
  Matched <- MatchesItself
  Commented <- CommentsItself
  OnePerName = TRUE
  MaxRunning = 2
  MaxFail = 1
  MaxKill = 0
INVARIANTS UpIsWholeOrUndone DownClears DoesWhatTheFileSays DnsSetOnce
PROPERTIES Isolation
