SPECIFICATION WgSpec
CHECK_DEADLOCK FALSE
CONSTANTS
  NULL = NULL
  NONE = NONE
  OFF = OFF
  NoPeer = NoPeer
  p1 = p1
  p2 = p2
  p3 = p3
  Kernel = {k1, k2}
  Daemons = {d1}
  NoName = NULL
  MaxEvents = 4
  KeyLen = 4
  TextLen = 3
  Inputs <- ShortInputs
  Environments <- RetrySettings
  IntMax = 127
  AttemptCap = 20
  Lengths = {0, 1, 2, 3, 4}
  SizeMod = 24
  MaxNames = 5
  Files <- SetFiles
  Additions <- SetAdditions
  Kernels <- SetKernels
  Writes <- SetWrites
  MaxWrites = 1
INVARIANTS ShowsTheDevice BuildsWhatTheTextMeans NothingLeaks RoundTrip LeavesWhatTheFileSays OnlyKeysArePrinted ListIsHonest RetriesAsOften InBounds
PROPERTIES PeersAreKept CommandsEnd
