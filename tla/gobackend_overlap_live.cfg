CONSTANTS
  NULL = NULL
  Callers = {c1, c2}
  Tunnels = {t1}
  Configs = {g1}
  MaxHandles = 1
SPECIFICATION FairSpec
PROPERTIES CallsReturn
