CONSTANTS
  NULL = NULL
  Callers = {c1}
  Tunnels = {t1}
  Configs = {g1}
  MaxHandles = 2
SPECIFICATION Spec
INVARIANTS RunningTunnelsListed
