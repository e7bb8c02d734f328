CONSTANTS
  NULL = NULL
  g1 = g1
  g2 = g2
  g3 = g3
  g4 = g4
  x1 = x1
  x2 = x2
  Callers = {c1, c2}
  Tunnels = {t1, t2}
  Configs <- MCConfigs
  Texts <- MCTexts
  TextOf <- MCTextOf
  MaxHandles = 2
SPECIFICATION WSerialSpec
INVARIANTS RunningTunnelsListed TunnelOwned ConnectedIsUp
PROPERTIES CallOutcomes ImplementsBackend
