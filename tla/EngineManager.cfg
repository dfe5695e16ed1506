CONSTANTS
  Engines = {e1, e2, e3}
  Names = {n1, n2}
  Conns = {c1, c2}
  Admins = {a1, a2}
  MaxEngines = 2
  CleanupOnClose = TRUE
  AllocMayFail = TRUE
  NULL = NULL
SPECIFICATION FairSpec
INVARIANTS InUseIsLive IInv
PROPERTIES SignalReachesLive InactiveIsCollected DisableReturns
CHECK_DEADLOCK FALSE
