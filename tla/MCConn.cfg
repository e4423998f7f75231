CONSTANTS
  Procs = {p1, p2}
  Conns = {k1, k2, k3}
  NoProc = NoProc
  NoConn = NoConn
  Attempts = 2
  Timeouts = {"dial"}
SPECIFICATION ConnFairSpec
INVARIANTS TypeOK NoLeak OneOwner PrivateUntilInstalled CurrentUsable
PROPERTIES ClosedFinal StaleCallsReturn CloseReleases EventuallyNoneOpen
