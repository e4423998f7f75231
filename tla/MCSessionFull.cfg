CONSTANTS
  Procs = {r, c1, c2}
  Reader = r
  Senders = {}
  Closers = {c1, c2}
  Conns = {k1, k2}
  NoProc = NoProc
  NoConn = NoConn
  Attempts = 0
  Timeouts = {"dial", "write"}
  Cap = 2
  MaxMsgs = 3
  MaxSends = 0
SPECIFICATION SessionFairSpec
INVARIANT DisabledMeansOneConnection
PROPERTIES CloseTerminates StreamEnds
