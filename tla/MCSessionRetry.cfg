CONSTANTS
  Procs = {r, s1, s2}
  Reader = r
  Senders = {s1, s2}
  Closers = {}
  Conns = {k1, k2, k3}
  NoProc = NoProc
  NoConn = NoConn
  Attempts = 1
  Timeouts = {"dial", "write"}
  Cap = 1
  MaxMsgs = 0
  MaxSends = 1
SPECIFICATION SessionSpec
SYMMETRY Symmetry
INVARIANTS RetryOnAnotherConnection NoSpuriousReconnect
