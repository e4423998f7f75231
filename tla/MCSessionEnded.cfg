CONSTANTS
  Procs = {r, s1, c1}
  Reader = r
  Senders = {s1}
  Closers = {c1}
  Conns = {k1, k2}
  NoProc = NoProc
  NoConn = NoConn
  Attempts = 1
  Timeouts = {"dial", "write"}
  Cap = 1
  MaxMsgs = 1
  MaxSends = 1
SPECIFICATION SessionFairSpec
PROPERTY EndedSessionRefusesOperations
