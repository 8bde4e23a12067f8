SPECIFICATION Spec
CONSTANTS
  Thread = {t1, t2, t3}
  Conn = {c1, c2}
  Waiter = {w1, w2, w3}
  Configs <- NonWalConfig
  Requests <- CancelRequests
  WalPoolSize = 2
  HasCodec = FALSE
  Env = {"cancel", "close"}
  NoConn = NoConn
  NoWaiter = NoWaiter
  NoThread = NoThread
  NoConfig = NoConfig
INVARIANT CancelHitsItsWaiter
INVARIANT NoLostUnpark
INVARIANT NoLostWaiter
SYMMETRY Symmetric
CHECK_DEADLOCK FALSE
