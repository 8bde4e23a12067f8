SPECIFICATION Spec
CONSTANTS
  Thread = {t1, t2, t3, t4}
  Conn = {c1, c2, c3, c4}
  Waiter = {w1, w2, w3, w4}
  Configs <- WalConfig
  Requests <- PriorityRequests
  WalPoolSize = 2
  HasCodec = FALSE
  Env = {}
  NoConn = NoConn
  NoWaiter = NoWaiter
  NoThread = NoThread
  NoConfig = NoConfig
INVARIANT TypeOK
INVARIANT PoolBound
INVARIANT NoMissedWakeup
PROPERTY NoBarging
PROPERTY QueueOrder
SYMMETRY Symmetric
