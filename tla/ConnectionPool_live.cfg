SPECIFICATION FairSpec
CONSTANTS
  Thread = {t1, t2}
  Conn = {c1, c2, c3}
  Waiter = {w1, w2}
  Configs <- NonWalConfig
  Requests <- PlainRequests
  WalPoolSize = 2
  HasCodec = FALSE
  Env = {"timeout", "leak", "interrupt"}
  NoConn = NoConn
  NoWaiter = NoWaiter
  NoThread = NoThread
  NoConfig = NoConfig
PROPERTY PoolInterfaceImplemented
PROPERTY WaitEnds
CHECK_DEADLOCK FALSE
