SPECIFICATION Spec
CONSTANTS
  Thread = {t1, t2}
  Conn = {c1, c2, c3, c4}
  Waiter = {w1, w2}
  Configs <- ManyConfigs
  Requests <- PlainRequests
  WalPoolSize = 2
  HasCodec = FALSE
  Env = {"reconfigure", "openFails", "reconfigureFails", "close"}
  NoConn = NoConn
  NoWaiter = NoWaiter
  NoThread = NoThread
  NoConfig = NoConfig
INVARIANT ExclusiveOwnership
INVARIANT ReleasePrimaryFindsSlot
INVARIANT ConfigurationPropagated
SYMMETRY Symmetric
CHECK_DEADLOCK FALSE
