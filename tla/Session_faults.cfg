SPECIFICATION Spec
CONSTANTS
  Session = {s1, s2}
  Conn = {c1}
  NoConn = NoConn
  NoSession = NoSession
  MaxDepth = 2
  MaxCalls = 2
  MaxWrites = 1
  Env = {"listener", "listenerTransactions", "yield", "beginFails", "commitFails", "rollbackFails", "conflictRollback", "poolCloses"}
INVARIANT TypeOK
INVARIANT UseCountExact
SYMMETRY Symmetric
