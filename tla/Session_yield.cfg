SPECIFICATION Spec
CONSTANTS
  Session = {s1, s2}
  Conn = {c1}
  NoConn = NoConn
  NoSession = NoSession
  MaxDepth = 2
  MaxCalls = 2
  MaxWrites = 2
  Env = {"listener", "yield", "beginFails"}
INVARIANT NothingLeftOpen
PROPERTY TransactionsImplemented
SYMMETRY Symmetric
