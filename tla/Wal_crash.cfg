SPECIFICATION Spec
CONSTANTS
  Conn = {w}
  Writers = {w}
  Checkpointers = {w}
  Mortal = {}
  NReader = 2
  FullSync = {TRUE, FALSE}
  Env = {"power", "spill", "savepoint", "close"}
  MaxPage = 2
  MaxVer = 3
  MaxFrame = 3
  MaxSalt = 3
INVARIANT Recoverable
INVARIANT Snapshot
CHECK_DEADLOCK FALSE
