SPECIFICATION Spec
CONSTANTS
  Conn = {w, r}
  Writers = {w}
  Checkpointers = {w}
  Mortal = {{r}}
  NReader = 3
  FullSync = {TRUE}
  Env = {"spill", "block"}
  MaxPage = 2
  MaxVer = 3
  MaxFrame = 3
  MaxSalt = 3
INVARIANT TypeOK
INVARIANT Snapshot
INVARIANT CacheCurrent
INVARIANT BackfillBound
CHECK_DEADLOCK FALSE
