SPECIFICATION Spec
CONSTANTS
  Conn = {a}
  Data = {x, y}
  NoFile = NoFile
  Junk = Junk
  NoView = NoView
  InitSizes = {1}
  FullSync = FALSE
  Env = {"grow", "spill", "power", "ioerr", "savepoint"}
  MaxPage = 2
  MaxVer = 2
  MaxSlot = 4
  MaxSavepoint = 1
  MaxSub = 2
INVARIANT TypeOK
INVARIANT PagerState
PROPERTY Atomic
PROPERTY SavepointRestored
CHECK_DEADLOCK FALSE
