SPECIFICATION Spec
CONSTANTS
  Conn = {a, b}
  Data = {x, y}
  NoFile = NoFile
  Junk = Junk
  NoView = NoView
  InitSizes = {0}
  FullSync = TRUE
  Env = {"spill", "kill", "grow"}
  MaxPage = 2
  MaxVer = 2
  MaxSlot = 4
  MaxSavepoint = 0
  MaxSub = 0
SYMMETRY Connections
INVARIANT PagerState
PROPERTY Atomic
CHECK_DEADLOCK FALSE
