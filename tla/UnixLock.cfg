SPECIFICATION LiveSpec
CONSTANTS
  a1 = a1
  b1 = b1
  b2 = b2
  p = p
  q = q
  File = {a1, b1, b2}
  Process = {p, q}
  Home <- OneAndTwo
  Patient = {a1, b1}
  Mortal = {p}
INVARIANT TypeOK
INVARIANT LocksHeld
INVARIANT DeferredClose
INVARIANT ReservedSeen
PROPERTY ImplementsFileLock
PROPERTY PendingWins
