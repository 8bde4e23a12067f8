SPECIFICATION Spec
CONSTANTS
  Dims = 2
  MaxCells = 6
  FloatBits = 4
  DoubleBits = 10
  Subnormal = 4
  Largest = 240
  Size = 34
  Scripts <- TwoScripts
  Boxes <- SomeBoxes
  Queries <- SomeQueries
  Windows <- SomeWindows
  Rowids = {5, 40}
  MaxOps = 1
INVARIANT Shape
INVARIANT Mappings
INVARIANT BoundingBoxes
INVARIANT QueryExact
INVARIANT WindowExact
CHECK_DEADLOCK FALSE
