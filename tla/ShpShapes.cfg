SPECIFICATION Spec
CONSTANTS
  CountLimit = 128
  SizeModulus = 8192
  IntLimit = 64
  Entries <- SomeEntries
  MaxLen = 100
  MaxParts = 3
  MaxPoints = 8
  Reach = 5
  Grid <- EvenGrid
  MaxRing = 4
INVARIANTS
  AcceptedTiles
  NarrowTiles
  ReadsInside
  PartsTile
  InsideIsEvenOdd
\* Growth ends at the bounds.
CHECK_DEADLOCK FALSE
