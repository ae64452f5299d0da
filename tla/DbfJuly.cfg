SPECIFICATION Spec
CONSTANTS
  IntMax = 32767
  SizeModulus = 16777216
  Anchors <- RecentDays
  MaxDays = 400
INVARIANTS
  AcceptsEveryDate
CHECK_DEADLOCK FALSE
