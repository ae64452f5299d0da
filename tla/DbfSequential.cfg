SPECIFICATION FairSpec
CONSTANTS
  LongMax = 70000
  ShortReads = {0, 1, 20}
  HeapBytes = {1, 67}
  SizeModulus = 1000000
  Tables <- SequentialTables
  CallSites = {"caller", "header_cb", "record_cb"}
  RecordNumbers = {}
  MaxHeld = 1
  MaxFaults = 2
  MaxBytes = 0
INVARIANTS
  TypeOK
  BlocksAccounted
  FieldsFillRecord
  FailureExplained
PROPERTIES
  OffsetIsPosition
  ShortTableIsError
  ReadReturns
