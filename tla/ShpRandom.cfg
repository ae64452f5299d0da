SPECIFICATION Spec
CONSTANTS
  LongMax = 4000
  ShortReads = {0, 3}
  CountLimit = 64
  SizeModulus = 4096
  Files <- RandomFiles
  Garbage <- GarbageRecords
  MinBufSize = 170
  SizeofRecord = 144
  CallSites = {"caller", "header_cb", "record_cb"}
  SeekOffsets <- Offsets
  MaxHeld = 1
  MaxFaults = 1
  MaxBytes = 110
INVARIANTS
  BlocksAccounted
  DeliveredRecordFits
  FailureExplained
PROPERTIES
  ErrorIsSticky
