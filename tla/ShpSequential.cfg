SPECIFICATION FairSpec
CONSTANTS
  LongMax = 4000
  ShortReads = {0, 3}
  CountLimit = 64
  SizeModulus = 4096
  Files <- SequentialFiles
  Garbage <- GarbageRecords
  MinBufSize = 170
  SizeofRecord = 144
  CallSites = {"caller", "header_cb", "record_cb"}
  SeekOffsets = {}
  MaxHeld = 1
  MaxFaults = 2
  MaxBytes = 0
INVARIANTS
  TypeOK
  BlocksAccounted
  FailureExplained
PROPERTIES
  BufferHoldsRecord
  OffsetIsPosition
  ReadsAsCursor
  ReadReturns
