SPECIFICATION Spec
CONSTANTS
  LongMax = 4000
  ShortReads = {0, 3}
  CountLimit = 64
  SizeModulus = 4096
  Files <- SequentialFiles
  Garbage <- GarbageRecords
  MinBufSize = 170
  SizeofRecord = 144
  CallSites = {"caller"}
  SeekOffsets = {}
  MaxHeld = 1
  MaxFaults = 0
  MaxBytes = 0
PROPERTIES
  PartialRecordHeaderIsError
