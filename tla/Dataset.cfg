SPECIFICATION DSpec
CONSTANTS
  LongMax = 4000
  ShortReads = {0}
  CountLimit = 64
  SizeModulus = 4096
  Files <- ShapeFiles
  Garbage <- GarbageRecords
  MinBufSize = 170
  SizeofRecord = 144
  CallSites = {"caller", "header_cb", "record_cb"}
  SeekOffsets = {}
  MaxHeld = 1
  MaxFaults = 1
  MaxBytes = 140
  Indexes <- IndexFiles
  Noise <- NoiseEntries
  LargestNumber = 5
  RecordNumbers = {0, 1}
PROPERTIES
  LookupAnswers
