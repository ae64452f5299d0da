SPECIFICATION FairSpec
CONSTANTS
  LongMax = 2000
  ShortReads = {0, 3}
  Indexes <- IndexFiles
  Noise <- NoiseEntries
  LargestNumber = 5
  SizeModulus = 4096
  CallSites = {"caller", "header_cb", "record_cb"}
  RecordNumbers = {0, 1, 2, 5, 6}
  MaxFaults = 2
INVARIANTS
  TypeOK
  SeekFindsNumber
PROPERTIES
  AnswersAsTable
  ReadReturns
