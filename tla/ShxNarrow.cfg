\* size_t of 32 bits: the three numbers are in the relation of 715827874,
\* 2^32 and 2^31 - 1.
SPECIFICATION Spec
CONSTANTS
  LongMax = 511
  ShortReads = {0, 3}
  Indexes <- PlainIndex
  Noise <- NoiseEntries
  LargestNumber = 170
  SizeModulus = 1024
  CallSites = {"caller"}
  RecordNumbers = {0, 1, 2, 128, 170, 171}
  MaxFaults = 0
INVARIANTS
  SeekFindsNumber
