SPECIFICATION ValuesSpec
CONSTANTS
  Base = 256
  WORDS_BIGENDIAN = FALSE
  IntMax = 32767
  SizeModulus = 16777216
  BufferSize = 3
  LongMax = 9
  LongLongMax = 99
  DoubleMax = 16
  LongDoubleMax = 64
  Places = 1
  Pieces <- SomePieces
  MaxPieces = 4
  Radix = 6
  Digits = {0, 2, 5}
  Anchors <- KnownDays
  MaxDays = 1600
INVARIANTS
  NullHasNoValue
  NumbersAgree
  NumberReadsBack
  StringReadsBack
  ReadsBack
  BinaryFields
  JulianDateIsSameDay
  WeekAndYearDay
  AcceptsDates
  TimeIsNear
\* Writing and counting end at their bounds.
CHECK_DEADLOCK FALSE
