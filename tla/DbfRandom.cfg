SPECIFICATION Spec
CONSTANTS
  LongMax = 4000
  ShortReads = {0, 1}
  HeapBytes = {1}
  SizeModulus = 4096
  Tables <- RandomTables
  CallSites = {"caller", "header_cb", "record_cb"}
  RecordNumbers = {0, 2, 3, 2000}
  MaxHeld = 1
  MaxFaults = 1
  MaxBytes = 74
PROPERTIES
  ErrorIsNotTheEnd
  AnswersAsTable
