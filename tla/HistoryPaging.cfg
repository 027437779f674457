\* the sizes of the program, any number of records
CONSTANTS
  PROC_CONTENT_LEN = 512
  RecordSize = 24
  MAX_RECORD_CNT = 744
  FoundCnt <- AnyCount
SPECIFICATION Spec
INVARIANTS
  TypeOK
  ReadsInBounds
  FrameFits
  HeapBalanced
  LastFrameFlagged
  OtherSizesComplete
PROPERTIES
  PackagesInOrder
