\* the sizes of the program, an orderly phone that asks ahead
CONSTANTS
  PROC_CONTENT_LEN = 512
  RecordSize = 24
  MAX_RECORD_CNT = 744
  FoundCnt <- SomeCounts
  Orderly = TRUE
  Window = 2
  QueryMax = 2
SPECIFICATION SessionSpec
INVARIANTS
  SessionTypeOK
  HistoryArrivesWhole
  NothingLeftBehind
PROPERTIES
  PackagesArriveInOrder
  AskedIsAnswered
\* a session ends
CHECK_DEADLOCK FALSE
