\* numbers of records that are a multiple of a package, too
CONSTANTS
  PROC_CONTENT_LEN = 512
  RecordSize = 24
  MAX_RECORD_CNT = 744
  FoundCnt <- AnyCount
SPECIFICATION Spec
INVARIANTS
  LastPackageCompletes
