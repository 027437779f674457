\* a damaged frame and an intact one in one recv
CONSTANTS
  PROC_CONTENT_LEN = 3
  HEAD_1 <- H1
  HEAD_2 <- H2
  Known <- Script
  Message <- Messages
  Junk <- Damaged
  ChunkMax = 9
  WireMax = 7
  ExpectedMax = 4
SPECIFICATION Spec
INVARIANTS
  NoneMissed
