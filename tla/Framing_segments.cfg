\* intact frames and stray bytes, cut anywhere
CONSTANTS
  PROC_CONTENT_LEN = 3
  HEAD_1 <- H1
  HEAD_2 <- H2
  Known <- Script
  Message <- Messages
  Junk <- Strays
  ChunkMax = 9
  WireMax = 7
  ExpectedMax = 2
SPECIFICATION FairSpec
INVARIANTS
  TypeOK
  ContentInBounds
  DispatchedAsSent
  EmptyFrameInert
  NoneMissed
PROPERTIES
  MessageDispatched
