\* one byte per recv; damaged frames, and a control byte that no handler is registered for
CONSTANTS
  PROC_CONTENT_LEN = 3
  HEAD_1 <- H1
  HEAD_2 <- H2
  Known <- Script
  Message <- WithUnknown
  Junk <- StraysAndDamaged
  ChunkMax = 1
  WireMax = 7
  ExpectedMax = 3
SPECIFICATION Spec
INVARIANTS
  DispatchedAsSent
\* the process may crash
CHECK_DEADLOCK FALSE
