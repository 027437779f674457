\* a ring of four bytes, indices that pass it twice before they wrap
CONSTANTS
  PROC_BUF_LEN = 4
  PROC_SOCKET_BUF_LEN = 3
  IndexRange = 8
  Byte = {0, 1}
SPECIFICATION Spec
INVARIANTS
  TypeOK
  DrainedBeforeRecv
PROPERTIES
  ImplementsQueue
