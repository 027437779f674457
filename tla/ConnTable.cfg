\* two slots, one descriptor and one thread more than slots; no symmetry, since
\* liveness is checked
CONSTANTS
  SOCKET_MAX_NUM = 2
  Fd = {f1, f2, f3}
  Thread = {t1, t2, t3}
  CreateMayFail = TRUE
SPECIFICATION FairSpec
INVARIANTS
  TypeOK
  SlotExclusive
  NoSharedDescriptor
  NoDescriptorLost
  SocketUsedExact
  ClientInfoKept
PROPERTIES
  ImplementsPool
  FreeSlotOffered
\* the process may abort
CHECK_DEADLOCK FALSE
