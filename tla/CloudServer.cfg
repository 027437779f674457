\* a device that reconnects: as many connections as slots; one more could only wait
CONSTANTS
  SOCKET_MAX_NUM = 2
  Fd = {f1, f2}
  Thread = {t1, t2}
  CreateMayFail = TRUE
  Dev = {a}
  Conn = {c1, c2}
  ReportMax = 2
SPECIFICATION ServerSpec
SYMMETRY Symmetry
INVARIANTS
  ServerTypeOK
  AnswersToAsker
  AckedReportsKept
