\* two sessions compose CREATE TABLE in the one static buffer
CONSTANTS
  Client = {c1, c2}
  Dev = {a, b}
  Name <- Distinct
  Mixed = Mixed
  Empty = Empty
  Zero = Zero
  NoRow = NoRow
  Readings <- MCReadings
  TickBits = 1
  Tick = {0}
  RetryMax = 1
  ENABLE_DBG = TRUE
SPECIFICATION Spec
INVARIANTS
  AckedOnlineReady
