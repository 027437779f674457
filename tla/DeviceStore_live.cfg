\* debug prints compiled out, so that a failed statement goes on; no symmetry, since liveness is checked
CONSTANTS
  Client = {c1, c2}
  Dev = {a}
  Name <- Distinct
  Mixed = Mixed
  Empty = Empty
  Zero = Zero
  NoRow = NoRow
  Readings <- MCReadings
  TickBits = 1
  Tick = {0}
  RetryMax = 2
  ENABLE_DBG = FALSE
SPECIFICATION FairSpec
INVARIANTS
  AckedOnlineReady
  AckedPublishFound
PROPERTIES
  HandlerEnds
