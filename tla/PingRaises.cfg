\* The default --count 3 and --size 32, replies lost. Expected: PingReturns
\* violated, ping() raising while it prints the statistics.
SPECIFICATION Spec
CONSTANTS
  PSizes = {32}
  Count = 3
  MaxReplies = 1
  MaxStray = 0
  HioMaxSize = 128
  Entries = {"cli"}
  SetupMayFail = FALSE
PROPERTY PingReturns
CHECK_DEADLOCK FALSE
