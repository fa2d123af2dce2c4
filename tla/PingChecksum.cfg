\* --size 64 --count 458: the last request (seq 457) needs a second carry
\* fold. Expected: SentChecksumsValid violated.
SPECIFICATION Spec
CONSTANTS
  PSizes <- FoldSize
  Count = 458
  MaxReplies = 0
  MaxStray = 0
  HioMaxSize = 128
  Entries = {"cli"}
  SetupMayFail = FALSE
INVARIANT SentChecksumsValid
CHECK_DEADLOCK FALSE
