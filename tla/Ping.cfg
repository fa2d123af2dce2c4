\* Three requests (the default --count), payloads of 0, 1, 32 and 100 bytes (100 only through the CLI, too large for the frame),
\* replies lost, duplicated and reordered, one stray echo or ICMP error.
SPECIFICATION Spec
CONSTANTS
  PSizes <- UsualSizes
  Count = 3
  MaxReplies = 2
  MaxStray = 1
  HioMaxSize = 128
  Entries = {"cli", "main"}
  SetupMayFail = TRUE
INVARIANT TypeOK
PROPERTY PingEnds
\* ping() returns and the program exits: the end state is final.
CHECK_DEADLOCK FALSE
