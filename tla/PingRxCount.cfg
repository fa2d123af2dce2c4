\* Three requests with replies duplicated and one stray echo packet.
\* Expected: RxCountsReplies violated (num_reply counts every echo).
SPECIFICATION Spec
CONSTANTS
  PSizes <- UsualSizes
  Count = 3
  MaxReplies = 2
  MaxStray = 1
  HioMaxSize = 128
  Entries = {"cli", "main"}
  SetupMayFail = TRUE
INVARIANT RxCountsReplies
\* ping() returns and the program exits: the end state is final.
CHECK_DEADLOCK FALSE
