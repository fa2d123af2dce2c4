\* talaria_cli ping -s 100 with the default hiomaxsize of 128: the CLI
\* admits the size, and the sock.sendto frame (144 bytes) is too long.
\* Expected: CliSizeCheckSuffices violated.
SPECIFICATION Spec
CONSTANTS
  PSizes = {100}
  Count = 3
  MaxReplies = 1
  MaxStray = 0
  HioMaxSize = 128
  Entries = {"cli"}
  SetupMayFail = FALSE
INVARIANT CliSizeCheckSuffices
CHECK_DEADLOCK FALSE
