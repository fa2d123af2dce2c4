\* boot.py with its defaults for --reset and --flash and an image that has
\* a virtual-memory segment: the flash helper runs, and no reset stops it.
SPECIFICATION Spec
CONSTANTS
  Layouts <- VmLayouts
  Seqs <- DefaultSeq
  EntryAddr = 10
  ArgsAddr = 8
  ArgsLen = 1
  Bank3Lo = 14
  Bank3Hi = 16
  RamLo = 8
  RamHi = 24
  VirtLo = 32
  DefaultSpeed = 1
  Options <- NoResetOptions
INVARIANT StreamReachesRom
CHECK_DEADLOCK FALSE
