SPECIFICATION Spec
CONSTANTS
  Layouts <- SmallLayouts
  Seqs <- UsualSeqs
  EntryAddr = 10
  ArgsAddr = 8
  ArgsLen = 1
  Bank3Lo = 14
  Bank3Hi = 16
  RamLo = 8
  RamHi = 24
  VirtLo = 32
  DefaultSpeed = 1
  Options <- UsualOptions
INVARIANT TypeOK RangesNormalised BootImageComplete StreamReachesRom
CHECK_DEADLOCK FALSE
