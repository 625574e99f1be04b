SPECIFICATION SessionSpec
CONSTANTS
  BlkMax = 1
  SplitSize = 9
  VolMarkSize = 1
  Overwrite = FALSE
  FilesAt = {}
  SpecialAt = {}
  ArchType = "directories"
  Listing <- MountListing
  Trees <- MountTree
  smallfilethresh = 2
  datablocksize = 2
  CompThreads = {c1}
  MultiItems = 2
  MultiSize = 2
  HeadSize = 1
  BlockSize = 2
  Faults = {}
  Jobs <- RestDir
  DecompThreads = {d1}
  MaxDamage = 0
  RestoreFaults = {}
INVARIANTS LinksFaithful
CHECK_DEADLOCK FALSE
