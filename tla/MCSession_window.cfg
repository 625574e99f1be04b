SPECIFICATION SessionSpec
CONSTANTS
  BlkMax = 1
  SplitSize = 9
  VolMarkSize = 1
  Overwrite = FALSE
  FilesAt = {}
  SpecialAt = {}
  ArchType = "filesystems"
  Listing <- SmallListing
  Trees <- SmallTree
  smallfilethresh = 2
  datablocksize = 2
  CompThreads = {c1}
  MultiItems = 2
  MultiSize = 2
  HeadSize = 1
  BlockSize = 2
  Faults = {}
  Jobs <- RestFS
  DecompThreads = {d1}
  MaxDamage = 1
  RestoreFaults = {"damage"}
INVARIANTS SuccessfulBack
CHECK_DEADLOCK FALSE
