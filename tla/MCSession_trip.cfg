SPECIFICATION SessionSpec
CONSTANTS
  BlkMax = 1
  SplitSize = 9
  VolMarkSize = 1
  Overwrite = FALSE
  FilesAt = {}
  SpecialAt = {}
  ArchType = "filesystems"
  Listing <- OneListing
  Trees <- OneTree
  smallfilethresh = 2
  datablocksize = 2
  CompThreads = {c1}
  MultiItems = 2
  MultiSize = 2
  HeadSize = 1
  BlockSize = 2
  Faults = {"source", "write"}
  Jobs <- AnyJob
  DecompThreads = {d1}
  MaxDamage = 1
  RestoreFaults = {"damage", "uncompress", "signal"}
INVARIANTS ArchiveRestorable ArchiveUnbroken RoundTrip SuccessComesBack EverythingComesBack StopFlagCleared SpoiltSaveFails DamageCostsItsFiles
CHECK_DEADLOCK FALSE
