SPECIFICATION FairSpec
CONSTANTS
  BlkMax = 1
  SplitSize = 0
  VolMarkSize = 1
  Overwrite = FALSE
  FilesAt = {}
  SpecialAt = {}
  ArchType = "filesystems"
  Trees <- SmallTree
  CompThreads = {t1, t2}
  MultiItems = 2
  MultiSize = 2
  HeadSize = 1
  BlockSize = 2
  Faults = {"compress"}
PROPERTIES EndOfQueueEndsThreads
CHECK_DEADLOCK FALSE
