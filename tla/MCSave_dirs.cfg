SPECIFICATION Spec
CONSTANTS
  BlkMax = 1
  SplitSize = 0
  VolMarkSize = 1
  Overwrite = FALSE
  FilesAt = {}
  SpecialAt = {}
  ArchType = "directories"
  Trees <- SmallTree
  CompThreads = {t1, t2}
  MultiItems = 2
  MultiSize = 2
  HeadSize = 1
  BlockSize = 2
  Faults = {"source"}
INVARIANTS DirSuccessSavesAll

