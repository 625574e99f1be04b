SPECIFICATION Spec
CONSTANTS
  BlkMax = 1
  SplitSize = 0
  VolMarkSize = 1
  Overwrite = FALSE
  FilesAt = {}
  SpecialAt = {}
  ArchType = "filesystems"
  Trees <- OneTree
  CompThreads = {t1, t2}
  MultiItems = 1
  MultiSize = 2
  HeadSize = 1
  BlockSize = 2
  Faults = {"thread", "mount", "source", "compress", "write", "signal"}
SYMMETRY CompSymmetry
INVARIANTS TypeOK QueueSound WorkOwned StoredBlocksPacked ArchiveReadable EndsClean SuccessSavesAll
PROPERTIES WholeOrNone
CHECK_DEADLOCK FALSE
