SPECIFICATION FairSpec
CONSTANTS
  BlkMax = 0
  SplitSize = 6
  VolMarkSize = 1
  Overwrite = FALSE
  FilesAt = {2}
  SpecialAt = {}
  ArchType = "directories"
  Trees <- TwoTrees
  CompThreads = {t1, t2}
  MultiItems = 2
  MultiSize = 2
  HeadSize = 1
  BlockSize = 2
  Faults = {"thread", "mount", "source", "write", "signal"}
INVARIANTS VolumesSound
PROPERTIES Terminates StreamImplemented
