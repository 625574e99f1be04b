SPECIFICATION Spec
CONSTANTS
  BlkMax = 1
  ArchType = "filesystems"
  Trees <- TwoTrees
  Jobs <- AnyJob
  Archives <- SplitArchive
  Excluded <- SmallExcluded
  DecompThreads = {t1, t2}
  MaxDamage = 1
  Faults = {"thread", "reject", "read", "damage", "uncompress", "missing", "decomp", "target", "write", "signal"}
SYMMETRY DecompSymmetry
INVARIANTS TypeOK QueueSound WorkOwned SuccessRestoresAll CountsHonest OthersUntouched EndsClean DamageStaysLocal
CHECK_DEADLOCK FALSE
