SPECIFICATION FairSpec
CONSTANTS
  BlkMax = 1
  ArchType = "directories"
  Trees <- OneTree
  Jobs <- DirJobs
  Archives <- SplitArchive
  Excluded <- LastExcluded
  DecompThreads = {t1, t2}
  MaxDamage = 2
  Faults = {"damage", "uncompress", "signal"}
INVARIANTS CountsHonest DamageStaysLocal
PROPERTIES Terminates 
CHECK_DEADLOCK FALSE
