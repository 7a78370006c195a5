SPECIFICATION Spec
CONSTANTS
  t1 = t1
  None = None
  Threads <- MCThreads
  Filters <- MCFilters
  Levels <- MCLevels
  Configs <- MCConfigs
  MaxReloads = 2
CHECK_DEADLOCK FALSE
INVARIANTS HighestIsSound LookupIsNearest LoggersUseRegisteredChannels
PROPERTY LevelsAtWriteDecide
