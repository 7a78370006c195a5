SPECIFICATION StoreSpec
CONSTANTS
  t1 = t1
  t2 = t2
  a = a
  b = b
  log = log
  NoFile = NoFile
  Junk = Junk
  Broken = Broken
  Nobody = Nobody
  Loaders <- MCLoaders
  Names <- MCNames
  LogNames <- MCLogNames
  Files <- MCFiles
  MaxLoads = 3
SYMMETRY Symmetry
INVARIANTS OptionsAreWhatFilesSay
