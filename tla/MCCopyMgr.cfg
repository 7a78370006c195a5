SPECIFICATION Spec
CONSTANTS
  band = band
  fork = fork
  run = run
  SCs <- MCSCs
  Binary <- MCBinary
  Steps <- MCSteps
  Scripts = "scripts"
  Names <- MCNames
  Fits <- MCFits
  Trees <- MCTrees
  KeepsTime = TRUE
  MaxBuilds = 2
INVARIANTS DoneMeansCopied EachFileInItsPlace
