SPECIFICATION Spec
CONSTANTS
  main = main
  side = side
  list = list
  core = core
  tree = tree
  Files <- MCFiles
  Own <- MCOwn
  Beginnings <- MCBeginnings
  Dirs <- MCDirs
  Under <- MCUnder
  CoreDirs = {core}
  CoreUnder <- MCCoreUnder
  Sources <- MCSources
PROPERTIES IncludesStay RewritingSettles RewritesOnlyTheChosen
