SPECIFICATION TestSpec
CONSTANTS
  p1 = p1
  p2 = p2
  PRs <- MCPRs
  Master = "master"
  Initial <- MCInitial
  PipeSize = 1
  MaxErrors = 2
  MaxTests = 3
INVARIANTS EachPRInItsBranch OwnBranchesAreUntouched
PROPERTY TestEnds
CHECK_DEADLOCK FALSE
